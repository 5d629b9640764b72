CONSTANTS
    NULL = NULL
    Requests = {r1, r2, r3}
    Bodies = {x, y}
SYMMETRY Symmetry
SPECIFICATION Spec
INVARIANT OneEffect
CHECK_DEADLOCK FALSE
