CONSTANTS
    NULL = NULL
    Requests = {r1, r2, r3}
    Bodies = {x, y}
SYMMETRY Symmetry
SPECIFICATION Spec
INVARIANTS
    OneAnswer
    LateIsSafe
CHECK_DEADLOCK FALSE
