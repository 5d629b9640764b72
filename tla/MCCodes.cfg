CONSTANTS
    NULL = NULL
    s = s
    Bookings = {b1}
    Phones = {s, x}
    x = x
    Sender = s
    Recipients = {x}
    Couriers = {x}
    Requests = {r1, r2}
    MaxCodes = 4
    MaxTrouble = 1
SYMMETRY Symmetry
SPECIFICATION Spec
INVARIANTS
    OnlyTheConcernedKnow
    MessageIsTrue
CHECK_DEADLOCK FALSE
