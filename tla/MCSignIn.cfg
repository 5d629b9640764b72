CONSTANTS
    NULL = NULL
    Clients = {p1}
    Admins = {a1, a2}
    Founders = {a1}
    Codes = {c1, c2}
    Tokens = {t1, t2, t3}
    Requests = {r1, r2}
    Casts <- ClientOrStaff
    MaxAttempts = 3
    MaxResets = 1
SYMMETRY Symmetry
SPECIFICATION Spec
INVARIANTS
    TypeOK
    CodeHoldsOut
    OneLinkLives
    EndedStaysEnded
    OwnerRemains
PROPERTIES
    NoTokenForBlocked
CHECK_DEADLOCK FALSE
