CONSTANTS
    NULL = NULL
    Postamats = {p1, p2}
    Sizes = {s1, s2}
    Durations = {12, 24}
    Cells = {d1, d2}
    Numbers = {1, 2}
    Addresses = {1, 2}
    Capacity = 2
    Keys = {k1}
    Bookings = {b1}
    Requests = {r1}
    Shifts <- OneKind
    MaxEdits = 2
SYMMETRY Symmetry
SPECIFICATION Spec
INVARIANTS
    TypeOK
    AddressesDistinct
    OfferIsHonest
    NoRowWithoutFile
CHECK_DEADLOCK FALSE
