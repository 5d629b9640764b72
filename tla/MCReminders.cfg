CONSTANTS
    NULL = NULL
    b1 = b1
    b2 = b2
    c1 = c1
    c2 = c2
    Bookings = {b1, b2}
    Clients = {c1, c2}
    Devices = {d1, d2}
    Owner <- OwnerOf
SYMMETRY Symmetry
SPECIFICATION Spec
INVARIANTS
    FeedIsWhole
    AtMostOnce
    RowTellsTruth
    LookupStrandsNothing
