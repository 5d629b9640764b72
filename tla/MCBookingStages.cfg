CONSTANTS
    DayLength = 2
    WeekDays = 1
    GraceLength = 1
    NULL = NULL
    Bookings = {b1}
    Cells = {1}
    Serviced = {1}
    Postamats = {p1}
    Hours <- AllHours
    Durations = {1, 2}
    HoldLength = 1
    HoldExtensionsMax = 1
    ReminderBefore = 1
    RemovalAfter = 1
    DisposalWait = 1
    LastStart = 2
    Horizon = 12
SPECIFICATION FairSpec
INVARIANTS
    TypeOK
    ParcelTraceable
    CustodyMatchesBooking
    FullWait
    StepsInOrder
PROPERTIES
    HoldEnds
    ParcelEscalates
