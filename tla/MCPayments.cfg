CONSTANTS
    DayLength = 1
    WeekDays = 1
    GraceLength = 0
    NULL = NULL
    Bookings = {b1, b2}
    Cells = {1}
    Serviced = {1}
    Postamats = {p1, p2}
    PaymentIds = {m1, m2}
    Hours <- OnlyAlwaysOpen
    Durations = {1}
    HoldLength = 1
    HoldExtensionsMax = 0
    ReminderBefore = 0
    RemovalAfter = 0
    DisposalWait = 0
    LastStart = 1
    Horizon = 1
SYMMETRY Symmetry
SPECIFICATION PaymentsSpec
INVARIANTS
    FiguresAreTrue
    OneUncancelledPayment
    PaidByOnePayment
    MoneyAccountedFor
    CellExclusive
    MaintenanceIsEmpty
PROPERTIES
    SettledOnce
    BookingSpec
    LeaseSpec
