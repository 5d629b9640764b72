CONSTANTS
    DayLength = 1
    WeekDays = 1
    GraceLength = 0
    NULL = NULL
    Bookings = {b1, b2}
    Cells = {1}
    Serviced = {}
    Postamats = {p1}
    PaymentIds = {m1, m2}
    Hours <- OnlyAlwaysOpen
    Durations = {1}
    HoldLength = 1
    HoldExtensionsMax = 1
    ReminderBefore = 0
    RemovalAfter = 0
    DisposalWait = 0
    LastStart = 1
    Horizon = 1
SYMMETRY Symmetry
SPECIFICATION PaymentsSpec
INVARIANTS
    MoneyNeverDisappears
