CONSTANTS
    DayLength = 4
    WeekDays = 3
    GraceLength = 1
    NULL = NULL
    Lengths = {0, 1, 2, 5}
    LastInstant = 14
SPECIFICATION DeadlinesSpec
INVARIANTS
    ExpiryIsFirstReachable
    DeadlinesKeepOrder
CHECK_DEADLOCK FALSE
