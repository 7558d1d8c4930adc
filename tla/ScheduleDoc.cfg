SPECIFICATION ScheduleSpec
CONSTANTS
    N = 2
    Iterations = 1
    Parallel = 1
    Repeats = 1
    Bail = FALSE
INVARIANT DocumentedSendBound
CHECK_DEADLOCK FALSE
