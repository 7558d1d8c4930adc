SPECIFICATION EnginesSpec
CONSTANTS
    Calls = {c1, c2}
    Deciders = {d1}
    MaxHeld = 1
    MaxHolds = 2
    t1 = t1
    t2 = t2
    Tests = {t1, t2}
    Workers = 3
    Suites <- MCSuites
    MaxSends = 3
    MaxTicks = 4
    N = 2
    Iterations = 2
    Parallel = 2
    Repeats = 0
    Bail = TRUE
INVARIANTS TableIsTheWaitingCalls ShownAreHeld VerdictIsTheCallsOwn
INVARIANTS LimitIsKept OneTestAtATime ReportIsComplete RateIsKept
INVARIANTS IterationsDoNotOverlap UnitsHaveOneWorker
PROPERTIES ImplementsBreakpoint TestsEnd
CHECK_DEADLOCK FALSE
