SPECIFICATION MCSpec
CONSTANTS
    Calls = {c1, c2}
    MaxServers = 2
    MaxHeld = 1
    Plans <- MCPlans
INVARIANTS RecordTellsWhatHappened OneListener
PROPERTY StopEndsEverything
CHECK_DEADLOCK FALSE
