SPECIFICATION Spec
CONSTANTS
    Calls = {c1}
    Deciders = {d1, d2}
    MaxHeld = 1
    MaxHolds = 2
INVARIANT AcceptedDecisionIsApplied
CHECK_DEADLOCK FALSE
