SPECIFICATION RunnerSpec
CONSTANTS
  RunPlans <- MCRunPlans
  RunTexts <- MCRunTexts
  MaxFlowSteps = 1
CHECK_DEADLOCK FALSE
INVARIANT ScriptValuesAreKept
