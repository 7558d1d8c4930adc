SPECIFICATION FlSpec
CONSTANTS
  Programs <- MCGiving
  None = "none"
  End = "END"
  MaxQuiet = 6
  MaxItems = 2
INVARIANTS GivenForThatFlowOnly
CHECK_DEADLOCK FALSE
