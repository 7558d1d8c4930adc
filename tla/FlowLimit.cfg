SPECIFICATION FlSpec
CONSTANTS
  Programs <- MCPrograms
  None = "none"
  End = "END"
  MaxQuiet = 6
  MaxItems = 2
INVARIANTS LimitOfTheRun
CHECK_DEADLOCK FALSE
