SPECIFICATION FlSpec
CONSTANTS
  Programs <- MCQuiet
  None = "none"
  End = "END"
  MaxQuiet = 6
  MaxItems = 2
PROPERTIES QuietLoopsStop
CHECK_DEADLOCK FALSE
