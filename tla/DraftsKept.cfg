SPECIFICATION WbSpec
CONSTANTS
  Paths = {"app", "dir"}
  Home = "app"
  Rids = {"r1", "r2", "r3"}
  Collection <- MCCollection
  Texts = {"blank", "v1", "v2", "v3"}
  Signed = {"v1", "v2"}
  Core <- MCCore
  Plain <- MCPlain
  Untrusted = {"dir"}
  Blank = "blank"
  None = "none"
  MaxTabs = 2
  MaxClosed = 2
  MaxSessions = 1
  Budgets <- MCBudgets
PROPERTY UnsavedEditsAreKept
CHECK_DEADLOCK FALSE
