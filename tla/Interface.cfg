SPECIFICATION InterfaceSpec
CONSTANTS
  Paths = {"app", "dir"}
  Home = "app"
  Rids = {"r1", "r2", "r3"}
  Collection <- MCCollection
  Texts = {"blank", "v1", "v2", "v3"}
  Signed = {"v1", "v2"}
  Core <- MCCore
  Plain <- MCPlain
  Untrusted = {"dir"}
  Blank = "blank"
  None = "none"
  MaxTabs = 2
  MaxClosed = 2
  MaxSessions = 1
  Budgets <- MCBudgets
  SocketTabs = {"t1","t2"}
  Platforms = {"desktop", "browser"}
  LogLimit = 3
  MaxDials = 3
  SocketBudgets <- MCSocketBudgets
  CaptureLimit = 1
  CaptureBudgets <- MCCaptureBudgets
  Slots = {1, 2}
  Spaces = {"a", "b"}
  Definitions <- MCDefinitions
  Chosen <- MCChosen
  Retention = 2
  MonitorBudgets <- MCMonitorBudgets
  RunPlans <- MCRunPlans
  RunTexts <- MCRunTexts
  MaxFlowSteps = 1
  Windows = {"w1", "w2"}
  Fields = {"requests", "folders"}
  KeptSnapshots = 2
  StoreStarts <- MCStoreStarts
INVARIANTS TabsAreSound StoreMatchesDisk
INVARIANTS LinksAreAccountedFor TrafficInOrder
INVARIANTS WindowShowsTheCapture EditsAreSaved
INVARIANTS EveryMonitorIsDue ChoiceStands HistoryIsTold
INVARIANTS RowsAreWithdrawn RunsAreTold
INVARIANTS StoredIsWhatWasSaved ReplacedIsKept
PROPERTIES ResponsesAreOwn DraftsAreKept SentWithItsRow
CHECK_DEADLOCK FALSE
