SPECIFICATION RunsWatchSpec
CONSTANTS
  Programs <- MCPrograms
  None = "none"
  End = "END"
  MaxQuiet = 6
  MaxItems = 2
  N = 3
  Iterations = 1
  Parallel = 1
  Repeats = 2
  Bail = FALSE
  Folders = {r1, r2}
  Files = {f1, f2}
  MaxEdits = 2
  MaxSaves = 1
  MaxOpens = 2
  ReloadFails = TRUE
INVARIANTS SendLimitIsKept LoopsAreLeft PassSendBound CompletedRunReportsAll
INVARIANTS QuietMeansLoaded AnnouncementsAreTrue
PROPERTIES NothingIsSentAfterStop FlowRunsEnd RequestRunsEnd ChangesArePickedUp
CHECK_DEADLOCK FALSE
