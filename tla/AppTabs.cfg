SPECIFICATION FairSpec
CONSTANTS
  MaxPaneId = 3
  MaxTabs = 2
  MaxProcs = 3
  SpawnMayFail = TRUE
  NoProc = NoProc
INVARIANTS
  NoStrayProcess
  OwnProcessInOneTab
PROPERTIES
  EndsWithLastChild
  QuitsOnlyWhenAllDead
  DeadPanesLeave
CHECK_DEADLOCK FALSE
