SPECIFICATION Spec
CONSTANTS
  MaxPaneId = 2
  MaxTabs = 2
  MaxProcs = 3
  SpawnMayFail = FALSE
  NoProc = NoProc
INVARIANT OwnProcess
CHECK_DEADLOCK FALSE
