SPECIFICATION FairSpec
CONSTANTS
  Clients = {c1, c2}
  Kinds = {"Attach", "Kill", "Keys", "Capture", "Other"}
  MaxChunks = 2
  PtyCap = 2
  BufCap = 1
  ShellEchoes = FALSE
INVARIANTS
  MissesOnlyCaptured
PROPERTIES
  EveryoneServed
CHECK_DEADLOCK FALSE
