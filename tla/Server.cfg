CONSTANTS
  Servers = {d1, d2}
  Names = {"a", "b"}
  Titles = {"vim"}
  Untitled = ""
  Sizes = {"100x40"}
  DefaultSize = "80x24"
  Saved <- MCSaved
  Crashed = {"a"}
  NoFile = NoFile
  Stale = Stale
  MaxStarts = 2
  MaxChanges = 2
  MaxKilled = 1
  MaxPaneId = 3
SPECIFICATION Spec
INVARIANTS
  Reachable
  CleanMeansSaved
  SnapshotSound
  OwnTerminal
SYMMETRY Symmetry
CHECK_DEADLOCK FALSE
