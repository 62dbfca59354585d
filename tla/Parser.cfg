CONSTANTS
  MaxParams = 2
  Base = 2
  MaxValue = 2
  MaxCurrent = 4
  MaxIntermediates = 1
  MaxOscData = 1
  MaxRun = 2
  MaxSequence = 3
  MaxString = 3
  TextBytes = {"A"}
SPECIFICATION Spec
INVARIANTS
  SequenceAsWritten
  CancelRecovers
PROPERTIES
  RefinesByteStream
CHECK_DEADLOCK FALSE
