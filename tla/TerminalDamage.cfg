CONSTANTS
  ScrollbackLimit = 3
  Wide = {"W"}
  Zero = {"z"}
  TabInterval = 2
  NoChar = NoChar
  Chars = {"a", "W", "z"}
  Counts = {1, 2}
  MaxSteps = 1
  Sizes <- MCSizes
  ColumnsOf <- MCColumnsOf
  Painted <- MCPainted
SPECIFICATION Spec
PROPERTIES
  EveryChangeDamaged
CHECK_DEADLOCK FALSE
