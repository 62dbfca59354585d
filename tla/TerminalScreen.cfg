CONSTANTS
  ScrollbackLimit = 3
  Wide = {"W"}
  Zero = {"z"}
  TabInterval = 2
  NoChar = NoChar
  Chars = {"a", "W", "z"}
  Counts = {1, 2}
  MaxSteps = 3
  Sizes <- MCSizes
  ColumnsOf <- MCColumnsOf
  Painted <- MCPainted
SPECIFICATION Spec
INVARIANTS
  ScreenFits
PROPERTIES
  DamageCoversChange
  PrimaryComesBack
  HistoryAppendOnly
  GlyphsStayWhole
  ResizeKeepsText
CHECK_DEADLOCK FALSE
