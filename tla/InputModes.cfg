SPECIFICATION Spec
CONSTANTS
  None = None
  Sizes <- MCSizes
  Text <- MCText
  ScrollbackLimit = 3
  MaxPaneId = 2
  MaxQuery = 2
  Trackers = {1}
  Users <- MCUsers
INVARIANTS
  ReleaseEndsDrag
  ScreensFitLayout
  AnchorStays
  CopiesTheSelection
  CopyCursorInPane
PROPERTIES
  SearchFindsAll
CHECK_DEADLOCK FALSE
