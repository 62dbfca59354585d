SPECIFICATION SessionSpec
CONSTANTS
  MaxTabId = 5
  MaxPanes = 2
  NoTab = NoTab
INVARIANTS
  SessionInv
PROPERTY FocusFollowsTab
