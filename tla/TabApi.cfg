SPECIFICATION Spec
CONSTANTS
  MaxPaneId = 4
  NoPane = NoPane
INVARIANTS
  TabInv
PROPERTIES
  IdsNeverReused
  SurvivorsKeepOrder
  AppKeepsFocus
  CyclingVisitsAll
