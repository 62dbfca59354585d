SPECIFICATION Spec
CONSTANTS
  p1 = p1
  p2 = p2
  p3 = p3
  p4 = p4
  u1 = u1
  u2 = u2
  u3 = u3
  Ids = {p1, p2, p3, p4}
  Sentinel = sentinel
  Sizes <- MCSizes
  Amounts <- MCAmounts
  Templates <- MCTemplates
SYMMETRY PaneSymmetry
INVARIANTS
  PanesTileTheTerminal
  OperationsActOnLeafOrder
  GrowNeverShrinks
  TemplateArrangesPanes
  MovesFailOnlyAtEdge
