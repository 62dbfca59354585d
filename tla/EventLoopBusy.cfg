SPECIFICATION Spec
PROPERTIES
  BusyOutputRendered
  CommandsGetSaved
CHECK_DEADLOCK FALSE
