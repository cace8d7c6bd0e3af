CONSTANTS
  Node = {a, b, c}
  Name = {a, b, c}
  HostName <- MCHostName
  None = None
  Local = Local
  N_TIMERS = 2
  MaxRouteChanges = 3
  MaxLosses = 1
SPECIFICATION Spec
SYMMETRY Symmetry
INVARIANTS TypeOK NamesSound Solicited
CHECK_DEADLOCK FALSE
PROPERTIES ImplementsService StationsAct
