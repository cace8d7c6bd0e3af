CONSTANTS
  Node = {a, b, c}
  Name = {a, b, c}
  HostName <- MCHostName
  None = None
  Dest = {c}
  Local = Local
  N_TIMERS = 2
  MaxRouteChanges = 0
  MaxLosses = 2
SPECIFICATION StaticSpec
PROPERTIES EventuallyNamed EventuallyQuiet
CHECK_DEADLOCK FALSE
