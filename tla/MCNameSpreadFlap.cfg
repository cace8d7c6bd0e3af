CONSTANTS
  Node = {a, b, c}
  Name = {a, b, c}
  Dest = {c}
  HostName <- MCHostName
  None = None
  Local = Local
  N_TIMERS = 2
  MaxRouteChanges = 5
  MaxLosses = 1
SPECIFICATION FlapSpec
SYMMETRY FlapSymmetry
PROPERTY RetriesGoOn
CHECK_DEADLOCK FALSE
