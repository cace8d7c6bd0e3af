CONSTANTS
  Node = {a, b}
  Name = {a, b}
  HostName <- MCHostName
  None = None
  Local = Local
  N_TIMERS = 2
  MaxRouteChanges = 2
  MaxLosses = 0
SPECIFICATION Spec
PROPERTY RemovalForgetsName
CHECK_DEADLOCK FALSE
