CONSTANTS
  Node = {a, b, c}
  Name = {a, b, c}
  HostName <- MCHostName
  None = None
  Local = Local
  N_TIMERS = 2
  MaxRouteChanges = 2
  MaxLosses = 1
SPECIFICATION FairSpec
PROPERTY KnowsAllItCould
CHECK_DEADLOCK FALSE
