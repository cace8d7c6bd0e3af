CONSTANTS
  Thread = {main, listener, watcher}
  Listener = listener
  Watcher = watcher
  None = None
  MaxInputs = 2
  MaxExpiries = 2
SPECIFICATION FairSpec
INVARIANTS TypeOK DeadlockIsWedge
PROPERTIES WedgeForever CallsRunOut CallsReturn
CHECK_DEADLOCK FALSE
