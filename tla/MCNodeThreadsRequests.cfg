CONSTANTS
  Addr = {self, a}
  Self = self
  Requester = {q}
  None = None
  Local = Local
  Listener = listener
  Watcher = watcher
  Handler = {h1}
  N_TIMERS = 2
  MaxInputs = 3
SPECIFICATION Spec
PROPERTY RequestsKept
CHECK_DEADLOCK FALSE
