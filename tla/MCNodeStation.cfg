CONSTANTS
  Addr = {self, a}
  Self = self
  Requester = {q}
  None = None
  Local = Local
  Listener = listener
  Watcher = watcher
  Handler = {h1, h2}
  N_TIMERS = 2
  MaxInputs = 3
SPECIFICATION RecordedSpec
SYMMETRY Symmetry
INVARIANTS TypeOK  SlotsAccounted CrashExplained 
CHECK_DEADLOCK FALSE
PROPERTY ActsAsStation
