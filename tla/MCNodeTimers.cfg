CONSTANTS
  Addr = {self, a}
  Self = self
  Requester = {q}
  None = None
  Local = Local
  Listener = listener
  Watcher = watcher
  Handler = {h1}
  N_TIMERS = 2
  MaxInputs = 4
SPECIFICATION FairSpec
INVARIANTS SlotsBudgeted ExhaustionExplained
PROPERTY SlotsReturn
CHECK_DEADLOCK FALSE
