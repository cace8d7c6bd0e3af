CONSTANTS
  Listener = listener
  Watcher = watcher
  Handler = {h1, h2}
  None = None
  MaxTexts = 3
SPECIFICATION Spec
SYMMETRY Symmetry
INVARIANTS TypeOK MisreadNeedsIntrusion
CHECK_DEADLOCK FALSE
