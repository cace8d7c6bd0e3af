CONSTANTS
  Thread = {t1, t2, t3}
  Node = {n1, n2, n3, n4}
  Value = {a}
  Index <- Indices
  NULL = NULL
  Junk = Junk
  Missing = Missing
SPECIFICATION Spec
SYMMETRY Symmetry
INVARIANTS TypeOK Unshared NothingLeaked
PROPERTIES ActsAsList
CHECK_DEADLOCK FALSE
