CONSTANTS
  k1 = k1
  k2 = k2
  k3 = k3
  Thread = {t1, t2}
  Key = {k1, k2, k3}
  Value = {v1, v2}
  None = None
  Hash <- MCHash
  Sizes <- MCSizes
  InitialSize = 2
  UIntModulus = 2
  MaxEntries = 3
SPECIFICATION Spec
SYMMETRY Symmetry
INVARIANTS TypeOK WellPlaced KeysFit LoadBounded
PROPERTY ImplementsMap
