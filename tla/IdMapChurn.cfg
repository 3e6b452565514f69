SPECIFICATION Spec
CONSTANTS
  Key = {k1, k2, k3, k4}
  Value = {h1, h2}
  NilHandle = NilHandle
  MaxEntries = 3
  Homes = {0, 6, 7}
SYMMETRY Symmetry
VIEW View
INVARIANTS
  TypeOK
  EveryEntryReachable
  HalfEmpty
PROPERTIES
  ImplementsDictionary
