SPECIFICATION Spec
CONSTANTS
  Key = {k1, k2, k3}
  Value = {h1}
  NilHandle = NilHandle
  MaxEntries = 2
  Homes = {0, 1, 2, 3}
PROPERTIES
  OperationsReturn
