SPECIFICATION ReplaySpec
CONSTANTS
  OrderId = {o1, o2, o3}
  Account = {0, 1}
  PriceMin = 0
  PriceMax = 1
  QtyModulus = 4
  Capacity = 2
  PoolCapacities = {1, 2}
  GenModulus = 2
  Undef = Undef
  MaxCommands = 3
  Kinds = {"Limit", "Cancel", "Modify"}
  Quantities = {1, 2}
  Tifs = {"GTC"}
  Commands <- MCCommands
SYMMETRY Symmetry
INVARIANTS
  ReplayRepeatsLife
  SeqNoIsPosition
