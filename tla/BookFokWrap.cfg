SPECIFICATION Spec
CONSTANTS
  OrderId = {o1, o2, o3}
  Account = {0, 1}
  PriceMin = 0
  PriceMax = 1
  QtyModulus = 4
  Capacity = 2
  GenModulus = 2
  Undef = Undef
  MaxCommands = 3
  Kinds = {"Limit"}
  Quantities = {1, 3}
  Tifs = {"GTC", "FOK"}
  Commands <- MCCommands
SYMMETRY Symmetry
PROPERTIES
  FokRefusedOnlyIfShort
