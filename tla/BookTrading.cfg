SPECIFICATION Spec
CONSTANTS
  OrderId = {o1, o2, o3}
  Account = {0, 1}
  PriceMin = 0
  PriceMax = 1
  QtyModulus = 4
  Capacity = 2
  GenModulus = 2
  Undef = Undef
  MaxCommands = 4
  Kinds = {"Limit", "Market", "Cancel", "Modify"}
  Quantities = {0, 1, 3}
  Tifs = {"GTC", "IOC", "FOK"}
  Commands <- MCCommands
SYMMETRY Symmetry
INVARIANTS
  IndInv
  NotCrossed
PROPERTIES
  BestExecution
  RemainderExplained
  QuantityAccounted
  FokAllOrNothing
