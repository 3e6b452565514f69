SPECIFICATION Spec
CONSTANTS
  OrderId = {o1, o2, o3}
  Account = {0, 1}
  PriceMin = 0
  PriceMax = 1
  QtyModulus = 8
  Capacity = 2
  GenModulus = 2
  Undef = Undef
  MaxCommands = 3
  Kinds = {"Limit", "Market", "Cancel", "Modify"}
  Quantities = {1, 2}
  Tifs = {"GTC", "IOC", "FOK"}
  Commands <- AccountCommands
PROPERTIES
  CommandsReturn
