SPECIFICATION Spec
CONSTANTS
  OrderId = {o1}
  Account = {0, 1}
  PriceMin = 0
  PriceMax = 1
  QtyModulus = 2
  Capacity = 1
  Undef = Undef
  Id = o1
  Capacities = {1, 2}
  MaxAppends = 3
  Commands <- EveryKind
VIEW View
INVARIANTS
  TypeOK
  ReplayIsHistory
  AckedIsReplayed
  CutIsClean
