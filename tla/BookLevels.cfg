SPECIFICATION LevelsSpec
CONSTANTS
  OrderId = {o1, o2, o3}
  Account = {0, 1}
  PriceMin = 0
  PriceMax = 3
  QtyModulus = 8
  Capacity = 2
  GenModulus = 2
  Undef = Undef
  MaxCommands = 4
  Kinds = {"Limit", "Cancel", "Modify"}
  Quantities = {1, 2}
  Tifs = {"GTC", "FOK"}
  Commands <- LevelCommands
SYMMETRY Symmetry
VIEW View
INVARIANTS
  LevelsFit
  ArraysMatchBook
  ReferencesGood
  SelfCheckPasses
PROPERTIES
  DroppedOnlyWhenFull
