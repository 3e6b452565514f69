SPECIFICATION Spec
CONSTANTS
  PriceMin = 0
  PriceMax = 4
  Lists = {l1, l2}
  EmptyList = EmptyList
  Absent = Absent
  Capacity = 3
VIEW View
INVARIANTS
  TypeOK
  Sorted
PROPERTIES
  ImplementsLevelMap
