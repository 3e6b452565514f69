SPECIFICATION BenchSpec
CONSTANTS
  Ops = 4
  OrderId = {1, 2, 3, 4}
  Account = {0, 1, 2, 3, 4}
  PriceMin = 0
  PriceMax = 2
  QtyModulus = 8
  Capacity = 3
  GenModulus = 4
  Undef = Undef
  MaxCommands = 4
  Commands <- W1Commands
  Mid = 1
  MaxOffset = 2
  CrossShift = 1
  CancelPercent = 30
  TargetResting = 3000
  MaxQty = 2
  ZipfOne = 6
  Warmup = 2
  MinSamples = 1
  TicksPerNs = 2
  Delays = {1, 20}
  Tries = 2
  kWindowNs = 4
  Ticks = {0, 1, 3}
  kNoiseOps = 4
  kNoiseRuns = 2
  kMaxP99Spread = 1
INVARIANTS
  SamplesTight
  RateSound
  FiguresAreNearestRank
  GeneratorKnowsItsBook
  StreamFitsEveryPass
  AllocsAddUp
PROPERTIES
  AllocatesOnlyForMoreTrades
  ProgramsExit
