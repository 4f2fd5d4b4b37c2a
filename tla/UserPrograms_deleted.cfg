SPECIFICATION SumSpec
CONSTANTS
  r1 = r1  r2 = r2  f1 = f1  f2 = f2  f3 = f3
  Elements = {1, 2}
  Regions = {r1, r2}
  NoRegion = NoRegion
  MaxRuns = 2
  Pids = {1, 2, 3, 4}
  Shell = 1
  ListLen = 4
  MaxBirths = 3
  Files = {f1, f2, f3}
  Root = Root
  Names = {"a", "b"}
  Slots = 3
  PathLen = 1
  MaxQueue = 2
  Width = 4
  IntWidth = 3
  Poly = {0, 1}
  Period = 15
  LogSizes = {0, 1, 2, 3}
  Furthest = 31
  Wrap = 16
  SizeWrap = 16
  SqrtOfMax = 4
  DoubleSize = 2
  DataSize = 3
  Sizes = {0, 1, 2, 3, 4, 5}
INVARIANT DeletedAreGone
CHECK_DEADLOCK FALSE
