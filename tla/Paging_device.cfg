SPECIFICATION Spec
CONSTANTS
  p1 = p1  p2 = p2  t1 = t1  t2 = t2  t3 = t3
  f1 = f1  f2 = f2  f3 = f3  d1 = d1  d2 = d2
  Procs = {p1, p2}
  Threads = {t1, t2, t3}
  proc <- TwoAndOne
  Va = {1, 2}
  Frames = {f1, f2, f3}
  Data = {d1, d2}
  NoFrame = NoFrame
  MaxFaults = 2
  MaxToggles = 1
SYMMETRY Symmetry
INVARIANTS TypeOK MappedPagesAreOwn ReferenceIsExact NoPageLost RemovalTellsLoss
CHECK_DEADLOCK FALSE
