SPECIFICATION SumSpec
CONSTANTS
  u1 = u1  u2 = u2
  Users = {u1, u2}
  Size = 2
  MaxBytes = 3
  Cores = {0, 1, 2, 3}
  PerPage = 4
  Wrap = 32
  Numbers = {0, 3, 7, 8, 31, 36}
  MaxWaiting = 2
INVARIANTS TypeOK BytesInOrder SelfTestPasses NobodyLeavesEarly DifferencesAreReal VerifiesClean
PROPERTIES BarrierOpens PeriodicUnloads UdpUnloads
CHECK_DEADLOCK FALSE
