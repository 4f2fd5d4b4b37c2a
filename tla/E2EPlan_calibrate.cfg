SPECIFICATION FairSpec
CONSTANTS
  TaskTot = 2
  SubtaskTot = 3
  task_id <- TwoAndOne
  CoreNum = 2
  TopPriority = 50
  MaxCnt = 3
  LoopCost = 1
  Jitter = 1
  NsPerMs = 1
  UintSize = 8
  WordSize = 8
  Periods = {2, 4}
  ExeTimes = {1, 2}
INVARIANTS TypeOK NotOverbooked PriorityOrder SearchBand CalibratedOnce
PROPERTIES CalibrationEnds
CHECK_DEADLOCK FALSE
