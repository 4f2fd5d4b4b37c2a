SPECIFICATION Spec
CONSTANTS
  TaskTot = 2
  SubtaskTot = 2
  task_id <- OneEach
  CoreNum = 1
  TopPriority = 50
  MaxCnt = 3
  LoopCost = 1
  Jitter = 1
  NsPerMs = 1
  UintSize = 8
  WordSize = 8
  Periods = {2, 3}
  ExeTimes = {1, 2}
INVARIANTS CoreFits
CHECK_DEADLOCK FALSE
