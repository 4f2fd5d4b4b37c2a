SPECIFICATION FairSpec
CONSTANTS
  TaskTot = 2
  SubtaskTot = 3
  tasks <- TwoTasksTasks
  subtasks <- TwoTasksSubtasks
  UintSize = 8
  CalDelay = 1
  BootTime = 1
  MaxTime = 3
INVARIANTS UnloadOrder
PROPERTIES StopTakesEffect
CHECK_DEADLOCK FALSE
