SPECIFICATION Spec
CONSTANTS
  TaskTot = 1
  SubtaskTot = 2
  tasks <- Chain2Tasks
  subtasks <- Chain2Subtasks
  UintSize = 8
  CalDelay = 1
  BootTime = 1
  MaxTime = 6
PROPERTIES SuccessorSeparation
CHECK_DEADLOCK FALSE
