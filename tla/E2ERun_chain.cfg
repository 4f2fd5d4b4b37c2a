SPECIFICATION Spec
CONSTANTS
  TaskTot = 1
  SubtaskTot = 3
  tasks <- Chain3Tasks
  subtasks <- Chain3Subtasks
  UintSize = 5
  CalDelay = 1
  BootTime = 1
  MaxTime = 5
INVARIANTS TypeOK Precedence NoFalseAlarm ArmsInitialisedTimer
PROPERTIES HeadSeparation
CHECK_DEADLOCK FALSE
