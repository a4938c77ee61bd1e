SPECIFICATION Spec
CONSTANTS
  MAX_TASK_NUM = 4
  MAX_LOCKS_NUM = 2
  NUserLocks = 0
  NSems = 1
  NConds = 1
  NBarriers = 1
  SemValues <- MCSemValues
  Goals = {0, 3}
  MaxCount = 2
  Priorities = {1}
  TickMod = 1
  SleepTicks = {0}
  MaxWait = 3
  Syscalls = {"spawn", "kill", "exit", "wait", "sleep", "lock", "sem", "cond", "barrier"}
INVARIANTS
  TypeOK
  QueueOK
  RunningOK
  WaitersOK
  LocksOK
  CountsOK
  BoostOK
  SelectionOK
