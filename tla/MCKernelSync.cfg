SPECIFICATION Spec
CONSTANTS
  MAX_TASK_NUM = 5
  MAX_LOCKS_NUM = 0
  NUserLocks = 1
  NSems = 1
  NConds = 1
  NBarriers = 1
  SemValues <- MCSemValues
  Goals = {0, 3}
  MaxCount = 3
  Priorities = {1}
  TickMod = 1
  SleepTicks = {}
  MaxWait = 4
  Syscalls = {"spawn", "lock", "sem", "cond", "barrier", "recv"}
INVARIANTS
  LockPromised
  CountsOK
