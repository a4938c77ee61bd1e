SPECIFICATION LiveSpec
CONSTANTS
  MAX_TASK_NUM = 5
  MAX_LOCKS_NUM = 0
  NUserLocks = 0
  NSems = 0
  NConds = 0
  NBarriers = 0
  SemValues = {}
  Goals = {}
  MaxCount = 0
  Priorities = {1}
  TickMod = 3
  SleepTicks = {0, 2}
  MaxWait = 100
  Syscalls = {"spawn", "sleep"}
PROPERTIES
  ReadyRuns
  SleeperWakes
