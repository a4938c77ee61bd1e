SPECIFICATION Spec
CONSTANTS
  MAX_TASK_NUM = 5
  PM_SLIST_SIZE = 4
  PT_SLIST_SIZE = 5
  SWAP_AREA_SIZE = 4
  TLB_ENTRY_NUMBER = 2
  PDE_NUMBER = 2
  PTE_NUMBER = 2
  Values = {a, b}
  FsCallers = {}
  Foreign = a
  Touches <- TouchesOne
INVARIANT Consistent
CHECK_DEADLOCK FALSE
