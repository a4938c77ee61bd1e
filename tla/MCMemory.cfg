SPECIFICATION LiveSpec
CONSTANTS
  MAX_TASK_NUM = 5
  PM_SLIST_SIZE = 4
  PT_SLIST_SIZE = 5
  SWAP_AREA_SIZE = 3
  TLB_ENTRY_NUMBER = 1
  PDE_NUMBER = 2
  PTE_NUMBER = 2
  Values = {a, b}
  FsCallers = {1}
  Foreign = a
  Touches <- TouchesOne
INVARIANTS
  TypeOK
  TlbOK
  ReservedOK
  FramesOK
  SlotsOK
  DataOK
 
CHECK_DEADLOCK FALSE
