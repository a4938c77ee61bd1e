SPECIFICATION Spec
CONSTANTS
  Tasks = {t1, t2, t3, t4}
  MAX_BOX_NUM = 1
  MAX_BUFFER_SIZE = 3
  Names = {n1, n2}
  Bytes = {b1, b2}
  Lengths = {1, 2}
INVARIANTS
  FifoOK
  WakeupOK
  BoxesOK
SYMMETRY Symmetry
CHECK_DEADLOCK FALSE
