SPECIFICATION Spec
CONSTANTS
  INODE_ITEM_NUM = 3
  INODES_PER_SECTOR = 3
  SMAP_SECTORS = 3
  SMAP_BITS = 1
  SECTOR_SIZE = 2
  NDIRECT = 1
  NPOINTERS = 2
  MAX_DIR_ITEM_NUM = 2
  Names = {n1, n2}
  FD_ARRAY_SIZE = 1
  Values = {b1}
  Sizes = {1, 3}
  MaxOffset = 1
  MaxSize = 4
  Calls <- TreeCalls
  Followed = {"torn", "remade"}
INVARIANTS
  TypeOK
  TreeOK
  BlocksOK
  CacheOK
  CrashOK
SYMMETRY Symmetry
CHECK_DEADLOCK FALSE
