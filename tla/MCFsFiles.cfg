SPECIFICATION Spec
CONSTANTS
  INODE_ITEM_NUM = 3
  INODES_PER_SECTOR = 3
  SMAP_SECTORS = 2
  SMAP_BITS = 2
  SECTOR_SIZE = 2
  NDIRECT = 2
  NPOINTERS = 3
  MAX_DIR_ITEM_NUM = 2
  Names = {n1, n2}
  FD_ARRAY_SIZE = 1
  Values = {b1, b2}
  Sizes = {1, 2}
  MaxOffset = 3
  MaxSize = 3
  Calls <- FileCalls
  Followed = {"seek"}
INVARIANTS
  BlocksOK
  
SYMMETRY Symmetry
CHECK_DEADLOCK FALSE
