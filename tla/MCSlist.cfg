SPECIFICATION SlistSpec
CONSTANT Length = 6
INVARIANT
  ShapeOK
PROPERTY PoolSpec
