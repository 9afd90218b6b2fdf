SPECIFICATION QSpec
CONSTANTS
  BlkMaxNum = 4
  BufSize = 4
  BlkSizes = {1, 2}
  QueueDataLens = {1, 3}
  None = None
VIEW View
INVARIANTS
  TypeOK
  ListsConsistent
  TailIsLast
  BlocksInArena
  BlocksDisjoint
  RingOrder
  QueueWalk
  QueueAscending
PROPERTIES
  HeldBlocksStable
  PoolSpec
