SPECIFICATION Spec
CONSTANTS
  BlkMaxNum = 2
  BufSize = 2
  BlkSizes = {1, 2}
INVARIANT
  EmptyFreeListMeansNoFreeBlock
