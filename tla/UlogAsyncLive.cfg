SPECIFICATION FairSpec
CONSTANTS
  Loggers = {a}
  RawLoggers = {r}
  Flushers = {f}
  Async = async
  None = None
  MaxCalls = 2
  MaxFlushes = 1
  MaxRawCalls = 1
  MaxToggles = 1
  RawSizes = {1}
  RbSize = 1
  BlkMaxNum = 2
  BufSize = 2
  BlkSizes = {1}
CHECK_DEADLOCK FALSE
INVARIANTS
  LineBufferOwned
  BlockOwnership
  DeliveredOnce
PROPERTIES
  LinesGetOut
  CallsReturn
