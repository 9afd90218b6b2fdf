SPECIFICATION Spec
CONSTANTS
  Loggers = {a}
  RawLoggers = {r}
  Flushers = {}
  Async = async
  None = None
  MaxCalls = 3
  MaxFlushes = 1
  MaxRawCalls = 2
  MaxToggles = 0
  RawSizes = {1, 2}
  RbSize = 3
  BlkMaxNum = 3
  BufSize = 3
  BlkSizes = {1, 2}
CHECK_DEADLOCK FALSE
INVARIANTS
  TypeOK
  NoLostWakeup
  RawInOrder
PROPERTIES
  FifoSpec
