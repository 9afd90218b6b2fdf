SPECIFICATION Spec
CONSTANTS
  Tasks <- TasksUsed
  Tags = {net, flash}
  Levels = {7}
  FilterLevels = {3, 255}
  LOG_LVL_DBG = 7
  LOG_FILTER_LVL_ALL = 255
  Nodes = {n1, n2}
  Kinds <- KindsUsed
  None = None
  NumBackends = 1
  NestWhenLocked = TRUE
  Rows = 2
  MaxCalls <- CallsMade
  MaxNested = 1
  MaxSwitches = 2
CHECK_DEADLOCK FALSE
INVARIANT
  RecursionIsHandled
