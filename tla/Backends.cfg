SPECIFICATION Spec
CONSTANTS
  Backends = {uart, file, net}
  Tasks = {async}
  ColouredLevels = {3}
  PlainLevels = {7}
  OutLevels = {1}
  LOG_FILTER_LVL_ALL = 255
  LOG_LVL_DBG = 7
  Filters <- OnlyColoured
  backend_list = backend_list
  None = None
  MaxChanges = 6
SYMMETRY Alike
INVARIANTS
  ListIsRegistered
  OnlyKnownCalled
  AllServedOnce
  FirstCutRight
