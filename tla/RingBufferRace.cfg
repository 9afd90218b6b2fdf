SPECIFICATION RSpec
CONSTANTS
  BufferSize = 3
  Bytes = {0, 1, 2, 3, 4, 5, 6, 7, 8}
  MaxLength = 3
  LoadModes = {TRUE, FALSE}
  StoreModes = {TRUE, FALSE}
  Writer = ulog_raw
  Reader = ulog_async
  MaxBytes = 8
INVARIANTS
  CopiesInBuffer
  BytesInOrder
  NoOverwrite
