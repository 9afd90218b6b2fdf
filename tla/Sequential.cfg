SPECIFICATION SequentialSpec
CONSTANTS
  LineSize = 40
  AddrLen = 11
  Colours <- ColourLens
  Ticks = {0, 2147483647}
  TagLens = {1, 20, 21, 22, 40}
  Results <- ResultsUsed
  Widths = {3, 9}
  Sizes = {1, 9}
  MaxLines = 2
  Width = 8
  Strings <- StringsUsed
  Counts <- CountsUsed
  BufSizes = {0, 1, 4, 7}
  Formats <- FormatsUsed
  None = None
  BufferSize = 4
  Bytes = {0, 1}
  MaxLength = 5
CHECK_DEADLOCK FALSE
INVARIANTS
  TypeOK
  WithinOneLap
  LinesIntact
  StringsAgree
  PrintsRight
PROPERTY
  FifoSpec
