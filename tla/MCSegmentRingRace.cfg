CONSTANTS
  Total = 7
  SegSize = 2
  NumSegs = 2
  MaxChunk = 2
SPECIFICATION Spec
INVARIANT NoStaleOffset
CHECK_DEADLOCK FALSE
