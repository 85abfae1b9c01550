CONSTANTS
  Total = 5
  SegSize = 2
  NumSegs = 2
  MaxChunk = 2
  Attempts = 2
  MaxApprovals = 1
  Origins = {home, homePlain, other, otherPlain}
  Https = {home, other}
  MaxHops = 3
SPECIFICATION HttpSpec
PROPERTY CancelEnds
CHECK_DEADLOCK FALSE
