CONSTANTS
  Total = 5
  SegSize = 2
  NumSegs = 2
  MaxChunk = 2
  Attempts = 2
  MaxApprovals = 1
  Origins = {home, homePlain, other, otherPlain}
  Https = {home, other}
  MaxHops = 3
SPECIFICATION HttpSpec
INVARIANTS SuccessIsComplete CredentialsStayHome FileOnlyOnSuccess
PROPERTIES RetryOnlyOnConsent EndsOrKnownHang CancelEndsOrAsks
CHECK_DEADLOCK FALSE
