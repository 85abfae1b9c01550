CONSTANTS
  Absent = Absent
  Malformed = Malformed
  Native = Native
  Ids = {p, q}
  MaxMutations = 4
  MaxCrashes = 2
  Damaged = Damaged
  Installed = v0
  Releases = {v1, v2}
  MaxUpdates = 3
  Texts = {t1, t2}
  TornText = TornText
  MaxWrites = 4
SPECIFICATION ReplaceSpec
INVARIANTS MemoryIsSaved PersonasKeptUnlessForgotten AlwaysAnNro ResultIsTrue WriteIsAllOrNothing
PROPERTIES MalformedKept
CHECK_DEADLOCK FALSE
