CONSTANTS
  Absent = Absent
  Malformed = Malformed
  Native = Native
  Ids = {p, q}
  MaxMutations = 2
  MaxCrashes = 1
SPECIFICATION Spec
INVARIANT SeedsSurviveRestart
CHECK_DEADLOCK FALSE
