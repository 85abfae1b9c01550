CONSTANTS
  Absent = Absent
  Torn = Torn
  MaxVersion = 3
  SavePaths = {p, q}
  Unflushable = {q}
  CommitEvery = 2
  MaxCalls = 3
SPECIFICATION DownloadSpec
INVARIANTS UpToDateIsWhole FailureKeepsFiles SuccessIsFetched NeverMixed RestoreIsWhole
CHECK_DEADLOCK FALSE
