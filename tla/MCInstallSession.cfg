CONSTANTS
  Cnmts <- MCCnmts
  Contents <- MCContents
  Archive <- MCArchive
  Preinstalled = {"control"}
  Empty = {"control"}
  Tickets = {"shared"}
  Undeletable = {"metaB"}
  Unregisterable = {"program"}
  MaxSessions = 2
  MaxStreams = 2
SPECIFICATION StorageSpec
INVARIANTS SuccessIsInstalled ContentsKept NoNewPlaceholder FailureTakesBackContents
INVARIANTS StreamSuccessIsWhole StreamKeepsInstalled StreamLeftovers
CHECK_DEADLOCK FALSE
