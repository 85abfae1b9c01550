CONSTANTS
  Cnmts <- MCCnmts
  Contents <- MCContents
  Archive <- MCArchive
  Preinstalled = {}
  Empty = {}
  Tickets = {}
  Undeletable = {}
  Unregisterable = {}
  MaxSessions = 2
  MaxStreams = 0
SPECIFICATION StorageSpec
INVARIANTS CancelRestoresStorage
CHECK_DEADLOCK FALSE
