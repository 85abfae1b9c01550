CONSTANTS
  Total = 7
  SegSize = 2
  NumSegs = 3
  MaxChunk = 3
  Packages <- SomePackages
  HeaderSize = 3
  HeaderMin = 2
  MagicSize = 2
  TableMin = 2
  BlockHeaderSize = 3
  ContentBufferSize = 3
  MaxWriteSize = 22
  MaxHeld = 2
SPECIFICATION PlaceSpec
INVARIANTS SegmentExclusion InOrder ClaimHolds StoredIsPackage
PROPERTIES ChannelSpec TransferEnds
CHECK_DEADLOCK FALSE
