CONSTANTS
  Packages <- SomePackages
  HeaderSize = 3
  HeaderMin = 2
  MagicSize = 2
  TableMin = 2
  BlockHeaderSize = 3
  ContentBufferSize = 3
  MaxWriteSize = 22
  MaxHeld = 2
SPECIFICATION NcaSpec
INVARIANT StoredEncrypted
CHECK_DEADLOCK FALSE
