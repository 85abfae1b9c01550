CONSTANTS
  Total = 7
  SegSize = 2
  NumSegs = 2
  MaxChunk = 2
  Announced = {0, 4, 7, 9}
  FileSize = 4
  Needed = 3
  BufferMax = 1
  MaxWrite = 2
  MaxFiles = 2
  MaxStarts = 2
SPECIFICATION CableSpec
INVARIANTS UsbSuccessIsComplete XciVerdictIsRight ServicesOpenInUse StopLeavesNothing
PROPERTIES UsbEndsOrKnownHang StopEnds
CHECK_DEADLOCK FALSE
