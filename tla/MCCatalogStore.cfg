CONSTANTS
  Absent = Absent
  Bad = Bad
  NoVersion = NoVersion
  Versions = {v1, v2, v3}
  Bundled = v1
  Icons = {i1, i2}
  MaxPages = 2
  MaxSwitches = 1
SPECIFICATION ScreenSpec
PROPERTIES BackupStaysValid StoreIsAtomic IconsAreServed StopEndsOrIsMissed
