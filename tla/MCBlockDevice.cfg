SPECIFICATION Spec
CONSTANTS
  Process = {p, q}
  File = {hda}
  Byte = {0, 1, 2, 3, 4}
  Count = {0, 1, 2, 5, 9}
  How = {"SEEK_SET", "SEEK_CUR", "SEEK_END", "SEEK_DATA", "SEEK_HOLE", "none"}
  SectorSize = 2
  Sectors = 4
  MaxTransfer = 3
  OffHalf = 16
  MaxCalls = 3
  InitData <- MCInitData
  Source <- MCPattern
  OffHi <- MCOffHi
  OffLo <- MCOffLo
INVARIANT
  TypeOK
PROPERTIES
  ImplementsStorage
  CallsComplete
CHECK_DEADLOCK FALSE
