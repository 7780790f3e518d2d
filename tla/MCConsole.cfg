SPECIFICATION Spec
CONSTANTS
  Key = {"a", "b", "altL", "altR"}
  Make <- MCMake
  Break <- MCBreak
  Kind <- MCKind
  Glyph <- MCGlyph
  BufTermSize = 7
  MaxStray = 1
  width = 2
  height = 2
  BlockSize = 3
  Absent = Absent
  Process = {p, q}
  First = p
  PageSize = 2
  Readable = {1, 2, 3}
  Writable = {2, 3}
  InitMemory <- MCInitMemory
  ArgBlockCount = 2
  Nobody = Nobody
  Request <- MCRequest
  MaxEvents = 4
INVARIANTS
  TypeOK
  ScreenShowsPaper
  ModifiersFollowKeys
  StopsOnlyFor
  BuffersReturned
PROPERTIES
  ImplementsTeletype
  MapsAreFunctions
  CallsOnlyWaitForKeys
CHECK_DEADLOCK FALSE
