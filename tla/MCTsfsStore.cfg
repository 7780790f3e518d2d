SPECIFICATION Spec
CONSTANTS
  TotalBlocks = 42
  RootEntries = 2
  TableEntries = 2
  DataSize = 2
  usr = usr
  bin = bin
  Path <- MCPath
  Written <- MCWritten
  MaxSize = 3
  MaxFiles = 3
PROPERTY ImplementsFileStore
CHECK_DEADLOCK FALSE
