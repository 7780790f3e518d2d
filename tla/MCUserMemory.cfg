SPECIFICATION Spec
CONSTANTS
  Proc = {p, q, r}
  InitProc = p
  MaxPage = 3
  PageSize = 2
  Value = {0, 1}
  FrameCount = 6
  KernelBlocks = 1
  InitBreak = 3
  InitTable <- MCImageAndStack
  InitKernel <- MCOneBlock
  StackPage <- MCStack
  InitContent <- MCContent
SYMMETRY Children
INVARIANTS
  TypeOK
  BlocksAccountedFor
  SharedOnlyWhereReleased
  OnlyOutOfMemory
PROPERTY
  ImplementsAddressSpaces
CHECK_DEADLOCK FALSE
