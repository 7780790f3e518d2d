SPECIFICATION Spec
CONSTANTS
  Proc = {p, q, r}
  InitProc = p
  MaxPage = 2
  PageSize = 1
  Value = {0, 1}
  FrameCount = 3
  KernelBlocks = 0
  InitBreak = 2
  InitTable <- MCImage
  InitKernel <- MCNoBlock
  StackPage <- MCNoStack
  InitContent <- MCContent
SYMMETRY Children
INVARIANT
  ForkSourceAlive
CHECK_DEADLOCK FALSE
