SPECIFICATION Spec
CONSTANTS
  Thread = {1, 2}
  KfuncCallers = {}
  AfterYield <- MCCompiled
  MaxDepth = 2
  MaxCalls = 2
  MinSlice = 0
  AcquiresMod = 4
INVARIANT
  NoBugCheck
