SPECIFICATION Spec
CONSTANTS
  Thread = {1, 2}
  KfuncCallers = {2}
  AfterYield <- MCIntact
  MaxDepth = 2
  MaxCalls = 2
  MinSlice = 0
  AcquiresMod = 4
INVARIANT
  HandlersNeverStuck
