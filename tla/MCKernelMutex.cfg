SPECIFICATION FairSpec
CONSTANTS
  Thread = {1, 2, 3}
  KfuncCallers = {2}
  AfterYield <- MCIntact
  MaxDepth = 2
  MaxCalls = 2
  MinSlice = 8
  AcquiresMod = 4
INVARIANTS
  TypeOK
  MutualExclusion
  NoBugCheck
  QuiescentCount
PROPERTIES
  ImplementsLock
  WaitsEnd
