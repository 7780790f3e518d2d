SPECIFICATION FairSpec
CONSTANTS
  PidStart = 3
  PidMax = 5
  PosMod = 1
  Calls = {2}
PROPERTIES
  ImplementsProcesses
  EverybodyRuns
  CallsReturn
