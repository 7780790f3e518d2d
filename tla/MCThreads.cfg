SPECIFICATION Spec
CONSTANTS
  PidStart = 3
  PidMax = 4
  PosMod = 2
  Calls = {2, 158, 224}
INVARIANTS
  TypeOK
  NoBugCheck
PROPERTY
  ImplementsProcesses
