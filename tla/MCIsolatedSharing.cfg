SPECIFICATION Spec
CONSTANTS
  Worker = {0, 1, 2, 3, 4}
  Collection <- ThreeFiles
  FileOf <- MCFileOf
  SHUTDOWN = SHUTDOWN
  None = None
  Configs <- DeathInTest
INVARIANT Isolated
