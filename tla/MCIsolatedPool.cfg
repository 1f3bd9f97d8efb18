SPECIFICATION Spec
CONSTANTS
  Worker = {0, 1, 2, 3, 4, 5}
  Collection <- ThreeFiles
  FileOf <- MCFileOf
  SHUTDOWN = SHUTDOWN
  None = None
  Configs <- NobodyDies
INVARIANT SpawnBounded
PROPERTY ImplementsSerialFiles
