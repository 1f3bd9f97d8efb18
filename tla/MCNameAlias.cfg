SPECIFICATION Spec
CONSTANTS
  None = None
  MaxDepth = 8
  Worlds <- AliasWorlds
INVARIANT NamesCover
CHECK_DEADLOCK FALSE
