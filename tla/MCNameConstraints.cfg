SPECIFICATION Spec
CONSTANTS
  None = None
  MaxDepth = 8
  Worlds <- TameWorlds
INVARIANTS NamesCover NamesExact AttributesCover
CHECK_DEADLOCK FALSE
