SPECIFICATION FairSpec
CONSTANTS
  Worker = {0, 1, 2, 3, 4, 5, 6}
  Collection <- ThreeFiles
  FileOf <- MCFileOf
  SHUTDOWN = SHUTDOWN
  None = None
  Configs <- OneOrTwo
INVARIANTS WorkPlaced IsolatedUndisturbed NoRerun NoTestLost NeverAborts NeverStranded
PROPERTY Ends
