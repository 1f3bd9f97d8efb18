CONSTANTS
  i1 = i1  i2 = i2  a = a  b = b
  None = None  Torn = Torn  Edited = Edited
  Instance = {i1, i2}
  TestFile = {a, b}
  Enters <- EntersAB
  Fails <- FailsA
  Selects <- SelectsA
  Creates = {i2}
  Order <- TwoPatches
  Options <- BothGoingOn
  ReviewFiles <- NoReviewFile
  Drivers = {"python39", "sklearn"}
  ByHand = {}
  MaxTroubles = 3
SPECIFICATION FairSpec
PROPERTIES Delivers
CHECK_DEADLOCK FALSE
