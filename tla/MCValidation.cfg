CONSTANTS
  i1 = i1  i2 = i2  a = a  b = b
  None = None  Torn = Torn  Edited = Edited
  Instance = {i1, i2}
  TestFile = {a, b}
  Enters <- EntersAB
  Fails <- FailsA
  Selects <- SelectsA
  Creates = {i2}
  Order <- TwoPatches
  Options <- AllOptions
  ReviewFiles <- TwoReviewFiles
  Drivers = {"python39", "django", "final"}
  ByHand = {"truth"}
  MaxTroubles = 2
SPECIFICATION Spec
INVARIANTS DriversTypeOK TruthMeasured ComparedFairly SummaryAccounts
PROPERTIES NeverDiscards DoneIsBacked
CHECK_DEADLOCK FALSE
