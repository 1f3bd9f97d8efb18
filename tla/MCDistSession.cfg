SPECIFICATION FairSpec
CONSTANTS
  Worker = {0, 1, 2, 3}
  N = 2
  Collection <- FiveTests
  ScopeOf <- MCScopeOf
  MaxSchedChunk = 5
  Slow = {"t1", "t4"}
  None = None
  Dists = {"load", "worksteal", "each", "loadscope"}
  Failing <- WithAndWithoutFailure
  MayDiffer = {1}
  MaxRestart = 1
  MaxCrashes = 2
  Dies <- MCDies
INVARIANTS OneOutcome RunOnce BooksAgree BlamesRunning
PROPERTY DistEnds
