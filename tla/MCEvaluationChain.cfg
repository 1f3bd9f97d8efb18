SPECIFICATION ChainSpec
CONSTANTS
  File = {"t1", "t2", "a", "b", "s", "conf", "m.py", "m/__init__.py"}
  TestFile = {"t1", "t2"}
  InitFile <- MCInit
  Conftests <- MCConftests
  Commit = {"c1", "c2", "c3", "c4", "c5"}
  Tree <- Edits
  CodeOf <- MCCodeOf
  NoCode = NoCode
  Imports <- MCImports
  Candidates <- MCCandidates
  External = External
  None = None
  Never = Never
  Killed = Killed
  Torn = Torn
  MaxKills = 1
  MaxCrashes = 0
  MaxDeaths = 2
  Instances <- MCInstances
INVARIANTS ArchiveStandsForCommit JudgedAgainstParent
CHECK_DEADLOCK FALSE
