SPECIFICATION PipelineSpec
CONSTANTS
  File = {"t1", "t2", "a", "m", "conf"}
  TestFile = {"t1", "t2"}
  InitFile = {}
  Conftests <- MCConftests
  Commit = {"c1", "c2", "c3", "c4", "c5"}
  Tree <- MCTree
  CodeOf <- MCCodeOf
  NoCode = NoCode
  Imports <- MCImports
  Candidates <- MCCandidates
  External = External
  None = None
  Never = Never
  Killed = Killed
  MaxKills = 1
  MaxCrashes = 1
  Name = {"Base", "Mid", "Sub", "run", "f", "g", "h", "v", "fix", "print"}
  ModuleDict <- MCModuleDict
INVARIANTS PipelineTypeOK NamesCurrent NameUpToDate NoneRunInVain
