SPECIFICATION FairSpec
CONSTANTS
  File <- MCFile
  Test <- MCTest
  Conftest = {"conftest"}
  Element <- MCElement
  Class <- MCClass
  Related <- MCRelated
  ModuleNames <- MCModuleNames
  ModuleBoths <- MCModuleBoths
  Fixtures <- MCFixtures
  Registered = {"C"}
  GetattrNames <- MCGetattrNames
  MemberNames <- MCMemberNames
  OperatorNames = {}
  Decorated <- MCDecorated
  FileConstrain <- MCFileConstrain
  ClassConstrain <- MCClassConstrain
  ModifiedBy <- MCModifiedBy
  Critical = {"help"}
  UseCritical <- MCUseCritical
  Blacklist = {}
  Needed <- MCNeeded
  PruneNames = TRUE
  None = "None"
INVARIANTS TypeOK OkNamesHandled ClosedWhenDone OnlyNeeded
PROPERTIES Terminates ImplementsSelection
CHECK_DEADLOCK FALSE
