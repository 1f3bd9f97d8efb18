--------------------------- MODULE EvaluationChain ---------------------------
(***************************************************************************)
(* evaluate.py: the tool of FileSelection driven over a list of instances. *)
(* An instance starts from cleared caches, restores the archive of its     *)
(* parent commit (or runs the tool there first), moves to the current      *)
(* commit, and archives the caches it ends with; the next instance finds   *)
(* them under the name of its own parent.  The process may die anywhere,   *)
(* also while it writes an archive, and is started again by hand.          *)
(***************************************************************************)
EXTENDS FileSelection

CONSTANTS
  Instances,  \* sequence of [parent, current, tests, reuse]: see below
  Torn,       \* an archive whose writing was interrupted
  MaxDeaths   \* bound: deaths of the evaluation (Crash is not used here)

(* tests is run_current_tests: the validation scripts only ask for the     *)
(* selection; reuse is reuse_parent_cache.                                 *)
Instance == [parent : Commit, current : Commit, tests : BOOLEAN, reuse : BOOLEAN]
ASSUME InstancesAssumption == Instances \in Seq(Instance)

VARIABLES
  archives,  \* CACHE_PATH: [Commit -> None, Torn or the archived caches]
  index,     \* the instance being evaluated
  stage,     \* "begin", "parent", "current", "store parent",
             \* "store current", "failed", "over"
  deaths

chain == <<archives, index, stage, deaths>>
chainVars == <<vars, chain>>

I == Instances[index]
Now == IF stage \in {"parent", "store parent"} THEN I.parent ELSE I.current

ChainInit ==
  /\ Init
  /\ archives = [c \in Commit |-> None]
  /\ index = 1
  /\ stage = IF Instances = <<>> THEN "over" ELSE "begin"
  /\ deaths = 0

(* clear_cache, then load_cache: the history of a lineage travels with it. *)
Cleared == /\ checksums' = None /\ deps' = None
           /\ seen' = [t \in TestFile |-> Never]
           /\ pc' = "idle"

LoadParent ==
  /\ stage = "begin" /\ I.reuse
  /\ archives[I.parent] \notin {None, Torn}
  /\ LET a == archives[I.parent]
     IN  checksums' = a.checksums /\ deps' = a.deps /\ seen' = a.seen
  /\ pc' = "idle" /\ stage' = "current"
  /\ UNCHANGED <<commit, changed, added, removed, memory, toRun, coverage, kills, crashes, archives, index, deaths>>

(* Mutant: the exception is caught and the instance goes on without caches. *)
LoadTornAnyway ==
  /\ stage = "begin" /\ I.reuse
  /\ archives[I.parent] = Torn
  /\ Cleared /\ stage' = "current"
  /\ UNCHANGED <<commit, changed, added, removed, memory, toRun, coverage, kills, crashes, archives, index, deaths>>

(* extractall raises on a torn archive, and nobody catches it. *)
LoadTorn ==
  /\ stage = "begin" /\ I.reuse
  /\ archives[I.parent] = Torn
  /\ Cleared /\ stage' = "failed"
  /\ UNCHANGED <<commit, changed, added, removed, memory, toRun, coverage, kills, crashes, archives, index, deaths>>

StartAtParent ==
  /\ stage = "begin"
  /\ ~I.reuse \/ archives[I.parent] = None
  /\ Cleared /\ stage' = "parent"
  /\ UNCHANGED <<commit, changed, added, removed, memory, toRun, coverage, kills, crashes, archives, index, deaths>>

(* run_tool: git reset --hard, get_tests_to_run, run_and_update. *)
Executed == stage = "parent" \/ I.tests
RunTool ==
  /\ stage \in {"parent", "current"}
  /\ \/ pc = "idle" /\ CompareChecksums(Now)
     \/ SelectTests
     \/ Executed /\ \E t \in TestFile : RunTest(t) \/ KillTest(t)
     \/ Executed /\ DumpDeps
  /\ UNCHANGED chain

AfterParent == stage' = "current" /\ UNCHANGED index

AfterCurrent ==
  \/ index < Len(Instances) /\ index' = index + 1 /\ stage' = "begin"
  \/ index = Len(Instances) /\ UNCHANGED index /\ stage' = "over"

(* store_cache opens the archive for writing, then adds the files. *)
OpenArchive ==
  /\ stage \in {"parent", "current"} /\ pc = "done"
  /\ archives' = [archives EXCEPT ![Now] = Torn]
  /\ stage' = IF stage = "parent" THEN "store parent" ELSE "store current"
  /\ UNCHANGED <<vars, index, deaths>>

(* Mutant: the archive is always named after the current commit. *)
ArchiveAsCurrent ==
  /\ stage \in {"store parent", "store current"}
  /\ archives' = [archives EXCEPT ![I.current] =
                    [checksums |-> checksums, deps |-> deps, seen |-> seen]]
  /\ pc' = "idle"
  /\ \/ stage = "store parent" /\ AfterParent
     \/ stage = "store current" /\ AfterCurrent
  /\ UNCHANGED <<commit, checksums, deps, changed, added, removed, memory, toRun, coverage, seen, kills, crashes, deaths>>

CloseArchive ==
  /\ stage \in {"store parent", "store current"}
  /\ archives' = [archives EXCEPT ![Now] =
                    [checksums |-> checksums, deps |-> deps, seen |-> seen]]
  /\ pc' = "idle"
  /\ \/ stage = "store parent" /\ AfterParent
     \/ stage = "store current" /\ AfterCurrent
  /\ UNCHANGED <<commit, checksums, deps, changed, added, removed, memory, toRun, coverage, seen, kills, crashes, deaths>>

(* With run_current_tests off the selection is all that is wanted. *)
KeepSelection ==
  /\ stage = "current" /\ ~I.tests /\ pc = "run"
  /\ pc' = "idle" /\ changed' = {} /\ added' = {} /\ removed' = {}
  /\ memory' = NoDeps /\ toRun' = {} /\ coverage' = Empty
  /\ AfterCurrent
  /\ UNCHANGED <<commit, checksums, deps, seen, kills, crashes, archives, deaths>>

Die ==
  /\ stage \notin {"over", "failed"} /\ deaths < MaxDeaths
  /\ deaths' = deaths + 1
  /\ stage' = "failed" /\ pc' = "idle"
  /\ changed' = {} /\ added' = {} /\ removed' = {}
  /\ memory' = NoDeps /\ toRun' = {} /\ coverage' = Empty
  /\ UNCHANGED <<commit, checksums, deps, seen, kills, crashes, archives, index>>

(* test_all rotates the archive directory away and starts over; the        *)
(* validation scripts keep it and take up any instance.                    *)
Restart ==
  /\ stage = "failed"
  /\ \/ archives' = [c \in Commit |-> None] /\ index' = 1
     \/ UNCHANGED archives /\ index' \in 1..index
  /\ stage' = "begin"
  /\ UNCHANGED <<vars, deaths>>

ChainNext ==
  \/ LoadParent \/ LoadTorn \/ StartAtParent
  \/ RunTool
  \/ OpenArchive \/ CloseArchive \/ KeepSelection
  \/ Die \/ Restart

ChainSpec == ChainInit /\ [][ChainNext]_chainVars
------------------------------------------------------------------------------
(* An archive stands for its commit, however it came about: it holds the   *)
(* checksums of that tree and a record in which every test is up to date,  *)
(* with the static imports of every file that is there (evaluate.py        *)
(* stores the caches only after run_and_update).                           *)
ArchiveStandsForCommit ==
  \A c \in Commit : archives[c] \notin {None, Torn} =>
    LET a == archives[c]
    IN  /\ a.checksums.py = Tree[c]
        /\ Present(c) \subseteq DOMAIN a.deps.raw
        /\ \A t \in TestsAt(c) :
             a.seen[t] = Killed \/ (a.seen[t] \in Commit /\ Behaviour(a.seen[t], t) = Behaviour(c, t))

(* A patch is judged against its own parent: when the tool has compared    *)
(* the checksums of the current commit, what it calls changed is exactly   *)
(* what differs in bytecode from the parent, whatever died before.         *)
JudgedAgainstParent ==
  stage = "current" /\ pc \in {"load", "run"} =>
    changed = {f \in Present(I.parent) \cup Present(I.current) :
                 Code(I.parent, f) # Code(I.current, f)}
=============================================================================
