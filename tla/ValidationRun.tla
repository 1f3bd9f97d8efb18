---------------------------- MODULE ValidationRun ----------------------------
(***************************************************************************)
(* The validation scripts measure, for one patch of the data set, which    *)
(* test files enter a function it changes (the ground truth), let NameRTS  *)
(* select tests for the same patch, and compare.  Both happen in one git   *)
(* checkout that a command resets, patches and probes, and leave their     *)
(* answers in JSON files that later commands and later processes read.     *)
(* This module is one such command; ValidationDrivers has the batches that *)
(* call it.  "sklearn" is the script that came first: its commands have no *)
(* try/finally of their own.                                               *)
(***************************************************************************)
EXTENDS Naturals, Sequences, FiniteSets

CONSTANTS
  Instance,     \* the patches; the base commit of a patch goes by its name
  TestFile,
  Enters,       \* [Instance -> SUBSET TestFile]: enter a changed function
  Fails,        \* [Instance -> SUBSET TestFile]: fail under the patch
  Selects,      \* [Instance -> SUBSET TestFile]: what NameRTS selects
  Creates,      \* the patches that add a file
  None, Torn,   \* absent; a file whose writing was interrupted
  Edited,       \* tracked changes made by somebody else
  Drivers,      \* the scripts considered
  MaxTroubles   \* bound: deaths, failures, timeouts and edits in all

ASSUME WorldAssumption ==
  /\ IsFiniteSet(TestFile) /\ Drivers \subseteq {"python39", "sklearn", "django", "final"}
  /\ Enters \in [Instance -> SUBSET TestFile]
  /\ Fails \in [Instance -> SUBSET TestFile]
  /\ Selects \in [Instance -> SUBSET TestFile]
  /\ Creates \subseteq Instance
  /\ {None, Torn, Edited} \cap Instance = {} /\ None # Torn /\ None # Edited

VARIABLES
  driver,       \* the script in use
  tree,         \* the checkout
  truths,       \* the ground-truth file: Torn, or a record or None of each
  stored,       \* test_results.json of the run behind each record
  comparisons,  \* the latest comparison file of each instance
  job,          \* the command under way
  troubles

files == <<truths, stored, comparisons>>
runVars == <<driver, tree, files, job, troubles>>

(* change: what git status shows of tracked files; extra: the patches whose *)
(* new files lie about, untracked, which git reset --hard leaves alone.     *)
Tree == [head : Instance, change : Instance \cup {None, Edited},
         probed : BOOLEAN, extra : SUBSET Instance]
Result == [hit : BOOLEAN, late : BOOLEAN]
Record == [all : SUBSET TestFile, hits : SUBSET TestFile,
           passing : SUBSET TestFile, run : SUBSET TestFile,
           excluded : SUBSET TestFile, failed : SUBSET TestFile, late : SUBSET TestFile]
Comparison == [parent : Tree, current : Tree]
ASSUME MarksAreNoData ==
  /\ {None, Torn} \cap (Record \cup Comparison \cup [TestFile -> Result]) = {}
  /\ Torn \notin [Instance -> {None} \cup Record]
Outcome == {"ok", "missing", "error"}

NoJob == [kind |-> "none", inst |-> None, pc |-> "none", ran |-> None,
          expected |-> {}, parent |-> None, outcome |-> "ok"]
Begin(kind, i) == [NoJob EXCEPT !.kind = kind, !.inst = i, !.pc = "begin"]
Patch == job.inst

RunInit ==
  /\ driver \in Drivers
  /\ \E i \in Instance : tree = [head |-> i, change |-> None, probed |-> FALSE, extra |-> {}]
  /\ truths = [i \in Instance |-> None]
  /\ stored = [i \in Instance |-> None]
  /\ comparisons = [i \in Instance |-> None]
  /\ job = NoJob
  /\ troubles = 0

---------------------------------------------------------------------------
(* The checkout *)

(* git reset --hard *)
ResetTo(i) == [head |-> i, change |-> None, probed |-> FALSE, extra |-> tree.extra]

(* Mutant: the patch is applied whatever --check says. *)
PatchForced(i) == TRUE

(* git apply --check: a file to be created must not exist. *)
PatchApplies(i) == i \notin tree.extra
Patched(i, probes) ==
  [head |-> i, change |-> i, probed |-> probes,
   extra |-> tree.extra \cup ({i} \cap Creates)]

(* The checkout as far as patch i is concerned. *)
SeenBy(i, checkout) == [checkout EXCEPT !.extra = @ \cap {i}]

(* A probed run of a test file writes a marker for a changed function. *)
Entered == IF tree.probed THEN Enters[tree.change] ELSE {}

---------------------------------------------------------------------------
(* Entry, errors and exit of a command *)

HasRecord(i) == truths # Torn /\ truths[i] # None

(* Mutant: the checkout is not asserted to be clean. *)
AdmittedAnyway == job.kind = "namerts" => HasRecord(Patch)

(* One record for the patch, and no tracked changes; sklearn selects in any *)
(* checkout.                                                                *)
Admitted ==
  /\ job.kind = "namerts" => HasRecord(Patch)
  /\ tree.change = None \/ (driver = "sklearn" /\ job.kind = "namerts")

(* The selection of sklearn starts from the checkout as it is. *)
Open ==
  /\ job.pc = "begin" /\ Admitted
  /\ tree' = IF driver = "sklearn" /\ job.kind = "namerts" THEN tree ELSE ResetTo(Patch)
  /\ job' = [job EXCEPT !.pc = "ready",
               !.expected = IF job.kind = "namerts" THEN truths[Patch].run ELSE {}]
  /\ UNCHANGED <<driver, files, troubles>>

(* Both refusals come before the try: the checkout is not touched. *)
Refuse ==
  /\ job.pc = "begin" /\ ~Admitted
  /\ job' = [job EXCEPT !.pc = "returned", !.outcome = "error"]
  /\ UNCHANGED <<driver, tree, files, troubles>>

(* Mutant: what the command had gathered outlives it. *)
ThrownAsIs == [job EXCEPT !.pc = "cleanup", !.outcome = "error"]

(* An exception in the body goes through finally, where there is one. *)
Thrown ==
  [job EXCEPT !.ran = None, !.parent = None, !.expected = {}, !.outcome = "error",
              !.pc = IF driver = "sklearn" THEN "returned" ELSE "cleanup"]

(* The install, the build, a selection run or a subprocess fails. *)
Raise ==
  /\ job.pc \in {"ready", "tests", "current"} /\ troubles < MaxTroubles
  /\ troubles' = troubles + 1
  /\ job' = Thrown
  /\ UNCHANGED <<driver, tree, files>>

Cleanup ==
  /\ job.pc = "cleanup"
  /\ tree' = ResetTo(Patch)
  /\ job' = [job EXCEPT !.pc = "returned"]
  /\ UNCHANGED <<driver, files, troubles>>

---------------------------------------------------------------------------
(* ground-truth *)

ApplyAndProbe ==
  /\ job.kind = "truth" /\ job.pc = "ready"
  /\ IF PatchApplies(Patch)
     THEN tree' = Patched(Patch, TRUE) /\ job' = [job EXCEPT !.pc = "tests"]
     ELSE UNCHANGED tree /\ job' = Thrown
  /\ UNCHANGED <<driver, files, troubles>>

(* Each test file runs in a process of its own, which is killed with its    *)
(* group when its time is up; what it had entered by then is on file.  The  *)
(* pool that runs them is one step: they share nothing but the checkout.    *)
RunTests ==
  /\ job.kind = "truth" /\ job.pc = "tests"
  /\ \E late \in SUBSET TestFile :
       /\ troubles + Cardinality(late) <= MaxTroubles
       /\ troubles' = troubles + Cardinality(late)
       /\ \E cut \in SUBSET (late \cap Entered) :
            job' = [job EXCEPT !.pc = "record",
                      !.ran = [t \in TestFile |-> [hit |-> t \in Entered \ cut, late |-> t \in late]]]
  /\ UNCHANGED <<driver, tree, files>>

Hit(ran) == {t \in TestFile : ran[t].hit}
Late(ran) == {t \in TestFile : ran[t].late}
Failing(i, ran) == Fails[i] \ Late(ran)
PassingHits(i, ran) == Hit(ran) \ (Failing(i, ran) \cup Late(ran))

(* Mutant: only the hits of passing test files are put on record. *)
PassingRecord(i, ran) ==
  LET hits == PassingHits(i, ran)
  IN  [all |-> hits, hits |-> hits, passing |-> hits, run |-> hits,
       excluded |-> {}, failed |-> Failing(i, ran), late |-> Late(ran)]

NewRecord(i, ran) ==
  [all |-> Hit(ran), hits |-> Hit(ran), passing |-> PassingHits(i, ran),
   run |-> Hit(ran), excluded |-> {}, failed |-> Failing(i, ran), late |-> Late(ran)]

(* update_json_records reads the file, replaces one record, writes it; the  *)
(* results of the new run directory are written after the record.           *)
UpdateRecords ==
  /\ job.pc = "record"
  /\ IF truths = Torn
     THEN job' = Thrown /\ UNCHANGED <<truths, stored>>
     ELSE /\ truths' = [truths EXCEPT ![Patch] = NewRecord(Patch, job.ran)]
          /\ stored' = [stored EXCEPT ![Patch] = None]
          /\ job' = [job EXCEPT !.pc = "store"]
  /\ UNCHANGED <<driver, tree, comparisons, troubles>>

StoreResults ==
  /\ job.pc = "store"
  /\ stored' = [stored EXCEPT ![Patch] = job.ran]
  /\ job' = [job EXCEPT !.pc = "cleanup", !.ran = None]
  /\ UNCHANGED <<driver, tree, truths, comparisons, troubles>>

---------------------------------------------------------------------------
(* namerts: evaluate_instance on the base commit, then on the patch *)

RunParent ==
  /\ job.kind = "namerts" /\ job.pc = "ready"
  /\ tree' = ResetTo(Patch)
  /\ job' = [job EXCEPT !.pc = "current", !.parent = SeenBy(Patch, tree')]
  /\ UNCHANGED <<driver, files, troubles>>

SelectOnPatch ==
  /\ job.kind = "namerts" /\ job.pc = "current"
  /\ IF PatchApplies(Patch)
     THEN tree' = Patched(Patch, FALSE) /\ job' = [job EXCEPT !.pc = "compare"]
     ELSE tree' = ResetTo(Patch) /\ job' = Thrown
  /\ UNCHANGED <<driver, files, troubles>>

Compare ==
  /\ job.pc = "compare"
  /\ comparisons' = [comparisons EXCEPT ![Patch] =
        [parent |-> job.parent, current |-> SeenBy(Patch, tree)]]
  /\ job' = [job EXCEPT !.pc = "cleanup", !.parent = None, !.expected = {},
               !.outcome = IF job.expected \subseteq Selects[Patch] THEN "ok" ELSE "missing"]
  /\ UNCHANGED <<driver, tree, truths, stored, troubles>>

---------------------------------------------------------------------------
(* smoke: install the base commit and collect one test file *)

Smoke ==
  /\ job.kind = "smoke" /\ job.pc = "ready"
  /\ \E outcome \in {"ok", "missing"} :
       job' = [job EXCEPT !.pc = "cleanup", !.outcome = outcome]
  /\ UNCHANGED <<driver, tree, files, troubles>>

JobStep ==
  \/ Open \/ Refuse \/ Raise \/ Cleanup
  \/ ApplyAndProbe \/ RunTests \/ UpdateRecords \/ StoreResults
  \/ RunParent \/ SelectOnPatch \/ Compare
  \/ Smoke

(* The process is killed; the file it is writing may be left half written. *)
KillJob ==
  /\ troubles < MaxTroubles /\ troubles' = troubles + 1
  /\ job' = NoJob
  /\ truths' \in IF job.pc = "record" THEN {truths, Torn} ELSE {truths}
  /\ stored' \in IF job.pc = "store" THEN {stored, [stored EXCEPT ![Patch] = Torn]} ELSE {stored}
  /\ comparisons' \in IF job.pc = "compare"
                      THEN {comparisons, [comparisons EXCEPT ![Patch] = Torn]} ELSE {comparisons}
  /\ UNCHANGED <<driver, tree>>
=============================================================================
