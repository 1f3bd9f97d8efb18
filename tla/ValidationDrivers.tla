-------------------------- MODULE ValidationDrivers --------------------------
(***************************************************************************)
(* The batches of the four validation scripts over the commands of         *)
(* ValidationRun, and the commands a person runs between two batches:      *)
(* python39 and sklearn resume from the result files they find, django     *)
(* goes by its status file, and final runs one stage over all instances,   *)
(* each in a child process.  A batch runs the patches of one project in    *)
(* order; a project has a checkout and result files of its own.            *)
(***************************************************************************)
EXTENDS ValidationRun

CONSTANTS
  Order,        \* the instances as the subset file lists them
  Options,      \* the command lines of a batch that are considered
  ReviewFiles,  \* the semantic reviews considered, [Instance -> None or Review]
  ByHand        \* the commands that are also run on their own

Phase == {"all", "truth", "namerts", "smoke"}
Option == [only : {"both", "truth", "namerts", "smoke"},
           force : BOOLEAN, skip : BOOLEAN, goon : BOOLEAN]
Review == [keep : {None} \cup SUBSET TestFile, exclude : SUBSET TestFile,
           include : SUBSET TestFile]

ASSUME DriversAssumption ==
  /\ Order \in Seq(Instance)
  /\ {Order[k] : k \in 1..Len(Order)} = Instance /\ Len(Order) = Cardinality(Instance)
  /\ Options \subseteq Option /\ ByHand \subseteq {"truth", "namerts", "smoke"}
  /\ ReviewFiles \subseteq [Instance -> {None} \cup Review]

VARIABLES
  status,   \* the status file: Torn, or [Instance -> [Phase -> word]]
  batch     \* the batch process

batchVars == <<runVars, status, batch>>

Word == {"", "completed", "skipped_completed", "failed",
         "complete", "comparison_missing", "error"}
ASSUME TornIsNoStatus == Torn \notin [Instance -> [Phase -> Word]]
NoStatus == [i \in Instance |-> [p \in Phase |-> ""]]
NoBatch == [pc |-> "off", index |-> 1, phase |-> "all", done |-> {},
            only |-> "both", force |-> FALSE, skip |-> FALSE, goon |-> FALSE]
With(o) == [NoBatch EXCEPT !.pc = "next", !.only = o.only, !.force = o.force,
                           !.skip = o.skip, !.goon = o.goon]
Now == Order[batch.index]

BatchInit ==
  /\ RunInit
  /\ status = NoStatus /\ batch = NoBatch

Quiet == batch.pc = "off" /\ job = NoJob

---------------------------------------------------------------------------
(* python39.command_batch_project and sklearn.batch *)

Resuming == driver \in {"python39", "sklearn"}

(* A torn file of records or of status stops the batch before it starts. *)
StartResuming(o) ==
  /\ Resuming /\ Quiet /\ o.only # "smoke" /\ truths # Torn /\ status # Torn
  /\ batch' = [With(o) EXCEPT !.done = {i \in Instance : truths[i] # None}]
  /\ UNCHANGED <<runVars, status>>

InLoop == batch.pc = "next" /\ batch.index <= Len(Order)
Returned == batch.pc = "called" /\ job.pc = "returned"
Kept == <<driver, files, troubles>>

(* Mutant: the status an earlier batch wrote is believed. *)
NeedTruthByStatus ==
  /\ batch.only # "namerts"
  /\ batch.force \/ status[Now]["all"] \notin {"completed", "skipped_completed"}
NeedTruth == batch.only # "namerts" /\ (batch.force \/ Now \notin batch.done)

(* Mutant: an instance that failed is not tried again. *)
NeedNamesByStatus == batch.only # "truth" /\ (batch.force \/ status[Now]["all"] = "")
NeedNames == batch.only # "truth" /\ (batch.force \/ comparisons[Now] = None)

Note(phase, word) == status' = [status EXCEPT ![Now][phase] = word]
NextInstance == [batch EXCEPT !.pc = "next", !.index = @ + 1]

(* Without --continue-on-error the exception ends the batch. *)
Failed ==
  /\ Note("all", "failed")
  /\ batch' = IF batch.goon THEN NextInstance ELSE NoBatch

(* sklearn resets in the finally of its loop, also after its own refusal. *)
Finally == tree' = IF driver = "sklearn" THEN ResetTo(Now) ELSE tree

SkipCompleted ==
  /\ InLoop /\ ~NeedTruth /\ ~NeedNames
  /\ Note("all", "skipped_completed") /\ batch' = NextInstance
  /\ UNCHANGED <<Kept, tree, job>>

(* python39 goes straight to the first command the instance needs; sklearn *)
(* first asserts a clean tree and rebuilds the extensions of the base.     *)
CallFirst ==
  /\ InLoop /\ (NeedTruth \/ NeedNames)
  /\ driver = "sklearn" => tree.change = None
  /\ tree' = IF driver = "sklearn" THEN ResetTo(Now) ELSE tree
  /\ job' = Begin(IF NeedTruth THEN "truth" ELSE "namerts", Now)
  /\ batch' = [batch EXCEPT !.pc = "called"]
  /\ UNCHANGED <<Kept, status>>

RefuseInTry ==
  /\ InLoop /\ (NeedTruth \/ NeedNames)
  /\ driver = "sklearn" /\ tree.change # None
  /\ Failed /\ Finally
  /\ UNCHANGED <<Kept, job>>

CallSecond ==
  /\ Returned /\ job.kind = "truth" /\ job.outcome # "error" /\ NeedNames
  /\ job' = Begin("namerts", Now)
  /\ batch' = [batch EXCEPT !.done = @ \cup {Now}]
  /\ UNCHANGED <<Kept, tree, status>>

FinishInstance ==
  /\ Returned /\ job' = NoJob /\ Finally
  /\ \/ job.outcome = "error" /\ Failed
     \/ /\ job.outcome # "error" /\ (job.kind = "truth" => ~NeedNames)
        /\ Note("all", "completed") /\ batch' = NextInstance
  /\ UNCHANGED Kept

FinishBatch ==
  /\ batch.pc = "next" /\ batch.index > Len(Order)
  /\ batch' = NoBatch
  /\ UNCHANGED <<runVars, status>>

ResumingStep ==
  /\ Resuming /\ batch.only # "smoke"
  /\ SkipCompleted \/ CallFirst \/ RefuseInTry \/ CallSecond \/ FinishInstance \/ FinishBatch

---------------------------------------------------------------------------
(* Reviews: what a person decided about the hits of an instance *)

Excluded(hits, review) ==
  IF review.keep # None THEN hits \ review.keep ELSE hits \cap review.exclude

(* Mutant: only what is still to run can be excluded. *)
ReviewedAgain(record, review) ==
  LET excluded == Excluded(record.run, review)
  IN  [record EXCEPT !.excluded = excluded,
                     !.run = (@ \ excluded) \cup (record.hits \cap review.include)]

(* python39 takes exclusions from what the record lists so far, the others  *)
(* from its hits.                                                           *)
Reviewed(record, review) ==
  LET excluded == Excluded(record.hits, review)
      base == IF driver = "python39" THEN record.run ELSE record.hits
  IN  [record EXCEPT !.excluded = excluded,
                     !.run = (base \ excluded) \cup (record.hits \cap review.include)]

(* Where a review file says nothing of a record the other scripts leave it; *)
(* sklearn takes back what an earlier file decided.                         *)
NoDecision == [keep |-> None, exclude |-> {}, include |-> {}]
Decision(review) == IF review = None /\ driver = "sklearn" THEN NoDecision ELSE review

ReviewedTruths(reviews) ==
  [i \in Instance |->
     LET review == Decision(reviews[i])
     IN  IF truths[i] # None /\ review # None THEN Reviewed(truths[i], review) ELSE truths[i]]

---------------------------------------------------------------------------
(* django.command_batch: ground truth of all, reviews, then namerts of all *)

StartPhases(o) ==
  /\ driver = "django" /\ Quiet /\ o.only = "both" /\ status # Torn
  /\ batch' = [With(o) EXCEPT !.phase = "truth"]
  /\ UNCHANGED <<runVars, status>>

SkipPhase ==
  /\ InLoop /\ batch.skip /\ status[Now][batch.phase] = "complete"
  /\ batch' = NextInstance
  /\ UNCHANGED <<runVars, status>>

CallPhase ==
  /\ InLoop /\ ~(batch.skip /\ status[Now][batch.phase] = "complete")
  /\ job' = Begin(batch.phase, Now)
  /\ batch' = [batch EXCEPT !.pc = "called"]
  /\ UNCHANGED <<Kept, tree, status>>

FinishPhase ==
  /\ Returned /\ job' = NoJob
  /\ Note(batch.phase, CASE job.outcome = "ok" -> "complete"
                         [] job.outcome = "missing" -> "comparison_missing"
                         [] job.outcome = "error" -> "error")
  /\ batch' = IF job.outcome = "error" /\ ~batch.goon THEN NoBatch ELSE NextInstance
  /\ UNCHANGED <<Kept, tree>>

(* The reviews cannot be applied to a torn file: the batch ends there. *)
ReviewBetween ==
  /\ batch.pc = "next" /\ batch.index > Len(Order) /\ batch.phase = "truth"
  /\ IF truths = Torn
     THEN batch' = NoBatch /\ UNCHANGED truths
     ELSE /\ \E reviews \in ReviewFiles : truths' = ReviewedTruths(reviews)
          /\ batch' = [batch EXCEPT !.phase = "namerts", !.index = 1]
  /\ UNCHANGED <<driver, tree, stored, comparisons, job, troubles,
                 status>>

PhaseStep ==
  /\ driver = "django"
  /\ \/ SkipPhase \/ CallPhase \/ FinishPhase \/ ReviewBetween
     \/ batch.phase = "namerts" /\ FinishBatch

---------------------------------------------------------------------------
(* final.command_batch_stage and python39.command_smoke_project *)

StartStage(o) ==
  /\ Quiet /\ o.only # "both"
  /\ driver = "final" \/ (driver = "python39" /\ o.only = "smoke")
  /\ batch' = [With(o) EXCEPT !.phase = o.only]
  /\ UNCHANGED <<runVars, status>>

CallStage ==
  /\ InLoop /\ job' = Begin(batch.phase, Now)
  /\ batch' = [batch EXCEPT !.pc = "called"]
  /\ UNCHANGED <<Kept, tree, status>>

(* final stops at any nonzero exit, smoke_project at an exception. *)
FinishStage ==
  /\ Returned /\ job' = NoJob
  /\ LET stops == IF driver = "final" THEN {"missing", "error"} ELSE {"error"}
     IN  batch' = IF job.outcome \in stops /\ ~batch.goon THEN NoBatch ELSE NextInstance
  /\ UNCHANGED <<Kept, tree, status>>

StageStep ==
  /\ driver = "final" \/ (driver = "python39" /\ batch.only = "smoke")
  /\ CallStage \/ FinishStage \/ FinishBatch

---------------------------------------------------------------------------
(* What a person runs or does between two batches *)

Command(kind, i) ==
  /\ Quiet /\ (kind = "smoke" => driver # "sklearn")
  /\ job' = Begin(kind, i)
  /\ UNCHANGED <<driver, tree, files, troubles, status, batch>>

Exit ==
  /\ batch.pc = "off" /\ job.pc = "returned"
  /\ job' = NoJob
  /\ UNCHANGED <<driver, tree, files, troubles, status, batch>>

Rewrite(records) ==
  /\ Quiet /\ truths # Torn /\ truths' = records
  /\ UNCHANGED <<driver, tree, stored, comparisons, job, troubles,
                 status, batch>>

(* sklearn raises when a reviewed test is not a hit of a known record. *)
ApplyReviews ==
  /\ driver # "final"
  /\ \E reviews \in ReviewFiles :
       /\ driver = "sklearn" => \A i \in Instance : reviews[i] # None =>
            HasRecord(i) /\ reviews[i].exclude \subseteq truths[i].hits
       /\ Rewrite(ReviewedTruths(reviews))

(* "exclude nonzero test files while retaining all-hit diagnostics": one    *)
(* record without readable results stops the command for all.               *)
RefinedRecord(i) ==
  LET passing == PassingHits(i, stored[i])
  IN  [truths[i] EXCEPT !.all = Hit(stored[i]), !.hits = passing, !.run = passing]
Refine ==
  /\ driver = "python39" /\ truths # Torn
  /\ \A i \in Instance : truths[i] # None => stored[i] \notin {None, Torn}
  /\ Rewrite([i \in Instance |-> IF truths[i] = None THEN None ELSE RefinedRecord(i)])

Normalize ==
  /\ driver = "final" /\ truths # Torn
  /\ Rewrite([i \in Instance |->
        IF truths[i] = None THEN None
        ELSE [truths[i] EXCEPT !.hits = truths[i].all, !.run = truths[i].all]])

---------------------------------------------------------------------------
(* The summary *)

(* It is written when every file it reads parses and, but for final, every  *)
(* record has its comparison.                                               *)
CanSummarize ==
  /\ Quiet /\ truths # Torn
  /\ \A i \in Instance :
       IF driver = "final" THEN comparisons[i] # Torn
       ELSE truths[i] # None => comparisons[i] \notin {None, Torn}

(* What an entry names and what it only counts.  The exclusions of sklearn  *)
(* are those of its semantic_reviews; measured is that final writes a       *)
(* number of passed test files and not null.                                *)
Entry ==
  CASE driver \in {"python39", "sklearn"} ->
         [hits : SUBSET TestFile, excluded : SUBSET TestFile, truth : SUBSET TestFile,
          selected : SUBSET TestFile, missing : SUBSET TestFile,
          failed : SUBSET TestFile, late : SUBSET TestFile]
    [] driver = "django" ->
         [hits : SUBSET TestFile, excluded : SUBSET TestFile, truth : SUBSET TestFile,
          selected : SUBSET TestFile, missing : SUBSET TestFile, failed : Nat, late : Nat]
    [] driver = "final" ->
         [measured : BOOLEAN, hits : Nat, truth : Nat, selected : Nat, failed : Nat,
          late : Nat, missing : SUBSET TestFile, rawMissing : SUBSET TestFile]

Written(record, selected) ==
  [hits |-> record.hits, excluded |-> record.excluded, truth |-> record.run,
   selected |-> selected, missing |-> record.run \ selected,
   failed |-> record.failed, late |-> record.late]

(* django counts the test files that failed or were cut off. *)
WithCounts(entry) ==
  [entry EXCEPT !.failed = Cardinality(@), !.late = Cardinality(@)]

(* final reports an instance without a record as having no tests, one       *)
(* without a comparison as selecting none.                                  *)
NoTests == [hits |-> {}, run |-> {}, failed |-> {}, late |-> {}]
Counted(measured, record, selected) ==
  [measured |-> measured, hits |-> Cardinality(record.hits), truth |-> Cardinality(record.run),
   selected |-> Cardinality(selected), failed |-> Cardinality(record.failed),
   late |-> Cardinality(record.late),
   missing |-> record.run \ selected, rawMissing |-> record.hits \ selected]

Summarized(i) ==
  CASE driver \in {"python39", "sklearn"} -> Written(truths[i], Selects[i])
    [] driver = "django" -> WithCounts(Written(truths[i], Selects[i]))
    [] driver = "final" -> Counted(truths[i] # None,
                                   IF truths[i] = None THEN NoTests ELSE truths[i],
                                   IF comparisons[i] = None THEN {} ELSE Selects[i])

(* final has an entry for every instance, the others for every record. *)
Summary ==
  [i \in {j \in Instance : driver = "final" \/ truths[j] # None} |-> Summarized(i)]

---------------------------------------------------------------------------
(* The person and the files *)

(* Somebody edits a tracked file of the checkout. *)
Edit ==
  /\ Quiet /\ troubles < MaxTroubles /\ troubles' = troubles + 1
  /\ tree.change = None /\ tree' = [tree EXCEPT !.change = Edited]
  /\ UNCHANGED <<driver, files, job, status, batch>>

(* git reset and git clean by hand. *)
CleanUp ==
  /\ Quiet
  /\ tree' = [tree EXCEPT !.change = None, !.probed = FALSE, !.extra = {}]
  /\ UNCHANGED <<driver, files, job, troubles, status, batch>>

(* A file that does not parse is deleted. *)
RemoveTorn ==
  /\ Quiet
  /\ truths' = IF truths = Torn THEN [i \in Instance |-> None] ELSE truths
  /\ status' = IF status = Torn THEN NoStatus ELSE status
  /\ comparisons' = [i \in Instance |-> IF comparisons[i] = Torn THEN None ELSE comparisons[i]]
  /\ UNCHANGED <<driver, tree, stored, job, troubles, batch>>

Start == \E o \in Options : StartResuming(o) \/ StartPhases(o) \/ StartStage(o)
Person ==
  \/ Start \/ ApplyReviews \/ Refine \/ Normalize
  \/ Edit \/ CleanUp \/ RemoveTorn
  \/ \E kind \in ByHand, i \in Instance : Command(kind, i)

---------------------------------------------------------------------------
(* Processes and their deaths *)

Working == JobStep /\ UNCHANGED <<status, batch>>

(* The process dies; it may have been writing the status file. *)
Kill ==
  /\ ~Quiet /\ KillJob
  /\ batch' = NoBatch
  /\ status' \in IF batch.pc # "off" /\ job.pc \in {"none", "returned"} /\ driver # "final"
                 THEN {status, Torn} ELSE {status}

(* final runs each command in a child, which outlives the batch. *)
Orphan ==
  /\ driver = "final" /\ batch.pc = "called"
  /\ troubles < MaxTroubles /\ troubles' = troubles + 1
  /\ batch' = NoBatch
  /\ UNCHANGED <<driver, tree, files, job, status>>

Process == Working \/ Exit \/ ResumingStep \/ PhaseStep \/ StageStep
Next == Process \/ Person \/ Kill \/ Orphan

Spec == BatchInit /\ [][Next]_batchVars

(* A batch is restarted until it has nothing left to do, and what blocks it *)
(* is cleared away by hand.                                                 *)
Persistence ==
  /\ WF_batchVars(Process)
  /\ SF_batchVars(Start) /\ SF_batchVars(CleanUp) /\ SF_batchVars(RemoveTorn)
FairSpec == Spec /\ Persistence

---------------------------------------------------------------------------
(* Properties *)

(* Every file the scripts read back has the form they expect, or is torn.   *)
DriversTypeOK ==
  /\ driver \in Drivers /\ tree \in Tree
  /\ truths = Torn \/ truths \in [Instance -> {None} \cup Record]
  /\ \A i \in Instance :
       /\ stored[i] \in {None, Torn} \/ stored[i] \in [TestFile -> Result]
       /\ comparisons[i] \in {None, Torn} \/ comparisons[i] \in Comparison
  /\ CanSummarize => \A i \in DOMAIN Summary : Summary[i] \in Entry
  /\ job.inst \in {None} \cup Instance /\ job.outcome \in Outcome
  /\ IF job.pc \in {"record", "store"} THEN job.ran \in [TestFile -> Result] ELSE job.ran = None
  /\ IF job.pc \in {"current", "compare"} THEN job.parent \in Tree ELSE job.parent = None
  /\ status = Torn \/ status \in [Instance -> [Phase -> Word]]
  /\ batch.index \in 1..(Len(Order) + 1) /\ batch.done \subseteq Instance

(* Ground truth: whatever killed processes, failed installs, resets and     *)
(* restarts went before, a record that can be read lists exactly the test   *)
(* files that enter a function its own patch changes, but for those whose   *)
(* run was cut off by the timeout, which the record names.                  *)
TruthMeasured ==
  truths # Torn => \A i \in Instance : truths[i] # None =>
    /\ truths[i].all \subseteq Enters[i]
    /\ Enters[i] \ truths[i].all \subseteq truths[i].late
    /\ truths[i].run \subseteq truths[i].all

(* Comparison: NameRTS built its data on the bare base commit and selected  *)
(* on that commit with the patch and nothing else: no probes of the ground  *)
(* truth, no edits of somebody, no file the same patch had created before.  *)
ComparedFairly ==
  \A i \in Instance : comparisons[i] \notin {None, Torn} =>
    LET c == comparisons[i]
    IN  /\ c.parent.head = i /\ c.parent.change = None /\ ~c.parent.probed
        /\ i \notin c.parent.extra
        /\ c.current.head = i /\ c.current.change = i /\ ~c.current.probed

(* assert_clean_tracked_worktree, "Refusing to reset a worktree with        *)
(* tracked changes": no process of a script throws away what a person has   *)
(* changed in the checkout, be it a command, a batch or a cleanup.          *)
NeverDiscards ==
  [][Process /\ tree.change = Edited => tree'.change = Edited]_batchVars

(* The hits that some review excludes, if it is not the one whose           *)
(* exclusions the entry lists.  python39 takes them off tests_to_run for    *)
(* good, and another review then puts its own exclusions in their place.    *)
Overruled(i, entry) ==
  UNION {Excluded(entry.hits, reviews[i]) :
           reviews \in {r \in ReviewFiles :
             r[i] # None /\ Excluded(entry.hits, r[i]) # entry.excluded}}

(* Summary: a test file that enters a changed function and is not selected  *)
(* is listed as missing, or the entry says why it is not, in whatever order *)
(* measurements, comparisons, reviews and refinements were made.  python39  *)
(* names it as failed, cut off or excluded, or as a hit that another review *)
(* excluded; django names it as excluded or has it among the number of      *)
(* those cut off; with final there is only that number.                     *)
SummaryAccounts ==
  CanSummarize => \A i \in DOMAIN Summary :
    LET entry == Summary[i]
        unlisted == Enters[i] \ (Selects[i] \cup entry.missing)
    IN  CASE driver \in {"python39", "sklearn"} ->
               unlisted \subseteq entry.failed \cup entry.late \cup entry.excluded
                                  \cup (IF driver = "python39" THEN Overruled(i, entry) ELSE {})
          [] driver = "django" -> Cardinality(unlisted \ entry.excluded) <= entry.late
          [] driver = "final" -> entry.measured => Cardinality(unlisted) <= entry.late

(* Status: when a batch notes an instance as done, the files it was to have *)
(* produced are there, also when an earlier batch made them.                *)
DoneIsBacked ==
  [][status # Torn /\ status' # Torn => \A i \in Instance :
       /\ status'[i]["all"] # status[i]["all"]
       /\ status'[i]["all"] \in {"completed", "skipped_completed"}
       => /\ batch.only # "namerts" => HasRecord(i)
          /\ batch.only # "truth" => comparisons[i] # None]_batchVars

(* Resuming: however often processes die or fail and tests time out, a      *)
(* batch that is started again and again with --continue-on-error ends up   *)
(* with a record and a readable comparison of every instance.               *)
Delivers ==
  <>[](\A i \in Instance : truths # Torn /\ HasRecord(i) /\ comparisons[i] \notin {None, Torn})
=============================================================================
