----------------------- MODULE ValidationDrivers_proofs -----------------------
(***************************************************************************)
(* Proofs about the validation scripts, for every set of patches, every    *)
(* script, every sequence of batches, commands, reviews and edits, and any *)
(* number of failures, timeouts and deaths.                                *)
(***************************************************************************)
EXTENDS ValidationDrivers, FiniteSetTheorems, TLAPS

Kinds == {"none", "truth", "namerts", "smoke"}
Steps == {"none", "begin", "ready", "tests", "record", "store", "current",
          "compare", "cleanup", "returned"}
Job == [kind : Kinds, inst : Instance \cup {None}, pc : Steps,
        ran : {None} \cup [TestFile -> Result], expected : SUBSET TestFile,
        parent : {None} \cup Tree, outcome : Outcome]
Batch == [pc : {"off", "next", "called"}, index : 1..(Len(Order) + 1), phase : Phase,
          done : SUBSET Instance, only : {"both", "truth", "namerts", "smoke"},
          force : BOOLEAN, skip : BOOLEAN, goon : BOOLEAN]

(* The variables have their types; a file that parses has its form.        *)
TypeInv ==
  /\ driver \in Drivers /\ tree \in Tree
  /\ truths # Torn => truths \in [Instance -> {None} \cup Record]
  /\ stored \in [Instance -> {None, Torn} \cup [TestFile -> Result]]
  /\ comparisons \in [Instance -> {None, Torn} \cup Comparison]
  /\ job \in Job
  /\ status # Torn => status \in [Instance -> [Phase -> Word]]
  /\ batch \in Batch

(* The batches that write the status file. *)
Noting == driver = "django" \/ (Resuming /\ batch.only # "smoke")

(* Who is at work: a command has its patch, what it holds belongs to its    *)
(* step, and a batch waits for the command it has called for this instance. *)
ControlInv ==
  /\ job.pc = "none" => job = NoJob
  /\ job.pc # "none" => job.inst \in Instance /\ job.kind # "none"
  /\ IF job.pc \in {"record", "store"} THEN job.ran \in [TestFile -> Result] ELSE job.ran = None
  /\ IF job.pc \in {"current", "compare"} THEN job.parent \in Tree ELSE job.parent = None
  /\ batch.pc = "next" => job = NoJob
  /\ batch.pc = "called" => /\ batch.index <= Len(Order) /\ job.pc # "none"
                            /\ job.inst = Now
  /\ batch.pc # "off" /\ Noting => status # Torn
  /\ batch.pc # "off" /\ (driver \in {"django", "final"} \/ batch.only = "smoke") =>
       batch.phase # "all"

(* The checkout at each step of the command under way. *)
TreeInv ==
  /\ job.pc \in {"tests", "record", "store", "compare"} =>
       tree.head = job.inst /\ tree.change = job.inst
  /\ job.pc \in {"tests", "record", "store"} => job.kind = "truth"
  /\ job.pc = "tests" => tree.probed
  /\ job.pc \in {"current", "compare"} =>
       /\ job.kind = "namerts"
       /\ job.parent.head = job.inst /\ job.parent.change = None /\ ~job.parent.probed
  /\ job.pc = "current" => (job.inst \in job.parent.extra <=> job.inst \in tree.extra)
  /\ job.pc = "compare" => job.inst \notin job.parent.extra /\ ~tree.probed
  /\ job.pc = "ready" /\ job.kind # "namerts" => ~tree.probed /\ tree.change = None

(* What a run of the test files saw is what they enter, but for timeouts. *)
Faithful(i, ran) == Hit(ran) \subseteq Enters[i] /\ Enters[i] \ Hit(ran) \subseteq Late(ran)

(* A record, and the results it was made from as long as they can be read. *)
Backed(i, r, ran) == /\ Faithful(i, ran) /\ r.late = Late(ran)
                     /\ r.failed = Failing(i, ran)

RecordOK(i, r) ==
  /\ r.all \subseteq Enters[i] /\ Enters[i] \ r.all \subseteq r.late
  /\ r.hits \subseteq r.all /\ r.run \subseteq r.all

TruthInv ==
  /\ job.pc \in {"record", "store"} => Faithful(job.inst, job.ran)
  /\ truths # Torn => \A i \in Instance : truths[i] # None =>
       /\ RecordOK(i, truths[i])
       /\ stored[i] \notin {None, Torn} => Backed(i, truths[i], stored[i])
       /\ job.pc = "store" /\ job.inst = i => Backed(i, truths[i], job.ran)

(* sklearn leaves the checkout to its batch, which resets whatever it finds. *)
CleanInv ==
  driver # "sklearn" /\ job.pc \notin {"none", "begin", "returned"} =>
    tree.change \in {None, job.inst}

(* What the step of a command says about the files. *)
DoneInv ==
  /\ job.pc = "store" => truths # Torn /\ truths[job.inst] # None
  /\ job.kind = "namerts" /\ job.pc \notin {"begin", "returned", "cleanup"} => HasRecord(job.inst)
  /\ job.pc \in {"cleanup", "returned"} /\ job.outcome # "error" /\ job.kind # "smoke" =>
       /\ HasRecord(job.inst)
       /\ job.kind = "namerts" => comparisons[job.inst] # None
  /\ batch.pc # "off" /\ Noting /\ Resuming => 
       /\ \A i \in batch.done : HasRecord(i)
       /\ job.kind # "smoke"

(* What the reviews considered exclude among the hits of a record. *)
SetAside(i, r) ==
  UNION {Excluded(r.hits, reviews[i]) : reviews \in {x \in ReviewFiles : x[i] # None}}

(* Every test file that enters a changed function is a hit or was late, or  *)
(* is one of those that failed and python39 refined away.  A hit is still   *)
(* to be compared or excluded by the latest review; python39 knows only     *)
(* that some review excluded it, and final has no reviews.                  *)
Accounted(i, r) ==
  /\ Enters[i] \subseteq r.hits \cup r.late \cup (IF driver = "python39" THEN r.failed ELSE {})
  /\ driver = "python39" => r.hits \ r.run \subseteq SetAside(i, r)
  /\ driver # "python39" => r.hits \ r.run \subseteq r.excluded
  /\ driver = "final" => r.hits \subseteq r.run

AccountInv ==
  truths # Torn => \A i \in Instance : truths[i] # None => Accounted(i, truths[i])

---------------------------------------------------------------------------
(* Types and control *)

BaseInv == TypeInv /\ ControlInv

LEMMA NowIn ==
  ASSUME BaseInv, batch.index <= Len(Order)
  PROVE  Now \in Instance /\ batch.index \in 1..Len(Order)
<1>1. batch.index \in 1..Len(Order)
  BY DEF BaseInv, TypeInv, Batch
<1>. QED
  BY <1>1, DriversAssumption DEF Now

LEMMA ResetTyped ==
  ASSUME TypeInv, NEW i \in Instance
  PROVE  /\ ResetTo(i) \in Tree
         /\ ResetTo(i).head = i /\ ResetTo(i).change = None /\ ~ResetTo(i).probed
         /\ ResetTo(i).extra = tree.extra
BY DEF TypeInv, Tree, ResetTo

LEMMA PatchedTyped ==
  ASSUME TypeInv, NEW i \in Instance, NEW probes \in BOOLEAN
  PROVE  /\ Patched(i, probes) \in Tree
         /\ Patched(i, probes).head = i /\ Patched(i, probes).change = i
         /\ Patched(i, probes).probed = probes
BY DEF TypeInv, Tree, Patched

LEMMA SeenTyped ==
  ASSUME NEW i \in Instance, NEW checkout \in Tree
  PROVE  /\ SeenBy(i, checkout) \in Tree
         /\ SeenBy(i, checkout).head = checkout.head
         /\ SeenBy(i, checkout).change = checkout.change
         /\ SeenBy(i, checkout).probed = checkout.probed
         /\ i \in SeenBy(i, checkout).extra <=> i \in checkout.extra
BY DEF Tree, SeenBy

LEMMA RecordTyped ==
  ASSUME NEW i \in Instance, NEW ran \in [TestFile -> Result]
  PROVE  NewRecord(i, ran) \in Record
<1>1. Hit(ran) \in SUBSET TestFile /\ Late(ran) \in SUBSET TestFile
  BY DEF Hit, Late
<1>2. Failing(i, ran) \in SUBSET TestFile
  BY WorldAssumption DEF Failing
<1>3. PassingHits(i, ran) \in SUBSET TestFile
  BY <1>1 DEF PassingHits
<1>. QED
  BY <1>1, <1>2, <1>3 DEF NewRecord, Record

LEMMA BeginTyped ==
  ASSUME NEW kind \in Kinds \ {"none"}, NEW i \in Instance
  PROVE  /\ Begin(kind, i) \in Job
         /\ Begin(kind, i).kind = kind /\ Begin(kind, i).inst = i
         /\ Begin(kind, i).pc = "begin" /\ Begin(kind, i).ran = None
         /\ Begin(kind, i).parent = None /\ Begin(kind, i).outcome = "ok"
BY DEF Begin, NoJob, Job, Kinds, Steps, Outcome

LEMMA NoJobTyped ==
  NoJob \in Job /\ NoJob.pc = "none" /\ NoJob.ran = None /\ NoJob.parent = None
BY DEF NoJob, Job, Kinds, Steps, Outcome

LEMMA ThrownTyped ==
  ASSUME TypeInv
  PROVE  /\ Thrown \in Job /\ Thrown.kind = job.kind /\ Thrown.inst = job.inst
         /\ Thrown.pc = (IF driver = "sklearn" THEN "returned" ELSE "cleanup")
         /\ Thrown.ran = None /\ Thrown.parent = None /\ Thrown.outcome = "error"
BY DEF TypeInv, Thrown, Job, Steps, Outcome

(* A command goes on: its patch and kind stay, what it holds fits its step. *)
Goes(kind, inst) ==
  /\ job' \in Job /\ job'.pc # "none"
  /\ job'.kind = kind /\ job'.inst = inst
  /\ IF job'.pc \in {"record", "store"} THEN job'.ran \in [TestFile -> Result]
     ELSE job'.ran = None
  /\ IF job'.pc \in {"current", "compare"} THEN job'.parent \in Tree ELSE job'.parent = None

LEMMA GoesKeepsControl ==
  ASSUME BaseInv, job.pc # "none", Goes(job.kind, job.inst), UNCHANGED <<driver, status, batch>>
  PROVE  ControlInv'
BY NoJobTyped DEF BaseInv, ControlInv, Goes, Now, Noting, Resuming

LEMMA ThrownGoes ==
  ASSUME TypeInv, job' = Thrown
  PROVE  Goes(job.kind, job.inst) /\ job'.pc \in {"returned", "cleanup"} /\ job'.outcome = "error"
BY ThrownTyped DEF Goes

(* Every step of a command keeps the types and the control.                 *)
LEMMA JobStepBase ==
  ASSUME BaseInv, JobStep, UNCHANGED <<status, batch>>
  PROVE  BaseInv' /\ job.pc # "none" /\ job'.pc # "none" /\ job'.kind = job.kind
         /\ job'.inst = job.inst /\ job.inst \in Instance
<1>1. job.pc # "none" /\ driver' = driver
  BY DEF JobStep, Open, Refuse, Raise, Cleanup, ApplyAndProbe, RunTests, UpdateRecords,
         StoreResults, RunParent, SelectOnPatch, Compare, Smoke
<1>2. Patch \in Instance /\ job.inst \in Instance
  BY <1>1 DEF BaseInv, ControlInv, Patch
<1>3. /\ driver \in Drivers /\ tree \in Tree
      /\ truths # Torn => truths \in [Instance -> {None} \cup Record]
      /\ stored \in [Instance -> {None, Torn} \cup [TestFile -> Result]]
      /\ comparisons \in [Instance -> {None, Torn} \cup Comparison]
      /\ job \in Job
  BY DEF BaseInv, TypeInv
<1>4. IF job.pc \in {"record", "store"} THEN job.ran \in [TestFile -> Result] ELSE job.ran = None
  BY DEF BaseInv, ControlInv
<1>5. IF job.pc \in {"current", "compare"} THEN job.parent \in Tree ELSE job.parent = None
  BY DEF BaseInv, ControlInv
<1>6. TypeInv
  BY DEF BaseInv
<1>7. SUFFICES /\ Goes(job.kind, job.inst) /\ tree' \in Tree
               /\ truths' # Torn => truths' \in [Instance -> {None} \cup Record]
               /\ stored' \in [Instance -> {None, Torn} \cup [TestFile -> Result]]
               /\ comparisons' \in [Instance -> {None, Torn} \cup Comparison]
  <2>1. ControlInv'
    BY <1>1, <1>7, GoesKeepsControl
  <2>2. TypeInv'
    BY <1>1, <1>3, <1>6, <1>7 DEF TypeInv, Goes
  <2>. QED
    BY <1>1, <1>2, <1>7, <2>1, <2>2 DEF BaseInv, Goes
<1>a. CASE Open
  <2>1. tree' \in Tree
    BY <1>a, <1>2, <1>3, <1>6, ResetTyped DEF Open
  <2>2. (IF job.kind = "namerts" THEN truths[Patch].run ELSE {}) \in SUBSET TestFile
    BY <1>a, <1>2, <1>3 DEF Open, Admitted, HasRecord, Record
  <2>3. Goes(job.kind, job.inst)
    BY <1>a, <1>3, <1>4, <1>5, <2>2 DEF Open, Goes, Job, Steps
  <2>. QED
    BY <1>a, <1>3, <2>1, <2>3 DEF Open, files
<1>b. CASE Refuse
  BY <1>b, <1>3, <1>4, <1>5 DEF Refuse, Goes, Job, Steps, Outcome, files
<1>c. CASE Raise
  BY <1>c, <1>3, <1>6, ThrownGoes DEF Raise, files
<1>d. CASE Cleanup
  <2>1. tree' \in Tree
    BY <1>d, <1>2, <1>6, ResetTyped DEF Cleanup
  <2>. QED
    BY <1>d, <1>3, <1>4, <1>5, <2>1 DEF Cleanup, Goes, Job, Steps, files
<1>e. CASE ApplyAndProbe
  <2>1. CASE PatchApplies(Patch)
    <3>1. tree' \in Tree
      BY <1>e, <1>2, <1>6, <2>1, PatchedTyped DEF ApplyAndProbe
    <3>. QED
      BY <1>e, <1>3, <1>4, <1>5, <2>1, <3>1 DEF ApplyAndProbe, Goes, Job, Steps, files
  <2>2. CASE ~PatchApplies(Patch)
    BY <1>e, <1>3, <1>6, <2>2, ThrownGoes DEF ApplyAndProbe, files
  <2>. QED
    BY <2>1, <2>2
<1>f. CASE RunTests
  <2>1. PICK late \in SUBSET TestFile, cut \in SUBSET TestFile :
          job' = [job EXCEPT !.pc = "record",
                    !.ran = [t \in TestFile |-> [hit |-> t \in Entered \ cut, late |-> t \in late]]]
    BY <1>f DEF RunTests
  <2>2. [t \in TestFile |-> [hit |-> t \in Entered \ cut, late |-> t \in late]]
          \in [TestFile -> Result]
    BY DEF Result
  <2>. QED
    BY <1>f, <1>3, <1>5, <2>1, <2>2 DEF RunTests, Goes, Job, Steps, files
<1>g. CASE UpdateRecords
  <2>1. CASE truths = Torn
    BY <1>g, <1>3, <1>6, <2>1, ThrownGoes DEF UpdateRecords
  <2>2. CASE truths # Torn
    <3>1. NewRecord(Patch, job.ran) \in Record
      BY <1>g, <1>2, <1>4, RecordTyped DEF UpdateRecords
    <3>2. Goes(job.kind, job.inst)
      BY <1>g, <1>3, <1>4, <1>5, <2>2 DEF UpdateRecords, Goes, Job, Steps
    <3>. QED
      BY <1>g, <1>3, <2>2, <3>1, <3>2 DEF UpdateRecords
  <2>. QED
    BY <2>1, <2>2
<1>h. CASE StoreResults
  BY <1>h, <1>3, <1>4, <1>5 DEF StoreResults, Goes, Job, Steps
<1>i. CASE RunParent
  <2>1. tree' \in Tree /\ SeenBy(Patch, tree') \in Tree
    BY <1>i, <1>2, <1>6, ResetTyped, SeenTyped DEF RunParent
  <2>. QED
    BY <1>i, <1>3, <1>4, <1>5, <2>1 DEF RunParent, Goes, Job, Steps, files
<1>j. CASE SelectOnPatch
  <2>1. CASE PatchApplies(Patch)
    <3>1. tree' \in Tree
      BY <1>j, <1>2, <1>6, <2>1, PatchedTyped DEF SelectOnPatch
    <3>. QED
      BY <1>j, <1>3, <1>4, <1>5, <2>1, <3>1 DEF SelectOnPatch, Goes, Job, Steps, files
  <2>2. CASE ~PatchApplies(Patch)
    <3>1. tree' \in Tree
      BY <1>j, <1>2, <1>6, <2>2, ResetTyped DEF SelectOnPatch
    <3>. QED
      BY <1>j, <1>3, <1>6, <2>2, <3>1, ThrownGoes DEF SelectOnPatch, files
  <2>. QED
    BY <2>1, <2>2
<1>k. CASE Compare
  <2>1. [parent |-> job.parent, current |-> SeenBy(Patch, tree)] \in Comparison
    BY <1>k, <1>2, <1>3, <1>5, SeenTyped DEF Compare, Comparison
  <2>2. Goes(job.kind, job.inst)
    BY <1>k, <1>3, <1>4, <1>5 DEF Compare, Goes, Job, Steps, Outcome
  <2>. QED
    BY <1>k, <1>3, <2>1, <2>2 DEF Compare
<1>l. CASE Smoke
  BY <1>l, <1>3, <1>4, <1>5 DEF Smoke, Goes, Job, Steps, Outcome, files
<1>. QED
  BY <1>a, <1>b, <1>c, <1>d, <1>e, <1>f, <1>g, <1>h, <1>i, <1>j, <1>k, <1>l DEF JobStep

LEMMA StatusTyped ==
  ASSUME NEW i \in Instance, NEW phase \in Phase, NEW word \in Word,
         status \in [Instance -> [Phase -> Word]]
  PROVE  [status EXCEPT ![i][phase] = word] \in [Instance -> [Phase -> Word]]
         /\ [status EXCEPT ![i][phase] = word] # Torn
<1>1. [status EXCEPT ![i][phase] = word] \in [Instance -> [Phase -> Word]]
  OBVIOUS
<1>. QED
  BY <1>1, TornIsNoStatus

LEMMA NextTyped ==
  ASSUME TypeInv, batch.index <= Len(Order)
  PROVE  /\ NextInstance \in Batch /\ NextInstance.pc = "next"
         /\ NextInstance.only = batch.only /\ NextInstance.done = batch.done
         /\ NextInstance.phase = batch.phase
<1>1. Len(Order) \in Nat
  BY DriversAssumption
<1>2. batch.index + 1 \in 1..(Len(Order) + 1)
  BY <1>1 DEF TypeInv, Batch
<1>. QED
  BY <1>2 DEF TypeInv, NextInstance, Batch

LEMMA PhasedTyped ==
  ASSUME NEW o \in Options, NEW p \in Phase
  PROVE  /\ [With(o) EXCEPT !.phase = p] \in Batch
         /\ [With(o) EXCEPT !.phase = p].pc = "next"
         /\ [With(o) EXCEPT !.phase = p].only = o.only
<1>1. Len(Order) \in Nat /\ o \in Option
  BY DriversAssumption
<1>2. 1 \in 1..(Len(Order) + 1)
  BY <1>1
<1>. QED
  BY <1>1, <1>2 DEF With, NoBatch, Batch, Option, Phase

LEMMA DoneTyped ==
  ASSUME NEW o \in Options, NEW d \in SUBSET Instance
  PROVE  /\ [With(o) EXCEPT !.done = d] \in Batch
         /\ [With(o) EXCEPT !.done = d].pc = "next"
         /\ [With(o) EXCEPT !.done = d].only = o.only
         /\ [With(o) EXCEPT !.done = d].done = d
<1>1. Len(Order) \in Nat /\ o \in Option
  BY DriversAssumption
<1>2. 1 \in 1..(Len(Order) + 1)
  BY <1>1
<1>. QED
  BY <1>1, <1>2 DEF With, NoBatch, Batch, Option, Phase

LEMMA NoBatchTyped == NoBatch \in Batch /\ NoBatch.pc = "off"
<1>1. Len(Order) \in Nat
  BY DriversAssumption
<1>2. 1 \in 1..(Len(Order) + 1)
  BY <1>1
<1>. QED
  BY <1>2 DEF NoBatch, Batch, Phase

LEMMA ReviewedTyped ==
  ASSUME NEW record \in Record, NEW review \in Review
  PROVE  Reviewed(record, review) \in Record
BY DEF Reviewed, Excluded, Record, Review

LEMMA ReviewedTruthsTyped ==
  ASSUME NEW reviews \in ReviewFiles, truths \in [Instance -> {None} \cup Record]
  PROVE  ReviewedTruths(reviews) \in [Instance -> {None} \cup Record]
<1>1. NoDecision \in Review
  BY DEF NoDecision, Review
<1>2. ASSUME NEW i \in Instance, truths[i] # None, Decision(reviews[i]) # None
      PROVE  Reviewed(truths[i], Decision(reviews[i])) \in Record
  <2>1. reviews[i] \in {None} \cup Review
    BY DriversAssumption
  <2>2. Decision(reviews[i]) \in Review
    BY <1>1, <1>2, <2>1 DEF Decision
  <2>. QED
    BY <1>2, <2>2, ReviewedTyped
<1>. QED
  BY <1>2 DEF ReviewedTruths

(* Every step of a batch keeps the types and the control.                   *)
LEMMA ResumingStepBase ==
  ASSUME BaseInv, ResumingStep
  PROVE  BaseInv'
<1>1. /\ TypeInv /\ ControlInv /\ Resuming /\ batch.only # "smoke" /\ Noting
      /\ driver \notin {"django", "final"}
  BY DEF BaseInv, ResumingStep, Noting, Resuming
<1>2. batch.pc # "off" => status \in [Instance -> [Phase -> Word]] /\ status # Torn
  BY <1>1 DEF TypeInv, ControlInv
<1>3. batch.index <= Len(Order) => Now \in Instance
  BY NowIn
<1>4. ASSUME batch.pc # "off", batch.index <= Len(Order), Failed
      PROVE  /\ status' \in [Instance -> [Phase -> Word]] /\ status' # Torn
             /\ batch' \in Batch /\ batch'.pc \in {"off", "next"}
             /\ batch'.pc = "next" => batch'.only = batch.only
  BY <1>1, <1>2, <1>3, <1>4, StatusTyped, NextTyped, NoBatchTyped DEF Failed, Note, Phase, Word
<1>5. ASSUME batch.index <= Len(Order), Finally
      PROVE  tree' \in Tree
  BY <1>1, <1>3, <1>5, ResetTyped DEF Finally, TypeInv
<1>a. CASE SkipCompleted
  <2>1. /\ status' \in [Instance -> [Phase -> Word]] /\ status' # Torn
        /\ batch' \in Batch /\ batch'.pc = "next" /\ batch'.only = batch.only
    BY <1>a, <1>1, <1>2, <1>3, StatusTyped, NextTyped DEF SkipCompleted, InLoop, Note, Phase, Word
  <2>. QED
    BY <1>a, <1>1, <2>1 DEF SkipCompleted, Kept, files, InLoop, BaseInv, TypeInv, ControlInv
<1>b. CASE CallFirst
  <2>1. tree' \in Tree
    BY <1>b, <1>1, <1>3, ResetTyped DEF CallFirst, InLoop, TypeInv
  <2>2. PICK kind \in {"truth", "namerts"} : job' = Begin(kind, Now)
    BY <1>b DEF CallFirst
  <2>3. Goes(kind, Now)
    BY <1>b, <1>3, <2>2, BeginTyped DEF Goes, CallFirst, InLoop, Kinds
  <2>4. batch' \in Batch /\ batch'.pc = "called" /\ batch'.index = batch.index
        /\ batch'.only = batch.only
    BY <1>b, <1>1 DEF CallFirst, TypeInv, Batch
  <2>5. TypeInv'
    BY <1>b, <1>1, <2>1, <2>3, <2>4 DEF CallFirst, Kept, files, TypeInv, Goes
  <2>6. ControlInv'
    BY <1>b, <1>1, <1>2, <1>3, <2>2, <2>3, <2>4 DEF CallFirst, Kept, InLoop, ControlInv, Goes, Now
  <2>. QED
    BY <2>5, <2>6 DEF BaseInv
<1>c. CASE RefuseInTry
  <2>1. tree' \in Tree
    BY <1>c, <1>5 DEF RefuseInTry, InLoop
  <2>. QED
    BY <1>c, <1>1, <1>4, <2>1 DEF RefuseInTry, InLoop, Kept, files, BaseInv, TypeInv, ControlInv
<1>d. CASE CallSecond
  <2>1. batch.index <= Len(Order) /\ batch.pc = "called" /\ Now \in Instance
    BY <1>d, <1>1, <1>3 DEF CallSecond, Returned, ControlInv
  <2>2. Goes("namerts", Now) /\ job'.pc # "none"
    BY <1>d, <2>1, BeginTyped DEF Goes, CallSecond, Kinds
  <2>3. batch' \in Batch /\ batch'.pc = "called" /\ batch'.index = batch.index
        /\ batch'.only = batch.only
    BY <1>d, <1>1, <2>1 DEF CallSecond, TypeInv, Batch
  <2>4. TypeInv'
    BY <1>d, <1>1, <2>2, <2>3 DEF CallSecond, Kept, files, TypeInv, Goes
  <2>5. ControlInv'
    BY <1>d, <1>1, <1>2, <2>1, <2>2, <2>3 DEF CallSecond, Kept, ControlInv, Goes, Now
  <2>. QED
    BY <2>4, <2>5 DEF BaseInv
<1>e. CASE FinishInstance
  <2>1. batch.index <= Len(Order) /\ batch.pc = "called" /\ Now \in Instance
    BY <1>e, <1>1, <1>3 DEF FinishInstance, Returned, ControlInv
  <2>2. tree' \in Tree
    BY <1>e, <1>5, <2>1 DEF FinishInstance
  <2>3. /\ status' \in [Instance -> [Phase -> Word]] /\ status' # Torn
        /\ batch' \in Batch /\ batch'.pc \in {"off", "next"}
        /\ batch'.pc = "next" => batch'.only = batch.only
    <3>1. CASE job.outcome = "error"
      BY <1>e, <1>1, <1>4, <2>1, <3>1 DEF FinishInstance
    <3>2. CASE job.outcome # "error"
      <4>1. Note("all", "completed") /\ batch' = NextInstance
        BY <1>e, <3>2 DEF FinishInstance
      <4>. QED
        BY <1>1, <1>2, <2>1, <4>1, StatusTyped, NextTyped DEF Note, Phase, Word
    <3>. QED
      BY <3>1, <3>2
  <2>. QED
    BY <1>e, <1>1, <2>2, <2>3, NoJobTyped
    DEF FinishInstance, Kept, files, BaseInv, TypeInv, ControlInv
<1>f. CASE FinishBatch
  BY <1>f, <1>1, NoBatchTyped DEF FinishBatch, runVars, files, BaseInv, TypeInv, ControlInv
<1>. QED
  BY <1>a, <1>b, <1>c, <1>d, <1>e, <1>f DEF ResumingStep

LEMMA PhaseStepBase ==
  ASSUME BaseInv, PhaseStep
  PROVE  BaseInv'
<1>1. TypeInv /\ ControlInv /\ Noting
  BY DEF BaseInv, PhaseStep, Noting
<1>2. batch.pc # "off" => status \in [Instance -> [Phase -> Word]] /\ status # Torn
  BY <1>1 DEF TypeInv, ControlInv
<1>3. batch.index <= Len(Order) => Now \in Instance
  BY NowIn
<1>4. batch \in Batch
  BY <1>1 DEF TypeInv
<1>a. CASE SkipPhase
  BY <1>a, <1>1, <1>2, NextTyped
  DEF SkipPhase, InLoop, runVars, files, BaseInv, TypeInv, ControlInv
<1>b. CASE CallPhase
  <2>1. batch.phase \in Kinds \ {"none"}
    BY <1>b, <1>1, <1>4 DEF CallPhase, InLoop, ControlInv, Batch, Phase, Kinds, PhaseStep
  <2>2. Goes(batch.phase, Now)
    BY <1>b, <1>3, <2>1, BeginTyped DEF Goes, CallPhase, InLoop
  <2>3. batch' \in Batch /\ batch'.pc = "called" /\ batch'.index = batch.index
        /\ batch'.only = batch.only /\ batch'.phase = batch.phase
    BY <1>b, <1>4 DEF CallPhase, Batch
  <2>4. TypeInv'
    BY <1>b, <1>1, <2>2, <2>3 DEF CallPhase, Kept, files, TypeInv, Goes
  <2>5. ControlInv'
    BY <1>b, <1>1, <1>2, <1>3, <2>1, <2>2, <2>3
    DEF CallPhase, Kept, InLoop, ControlInv, Goes, Now, Noting, Resuming
  <2>. QED
    BY <2>4, <2>5 DEF BaseInv
<1>c. CASE FinishPhase
  <2>1. batch.index <= Len(Order) /\ Now \in Instance /\ batch.phase \in Phase
    BY <1>c, <1>1, <1>3, <1>4 DEF FinishPhase, Returned, ControlInv, Batch
  <2>2. PICK word \in Word : Note(batch.phase, word)
    BY <1>c, <1>1 DEF FinishPhase, Word, TypeInv, Job, Outcome
  <2>3. status' \in [Instance -> [Phase -> Word]] /\ status' # Torn
    <3>1. status \in [Instance -> [Phase -> Word]]
      BY <1>c, <1>2 DEF FinishPhase, Returned
    <3>. QED
      BY <2>1, <2>2, <3>1, StatusTyped DEF Note
  <2>4. batch' \in Batch /\ (batch'.pc = "next" => batch'.phase = batch.phase)
        /\ batch'.pc \in {"off", "next"}
    BY <1>c, <1>1, <2>1, NextTyped, NoBatchTyped DEF FinishPhase
  <2>. QED
    BY <1>c, <1>1, <2>3, <2>4, NoJobTyped
    DEF FinishPhase, Returned, Kept, files, BaseInv, TypeInv, ControlInv, PhaseStep
<1>d. CASE ReviewBetween
  <2>1. CASE truths = Torn
    BY <1>d, <1>1, <2>1, NoBatchTyped DEF ReviewBetween, BaseInv, TypeInv, ControlInv
  <2>2. CASE truths # Torn
    <3>1. truths' \in [Instance -> {None} \cup Record]
      BY <1>d, <1>1, <2>2, ReviewedTruthsTyped DEF ReviewBetween, TypeInv
    <3>2. Len(Order) \in Nat
      BY DriversAssumption
    <3>3. batch' \in Batch /\ batch'.pc = "next" /\ batch'.phase = "namerts"
          /\ batch'.only = batch.only
      <4>1. batch' = [batch EXCEPT !.phase = "namerts", !.index = 1] /\ batch.pc = "next"
        BY <1>d, <2>2 DEF ReviewBetween
      <4>2. 1 \in 1..(Len(Order) + 1)
        BY <3>2
      <4>. QED
        BY <1>4, <4>1, <4>2 DEF Batch, Phase
    <3>. QED
      BY <1>d, <1>1, <3>1, <3>3 DEF ReviewBetween, BaseInv, TypeInv, ControlInv
  <2>. QED
    BY <2>1, <2>2
<1>e. CASE FinishBatch
  BY <1>e, <1>1, NoBatchTyped DEF FinishBatch, runVars, files, BaseInv, TypeInv, ControlInv
<1>. QED
  BY <1>a, <1>b, <1>c, <1>d, <1>e DEF PhaseStep

LEMMA StageStepBase ==
  ASSUME BaseInv, StageStep
  PROVE  BaseInv'
<1>1. TypeInv /\ ControlInv
  BY DEF BaseInv
<1>2. batch \in Batch
  BY <1>1 DEF TypeInv
<1>a. CASE CallStage
  <2>1. batch.index <= Len(Order) /\ Now \in Instance
    BY <1>a, NowIn DEF CallStage, InLoop
  <2>2. batch.phase \in Kinds \ {"none"}
    BY <1>a, <1>1, <1>2 DEF CallStage, InLoop, ControlInv, Batch, Phase, Kinds, StageStep
  <2>3. Goes(batch.phase, Now)
    BY <1>a, <2>1, <2>2, BeginTyped DEF Goes, CallStage
  <2>4. batch' \in Batch /\ batch'.pc = "called" /\ batch'.index = batch.index
        /\ batch'.only = batch.only /\ batch'.phase = batch.phase
    BY <1>a, <1>2 DEF CallStage, Batch
  <2>5. TypeInv'
    BY <1>a, <1>1, <2>3, <2>4 DEF CallStage, Kept, files, TypeInv, Goes
  <2>6. ControlInv'
    BY <1>a, <1>1, <2>1, <2>2, <2>3, <2>4
    DEF CallStage, Kept, InLoop, ControlInv, Goes, Now, Noting, Resuming
  <2>. QED
    BY <2>5, <2>6 DEF BaseInv
<1>b. CASE FinishStage
  <2>1. batch.index <= Len(Order)
    BY <1>b, <1>1 DEF FinishStage, Returned, ControlInv
  <2>2. /\ batch' \in Batch /\ batch'.pc \in {"off", "next"}
        /\ batch'.pc = "next" => batch'.phase = batch.phase /\ batch'.only = batch.only
    <3>1. batch' \in {NoBatch, NextInstance}
      BY <1>b DEF FinishStage
    <3>2. NextInstance.phase = batch.phase
      BY <1>2 DEF NextInstance, Batch
    <3>. QED
      BY <1>1, <2>1, <3>1, <3>2, NextTyped, NoBatchTyped
  <2>. QED
    BY <1>b, <1>1, <2>2, NoJobTyped
    DEF FinishStage, Returned, Kept, files, BaseInv, TypeInv, ControlInv, Noting, Resuming
<1>c. CASE FinishBatch
  BY <1>c, <1>1, NoBatchTyped DEF FinishBatch, runVars, files, BaseInv, TypeInv, ControlInv
<1>. QED
  BY <1>a, <1>b, <1>c DEF StageStep

LEMMA StartBase ==
  ASSUME BaseInv, NEW o \in Options, StartResuming(o) \/ StartPhases(o) \/ StartStage(o)
  PROVE  BaseInv' /\ Quiet /\ batch'.pc = "next" /\ batch'.only = o.only
         /\ UNCHANGED runVars
<1>1. TypeInv /\ ControlInv
  BY DEF BaseInv
<1>2. o \in Option
  BY DriversAssumption
<1>3. UNCHANGED <<runVars, status>> /\ Quiet /\ job' = NoJob
  BY DEF StartResuming, StartPhases, StartStage, Quiet, runVars
<1>4. /\ batch' \in Batch /\ batch'.pc = "next" /\ batch'.only = o.only
      /\ Noting' => status # Torn
      /\ driver \in {"django", "final"} \/ batch'.only = "smoke" => batch'.phase # "all"
  <2>a. CASE StartResuming(o)
    <3>1. {i \in Instance : truths[i] # None} \in SUBSET Instance
      OBVIOUS
    <3>. QED
      BY <2>a, <3>1, DoneTyped DEF StartResuming, Resuming, Phase
  <2>b. CASE StartPhases(o)
    <3>1. batch' = [With(o) EXCEPT !.phase = "truth"] /\ "truth" \in Phase
      BY <2>b DEF StartPhases, Phase
    <3>2. batch'.phase = "truth" /\ driver = "django" /\ status # Torn
      BY <2>b, <3>1 DEF StartPhases, With, NoBatch
    <3>. QED
      BY <2>b, <3>1, <3>2, PhasedTyped
  <2>c. CASE StartStage(o)
    <3>1. batch' = [With(o) EXCEPT !.phase = o.only] /\ o.only \in Phase /\ o.only # "all"
      BY <1>2, <2>c DEF StartStage, Option, Phase
    <3>2. batch'.phase = o.only
      BY <3>1 DEF With, NoBatch
    <3>. QED
      BY <1>3, <2>c, <3>1, <3>2, PhasedTyped DEF StartStage, Noting, Resuming, runVars
  <2>. QED
    BY <2>a, <2>b, <2>c
<1>5. TypeInv'
  BY <1>1, <1>3, <1>4 DEF TypeInv, runVars, files
<1>6. ControlInv'
  BY <1>1, <1>3, <1>4 DEF ControlInv, runVars
<1>. QED
  BY <1>3, <1>4, <1>5, <1>6 DEF BaseInv

LEMMA RefinedTyped ==
  ASSUME TypeInv, NEW i \in Instance, truths # Torn, truths[i] # None,
         stored[i] \notin {None, Torn}
  PROVE  RefinedRecord(i) \in Record
<1>1. truths[i] \in Record /\ stored[i] \in [TestFile -> Result]
  BY DEF TypeInv
<1>2. Hit(stored[i]) \in SUBSET TestFile
  BY DEF Hit
<1>3. PassingHits(i, stored[i]) \in SUBSET TestFile
  BY <1>2 DEF PassingHits
<1>. QED
  BY <1>1, <1>2, <1>3 DEF RefinedRecord, Record

(* The records a person's command leaves have the form of records.          *)
LEMMA RewriteTyped ==
  ASSUME TypeInv, ApplyReviews \/ Refine \/ Normalize
  PROVE  truths # Torn /\ truths' \in [Instance -> {None} \cup Record]
<1>1. truths # Torn
  BY DEF ApplyReviews, Refine, Normalize, Rewrite
<1>2. truths \in [Instance -> {None} \cup Record]
  BY <1>1 DEF TypeInv
<1>a. CASE ApplyReviews
  BY <1>1, <1>2, <1>a, ReviewedTruthsTyped DEF ApplyReviews, Rewrite
<1>b. CASE Refine
  <2>1. \A i \in Instance : truths[i] # None => RefinedRecord(i) \in Record
    BY <1>1, <1>b, RefinedTyped DEF Refine
  <2>2. truths' = [i \in Instance |-> IF truths[i] = None THEN None ELSE RefinedRecord(i)]
    BY <1>b DEF Refine, Rewrite
  <2>. QED
    BY <1>1, <2>1, <2>2
<1>c. CASE Normalize
  <2>1. truths' = [i \in Instance |->
          IF truths[i] = None THEN None
          ELSE [truths[i] EXCEPT !.hits = truths[i].all, !.run = truths[i].all]]
    BY <1>c DEF Normalize, Rewrite
  <2>2. \A i \in Instance : truths[i] # None =>
          [truths[i] EXCEPT !.hits = truths[i].all, !.run = truths[i].all] \in Record
    BY <1>2 DEF Record
  <2>. QED
    BY <1>1, <2>1, <2>2
<1>. QED
  BY <1>1, <1>a, <1>b, <1>c

LEMMA PersonBase ==
  ASSUME BaseInv, Person
  PROVE  BaseInv'
<1>1. TypeInv /\ ControlInv
  BY DEF BaseInv
<1>a. CASE Start
  BY <1>a, StartBase DEF Start
<1>b. CASE ApplyReviews \/ Refine \/ Normalize
  <2>1. truths' \in [Instance -> {None} \cup Record]
    BY <1>1, <1>b, RewriteTyped
  <2>2. UNCHANGED <<driver, tree, stored, comparisons, job, status, batch>>
    BY <1>b DEF ApplyReviews, Refine, Normalize, Rewrite
  <2>. QED
    BY <1>1, <2>1, <2>2 DEF BaseInv, TypeInv, ControlInv, Noting, Resuming, Now
<1>c. CASE Edit
  BY <1>1, <1>c DEF Edit, Tree, files, BaseInv, TypeInv, ControlInv, Noting, Resuming, Now
<1>d. CASE CleanUp
  BY <1>1, <1>d DEF CleanUp, Tree, files, BaseInv, TypeInv, ControlInv, Noting, Resuming, Now
<1>e. CASE RemoveTorn
  <2>1. truths' # Torn => truths' \in [Instance -> {None} \cup Record]
    BY <1>1, <1>e DEF RemoveTorn, TypeInv
  <2>2. status' # Torn => status' \in [Instance -> [Phase -> Word]]
    BY <1>1, <1>e DEF RemoveTorn, TypeInv, NoStatus, Word
  <2>3. comparisons' \in [Instance -> {None, Torn} \cup Comparison]
    BY <1>1, <1>e DEF RemoveTorn, TypeInv
  <2>4. UNCHANGED <<driver, tree, stored, job, batch>> /\ batch.pc = "off" /\ job = NoJob
    BY <1>e DEF RemoveTorn, Quiet
  <2>. QED
    BY <1>1, <2>1, <2>2, <2>3, <2>4 DEF BaseInv, TypeInv, ControlInv
<1>f. ASSUME NEW kind \in ByHand, NEW i \in Instance, Command(kind, i)
      PROVE  BaseInv'
  <2>1. kind \in Kinds \ {"none"}
    BY DriversAssumption DEF Kinds
  <2>2. Goes(kind, i)
    BY <1>f, <2>1, BeginTyped DEF Goes, Command
  <2>. QED
    BY <1>1, <1>f, <2>1, <2>2 DEF Command, Quiet, files, Goes, BaseInv, TypeInv, ControlInv
<1>. QED
  BY <1>a, <1>b, <1>c, <1>d, <1>e, <1>f DEF Person

LEMMA ExitBase ==
  ASSUME BaseInv, Exit
  PROVE  BaseInv'
BY NoJobTyped DEF Exit, files, BaseInv, TypeInv, ControlInv

LEMMA OrphanBase ==
  ASSUME BaseInv, Orphan
  PROVE  BaseInv'
BY NoBatchTyped DEF Orphan, files, BaseInv, TypeInv, ControlInv

LEMMA KillBase ==
  ASSUME BaseInv, Kill
  PROVE  BaseInv'
<1>1. TypeInv /\ ControlInv
  BY DEF BaseInv
<1>2. /\ truths' \in {truths, Torn} /\ status' \in {status, Torn}
      /\ job' = NoJob /\ batch' = NoBatch /\ UNCHANGED <<driver, tree>>
      /\ stored' \in {stored, [stored EXCEPT ![Patch] = Torn]}
      /\ comparisons' \in {comparisons, [comparisons EXCEPT ![Patch] = Torn]}
  BY DEF Kill, KillJob
<1>3. TypeInv'
  BY <1>1, <1>2, NoBatchTyped, NoJobTyped DEF TypeInv
<1>4. ControlInv'
  BY <1>2, NoBatchTyped, NoJobTyped DEF ControlInv
<1>. QED
  BY <1>3, <1>4 DEF BaseInv

LEMMA InitBase ==
  ASSUME BatchInit
  PROVE  BaseInv
<1>1. tree \in Tree
  BY DEF BatchInit, RunInit, Tree
<1>2. TypeInv
  BY <1>1, NoJobTyped, NoBatchTyped
  DEF BatchInit, RunInit, TypeInv, NoStatus, Word
<1>3. ControlInv
  BY NoJobTyped, NoBatchTyped DEF BatchInit, RunInit, ControlInv
<1>. QED
  BY <1>2, <1>3 DEF BaseInv

LEMMA NextBase ==
  ASSUME BaseInv, [Next]_batchVars
  PROVE  BaseInv'
<1>1. ASSUME UNCHANGED batchVars
      PROVE  BaseInv'
  BY <1>1 DEF batchVars, runVars, files, BaseInv, TypeInv, ControlInv, Noting, Resuming, Now
<1>2. Working => BaseInv'
  BY JobStepBase DEF Working
<1>. QED
  BY <1>1, <1>2, ExitBase, ResumingStepBase, PhaseStepBase, StageStepBase, PersonBase,
     KillBase, OrphanBase
  DEF Next, Process

LEMMA BaseInvariant == Spec => []BaseInv
BY InitBase, NextBase, PTL DEF Spec

---------------------------------------------------------------------------
(* The checkout and the comparisons *)

Apart == ResumingStep \/ PhaseStep \/ StageStep \/ Exit \/ Person \/ Kill

(* Whoever is not the command itself leaves no command, or a fresh one.     *)
LEMMA ApartFresh ==
  ASSUME BaseInv, Apart
  PROVE  job'.pc \in {"none", "begin"} /\ driver' = driver
<1>1. batch.pc = "next" => job = NoJob
  BY DEF BaseInv, ControlInv
<1>2. \A kind, i : Begin(kind, i).pc = "begin"
  BY DEF Begin, NoJob
<1>a. CASE ResumingStep
  BY <1>a, <1>1, <1>2, NoJobTyped
  DEF ResumingStep, SkipCompleted, CallFirst, RefuseInTry, CallSecond, FinishInstance,
      FinishBatch, InLoop, Kept, runVars
<1>b. CASE PhaseStep
  BY <1>b, <1>1, <1>2, NoJobTyped
  DEF PhaseStep, SkipPhase, CallPhase, FinishPhase, ReviewBetween, FinishBatch, InLoop,
      Kept, runVars
<1>c. CASE StageStep
  BY <1>c, <1>1, <1>2, NoJobTyped
  DEF StageStep, CallStage, FinishStage, FinishBatch, InLoop, Kept, runVars
<1>d. CASE Exit
  BY <1>d, NoJobTyped DEF Exit
<1>e. CASE Person
  <2>1. CASE Start
    BY <2>1, StartBase, NoJobTyped DEF Start, Quiet, runVars
  <2>2. ASSUME NEW kind \in ByHand, NEW i \in Instance, Command(kind, i)
        PROVE  job'.pc \in {"none", "begin"} /\ driver' = driver
    BY <1>2, <2>2 DEF Command
  <2>3. CASE ApplyReviews \/ Refine \/ Normalize \/ Edit \/ CleanUp \/ RemoveTorn
    BY <2>3, NoJobTyped
    DEF ApplyReviews, Refine, Normalize, Rewrite, Edit, CleanUp, RemoveTorn, Quiet
  <2>. QED
    BY <1>e, <2>1, <2>2, <2>3 DEF Person
<1>f. CASE Kill
  BY <1>f, NoJobTyped DEF Kill, KillJob
<1>. QED
  BY <1>a, <1>b, <1>c, <1>d, <1>e, <1>f DEF Apart

LEMMA NextSplit ==
  ASSUME [Next]_batchVars
  PROVE  \/ JobStep /\ UNCHANGED <<status, batch>>
         \/ Apart
         \/ Orphan
         \/ UNCHANGED batchVars
BY DEF Next, Process, Working, Apart

LEMMA JobStepTree ==
  ASSUME BaseInv, TreeInv, JobStep, UNCHANGED <<status, batch>>
  PROVE  TreeInv'
<1>1. /\ job.pc # "none" /\ job.inst \in Instance
      /\ job'.kind = job.kind /\ job'.inst = job.inst
  BY JobStepBase
<1>2. TypeInv /\ ControlInv /\ job \in Job /\ Patch = job.inst
  BY DEF BaseInv, TypeInv, Patch
<1>3. tree \in Tree
  BY <1>2 DEF TypeInv
<1>a. CASE Open
  BY <1>a, <1>1, <1>2, ResetTyped DEF Open, Job, TreeInv
<1>b. CASE Refuse
  BY <1>b, <1>2 DEF Refuse, Job, TreeInv
<1>c. CASE Raise
  BY <1>c, <1>2, ThrownTyped DEF Raise, TreeInv
<1>d. CASE Cleanup
  BY <1>d, <1>2 DEF Cleanup, Job, TreeInv
<1>e. CASE ApplyAndProbe
  <2>1. CASE PatchApplies(Patch)
    <3>1. /\ tree'.head = job.inst /\ tree'.change = job.inst /\ tree'.probed
          /\ job'.pc = "tests" /\ job.kind = "truth"
      BY <1>e, <1>1, <1>2, <2>1, PatchedTyped DEF ApplyAndProbe, Job
    <3>. QED
      BY <1>1, <3>1 DEF TreeInv
  <2>2. CASE ~PatchApplies(Patch)
    BY <1>e, <1>2, <2>2, ThrownTyped DEF ApplyAndProbe, TreeInv
  <2>. QED
    BY <2>1, <2>2
<1>f. CASE RunTests
  <2>1. job'.pc = "record" /\ job.pc = "tests" /\ tree' = tree
    BY <1>f, <1>2 DEF RunTests, Job
  <2>. QED
    BY <1>1, <2>1 DEF TreeInv
<1>g. CASE UpdateRecords
  <2>1. /\ job'.pc \in {"store", "returned", "cleanup"} /\ job.pc = "record"
        /\ tree' = tree
    BY <1>g, <1>2, ThrownTyped DEF UpdateRecords, Job
  <2>. QED
    BY <1>1, <2>1 DEF TreeInv
<1>h. CASE StoreResults
  BY <1>h, <1>2 DEF StoreResults, Job, TreeInv
<1>i. CASE RunParent
  <2>1. /\ tree'.head = job.inst /\ tree'.change = None /\ ~tree'.probed /\ tree' \in Tree
        /\ job'.pc = "current" /\ job'.parent = SeenBy(job.inst, tree') /\ job.kind = "namerts"
    BY <1>i, <1>1, <1>2, ResetTyped DEF RunParent, Job
  <2>2. /\ job'.parent.head = job.inst /\ job'.parent.change = None /\ ~job'.parent.probed
        /\ job.inst \in job'.parent.extra <=> job.inst \in tree'.extra
    BY <1>1, <2>1, SeenTyped
  <2>. QED
    BY <1>1, <2>1, <2>2 DEF TreeInv
<1>j. CASE SelectOnPatch
  <2>1. CASE PatchApplies(Patch)
    <3>1. /\ tree'.head = job.inst /\ tree'.change = job.inst /\ ~tree'.probed
          /\ job'.pc = "compare" /\ job.pc = "current" /\ job'.parent = job.parent
          /\ job.inst \notin tree.extra
      BY <1>j, <1>1, <1>2, <2>1, PatchedTyped DEF SelectOnPatch, Job, PatchApplies
    <3>. QED
      BY <1>1, <3>1 DEF TreeInv
  <2>2. CASE ~PatchApplies(Patch)
    BY <1>j, <1>2, <2>2, ThrownTyped DEF SelectOnPatch, TreeInv
  <2>. QED
    BY <2>1, <2>2
<1>k. CASE Compare
  BY <1>k, <1>2 DEF Compare, Job, TreeInv
<1>l. CASE Smoke
  BY <1>l, <1>2 DEF Smoke, Job, TreeInv
<1>. QED
  BY <1>a, <1>b, <1>c, <1>d, <1>e, <1>f, <1>g, <1>h, <1>i, <1>j, <1>k, <1>l DEF JobStep

LEMMA NextTree ==
  ASSUME BaseInv, TreeInv, [Next]_batchVars
  PROVE  TreeInv'
<1>1. CASE JobStep /\ UNCHANGED <<status, batch>>
  BY <1>1, JobStepTree
<1>2. CASE Apart
  BY <1>2, ApartFresh DEF TreeInv
<1>3. CASE Orphan \/ UNCHANGED batchVars
  BY <1>3 DEF Orphan, batchVars, runVars, TreeInv
<1>. QED
  BY <1>1, <1>2, <1>3, NextSplit

LEMMA JobStepCompared ==
  ASSUME BaseInv, TreeInv, ComparedFairly, JobStep, UNCHANGED <<status, batch>>
  PROVE  ComparedFairly'
<1>1. CASE Compare
  <2>1. /\ job.inst \in Instance /\ Patch = job.inst /\ job.pc = "compare"
        /\ tree \in Tree /\ comparisons \in [Instance -> {None, Torn} \cup Comparison]
        /\ comparisons' = [comparisons EXCEPT ![job.inst] =
             [parent |-> job.parent, current |-> SeenBy(job.inst, tree)]]
    BY <1>1, JobStepBase DEF Compare, Patch, BaseInv, TypeInv
  <2>2. /\ job.parent.head = job.inst /\ job.parent.change = None /\ ~job.parent.probed
        /\ job.inst \notin job.parent.extra
        /\ tree.head = job.inst /\ tree.change = job.inst /\ ~tree.probed
    BY <2>1 DEF TreeInv
  <2>3. /\ SeenBy(job.inst, tree).head = job.inst /\ SeenBy(job.inst, tree).change = job.inst
        /\ ~SeenBy(job.inst, tree).probed
    BY <2>1, <2>2, SeenTyped
  <2>4. /\ \A i \in Instance \ {job.inst} : comparisons'[i] = comparisons[i]
        /\ comparisons'[job.inst].parent = job.parent
        /\ comparisons'[job.inst].current = SeenBy(job.inst, tree)
    BY <2>1
  <2>. QED
    BY <2>2, <2>3, <2>4 DEF ComparedFairly
<1>2. CASE ~Compare
  BY <1>2 DEF JobStep, Open, Refuse, Raise, Cleanup, ApplyAndProbe, RunTests, UpdateRecords,
     StoreResults, RunParent, SelectOnPatch, Smoke, files, ComparedFairly
<1>. QED
  BY <1>1, <1>2

(* Whoever is not the command itself makes no comparison.                   *)
LEMMA ApartComparisons ==
  ASSUME BaseInv, Apart \/ Orphan \/ UNCHANGED batchVars
  PROVE  \A i \in Instance : comparisons'[i] \notin {None, Torn} => comparisons'[i] = comparisons[i]
<1>1. comparisons \in [Instance -> {None, Torn} \cup Comparison]
  BY DEF BaseInv, TypeInv
<1>a. CASE UNCHANGED comparisons
  BY <1>a
<1>b. CASE Kill
  BY <1>b, <1>1 DEF Kill, KillJob
<1>c. CASE RemoveTorn
  BY <1>c, <1>1 DEF RemoveTorn
<1>d. ResumingStep \/ PhaseStep \/ StageStep \/ Exit \/ Orphan => UNCHANGED comparisons
  BY DEF ResumingStep, SkipCompleted, CallFirst, RefuseInTry, CallSecond, FinishInstance,
     FinishBatch, PhaseStep, SkipPhase, CallPhase, FinishPhase, ReviewBetween, StageStep,
     CallStage, FinishStage, Exit, Orphan, Kept, files, runVars
<1>e. Person => RemoveTorn \/ UNCHANGED comparisons
  BY StartBase DEF Person, Start, ApplyReviews, Refine, Normalize, Rewrite, Edit, CleanUp,
     Command, files, runVars
<1>. QED
  BY <1>a, <1>b, <1>c, <1>d, <1>e DEF Apart, batchVars, runVars, files

LEMMA NextCompared ==
  ASSUME BaseInv, TreeInv, ComparedFairly, [Next]_batchVars
  PROVE  ComparedFairly'
<1>1. CASE JobStep /\ UNCHANGED <<status, batch>>
  BY <1>1, JobStepCompared
<1>2. CASE Apart \/ Orphan \/ UNCHANGED batchVars
  BY <1>2, ApartComparisons DEF ComparedFairly
<1>. QED
  BY <1>1, <1>2, NextSplit

(* NameRTS is judged on the bare base commit and on that commit with the    *)
(* patch alone, whatever commands, deaths and edits went before.            *)
THEOREM ComparisonsFair == Spec => []ComparedFairly
<1>1. BatchInit => TreeInv /\ ComparedFairly
  BY NoJobTyped DEF BatchInit, RunInit, TreeInv, ComparedFairly
<1>2. BaseInv /\ TreeInv /\ ComparedFairly /\ [Next]_batchVars
        => TreeInv' /\ ComparedFairly'
  BY NextTree, NextCompared
<1>. QED
  BY <1>1, <1>2, BaseInvariant, PTL DEF Spec

---------------------------------------------------------------------------
(* The records of the ground truth *)

LEMMA RunFaithful ==
  ASSUME BaseInv, TreeInv, RunTests
  PROVE  job'.pc = "record" /\ job'.inst = job.inst /\ Faithful(job.inst, job'.ran)
<1>1. /\ job \in Job /\ job.inst \in Instance /\ job.pc = "tests"
      /\ tree.probed /\ tree.change = job.inst
  BY DEF RunTests, BaseInv, TypeInv, ControlInv, TreeInv
<1>2. Entered = Enters[job.inst] /\ Enters[job.inst] \in SUBSET TestFile
  BY <1>1, WorldAssumption DEF Entered
<1>3. PICK late \in SUBSET TestFile : \E cut \in SUBSET (late \cap Entered) :
        job' = [job EXCEPT !.pc = "record",
                  !.ran = [t \in TestFile |-> [hit |-> t \in Entered \ cut, late |-> t \in late]]]
  BY DEF RunTests
<1>4. PICK cut \in SUBSET (late \cap Entered) :
        job' = [job EXCEPT !.pc = "record",
                  !.ran = [t \in TestFile |-> [hit |-> t \in Entered \ cut, late |-> t \in late]]]
  BY <1>3
<1>5. /\ job'.pc = "record" /\ job'.inst = job.inst
      /\ job'.ran = [t \in TestFile |-> [hit |-> t \in Entered \ cut, late |-> t \in late]]
  BY <1>1, <1>4 DEF Job
<1>. DEFINE seen(t) == [hit |-> t \in Entered \ cut, late |-> t \in late]
<1>6. \A t \in TestFile : job'.ran[t] = seen(t)
  BY <1>5
<1>7. \A t : seen(t).hit = (t \in Entered \ cut) /\ seen(t).late = (t \in late)
  OBVIOUS
<1>. HIDE DEF seen
<1>8. Hit(job'.ran) = Enters[job.inst] \ cut
  <2>1. Hit(job'.ran) = {t \in TestFile : t \in Entered \ cut}
    BY <1>6, <1>7 DEF Hit
  <2>. QED
    BY <1>2, <2>1
<1>9. Late(job'.ran) = late
  BY <1>6, <1>7 DEF Late
<1>. QED
  BY <1>2, <1>5, <1>8, <1>9 DEF Faithful

LEMMA NewRecordOK ==
  ASSUME NEW i \in Instance, NEW ran, Faithful(i, ran)
  PROVE  RecordOK(i, NewRecord(i, ran)) /\ Backed(i, NewRecord(i, ran), ran)
BY DEF NewRecord, PassingHits, Faithful, Backed, RecordOK

LEMMA ReviewedOK ==
  ASSUME NEW i \in Instance, NEW record \in Record, NEW review, RecordOK(i, record)
  PROVE  /\ RecordOK(i, Reviewed(record, review))
         /\ Reviewed(record, review).late = record.late
         /\ Reviewed(record, review).failed = record.failed
         /\ Reviewed(record, review).hits = record.hits
         /\ Reviewed(record, review).excluded = Excluded(record.hits, review)
BY DEF Reviewed, Record, RecordOK, Excluded

LEMMA RefinedOK ==
  ASSUME NEW i \in Instance, truths[i] \in Record, Backed(i, truths[i], stored[i])
  PROVE  /\ RecordOK(i, RefinedRecord(i)) /\ Backed(i, RefinedRecord(i), stored[i])
         /\ RefinedRecord(i).run = RefinedRecord(i).hits
         /\ RefinedRecord(i).hits = PassingHits(i, stored[i])
<1>1. /\ RefinedRecord(i).all = Hit(stored[i])
      /\ RefinedRecord(i).hits = PassingHits(i, stored[i])
      /\ RefinedRecord(i).run = PassingHits(i, stored[i])
      /\ RefinedRecord(i).late = truths[i].late
      /\ RefinedRecord(i).failed = truths[i].failed
  BY DEF RefinedRecord, Record
<1>2. PassingHits(i, stored[i]) \subseteq Hit(stored[i])
  BY DEF PassingHits
<1>. QED
  BY <1>1, <1>2 DEF Backed, Faithful, RecordOK


(* The ways the records change by another hand than that of the command. *)
RecordsKept ==
  /\ truths' # Torn => \A i \in Instance :
       truths'[i] # None => truths # Torn /\ truths'[i] = truths[i]
  /\ \A i \in Instance : stored'[i] \notin {None, Torn} => stored'[i] = stored[i]
RecordsReviewed ==
  /\ driver # "final" /\ truths # Torn /\ stored' = stored
  /\ \E reviews \in ReviewFiles : truths' = ReviewedTruths(reviews)

LEMMA ApartRecords ==
  ASSUME BaseInv, Apart \/ Orphan \/ UNCHANGED batchVars
  PROVE  RecordsKept \/ RecordsReviewed \/ Refine \/ Normalize
<1>1. stored \in [Instance -> {None, Torn} \cup [TestFile -> Result]]
  BY DEF BaseInv, TypeInv
<1>2. UNCHANGED <<truths, stored>> => RecordsKept
  BY DEF RecordsKept
<1>a. CASE Kill
  BY <1>a, <1>1 DEF Kill, KillJob, RecordsKept
<1>b. CASE RemoveTorn
  <2>1. CASE truths = Torn
    BY <1>b, <2>1 DEF RemoveTorn, RecordsKept
  <2>2. CASE truths # Torn
    BY <1>b, <2>2 DEF RemoveTorn, RecordsKept
  <2>. QED
    BY <2>1, <2>2
<1>c. CASE driver = "django" /\ ReviewBetween
  BY <1>2, <1>c DEF ReviewBetween, RecordsReviewed
<1>d. CASE ApplyReviews
  BY <1>d DEF ApplyReviews, Rewrite, RecordsReviewed
<1>e. ResumingStep \/ PhaseStep \/ StageStep \/ Exit \/ Orphan
        => (driver = "django" /\ ReviewBetween) \/ UNCHANGED <<truths, stored>>
  BY DEF ResumingStep, SkipCompleted, CallFirst, RefuseInTry, CallSecond, FinishInstance,
     FinishBatch, PhaseStep, SkipPhase, CallPhase, FinishPhase, StageStep,
     CallStage, FinishStage, Exit, Orphan, Kept, files, runVars
<1>f. Person => \/ ApplyReviews \/ Refine \/ Normalize \/ RemoveTorn
                \/ UNCHANGED <<truths, stored>>
  BY StartBase DEF Person, Start, Edit, CleanUp, Command, files, runVars
<1>. QED
  BY <1>2, <1>a, <1>b, <1>c, <1>d, <1>e, <1>f DEF Apart, batchVars, runVars, files

LEMMA JobStepTruth ==
  ASSUME BaseInv, TreeInv, TruthInv, JobStep, UNCHANGED <<status, batch>>
  PROVE  TruthInv'
<1>1. /\ job.pc # "none" /\ job.inst \in Instance /\ Patch = job.inst
      /\ job'.kind = job.kind /\ job'.inst = job.inst /\ job \in Job
      /\ stored \in [Instance -> {None, Torn} \cup [TestFile -> Result]]
      /\ truths # Torn => truths \in [Instance -> {None} \cup Record]
      /\ TypeInv
  BY JobStepBase DEF BaseInv, TypeInv, Patch
<1>2. ASSUME job'.pc \notin {"record", "store"}, UNCHANGED <<truths, stored>>
      PROVE  TruthInv'
  BY <1>2 DEF TruthInv
<1>a. CASE RunTests
  <2>1. UNCHANGED <<truths, stored>>
    BY <1>a DEF RunTests, files
  <2>. QED
    BY <1>a, <2>1, RunFaithful DEF TruthInv
<1>b. CASE UpdateRecords
  <2>1. CASE truths = Torn
    BY <1>b, <1>1, <1>2, <2>1, ThrownTyped DEF UpdateRecords
  <2>2. CASE truths # Torn
    <3>1. /\ job.pc = "record"
          /\ truths' = [truths EXCEPT ![job.inst] = NewRecord(job.inst, job.ran)]
          /\ stored' = [stored EXCEPT ![job.inst] = None]
          /\ job'.pc = "store" /\ job'.ran = job.ran
      BY <1>b, <1>1, <2>2 DEF UpdateRecords, Job
    <3>2. Faithful(job.inst, job.ran)
      BY <3>1 DEF TruthInv
    <3>3. /\ RecordOK(job.inst, NewRecord(job.inst, job.ran))
          /\ Backed(job.inst, NewRecord(job.inst, job.ran), job.ran)
      BY <1>1, <3>2, NewRecordOK
    <3>4. \A i \in Instance \ {job.inst} : truths'[i] = truths[i] /\ stored'[i] = stored[i]
      BY <1>1, <2>2, <3>1
    <3>5. truths'[job.inst] = NewRecord(job.inst, job.ran) /\ stored'[job.inst] = None
      BY <1>1, <2>2, <3>1
    <3>. QED
      BY <1>1, <2>2, <3>1, <3>2, <3>3, <3>4, <3>5 DEF TruthInv
  <2>. QED
    BY <2>1, <2>2
<1>c. CASE StoreResults
  <2>1. /\ job.pc = "store" /\ job'.pc = "cleanup" /\ truths' = truths
        /\ stored' = [stored EXCEPT ![job.inst] = job.ran]
    BY <1>c, <1>1 DEF StoreResults, Job
  <2>2. \A i \in Instance \ {job.inst} : stored'[i] = stored[i]
    BY <1>1, <2>1
  <2>3. stored'[job.inst] = job.ran
    BY <1>1, <2>1
  <2>. QED
    BY <2>1, <2>2, <2>3 DEF TruthInv
<1>d. CASE ~(RunTests \/ UpdateRecords \/ StoreResults)
  <2>1. UNCHANGED <<truths, stored>>
    BY <1>d DEF JobStep, Open, Refuse, Raise, Cleanup, ApplyAndProbe, RunParent,
       SelectOnPatch, Compare, Smoke, files
  <2>2. job'.pc \notin {"record", "store"}
    BY <1>d, <1>1, ThrownTyped
    DEF JobStep, Open, Refuse, Raise, Cleanup, ApplyAndProbe, RunParent, SelectOnPatch,
        Compare, Smoke, Job
  <2>. QED
    BY <1>2, <2>1, <2>2
<1>. QED
  BY <1>a, <1>b, <1>c, <1>d

LEMMA ApartTruth ==
  ASSUME BaseInv, TruthInv, Apart
  PROVE  TruthInv'
<1>1. job'.pc \notin {"record", "store"}
  BY ApartFresh
<1>2. truths # Torn => truths \in [Instance -> {None} \cup Record]
  BY DEF BaseInv, TypeInv
<1>3. SUFFICES ASSUME truths' # Torn, NEW i \in Instance, truths'[i] # None
               PROVE  /\ RecordOK(i, truths'[i])
                      /\ stored'[i] \notin {None, Torn} => Backed(i, truths'[i], stored'[i])
  BY <1>1 DEF TruthInv
<1>a. CASE RecordsKept
  BY <1>3, <1>a DEF RecordsKept, TruthInv
<1>b. CASE RecordsReviewed
  <2>1. PICK reviews \in ReviewFiles : truths' = ReviewedTruths(reviews)
    BY <1>b DEF RecordsReviewed
  <2>2. truths # Torn /\ truths[i] # None /\ stored' = stored
    BY <1>3, <1>b, <2>1 DEF RecordsReviewed, ReviewedTruths
  <2>3. \/ truths'[i] = truths[i]
        \/ truths'[i] = Reviewed(truths[i], Decision(reviews[i]))
    BY <2>1 DEF ReviewedTruths
  <2>4. /\ RecordOK(i, truths[i])
        /\ stored[i] \notin {None, Torn} => Backed(i, truths[i], stored[i])
    BY <2>2 DEF TruthInv
  <2>5. truths[i] \in Record
    BY <1>2, <2>2
  <2>. QED
    BY <2>2, <2>3, <2>4, <2>5, ReviewedOK DEF Backed
<1>c. CASE Refine
  <2>1. /\ truths # Torn /\ stored' = stored
        /\ truths' = [j \in Instance |-> IF truths[j] = None THEN None ELSE RefinedRecord(j)]
        /\ truths[i] # None => stored[i] \notin {None, Torn}
    BY <1>c DEF Refine, Rewrite
  <2>2. truths[i] # None /\ truths'[i] = RefinedRecord(i)
    BY <1>3, <2>1
  <2>3. truths[i] \in Record /\ Backed(i, truths[i], stored[i])
    BY <1>2, <2>1, <2>2 DEF TruthInv
  <2>. QED
    BY <2>1, <2>2, <2>3, RefinedOK
<1>d. CASE Normalize
  <2>1. /\ truths # Torn /\ stored' = stored
        /\ truths' = [j \in Instance |->
             IF truths[j] = None THEN None
             ELSE [truths[j] EXCEPT !.hits = truths[j].all, !.run = truths[j].all]]
    BY <1>d DEF Normalize, Rewrite
  <2>2. /\ truths[i] # None
        /\ truths'[i] = [truths[i] EXCEPT !.hits = truths[i].all, !.run = truths[i].all]
    BY <1>3, <2>1
  <2>3. /\ truths[i] \in Record /\ RecordOK(i, truths[i])
        /\ stored[i] \notin {None, Torn} => Backed(i, truths[i], stored[i])
    BY <1>2, <2>1, <2>2 DEF TruthInv
  <2>4. /\ truths'[i].all = truths[i].all /\ truths'[i].late = truths[i].late
        /\ truths'[i].failed = truths[i].failed
        /\ truths'[i].hits = truths[i].all /\ truths'[i].run = truths[i].all
    BY <2>2, <2>3 DEF Record
  <2>. QED
    BY <2>1, <2>3, <2>4 DEF RecordOK, Backed
<1>. QED
  BY <1>a, <1>b, <1>c, <1>d, ApartRecords

LEMMA NextTruth ==
  ASSUME BaseInv, TreeInv, TruthInv, [Next]_batchVars
  PROVE  TruthInv'
<1>1. CASE JobStep /\ UNCHANGED <<status, batch>>
  BY <1>1, JobStepTruth
<1>2. CASE Apart
  BY <1>2, ApartTruth
<1>3. CASE Orphan \/ UNCHANGED batchVars
  BY <1>3 DEF Orphan, batchVars, runVars, files, TruthInv
<1>. QED
  BY <1>1, <1>2, <1>3, NextSplit

(* A record lists the test files that enter a changed function, but for     *)
(* those it names as cut off, and is compared on none but these.            *)
THEOREM GroundTruth == Spec => []TruthMeasured
<1>1. BatchInit => TreeInv /\ TruthInv
  BY NoJobTyped DEF BatchInit, RunInit, TreeInv, TruthInv
<1>2. BaseInv /\ TreeInv /\ TruthInv /\ [Next]_batchVars => TreeInv' /\ TruthInv'
  BY NextTree, NextTruth
<1>3. TruthInv => TruthMeasured
  BY DEF TruthInv, RecordOK, TruthMeasured
<1>. QED
  BY <1>1, <1>2, <1>3, BaseInvariant, PTL DEF Spec

---------------------------------------------------------------------------
(* The summary *)

LEMMA WholeAccounted ==
  ASSUME NEW i, NEW r, r.run = r.hits,
         Enters[i] \subseteq r.hits \cup r.late \cup (IF driver = "python39" THEN r.failed ELSE {})
  PROVE  Accounted(i, r)
BY DEF Accounted

LEMMA PassingAccounts ==
  ASSUME NEW i \in Instance, NEW ran, Faithful(i, ran)
  PROVE  Enters[i] \subseteq PassingHits(i, ran) \cup Failing(i, ran) \cup Late(ran)
BY DEF Faithful, PassingHits

LEMMA ReviewedAccounted ==
  ASSUME driver # "final", NEW i \in Instance, NEW record \in Record, Accounted(i, record),
         NEW reviews \in ReviewFiles, Decision(reviews[i]) # None
  PROVE  Accounted(i, Reviewed(record, Decision(reviews[i])))
<1>. DEFINE review == Decision(reviews[i])
            new == Reviewed(record, review)
            excluded == Excluded(record.hits, review)
            base == IF driver = "python39" THEN record.run ELSE record.hits
<1>1. /\ new.hits = record.hits /\ new.failed = record.failed /\ new.late = record.late
      /\ new.excluded = excluded
      /\ new.run = (base \ excluded) \cup (record.hits \cap review.include)
  BY DEF Reviewed, Record
<1>2. SetAside(i, new) = SetAside(i, record)
  BY <1>1 DEF SetAside
<1>3. ASSUME driver = "python39" PROVE new.hits \ new.run \subseteq SetAside(i, record)
  <2>1. review = reviews[i] /\ reviews[i] # None
    BY <1>3 DEF Decision
  <2>2. excluded \subseteq SetAside(i, record)
    BY <2>1 DEF SetAside
  <2>3. record.hits \ record.run \subseteq SetAside(i, record)
    BY <1>3 DEF Accounted
  <2>. QED
    BY <1>1, <1>3, <2>2, <2>3
<1>4. ASSUME driver # "python39" PROVE new.hits \ new.run \subseteq new.excluded
  BY <1>1, <1>4
<1>5. Enters[i] \subseteq record.hits \cup record.late
                           \cup (IF driver = "python39" THEN record.failed ELSE {})
  BY DEF Accounted
<1>. QED
  BY <1>1, <1>2, <1>3, <1>4, <1>5 DEF Accounted

LEMMA NextAccounted ==
  ASSUME BaseInv, TreeInv, TruthInv, AccountInv, [Next]_batchVars
  PROVE  AccountInv'
<1>1. driver' = driver
  <2>1. JobStep \/ Orphan => driver' = driver
    BY DEF JobStep, Open, Refuse, Raise, Cleanup, ApplyAndProbe, RunTests, UpdateRecords,
       StoreResults, RunParent, SelectOnPatch, Compare, Smoke, Orphan
  <2>. QED
    BY <2>1, NextSplit, ApartFresh DEF batchVars, runVars
<1>2. truths # Torn => truths \in [Instance -> {None} \cup Record]
  BY DEF BaseInv, TypeInv
<1>3. SUFFICES ASSUME truths' # Torn, NEW i \in Instance, truths'[i] # None
               PROVE  Accounted(i, truths'[i])
  BY <1>1 DEF AccountInv, Accounted, SetAside
<1>a. CASE RecordsKept
  BY <1>3, <1>a DEF RecordsKept, AccountInv
<1>b. CASE RecordsReviewed
  <2>1. PICK reviews \in ReviewFiles : truths' = ReviewedTruths(reviews)
    BY <1>b DEF RecordsReviewed
  <2>2. driver # "final" /\ truths # Torn /\ truths[i] # None /\ truths[i] \in Record
    BY <1>2, <1>3, <1>b, <2>1 DEF RecordsReviewed, ReviewedTruths
  <2>3. \/ truths'[i] = truths[i]
        \/ /\ Decision(reviews[i]) # None
           /\ truths'[i] = Reviewed(truths[i], Decision(reviews[i]))
    BY <2>1 DEF ReviewedTruths
  <2>4. Accounted(i, truths[i])
    BY <2>2 DEF AccountInv
  <2>. QED
    BY <2>2, <2>3, <2>4, ReviewedAccounted
<1>c. CASE Refine
  <2>1. /\ truths # Torn /\ truths[i] # None /\ truths'[i] = RefinedRecord(i)
        /\ stored[i] \notin {None, Torn} /\ driver = "python39"
    BY <1>3, <1>c DEF Refine, Rewrite
  <2>2. truths[i] \in Record /\ Backed(i, truths[i], stored[i])
    BY <1>2, <2>1 DEF TruthInv
  <2>3. /\ RefinedRecord(i).run = RefinedRecord(i).hits
        /\ RefinedRecord(i).hits = PassingHits(i, stored[i])
        /\ Backed(i, RefinedRecord(i), stored[i])
    BY <2>2, RefinedOK
  <2>4. Enters[i] \subseteq RefinedRecord(i).hits \cup RefinedRecord(i).failed
                              \cup RefinedRecord(i).late
    BY <2>3, PassingAccounts DEF Backed
  <2>. QED
    BY <2>1, <2>3, <2>4, WholeAccounted
<1>d. CASE Normalize
  <2>1. /\ truths # Torn /\ truths[i] # None
        /\ truths'[i] = [truths[i] EXCEPT !.hits = truths[i].all, !.run = truths[i].all]
    BY <1>3, <1>d DEF Normalize, Rewrite
  <2>2. truths[i] \in Record /\ RecordOK(i, truths[i])
    BY <1>2, <2>1 DEF TruthInv
  <2>3. /\ truths'[i].late = truths[i].late /\ truths'[i].failed = truths[i].failed
        /\ truths'[i].hits = truths[i].all /\ truths'[i].run = truths[i].all
    BY <2>1, <2>2 DEF Record
  <2>4. Enters[i] \subseteq truths'[i].hits \cup truths'[i].late
    BY <2>2, <2>3 DEF RecordOK
  <2>. QED
    BY <2>3, <2>4, WholeAccounted
<1>e. CASE JobStep /\ UNCHANGED <<status, batch>>
  <2>1. CASE truths' = truths
    BY <1>3, <2>1 DEF AccountInv
  <2>2. CASE truths' # truths
    <3>1. UpdateRecords /\ truths # Torn
      BY <1>e, <2>2
      DEF JobStep, Open, Refuse, Raise, Cleanup, ApplyAndProbe, RunTests, UpdateRecords,
          StoreResults, RunParent, SelectOnPatch, Compare, Smoke, files
    <3>2. /\ job.pc = "record" /\ job.inst \in Instance
          /\ truths' = [truths EXCEPT ![job.inst] = NewRecord(job.inst, job.ran)]
      BY <1>e, <3>1, JobStepBase DEF UpdateRecords, Patch
    <3>3. CASE i # job.inst
      BY <1>2, <1>3, <3>1, <3>2, <3>3 DEF AccountInv
    <3>4. CASE i = job.inst
      <4>1. truths'[i] = NewRecord(i, job.ran) /\ Faithful(i, job.ran)
        BY <1>2, <3>1, <3>2, <3>4 DEF TruthInv
      <4>2. /\ NewRecord(i, job.ran).run = NewRecord(i, job.ran).hits
            /\ Enters[i] \subseteq NewRecord(i, job.ran).hits \cup NewRecord(i, job.ran).late
        BY <4>1 DEF NewRecord, Faithful
      <4>. QED
        BY <4>1, <4>2, WholeAccounted
    <3>. QED
      BY <3>3, <3>4
  <2>. QED
    BY <2>1, <2>2
<1>. QED
  BY <1>a, <1>b, <1>c, <1>d, <1>e, NextSplit, ApartRecords

(* Of the hits set aside python39 lists those of the latest review, and the *)
(* other ones are overruled.                                                *)
LEMMA SetAsideShown ==
  ASSUME NEW i, NEW r
  PROVE  SetAside(i, r) \subseteq r.excluded \cup Overruled(i, Written(r, Selects[i]))
<1>1. Written(r, Selects[i]).hits = r.hits /\ Written(r, Selects[i]).excluded = r.excluded
  BY DEF Written
<1>2. ASSUME NEW reviews \in ReviewFiles, reviews[i] # None
      PROVE  Excluded(r.hits, reviews[i])
               \subseteq r.excluded \cup Overruled(i, Written(r, Selects[i]))
  <2>1. CASE Excluded(r.hits, reviews[i]) = r.excluded
    BY <2>1
  <2>2. CASE Excluded(r.hits, reviews[i]) # r.excluded
    BY <1>1, <1>2, <2>2 DEF Overruled
  <2>. QED
    BY <2>1, <2>2
<1>. QED
  BY <1>2 DEF SetAside

(* A part of the test files that were cut off is counted with them. *)
LEMMA CountedLate ==
  ASSUME NEW r \in Record, NEW S, S \subseteq r.late
  PROVE  Cardinality(S) <= Cardinality(r.late)
<1>1. IsFiniteSet(r.late)
  BY WorldAssumption, FS_Subset DEF Record
<1>. QED
  BY <1>1, FS_Subset

LEMMA AccountedSummary ==
  ASSUME BaseInv, AccountInv
  PROVE  SummaryAccounts
<1>. DEFINE unlisted(i) == Enters[i] \ (Selects[i] \cup Summary[i].missing)
<1>1. SUFFICES ASSUME CanSummarize, NEW i \in DOMAIN Summary
      PROVE  CASE driver \in {"python39", "sklearn"} ->
                    unlisted(i) \subseteq
                      Summary[i].failed \cup Summary[i].late \cup Summary[i].excluded
                      \cup (IF driver = "python39" THEN Overruled(i, Summary[i]) ELSE {})
               [] driver = "django" ->
                    Cardinality(unlisted(i) \ Summary[i].excluded) <= Summary[i].late
               [] driver = "final" ->
                    Summary[i].measured => Cardinality(unlisted(i)) <= Summary[i].late
  BY DEF SummaryAccounts
<1>2. i \in Instance /\ Summary[i] = Summarized(i) /\ driver \in Drivers
      /\ (driver # "final" => truths[i] # None)
  BY DEF Summary, BaseInv, TypeInv
<1>3. truths[i] # None => truths[i] \in Record /\ Accounted(i, truths[i])
  BY <1>1, <1>2 DEF CanSummarize, AccountInv, BaseInv, TypeInv
<1>a. CASE driver \in {"python39", "sklearn"}
  <2>1. truths[i] \in Record /\ Accounted(i, truths[i])
    BY <1>2, <1>3, <1>a
  <2>2. Summary[i] = Written(truths[i], Selects[i])
    BY <1>2, <1>a DEF Summarized
  <2>3. /\ Summary[i].missing = truths[i].run \ Selects[i]
        /\ Summary[i].failed = truths[i].failed /\ Summary[i].late = truths[i].late
        /\ Summary[i].excluded = truths[i].excluded
    BY <2>2 DEF Written
  <2>4. CASE driver = "python39"
    <3>1. truths[i].hits \ truths[i].run \subseteq truths[i].excluded \cup Overruled(i, Summary[i])
      BY <2>1, <2>2, <2>4, SetAsideShown DEF Accounted
    <3>2. Enters[i] \subseteq truths[i].hits \cup truths[i].late \cup truths[i].failed
      BY <2>1, <2>4 DEF Accounted
    <3>. QED
      BY <2>3, <2>4, <3>1, <3>2
  <2>5. CASE driver = "sklearn"
    BY <2>1, <2>3, <2>5 DEF Accounted
  <2>. QED
    BY <1>a, <2>4, <2>5
<1>b. CASE driver = "django"
  <2>1. truths[i] \in Record /\ Accounted(i, truths[i])
    BY <1>2, <1>3, <1>b
  <2>2. Summary[i] = WithCounts(Written(truths[i], Selects[i]))
    BY <1>2, <1>b DEF Summarized
  <2>3. /\ Summary[i].missing = truths[i].run \ Selects[i]
        /\ Summary[i].late = Cardinality(truths[i].late)
        /\ Summary[i].excluded = truths[i].excluded
    BY <2>2 DEF WithCounts, Written
  <2>4. unlisted(i) \ Summary[i].excluded \subseteq truths[i].late
    BY <1>b, <2>1, <2>3 DEF Accounted
  <2>. QED
    BY <1>b, <2>1, <2>3, <2>4, CountedLate
<1>c. CASE driver = "final"
  <2>1. SUFFICES ASSUME Summary[i].measured
                 PROVE  Cardinality(unlisted(i)) <= Summary[i].late
    BY <1>c
  <2>2. PICK record, selected :
          /\ Summary[i] = Counted(truths[i] # None, record, selected)
          /\ truths[i] # None => record = truths[i]
          /\ selected = (IF comparisons[i] = None THEN {} ELSE Selects[i])
    BY <1>2, <1>c DEF Summarized
  <2>3. /\ Summary[i].measured = (truths[i] # None)
        /\ Summary[i].missing = record.run \ selected
        /\ Summary[i].late = Cardinality(record.late)
    BY <2>2 DEF Counted
  <2>4. record = truths[i] /\ truths[i] \in Record /\ Accounted(i, truths[i])
    BY <1>3, <2>1, <2>2, <2>3
  <2>5. unlisted(i) \subseteq truths[i].late
    BY <1>c, <2>2, <2>3, <2>4 DEF Accounted
  <2>. QED
    BY <2>3, <2>4, <2>5, CountedLate
<1>. QED
  BY <1>2, <1>a, <1>b, <1>c, WorldAssumption

(* The figures lose no test, whatever was measured, compared, reviewed and  *)
(* refined in whatever order: one that enters a changed function and is     *)
(* neither selected nor missing is accounted for in the way of the script.  *)
THEOREM SummaryComplete == Spec => []SummaryAccounts
<1>1. BatchInit => TreeInv /\ TruthInv /\ AccountInv
  BY NoJobTyped DEF BatchInit, RunInit, TreeInv, TruthInv, AccountInv
<1>2. BaseInv /\ TreeInv /\ TruthInv /\ AccountInv /\ [Next]_batchVars
        => TreeInv' /\ TruthInv' /\ AccountInv'
  BY NextTree, NextTruth, NextAccounted
<1>3. BaseInv /\ AccountInv => SummaryAccounts
  BY AccountedSummary
<1>. QED
  BY <1>1, <1>2, <1>3, BaseInvariant, PTL DEF Spec

---------------------------------------------------------------------------
(* The files, read back *)

LEMMA CountsTyped ==
  ASSUME NEW S \in SUBSET TestFile
  PROVE  Cardinality(S) \in Nat
BY WorldAssumption, FS_Subset, FS_CardinalityType

LEMMA SummarizedTyped ==
  ASSUME TypeInv, CanSummarize, NEW i \in DOMAIN Summary
  PROVE  Summarized(i) \in Entry
<1>1. /\ i \in Instance /\ Selects[i] \in SUBSET TestFile /\ driver \in Drivers
      /\ driver # "final" => truths[i] \in Record
      /\ truths[i] # None => truths[i] \in Record
  BY WorldAssumption DEF TypeInv, CanSummarize, Summary
<1>a. CASE driver \in {"python39", "sklearn"}
  BY <1>1, <1>a DEF Summarized, Written, Record, Entry
<1>b. CASE driver = "django"
  <2>1. Cardinality(truths[i].failed) \in Nat /\ Cardinality(truths[i].late) \in Nat
    BY <1>1, <1>b, CountsTyped DEF Record
  <2>. QED
    BY <1>1, <1>b, <2>1 DEF Summarized, WithCounts, Written, Record, Entry
<1>c. CASE driver = "final"
  <2>1. PICK record, selected :
          /\ Summarized(i) = Counted(truths[i] # None, record, selected)
          /\ record = (IF truths[i] = None THEN NoTests ELSE truths[i])
          /\ selected = (IF comparisons[i] = None THEN {} ELSE Selects[i])
    BY <1>c DEF Summarized
  <2>2. /\ record.hits \in SUBSET TestFile /\ record.run \in SUBSET TestFile
        /\ record.failed \in SUBSET TestFile /\ record.late \in SUBSET TestFile
        /\ selected \in SUBSET TestFile
    BY <1>1, <2>1 DEF NoTests, Record
  <2>3. /\ Cardinality(record.hits) \in Nat /\ Cardinality(record.run) \in Nat
        /\ Cardinality(record.failed) \in Nat /\ Cardinality(record.late) \in Nat
        /\ Cardinality(selected) \in Nat
    BY <2>2, CountsTyped
  <2>. QED
    BY <1>c, <2>1, <2>2, <2>3 DEF Counted, Entry
<1>. QED
  BY <1>1, <1>a, <1>b, <1>c, WorldAssumption

LEMMA BaseTyped ==
  ASSUME BaseInv
  PROVE  DriversTypeOK
<1>1. CanSummarize => \A i \in DOMAIN Summary : Summary[i] \in Entry
  <2>. SUFFICES ASSUME CanSummarize, NEW i \in DOMAIN Summary PROVE Summary[i] \in Entry
    OBVIOUS
  <2>1. Summary[i] = Summarized(i)
    BY DEF Summary
  <2>. QED
    BY <2>1, SummarizedTyped DEF BaseInv
<1>2. /\ driver \in Drivers /\ tree \in Tree
      /\ truths = Torn \/ truths \in [Instance -> {None} \cup Record]
      /\ \A i \in Instance :
           /\ stored[i] \in {None, Torn} \/ stored[i] \in [TestFile -> Result]
           /\ comparisons[i] \in {None, Torn} \/ comparisons[i] \in Comparison
      /\ job.inst \in {None} \cup Instance /\ job.outcome \in Outcome
      /\ status = Torn \/ status \in [Instance -> [Phase -> Word]]
      /\ batch.index \in 1..(Len(Order) + 1) /\ batch.done \subseteq Instance
  BY DEF BaseInv, TypeInv, Job, Batch
<1>. QED
  BY <1>1, <1>2 DEF BaseInv, ControlInv, DriversTypeOK

(* Whatever a process leaves behind when it dies, what is read back has the *)
(* form the scripts expect or is recognisably torn, and no command works    *)
(* with results or data of a step it is not at.                             *)
THEOREM TypeCorrect == Spec => []DriversTypeOK
BY BaseInvariant, BaseTyped, PTL

---------------------------------------------------------------------------
(* What a person has changed in the checkout *)

LEMMA NextClean ==
  ASSUME BaseInv, CleanInv, [Next]_batchVars
  PROVE  CleanInv'
<1>1. ASSUME JobStep, UNCHANGED <<status, batch>>
      PROVE  CleanInv'
  <2>1. /\ job.inst \in Instance /\ Patch = job.inst /\ job'.inst = job.inst /\ job \in Job
        /\ TypeInv /\ driver' = driver
    BY <1>1, JobStepBase
    DEF BaseInv, TypeInv, Patch, JobStep, Open, Refuse, Raise, Cleanup, ApplyAndProbe,
        RunTests, UpdateRecords, StoreResults, RunParent, SelectOnPatch, Compare, Smoke
  <2>2. CASE job'.pc = "returned"
    BY <2>2 DEF CleanInv
  <2>3. CASE tree' \in {ResetTo(job.inst), Patched(job.inst, TRUE), Patched(job.inst, FALSE)}
    <3>1. ResetTo(job.inst).change = None
      BY <2>1, ResetTyped
    <3>2. Patched(job.inst, TRUE).change = job.inst /\ Patched(job.inst, FALSE).change = job.inst
      BY <2>1, PatchedTyped
    <3>. QED
      BY <2>1, <2>3, <3>1, <3>2 DEF CleanInv
  <2>4. CASE UNCHANGED tree /\ job.pc \notin {"none", "begin", "returned"}
    BY <2>1, <2>4 DEF CleanInv
  <2>5. CASE driver = "sklearn"
    BY <2>1, <2>5 DEF CleanInv
  <2>. QED
    BY <1>1, <2>1, <2>2, <2>3, <2>4, <2>5
    DEF JobStep, Open, Refuse, Raise, Cleanup, ApplyAndProbe, RunTests, UpdateRecords,
        StoreResults, RunParent, SelectOnPatch, Compare, Smoke, Job
<1>2. CASE Apart
  BY <1>2, ApartFresh DEF CleanInv
<1>3. CASE Orphan \/ UNCHANGED batchVars
  BY <1>3 DEF Orphan, batchVars, runVars, CleanInv
<1>. QED
  BY <1>1, <1>2, <1>3, NextSplit

LEMMA ProcessKeepsEdits ==
  ASSUME BaseInv, CleanInv, "sklearn" \notin Drivers, Process, tree.change = Edited
  PROVE  tree'.change = Edited
<1>1. driver # "sklearn" /\ TypeInv /\ ControlInv
  BY DEF BaseInv, TypeInv
<1>2. UNCHANGED tree => tree'.change = Edited
  OBVIOUS
<1>a. CASE Working
  <2>1. JobStep /\ UNCHANGED <<status, batch>>
    BY <1>a DEF Working
  <2>2. job.pc \in {"begin", "returned"}
    <3>1. job.pc # "none" /\ job.inst \in Instance
      BY <2>1, JobStepBase
    <3>. QED
      BY <1>1, <3>1, WorldAssumption DEF CleanInv
  <2>3. Refuse
    BY <1>1, <2>1, <2>2, WorldAssumption
    DEF JobStep, Open, Admitted, Raise, Cleanup, ApplyAndProbe, RunTests, UpdateRecords,
        StoreResults, RunParent, SelectOnPatch, Compare, Smoke
  <2>. QED
    BY <2>3 DEF Refuse
<1>b. CASE Exit \/ ResumingStep \/ PhaseStep \/ StageStep
  <2>1. UNCHANGED tree
    BY <1>1, <1>b
    DEF Exit, ResumingStep, SkipCompleted, CallFirst, RefuseInTry, CallSecond, FinishInstance,
        Finally, FinishBatch, PhaseStep, SkipPhase, CallPhase, FinishPhase, ReviewBetween,
        StageStep, CallStage, FinishStage, Kept, runVars
  <2>. QED
    BY <2>1
<1>. QED
  BY <1>a, <1>b DEF Process

(* No process of python39, django or final throws away what a person has    *)
(* changed in the checkout; sklearn does, in the finally of its batch.      *)
THEOREM EditsKept ==
  ASSUME "sklearn" \notin Drivers
  PROVE  Spec => NeverDiscards
<1>1. BatchInit => CleanInv
  BY NoJobTyped DEF BatchInit, RunInit, CleanInv
<1>2. BaseInv /\ CleanInv /\ [Next]_batchVars => CleanInv'
  BY NextClean
<1>3. BaseInv /\ CleanInv => [Process /\ tree.change = Edited => tree'.change = Edited]_batchVars
  BY ProcessKeepsEdits
<1>. QED
  BY <1>1, <1>2, <1>3, BaseInvariant, PTL DEF Spec, NeverDiscards

---------------------------------------------------------------------------
(* What a batch notes as done *)

LEMMA JobStepDone ==
  ASSUME BaseInv, TreeInv, DoneInv, JobStep, UNCHANGED <<status, batch>>
  PROVE  DoneInv'
<1>1. /\ job.inst \in Instance /\ Patch = job.inst /\ job \in Job /\ TypeInv
      /\ job'.kind = job.kind /\ job'.inst = job.inst
      /\ truths # Torn => truths \in [Instance -> {None} \cup Record]
      /\ comparisons \in [Instance -> {None, Torn} \cup Comparison]
      /\ job.pc # "none" /\ driver' = driver
  BY JobStepBase
  DEF BaseInv, TypeInv, Patch, JobStep, Open, Refuse, Raise, Cleanup, ApplyAndProbe,
      RunTests, UpdateRecords, StoreResults, RunParent, SelectOnPatch, Compare, Smoke
(* Records only come in, comparisons too. *)
<1>2. /\ \A i \in Instance : HasRecord(i) => HasRecord(i)'
      /\ \A i \in Instance : comparisons[i] # None => comparisons'[i] # None
      /\ job.pc = "record" /\ job'.pc = "store" => HasRecord(job.inst)'
      /\ job.pc = "compare" => comparisons'[job.inst] # None
  <2>1. CASE UpdateRecords
    <3>1. UNCHANGED comparisons /\ job.pc = "record"
      BY <2>1 DEF UpdateRecords
    <3>2. CASE truths = Torn
      BY <1>1, <2>1, <3>1, <3>2, ThrownTyped DEF UpdateRecords, HasRecord
    <3>3. CASE truths # Torn
      <4>1. truths' = [truths EXCEPT ![job.inst] = NewRecord(job.inst, job.ran)]
        BY <1>1, <2>1, <3>3 DEF UpdateRecords
      <4>2. NewRecord(job.inst, job.ran) \in Record /\ NewRecord(job.inst, job.ran) # None
        <5>1. NewRecord(job.inst, job.ran) \in Record
          BY <1>1, <3>1, RecordTyped DEF BaseInv, ControlInv
        <5>. QED
          BY <5>1, MarksAreNoData
      <4>3. truths' \in [Instance -> {None} \cup Record]
        BY <1>1, <3>3, <4>1, <4>2
      <4>4. truths' # Torn
        BY <4>3, MarksAreNoData
      <4>. QED
        BY <1>1, <3>1, <3>3, <4>1, <4>2, <4>4 DEF HasRecord
    <3>. QED
      BY <3>2, <3>3
  <2>2. CASE Compare
    <3>1. [parent |-> job.parent, current |-> SeenBy(job.inst, tree)] \in Comparison
      BY <1>1, <2>2, SeenTyped DEF Compare, Comparison, BaseInv, TypeInv, ControlInv
    <3>2. [parent |-> job.parent, current |-> SeenBy(job.inst, tree)] # None
      BY <3>1, MarksAreNoData
    <3>. QED
      BY <1>1, <2>2, <3>2 DEF Compare, HasRecord
  <2>3. CASE ~(UpdateRecords \/ Compare)
    <3>1. UNCHANGED <<truths, comparisons>> /\ job.pc \notin {"record", "compare"}
      BY <1>1, <2>3
      DEF JobStep, Open, Refuse, Raise, Cleanup, ApplyAndProbe, RunTests, StoreResults,
          RunParent, SelectOnPatch, Smoke, files
    <3>. QED
      BY <3>1 DEF HasRecord
  <2>. QED
    BY <2>1, <2>2, <2>3
<1>3. job'.pc = "store" => truths' # Torn /\ truths'[job'.inst] # None
  <2>1. job'.pc = "store" => job.pc = "record"
    BY <1>1, ThrownTyped
    DEF JobStep, Open, Refuse, Raise, Cleanup, ApplyAndProbe, RunTests, UpdateRecords,
        StoreResults, RunParent, SelectOnPatch, Compare, Smoke, Job
  <2>. QED
    BY <1>1, <1>2, <2>1 DEF HasRecord
<1>4. job'.kind = "namerts" /\ job'.pc \notin {"begin", "returned", "cleanup"} =>
        HasRecord(job.inst)'
  <2>1. ASSUME job.kind = "namerts", job'.pc \notin {"begin", "returned", "cleanup"}
        PROVE  HasRecord(job.inst)
    <3>1. job.pc = "begin" => Open
      BY <1>1, <2>1
      DEF JobStep, Open, Refuse, Raise, Cleanup, ApplyAndProbe, RunTests, UpdateRecords,
          StoreResults, RunParent, SelectOnPatch, Compare, Smoke, Job
    <3>2. job.pc \notin {"returned", "cleanup"}
      BY <1>1, <2>1
      DEF JobStep, Open, Refuse, Raise, Cleanup, ApplyAndProbe, RunTests, UpdateRecords,
          StoreResults, RunParent, SelectOnPatch, Compare, Smoke, Job
    <3>. QED
      BY <1>1, <2>1, <3>1, <3>2 DEF Open, Admitted, DoneInv
  <2>. QED
    BY <1>1, <1>2, <2>1
<1>5. ASSUME job'.pc \in {"cleanup", "returned"}, job'.outcome # "error", job'.kind # "smoke"
      PROVE  /\ HasRecord(job.inst)'
             /\ job'.kind = "namerts" => comparisons'[job.inst] # None
  <2>1. \/ job.pc = "cleanup" /\ job.outcome = job'.outcome
        \/ job.pc = "store" /\ job.kind = "truth"
        \/ job.pc = "compare" /\ job.kind = "namerts"
    <3>1. Cleanup \/ StoreResults \/ Compare
      BY <1>1, <1>5, ThrownTyped
      DEF JobStep, Open, Refuse, Raise, ApplyAndProbe, RunTests, UpdateRecords,
          RunParent, SelectOnPatch, Smoke, Job
    <3>. QED
      BY <1>1, <3>1 DEF Cleanup, StoreResults, Compare, TreeInv, Job
  <2>2. HasRecord(job.inst)
    BY <1>1, <1>5, <2>1 DEF DoneInv, HasRecord
  <2>3. job.kind = "namerts" => comparisons[job.inst] # None \/ job.pc = "compare"
    BY <1>1, <1>5, <2>1 DEF DoneInv
  <2>. QED
    BY <1>1, <1>2, <2>2, <2>3
<1>6. batch'.pc # "off" /\ Noting' /\ Resuming' =>
        (\A i \in batch'.done : HasRecord(i)') /\ job'.kind # "smoke"
  BY <1>1, <1>2 DEF DoneInv, Noting, Resuming, TypeInv, Batch
<1>. QED
  BY <1>1, <1>3, <1>4, <1>5, <1>6 DEF DoneInv, HasRecord

LEMMA ResumingStepDone ==
  ASSUME BaseInv, DoneInv, ResumingStep
  PROVE  DoneInv'
<1>1. /\ Resuming /\ Resuming' /\ batch.only # "smoke" /\ Noting /\ BaseInv'
      /\ job'.pc \in {"none", "begin"} /\ driver' = driver
  BY ResumingStepBase, ApartFresh DEF ResumingStep, Noting, Resuming, Apart
<1>2. UNCHANGED truths
  BY DEF ResumingStep, SkipCompleted, CallFirst, RefuseInTry, CallSecond, FinishInstance,
     FinishBatch, Kept, files, runVars
<1>3. batch.pc # "off"
  BY DEF ResumingStep, SkipCompleted, CallFirst, RefuseInTry, CallSecond, FinishInstance,
     FinishBatch, InLoop, Returned
<1>4. \A i \in batch.done : HasRecord(i)
  BY <1>1, <1>3 DEF DoneInv
<1>5. job'.kind \in {"none", "truth", "namerts"}
  <2>1. /\ \A i : Begin("truth", i).kind = "truth" /\ Begin("namerts", i).kind = "namerts"
        /\ NoJob.kind = "none"
    BY DEF Begin, NoJob
  <2>2. batch.pc = "next" => job = NoJob
    BY DEF BaseInv, ControlInv
  <2>. QED
    BY <2>1, <2>2
    DEF ResumingStep, SkipCompleted, CallFirst, RefuseInTry, CallSecond, FinishInstance,
        FinishBatch, InLoop, Kept, runVars
<1>6. batch'.pc # "off" => batch'.done \in {batch.done, batch.done \cup {Now}}
  <2>1. NextInstance.done = batch.done /\ NoBatch.pc = "off"
    BY DEF NextInstance, NoBatch, BaseInv, TypeInv, Batch
  <2>2. CallSecond => batch'.done = batch.done \cup {Now}
    BY DEF CallSecond, BaseInv, TypeInv, Batch
  <2>3. CallFirst => batch'.done = batch.done
    BY DEF CallFirst, BaseInv, TypeInv, Batch
  <2>. QED
    BY <2>1, <2>2, <2>3
    DEF ResumingStep, SkipCompleted, RefuseInTry, FinishInstance, FinishBatch, Failed
<1>7. batch'.pc # "off" /\ batch'.done # batch.done => HasRecord(Now)
  <2>1. CASE CallSecond
    <3>1. job.inst = Now /\ job.pc = "returned" /\ job.outcome # "error" /\ job.kind = "truth"
      BY <2>1 DEF CallSecond, Returned, BaseInv, ControlInv
    <3>. QED
      BY <3>1 DEF DoneInv
  <2>2. CASE ~CallSecond
    <3>1. NextInstance.done = batch.done /\ NoBatch.pc = "off"
      BY DEF NextInstance, NoBatch, BaseInv, TypeInv, Batch
    <3>2. CallFirst => batch'.done = batch.done
      BY DEF CallFirst, BaseInv, TypeInv, Batch
    <3>. QED
      BY <2>2, <3>1, <3>2
      DEF ResumingStep, SkipCompleted, RefuseInTry, FinishInstance, FinishBatch, Failed
  <2>. QED
    BY <2>1, <2>2
<1>8. batch'.pc # "off" => \A i \in batch'.done : HasRecord(i)'
  BY <1>2, <1>4, <1>6, <1>7 DEF HasRecord
<1>9. job'.kind = "namerts" => job'.pc = "begin"
  <2>1. NoJob.kind = "none"
    BY DEF NoJob
  <2>. QED
    BY <1>1, <2>1 DEF BaseInv, ControlInv
<1>. QED
  BY <1>1, <1>5, <1>8, <1>9 DEF DoneInv

LEMMA NextDone ==
  ASSUME BaseInv, TreeInv, DoneInv, [Next]_batchVars
  PROVE  DoneInv'
<1>1. CASE JobStep /\ UNCHANGED <<status, batch>>
  BY <1>1, JobStepDone
<1>2. CASE ResumingStep
  BY <1>2, ResumingStepDone
<1>3. CASE Apart /\ ~ResumingStep
  <2>1. job'.pc \in {"none", "begin"} /\ driver' = driver /\ BaseInv'
    <3>1. BaseInv'
      BY <1>3, PhaseStepBase, StageStepBase, ExitBase, PersonBase, KillBase DEF Apart
    <3>. QED
      BY <1>3, <3>1, ApartFresh
  <2>2. job'.kind = "namerts" => job'.pc = "begin"
    <3>1. NoJob.kind = "none"
      BY DEF NoJob
    <3>. QED
      BY <2>1, <3>1 DEF BaseInv, ControlInv
  <2>3. batch'.pc # "off" /\ Noting' /\ Resuming' =>
          (\A i \in batch'.done : HasRecord(i)') /\ job'.kind # "smoke"
    <3>1. CASE PhaseStep
      BY <2>1, <3>1 DEF PhaseStep, Resuming
    <3>2. CASE StageStep
      <4>1. batch'.pc # "off" => batch'.only = batch.only
        <5>1. batch' \in {NextInstance, NoBatch, [batch EXCEPT !.pc = "called"]}
          BY <3>2 DEF StageStep, CallStage, FinishStage, FinishBatch
        <5>2. batch \in Batch
          BY DEF BaseInv, TypeInv
        <5>3. NextInstance.only = batch.only /\ [batch EXCEPT !.pc = "called"].only = batch.only
          BY <5>2 DEF NextInstance, Batch
        <5>. QED
          BY <5>1, <5>3, NoBatchTyped
      <4>. QED
        BY <2>1, <3>2, <4>1 DEF StageStep, Noting, Resuming
    <3>3. CASE Exit \/ Kill
      <4>1. batch'.pc = "off"
        BY <3>3 DEF Exit, Kill, NoBatch
      <4>. QED
        BY <4>1
    <3>4. CASE Start
      <4>1. PICK o \in Options : StartResuming(o) \/ StartPhases(o) \/ StartStage(o)
        BY <3>4 DEF Start
      <4>2. /\ Quiet /\ batch'.only = o.only /\ UNCHANGED runVars /\ job'.kind # "smoke"
        BY <4>1, StartBase DEF Quiet, NoJob, runVars
      <4>3. CASE StartResuming(o)
        <5>1. batch'.done = {i \in Instance : truths[i] # None} /\ truths # Torn
          BY <4>3, DoneTyped DEF StartResuming
        <5>. QED
          BY <4>2, <5>1 DEF HasRecord, runVars, files
      <4>4. CASE StartPhases(o) \/ StartStage(o)
        BY <2>1, <4>2, <4>4 DEF StartPhases, StartStage, Noting, Resuming
      <4>. QED
        BY <4>1, <4>3, <4>4
    <3>5. CASE Person /\ ~Start
      <4>1. batch'.pc = "off"
        BY <3>5 DEF Person, ApplyReviews, Refine, Normalize, Rewrite, Edit, CleanUp,
           RemoveTorn, Command, Quiet
      <4>. QED
        BY <4>1
    <3>. QED
      BY <1>3, <3>1, <3>2, <3>3, <3>4, <3>5 DEF Apart
  <2>. QED
    BY <2>1, <2>2, <2>3 DEF DoneInv
<1>4. CASE Orphan
  <2>1. batch'.pc = "off"
    BY <1>4 DEF Orphan, NoBatch
  <2>. QED
    BY <1>4, <2>1 DEF Orphan, files, DoneInv, HasRecord
<1>5. CASE UNCHANGED batchVars
  BY <1>5 DEF batchVars, runVars, files, DoneInv, HasRecord, Noting, Resuming
<1>. QED
  BY <1>1, <1>2, <1>3, <1>4, <1>5, NextSplit

(* The steps that change an entry of the status file. *)
LEMMA NotedIsBacked ==
  ASSUME BaseInv, BaseInv', DoneInv, [Next]_batchVars,
         status # Torn, status' # Torn, NEW i \in Instance,
         status'[i]["all"] # status[i]["all"],
         status'[i]["all"] \in {"completed", "skipped_completed"}
  PROVE  /\ batch.only # "namerts" => HasRecord(i)
         /\ batch.only # "truth" => comparisons[i] # None
<1>1. status \in [Instance -> [Phase -> Word]] /\ "all" \in Phase
  BY DEF BaseInv, TypeInv, Phase
<1>2. status' # status
  OBVIOUS
<1>3. ASSUME NEW phase \in Phase, NEW word, Note(phase, word)
      PROVE  phase = "all" /\ i = Now /\ word \in {"completed", "skipped_completed"}
  BY <1>1, <1>3 DEF Note
<1>a. CASE ResumingStep
  <2>1. batch.pc # "off" /\ Noting /\ Resuming /\ batch.only # "smoke"
    BY <1>a
    DEF ResumingStep, SkipCompleted, CallFirst, RefuseInTry, CallSecond, FinishInstance,
        FinishBatch, InLoop, Returned, Noting
  <2>2. (\A j \in batch.done : HasRecord(j)) /\ job.kind # "smoke"
    BY <2>1 DEF DoneInv
  <2>3. ~Failed
    BY <1>1, <1>3 DEF Failed
  <2>4. CASE SkipCompleted
    <3>1. i = Now /\ ~NeedTruth /\ ~NeedNames
      BY <1>1, <1>3, <2>4 DEF SkipCompleted
    <3>. QED
      BY <2>2, <3>1 DEF NeedTruth, NeedNames
  <2>5. CASE FinishInstance
    <3>1. /\ job.outcome # "error" /\ (job.kind = "truth" => ~NeedNames)
          /\ Note("all", "completed")
      BY <2>3, <2>5 DEF FinishInstance
    <3>2. i = Now /\ job.inst = Now /\ job.pc = "returned" /\ job.kind \in Kinds \ {"none"}
      BY <1>1, <1>3, <2>5, <3>1 DEF FinishInstance, Returned, BaseInv, TypeInv, ControlInv, Job
    <3>3. HasRecord(Now) /\ (job.kind = "namerts" => comparisons[Now] # None)
      BY <2>2, <3>1, <3>2 DEF DoneInv
    <3>4. job.kind = "truth" => batch.only = "truth" \/ comparisons[Now] # None
      BY <3>1 DEF NeedNames
    <3>. QED
      BY <2>2, <3>2, <3>3, <3>4 DEF Kinds
  <2>6. SkipCompleted \/ FinishInstance
    BY <1>2, <1>a, <2>3 DEF ResumingStep, CallFirst, RefuseInTry, CallSecond, FinishBatch
  <2>. QED
    BY <2>4, <2>5, <2>6
<1>b. ~PhaseStep
  <2>1. SUFFICES ASSUME PhaseStep PROVE FALSE
    OBVIOUS
  <2>2. FinishPhase
    BY <1>2, <2>1 DEF PhaseStep, SkipPhase, CallPhase, ReviewBetween, FinishBatch
  <2>3. batch.phase \in Phase /\ batch.phase # "all"
    BY <2>1, <2>2 DEF FinishPhase, Returned, PhaseStep, BaseInv, TypeInv, ControlInv, Batch
  <2>4. PICK word : Note(batch.phase, word)
    BY <2>2 DEF FinishPhase
  <2>. QED
    BY <1>3, <2>3, <2>4
<1>c. JobStep /\ UNCHANGED <<status, batch>> => FALSE
  BY <1>2
<1>d. ~(StageStep \/ Exit \/ Person \/ Kill \/ Orphan \/ UNCHANGED batchVars)
  BY <1>2, StartBase
  DEF StageStep, CallStage, FinishStage, FinishBatch, Exit, Person, Start, StartResuming,
      StartPhases, StartStage, ApplyReviews, Refine, Normalize, Rewrite, Edit, CleanUp,
      RemoveTorn, Command, Kill, Orphan, batchVars
<1>. QED
  BY <1>a, <1>b, <1>c, <1>d, NextSplit DEF Apart

(* What a batch notes as completed, or as completed before, has the files   *)
(* the batch was to produce.                                                *)
THEOREM DoneBacked == Spec => DoneIsBacked
<1>1. BatchInit => TreeInv /\ DoneInv
  BY NoJobTyped, NoBatchTyped DEF BatchInit, RunInit, TreeInv, DoneInv, NoJob
<1>2. BaseInv /\ TreeInv /\ DoneInv /\ [Next]_batchVars => TreeInv' /\ DoneInv'
  BY NextTree, NextDone
<1>3. BaseInv /\ BaseInv' /\ DoneInv /\ [Next]_batchVars =>
        [status # Torn /\ status' # Torn => \A i \in Instance :
           /\ status'[i]["all"] # status[i]["all"]
           /\ status'[i]["all"] \in {"completed", "skipped_completed"}
           => /\ batch.only # "namerts" => HasRecord(i)
              /\ batch.only # "truth" => comparisons[i] # None]_batchVars
  BY NotedIsBacked
<1>. QED
  BY <1>1, <1>2, <1>3, BaseInvariant, PTL DEF Spec, DoneIsBacked
=============================================================================
