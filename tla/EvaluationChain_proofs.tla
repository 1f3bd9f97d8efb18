------------------------ MODULE EvaluationChain_proofs ------------------------
(***************************************************************************)
(* Proofs about evaluate.py: what the archives of the caches are worth, for *)
(* every list of instances and any number of deaths and restarts.  The     *)
(* steps of the tool are those of FileSelection, whose lemmas are used.    *)
(***************************************************************************)
EXTENDS EvaluationChain, FileSelection_proofs

(* The parent commits of the instances hold no file that does not compile: *)
(* such a file, met in the first run of a chain, is in no dependency list. *)
ParentsCompile ==
  \A k \in DOMAIN Instances : Compiled(Instances[k].parent) = Present(Instances[k].parent)

(* Test t is up to date with commit p by a history h. *)
CurrentIn(h, p, t, S) ==
  \/ h[t] = Killed
  \/ /\ h[t] \in Commit
     /\ Behaviour(h[t], t) = Behaviour(p, t)
     /\ Captured(p, t) \subseteq S

(* Caches d, with history h, hold all there is to know about commit c. *)
Stands(c, sums, d, h) ==
  /\ sums = ChecksumsOf(c)
  /\ d # None /\ IsDeps(d)
  /\ Present(c) \subseteq DOMAIN d.raw
  /\ KnowsStatic(c, d.raw)
  /\ h \in [TestFile -> Commit \cup {Never, Killed}]
  /\ \A t \in TestsAt(c) : CurrentIn(h, c, t, Recorded(d, t))

Tooling == stage \in {"parent", "current"}

(* Where the evaluation is, and what the caches hold there. *)
StageInv ==
  /\ stage \in {"begin", "parent", "current", "store parent", "store current", "failed", "over"}
  /\ stage # "over" => index \in DOMAIN Instances
  /\ crashes = 0
  /\ \A c \in Commit : archives[c] \notin {None, Torn} =>
       Stands(c, archives[c].checksums, archives[c].deps, archives[c].seen)
  /\ archives = [c \in Commit |-> archives[c]]
  /\ stage = "parent" /\ pc = "idle" => checksums = None /\ deps = None
  /\ stage = "current" /\ pc = "idle" => Stands(I.parent, checksums, deps, seen)
  /\ stage \in {"store parent", "store current"} =>
       pc = "done" /\ commit = Now /\ Stands(commit, checksums, deps, seen)

(* What the tool knows while it is at work on a commit of the instance. *)
ToolInv ==
  Tooling /\ pc # "idle" =>
    /\ commit = Now
    /\ ComparedInv /\ LoadInv /\ RunInv /\ DoneInv
    /\ pc = "load" => IF stage = "parent" THEN deps = None
                      ELSE deps # None /\ Present(I.parent) \subseteq DOMAIN deps.raw
    /\ stage = "current" /\ pc \in {"load", "run"} => changed = Differing(I.parent, I.current)
    /\ pc = "run" => Present(commit) \subseteq DOMAIN memory.raw
    /\ pc = "done" => Present(commit) \subseteq DOMAIN deps.raw

ChainInv == TypeInv /\ StageInv /\ ToolInv

ChainHypotheses == Hypotheses /\ ParentsCompile

LEMMA InstanceTyped ==
  ASSUME index \in DOMAIN Instances
  PROVE  I \in Instance /\ I.parent \in Commit /\ I.current \in Commit /\ Now \in Commit
         /\ index \in 1..Len(Instances)
<1>1. I \in Instance /\ index \in 1..Len(Instances)
  BY InstancesAssumption DEF I
<1>. QED
  BY <1>1 DEF Instance, Now

(* Caches that stand for a commit, restored or kept, are well-formed. *)
LEMMA StandsTyped ==
  ASSUME NEW c \in Commit, Stands(c, checksums, deps, seen)
  PROVE  KnowsTests(c, deps) /\ KnowsStatic(c, deps.raw) /\ deps # None
BY DEF Stands, KnowsTests, Current, CurrentIn

LEMMA StandsWhenDone ==
  ASSUME TypeInv, ComparedInv, DoneInv, pc = "done", Present(commit) \subseteq DOMAIN deps.raw
  PROVE  Stands(commit, checksums, deps, seen)
BY DEF TypeInv, TypeOK, ComparedInv, DoneInv, Stands, KnowsTests, Current, CurrentIn

LEMMA RefreshedDomain ==
  ASSUME NEW raw
  PROVE  DOMAIN raw \subseteq DOMAIN RefreshedRaw(raw)
<1> DEFINE fresh == [f \in changed \ removed |-> StaticImports(commit, f)]
           parsed == Update(raw, fresh)
           given(t) == IF t \in DOMAIN parsed THEN parsed[t] ELSE {}
           tests == [t \in TestsAt(commit) |-> given(t) \cup ConftestsAt(commit, t)]
<1>1. RefreshedRaw(raw) = Update(parsed, tests)
  BY DEF RefreshedRaw
<1>2. DOMAIN raw \subseteq DOMAIN parsed
  BY DEF Update
<1> HIDE DEF parsed
<1>. QED
  BY <1>1, <1>2 DEF Update

---------------------------------------------------------------------------
(* The steps of the tool *)

LEMMA CompareInChain ==
  ASSUME ChainHypotheses, ChainInv, Tooling, pc = "idle", CompareChecksums(Now), UNCHANGED chain
  PROVE  ChainInv'
<1>1. /\ index \in DOMAIN Instances /\ Now \in Commit /\ I.parent \in Commit /\ I.current \in Commit
      /\ TypeInv /\ StageInv
  BY InstanceTyped DEF ChainInv, StageInv, Tooling
<1>2. /\ checksums' = ChecksumsOf(Now) /\ commit' = Now /\ pc' = "load"
      /\ UNCHANGED <<deps, seen, crashes, archives, index, stage>>
      /\ I' = I /\ Now' = Now
  BY <1>1, ComparisonStep DEF CompareChecksums, TypeInv, chain, I, Now
<1>3. TypeInv'
  BY <1>1, TypeStep DEF Next
<1>4. checksums' # None
  BY <1>2 DEF ChecksumsOf, ChainHypotheses, Hypotheses, NoneIsNoRecord
<1>5. StageInv'
  BY <1>1, <1>2 DEF StageInv, Tooling
<1>a. CASE stage = "parent"
  <2>1. checksums = None /\ deps = None /\ \A p \in Commit : checksums # ChecksumsOf(p)
    BY <1>1, <1>a DEF StageInv, ChecksumsOf, ChainHypotheses, Hypotheses, NoneIsNoRecord
  <2>2. changed' = Compiled(Now) /\ removed' = {}
    BY <1>1, <2>1, ComparisonStep DEF TypeInv
  <2>3. ToolInv'
    BY <1>2, <1>4, <1>a, <2>1, <2>2 DEF ToolInv, ComparedInv, LoadInv, RunInv, DoneInv
  <2>. QED
    BY <1>3, <1>5, <2>3 DEF ChainInv
<1>b. CASE stage = "current"
  <2>1. Stands(I.parent, checksums, deps, seen) /\ Now = I.current
    BY <1>1, <1>b DEF StageInv, Now
  <2>2. /\ deps # None /\ KnowsStatic(I.parent, deps.raw)
        /\ \A t \in TestsAt(I.parent) : Current(I.parent, t, Recorded(deps, t))
        /\ Present(I.parent) \subseteq DOMAIN deps.raw /\ checksums = ChecksumsOf(I.parent)
    BY <1>1, <2>1, StandsTyped DEF KnowsTests, Stands
  <2>3. checksums # None
    BY <2>2 DEF ChecksumsOf, ChainHypotheses, Hypotheses, NoneIsNoRecord
  <2>4. changed' = Differing(I.parent, Now) /\ removed' = Present(I.parent) \ Present(Now)
    BY <1>1, <2>2, <2>3, ComparisonStep, SameTree DEF TypeInv
  <2>5. LoadInv'
    <3>1. \E p \in Commit : /\ changed' = Differing(p, Now)
                            /\ removed' = Present(p) \ Present(Now)
                            /\ KnowsStatic(p, deps.raw)
                            /\ \A t \in TestsAt(p) : Current(p, t, Recorded(deps, t))
      BY <1>1, <2>2, <2>4
    <3>. QED
      BY <1>2, <2>2, <3>1 DEF LoadInv, KnowsTests, Current, Recorded
  <2>6. ToolInv'
    BY <1>2, <1>4, <1>b, <2>1, <2>2, <2>4, <2>5 DEF ToolInv, ComparedInv, RunInv, DoneInv
  <2>. QED
    BY <1>3, <1>5, <2>6 DEF ChainInv
<1>. QED
  BY <1>a, <1>b DEF Tooling

(* What a run lists, it lists to its end. *)
LEMMA ListedStep ==
  ASSUME ChainHypotheses, ChainInv, Tooling, pc # "idle",
         SelectTests \/ DumpDeps \/ \E t \in TestFile : RunTest(t) \/ KillTest(t)
  PROVE  /\ pc' = "run" => Present(commit) \subseteq DOMAIN memory'.raw
         /\ pc' = "done" => Present(commit) \subseteq DOMAIN deps'.raw
<1>1. /\ index \in DOMAIN Instances /\ Now \in Commit /\ I.parent \in Commit /\ I.current \in Commit
      /\ commit = Now /\ TypeInv
  BY InstanceTyped DEF ChainInv, StageInv, ToolInv, Tooling
<1>a. CASE SelectTests
  <2>1. pc = "load" /\ pc' = "run" /\ LoadInv
    BY <1>a DEF SelectTests, ChainInv, ToolInv
  <2>2. CASE stage = "parent"
    <3>1. deps = None /\ changed = Compiled(commit) /\ removed = {}
      BY <2>1, <2>2 DEF ChainInv, ToolInv, LoadInv
    <3>2. memory'.raw = RefreshedRaw(NoDeps.raw)
      BY <1>a, <3>1 DEF SelectTests
    <3>3. KnowsStatic(commit, memory'.raw)
      BY <3>1, <3>2, FirstRefreshedKnows
    <3>4. Compiled(commit) = Present(commit)
      BY <1>1, <2>2 DEF ChainHypotheses, ParentsCompile, Now, I
    <3>. QED
      BY <2>1, <3>3, <3>4 DEF KnowsStatic
  <2>3. CASE stage = "current"
    <3>1. deps # None /\ Present(I.parent) \subseteq DOMAIN deps.raw
      BY <2>1, <2>3 DEF ChainInv, ToolInv
    <3>2. memory'.raw = RefreshedRaw(deps.raw)
      BY <1>a, <3>1 DEF SelectTests
    <3>3. PICK p \in Commit : /\ changed = Differing(p, commit)
                              /\ removed = Present(p) \ Present(commit)
                              /\ KnowsStatic(p, deps.raw)
      BY <2>1, <3>1 DEF LoadInv
    <3>4. KnowsStatic(commit, memory'.raw)
      BY <1>1, <3>2, <3>3, RefreshedKnows DEF ChainHypotheses
    <3>5. DOMAIN deps.raw \subseteq DOMAIN memory'.raw
      BY <3>2, RefreshedDomain
    <3>6. ASSUME NEW f \in Present(commit), f \notin Compiled(commit)
          PROVE  f \in Present(I.parent)
      BY <1>1, <3>6 DEF Compiled, ChainHypotheses, Hypotheses, BrokenKnown
    <3>. QED
      BY <2>1, <3>1, <3>4, <3>5, <3>6 DEF KnowsStatic
  <2>. QED
    BY <2>2, <2>3 DEF Tooling
<1>b. CASE DumpDeps
  <2>1. /\ pc = "run" /\ pc' = "done"
        /\ deps' = [raw  |-> Pop(memory.raw, removed),
                    dyna |-> Pop(MergedDyna(memory.dyna), removed)]
    BY <1>b DEF DumpDeps
  <2>2. removed \cap Present(commit) = {} /\ Present(commit) \subseteq DOMAIN memory.raw
    BY <2>1 DEF ChainInv, ToolInv, RunInv
  <2>. QED
    BY <2>1, <2>2 DEF Pop
<1>c. CASE \E t \in TestFile : RunTest(t) \/ KillTest(t)
  BY <1>c DEF RunTest, KillTest, ChainInv, ToolInv
<1>. QED
  BY <1>a, <1>b, <1>c

LEMMA ToolStepInChain ==
  ASSUME ChainHypotheses, ChainInv, Tooling, UNCHANGED chain,
         SelectTests \/ DumpDeps \/ \E t \in TestFile : RunTest(t) \/ KillTest(t)
  PROVE  ChainInv'
<1>1. /\ pc # "idle" /\ pc' # "idle" /\ UNCHANGED <<commit, crashes, archives, index, stage>>
      /\ I' = I /\ Now' = Now
  BY DEF SelectTests, DumpDeps, RunTest, KillTest, chain, I, Now
<1>2. TypeInv /\ StageInv /\ ToolInv /\ crashes = 0
  BY DEF ChainInv, StageInv
<1>3. [Next]_vars
  BY DEF Next
<1>4. TypeInv'
  BY <1>2, <1>3, TypeStep
<1>5. Knows
  BY <1>1, <1>2 DEF ToolInv, Knows, IdleInv
<1>6. Knows'
  BY <1>1, <1>2, <1>3, <1>5, KnowStep DEF KnowInv, ChainHypotheses
<1>7. StageInv'
  BY <1>1, <1>2 DEF StageInv, Tooling
<1>8. /\ pc' = "run" => Present(commit) \subseteq DOMAIN memory'.raw
      /\ pc' = "done" => Present(commit) \subseteq DOMAIN deps'.raw
  BY <1>1, ListedStep
<1>9. pc' # "load" /\ (pc' = "run" => changed' = changed /\ pc \in {"load", "run"})
  BY DEF SelectTests, DumpDeps, RunTest, KillTest
<1>10. ToolInv'
  BY <1>1, <1>2, <1>6, <1>8, <1>9 DEF ToolInv, Tooling, Knows
<1>. QED
  BY <1>4, <1>7, <1>10 DEF ChainInv

---------------------------------------------------------------------------
(* The steps between the runs of the tool *)

(* The tool is left at rest; what it has on disk may be restored. *)
LEMMA AtRestTyped ==
  ASSUME TypeInv, pc' = "idle", UNCHANGED <<commit, kills, crashes>>,
         \/ UNCHANGED <<changed, added, removed, memory, toRun, coverage>>
         \/ /\ changed' = {} /\ added' = {} /\ removed' = {}
            /\ memory' = NoDeps /\ toRun' = {} /\ coverage' = Empty,
         \/ UNCHANGED <<checksums, deps, seen>>
         \/ Cleared
         \/ \E c \in Commit : Stands(c, checksums', deps', seen')
  PROVE  TypeInv'
<1>1. /\ DOMAIN coverage' \subseteq TestFile /\ \A t \in DOMAIN coverage' : coverage'[t] \subseteq Edge
      /\ IsDeps(memory') /\ toRun' \subseteq TestFile
      /\ changed' \subseteq File /\ added' \subseteq File /\ removed' \subseteq File
  BY DEF TypeInv, TypeOK, IsDeps, NoDeps, Empty
<1>2. ASSUME NEW c \in Commit, Stands(c, checksums', deps', seen')
      PROVE  /\ checksums' # None => /\ DOMAIN checksums'.py \subseteq File
                                     /\ DOMAIN checksums'.pyc \subseteq File
             /\ deps' # None => IsDeps(deps')
             /\ seen' \in [TestFile -> Commit \cup {Never, Killed}]
             /\ checksums' # None => \E p \in Commit : checksums' = ChecksumsOf(p)
  BY <1>2, TreeInFile DEF Stands, ChecksumsOf, Codes, Compiled, Present
<1>3. /\ checksums' # None => /\ DOMAIN checksums'.py \subseteq File
                              /\ DOMAIN checksums'.pyc \subseteq File
      /\ deps' # None => IsDeps(deps')
      /\ seen' \in [TestFile -> Commit \cup {Never, Killed}]
      /\ checksums' # None => \E p \in Commit : checksums' = ChecksumsOf(p)
  <2>1. CASE UNCHANGED <<checksums, deps, seen>>
    BY <2>1 DEF TypeInv, TypeOK, CachesInv, IsDeps
  <2>2. CASE Cleared
    BY <2>2 DEF Cleared
  <2>. QED
    BY <1>2, <2>1, <2>2
<1>. QED
  BY <1>1, <1>3 DEF TypeInv, TypeOK, CachesInv, IsDeps

(* An instance is begun from nothing, or from the archive of its parent. *)
LEMMA BeginInChain ==
  ASSUME ChainHypotheses, ChainInv, LoadParent \/ LoadTorn \/ StartAtParent
  PROVE  ChainInv'
<1>1. /\ stage = "begin" /\ pc' = "idle" /\ index \in DOMAIN Instances
      /\ stage' \in {"parent", "current", "failed"}
      /\ UNCHANGED <<commit, changed, added, removed, memory, toRun, coverage, kills, crashes,
                     archives, index>>
      /\ I' = I /\ TypeInv /\ StageInv
  BY DEF LoadParent, LoadTorn, StartAtParent, Cleared, ChainInv, StageInv, I
<1>2. I.parent \in Commit
  BY <1>1, InstanceTyped
<1>3. \/ stage' # "current" /\ Cleared
      \/ stage' = "current" /\ Stands(I.parent, checksums', deps', seen')
  <2>1. CASE LoadParent
    BY <1>1, <1>2, <2>1 DEF LoadParent, StageInv
  <2>2. CASE LoadTorn \/ StartAtParent
    BY <2>2 DEF LoadTorn, StartAtParent
  <2>. QED
    BY <2>1, <2>2
<1>4. TypeInv'
  BY <1>1, <1>2, <1>3, AtRestTyped
<1>5. StageInv'
  BY <1>1, <1>3 DEF StageInv, Cleared
<1>6. ToolInv'
  BY <1>1 DEF ToolInv
<1>. QED
  BY <1>4, <1>5, <1>6 DEF ChainInv

LEMMA OpenInChain ==
  ASSUME ChainInv, OpenArchive
  PROVE  ChainInv'
<1>1. /\ Tooling /\ pc = "done" /\ index \in DOMAIN Instances
      /\ archives' = [archives EXCEPT ![Now] = Torn]
      /\ stage' = IF stage = "parent" THEN "store parent" ELSE "store current"
      /\ UNCHANGED vars /\ UNCHANGED index /\ I' = I
      /\ TypeInv /\ StageInv /\ ToolInv
  BY DEF OpenArchive, ChainInv, StageInv, Tooling, I
<1>2. Now' = Now /\ Now \in Commit
  BY <1>1, InstanceTyped DEF Now, Tooling
<1>3. commit = Now /\ Stands(commit, checksums, deps, seen)
  BY <1>1, StandsWhenDone DEF ToolInv
<1>4. TypeInv'
  BY <1>1 DEF vars, tool, TypeInv, TypeOK, CachesInv, IsDeps
<1>5. archives' = [c \in Commit |-> archives'[c]]
      /\ \A c \in Commit : archives'[c] \in {archives[c], Torn}
  BY <1>1, <1>2 DEF StageInv
<1>6. StageInv'
  BY <1>1, <1>2, <1>3, <1>5 DEF StageInv, Tooling, vars, tool
<1>7. ToolInv'
  BY <1>1 DEF ToolInv, Tooling
<1>. QED
  BY <1>4, <1>6, <1>7 DEF ChainInv

LEMMA AfterTyped ==
  ASSUME index \in DOMAIN Instances, AfterCurrent
  PROVE  stage' \in {"begin", "over"} /\ (stage' # "over" => index' \in DOMAIN Instances)
<1>1. Len(Instances) \in Nat /\ DOMAIN Instances = 1..Len(Instances)
  BY InstancesAssumption
<1>. QED
  BY <1>1 DEF AfterCurrent

LEMMA CloseInChain ==
  ASSUME ChainInv, CloseArchive
  PROVE  ChainInv'
<1>. DEFINE caches == [checksums |-> checksums, deps |-> deps, seen |-> seen]
<1>1. /\ stage \in {"store parent", "store current"} /\ index \in DOMAIN Instances
      /\ archives' = [archives EXCEPT ![Now] = caches] /\ pc' = "idle"
      /\ UNCHANGED <<commit, checksums, deps, changed, added, removed, memory, toRun, coverage,
                     seen, kills, crashes>>
      /\ TypeInv /\ StageInv
  BY DEF CloseArchive, ChainInv, StageInv
<1>2. Now \in Commit
  BY <1>1, InstanceTyped
<1>3. commit = Now /\ Stands(Now, checksums, deps, seen)
  BY <1>1 DEF StageInv
<1>4. TypeInv'
  BY <1>1, AtRestTyped
<1>5. /\ archives' = [c \in Commit |-> archives'[c]] /\ archives'[Now] = caches
      /\ \A c \in Commit \ {Now} : archives'[c] = archives[c]
  BY <1>1, <1>2 DEF StageInv
<1>6. \A c \in Commit : archives'[c] \notin {None, Torn} =>
         Stands(c, archives'[c].checksums, archives'[c].deps, archives'[c].seen)
  <2>. HIDE DEF caches
  <2>1. caches.checksums = checksums /\ caches.deps = deps /\ caches.seen = seen
    BY DEF caches
  <2>. QED
    BY <1>1, <1>3, <1>5, <2>1 DEF StageInv
<1>7. \/ stage = "store parent" /\ stage' = "current" /\ I' = I /\ index' = index
      \/ stage' \in {"begin", "over"} /\ (stage' # "over" => index' \in DOMAIN Instances)
  BY <1>1, AfterTyped DEF CloseArchive, AfterParent, I
<1>8. StageInv'
  BY <1>1, <1>3, <1>5, <1>6, <1>7 DEF StageInv, Now
<1>9. ToolInv'
  BY <1>1 DEF ToolInv
<1>. QED
  BY <1>4, <1>8, <1>9 DEF ChainInv

(* What is given up leaves the archives as they are. *)
LEMMA LeaveInChain ==
  ASSUME ChainInv, KeepSelection \/ Die \/ Restart
  PROVE  ChainInv'
<1>1. TypeInv /\ StageInv
  BY DEF ChainInv
<1>2. /\ stage' \in {"begin", "over", "failed"}
      /\ stage' # "over" => index' \in DOMAIN Instances
  <2>1. DOMAIN Instances = 1..Len(Instances) /\ Len(Instances) \in Nat
    BY InstancesAssumption
  <2>2. CASE KeepSelection
    <3>1. index \in DOMAIN Instances /\ AfterCurrent
      BY <1>1, <2>2 DEF KeepSelection, StageInv
    <3>. QED
      BY <3>1, AfterTyped
  <2>3. CASE Die
    BY <1>1, <2>3 DEF Die, StageInv
  <2>4. CASE Restart
    <3>1. index \in 1..Len(Instances) /\ stage' = "begin" /\ index' \in {1} \cup 1..index
      BY <1>1, <2>1, <2>4 DEF Restart, StageInv
    <3>. QED
      BY <2>1, <3>1
  <2>. QED
    BY <2>2, <2>3, <2>4
<1>3. /\ archives' = [c \in Commit |-> archives'[c]] /\ crashes' = crashes
      /\ \A c \in Commit : archives'[c] \in {archives[c], None}
  BY <1>1 DEF KeepSelection, Die, Restart, StageInv, vars
<1>4. TypeInv'
  <2>1. CASE KeepSelection \/ Die
    BY <1>1, <2>1, AtRestTyped DEF KeepSelection, Die
  <2>2. CASE Restart
    BY <1>1, <2>2 DEF Restart, vars, tool, TypeInv, TypeOK, CachesInv, IsDeps
  <2>. QED
    BY <2>1, <2>2
<1>5. StageInv'
  BY <1>1, <1>2, <1>3 DEF StageInv
<1>6. ToolInv'
  BY <1>2 DEF ToolInv, Tooling
<1>. QED
  BY <1>4, <1>5, <1>6 DEF ChainInv

---------------------------------------------------------------------------
LEMMA ChainStep ==
  ASSUME ChainHypotheses, ChainInv, [ChainNext]_chainVars
  PROVE  ChainInv'
<1>1. CASE RunTool
  <2>1. Tooling /\ UNCHANGED chain
    BY <1>1 DEF RunTool, Tooling
  <2>. QED
    BY <1>1, <2>1, CompareInChain, ToolStepInChain DEF RunTool
<1>2. CASE UNCHANGED chainVars
  <2>1. TypeInv'
    BY <1>2 DEF chainVars, vars, tool, ChainInv, TypeInv, TypeOK, CachesInv, IsDeps
  <2>2. StageInv'
    BY <1>2 DEF chainVars, chain, vars, tool, ChainInv, StageInv, I, Now
  <2>3. ToolInv'
    BY <1>2 DEF chainVars, chain, vars, tool, ChainInv, ToolInv, Tooling, I, Now,
       ComparedInv, LoadInv, RunInv, DoneInv, KnowsTests, Current, Recorded, CapturedNow
  <2>. QED
    BY <2>1, <2>2, <2>3 DEF ChainInv
<1>. QED
  BY <1>1, <1>2, BeginInChain, OpenInChain, CloseInChain, LeaveInChain DEF ChainNext

LEMMA ChainInvariant ==
  ASSUME ChainHypotheses
  PROVE  ChainSpec => []ChainInv
<1>1. ChainInit => ChainInv
  <2>. SUFFICES ASSUME ChainInit PROVE ChainInv
    OBVIOUS
  <2>1. TypeInv
    BY HistoryAssumption, BoundAssumption
    DEF ChainInit, Init, TypeInv, TypeOK, CachesInv, IsDeps, NoDeps, Empty
  <2>2. stage \in {"begin", "over"} /\ (stage # "over" => index \in DOMAIN Instances)
    BY InstancesAssumption DEF ChainInit
  <2>3. StageInv /\ ToolInv
    BY <2>2 DEF ChainInit, Init, StageInv, ToolInv, Tooling
  <2>. QED
    BY <2>1, <2>3 DEF ChainInv
<1>2. ChainInv /\ [ChainNext]_chainVars => ChainInv'
  BY ChainStep
<1>. QED
  BY <1>1, <1>2, PTL DEF ChainSpec

(* An archive is worth the commit it is named after, whatever died while    *)
(* it, or any before it, was made (evaluate.py, evaluate_instance): its     *)
(* checksums are those of the tree, every test in it is up to date, and the *)
(* imports of every file are on record.                                     *)
THEOREM ArchivesStand ==
  ASSUME ChainHypotheses
  PROVE  ChainSpec => []ArchiveStandsForCommit
<1>1. ASSUME ChainInv, NEW c \in Commit, archives[c] \notin {None, Torn}
      PROVE  LET a == archives[c]
             IN  /\ a.checksums.py = Tree[c]
                 /\ Present(c) \subseteq DOMAIN a.deps.raw
                 /\ \A t \in TestsAt(c) :
                      a.seen[t] = Killed
                      \/ (a.seen[t] \in Commit /\ Behaviour(a.seen[t], t) = Behaviour(c, t))
  <2>1. Stands(c, archives[c].checksums, archives[c].deps, archives[c].seen)
    BY <1>1 DEF ChainInv, StageInv
  <2>2. archives[c].checksums.py = Tree[c]
    BY <2>1 DEF Stands, ChecksumsOf
  <2>. QED
    BY <2>1, <2>2 DEF Stands, CurrentIn
<1>2. ChainInv => ArchiveStandsForCommit
  BY <1>1 DEF ArchiveStandsForCommit
<1>. QED
  BY <1>2, ChainInvariant, PTL

(* A patch is judged against its own parent: what the tool calls changed is *)
(* what differs in bytecode, whichever caches it found and whatever died.   *)
THEOREM PatchesJudged ==
  ASSUME ChainHypotheses
  PROVE  ChainSpec => []JudgedAgainstParent
<1>1. ASSUME ChainInv PROVE JudgedAgainstParent
  <2>. SUFFICES ASSUME stage = "current", pc \in {"load", "run"}
                PROVE  changed = {f \in Present(I.parent) \cup Present(I.current) :
                                    Code(I.parent, f) # Code(I.current, f)}
    BY DEF JudgedAgainstParent
  <2>1. changed = Differing(I.parent, I.current)
    BY <1>1 DEF ChainInv, ToolInv, Tooling
  <2>. QED
    BY <2>1 DEF Differing, Compiled, Code
<1>. QED
  BY <1>1, ChainInvariant, PTL
=============================================================================
