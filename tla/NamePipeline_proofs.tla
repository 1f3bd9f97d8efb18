------------------------- MODULE NamePipeline_proofs -------------------------
(***************************************************************************)
(* Proofs about the name caches of NameBDP, for every repository, every    *)
(* set of commits and every order in which they are visited.               *)
(***************************************************************************)
EXTENDS NamePipeline, FileSelection_proofs

(* Pruning looks at uses only: it keeps what is defined, and once is as    *)
(* good as twice.                                                          *)
LEMMA PrunedElementFacts ==
  ASSUME NEW e \in Element, NEW V
  PROVE  /\ PrunedElement(e, V).name = e.name
         /\ PrunedElement(e, V) \in Element
         /\ PrunedElement(PrunedElement(e, V), V) = PrunedElement(e, V)
BY DEF PrunedElement, Element

IsModule(m) == \A e \in m.elements : e \in Element
NamesDefined(m) == {e.name : e \in m.elements}

LEMMA PrunedModuleFacts ==
  ASSUME NEW m, IsModule(m), NEW V
  PROVE  /\ NamesDefined(PrunedModule(m, V)) = NamesDefined(m)
         /\ IsModule(PrunedModule(m, V))
         /\ PrunedModule(PrunedModule(m, V), V) = PrunedModule(m, V)
<1> DEFINE p == PrunedModule(m, V)
<1>1. p.entry = m.entry \cap V /\ p.elements = {PrunedElement(e, V) : e \in m.elements}
  BY DEF PrunedModule
<1>2. \A e \in m.elements : /\ PrunedElement(e, V).name = e.name
                            /\ PrunedElement(e, V) \in Element
                            /\ PrunedElement(PrunedElement(e, V), V) = PrunedElement(e, V)
  BY PrunedElementFacts DEF IsModule
<1>3. NamesDefined(p) = NamesDefined(m)
  BY <1>1, <1>2 DEF NamesDefined
<1>4. IsModule(p)
  BY <1>1, <1>2 DEF IsModule
<1>5. {PrunedElement(x, V) : x \in p.elements} = p.elements
  BY <1>1, <1>2
<1>6. p.entry \cap V = p.entry
  BY <1>1
<1>7. PrunedModule(p, V) = p
  <2>1. PrunedModule(p, V) = [entry |-> p.entry, elements |-> p.elements]
    BY <1>5, <1>6 DEF PrunedModule
  <2>2. p = [entry |-> p.entry, elements |-> p.elements]
    BY DEF PrunedModule
  <2>3. QED
    BY <2>1, <2>2
<1>8. QED
  BY <1>3, <1>4, <1>7

LEMMA ValidByModule ==
  ASSUME NEW mods, NEW n
  PROVE  n \in ValidNames(mods) <=> \E f \in DOMAIN mods : n \in NamesDefined(mods[f])
BY DEF ValidNames, ElementsOf, NamesDefined

LEMMA ParsedModules ==
  ASSUME NEW c \in Commit, NEW f \in Compiled(c)
  PROVE  IsModule(Parsed(c)[f]) /\ Parsed(c)[f] = ModuleDict[Code(c, f)]
BY PipelineAssumption DEF PipelineAssumption, Parsed, IsModule

(* Parsing what changed and reusing the pruned rest is as good as parsing  *)
(* the whole tree, as long as no unchanged file waits for a definition.    *)
LEMMA ReuseIsParse ==
  ASSUME NamesStay, NEW p \in Commit, commit \in Commit, changed = Differing(p, commit)
  PROVE  Pruned(ReusedOrParsed(Pruned(Parsed(p)))) = Pruned(Parsed(commit))
<1> DEFINE cached == Pruned(Parsed(p))
           mods   == ReusedOrParsed(cached)
           fresh  == Parsed(commit)
           Vp     == ValidNames(Parsed(p))
           V      == ValidNames(fresh)
<1>1. DOMAIN mods = Compiled(commit) /\ DOMAIN fresh = Compiled(commit) /\ DOMAIN cached = Compiled(p)
  BY DEF ReusedOrParsed, Parsed, Pruned
<1>2. ASSUME NEW f \in Compiled(commit)
      PROVE  \/ mods[f] = fresh[f]
             \/ /\ mods[f] = PrunedModule(fresh[f], Vp)
                /\ PrunedModule(fresh[f], Vp) = PrunedModule(fresh[f], V)
  <2>1. CASE f \in Compiled(p) \ changed
    <3>1. Code(p, f) = Code(commit, f)
      BY <2>1, <1>2 DEF Differing
    <3>2. Parsed(p)[f] = fresh[f]
      BY <2>1, <3>1, <1>2, ParsedModules
    <3>3. mods[f] = cached[f] /\ cached[f] = PrunedModule(Parsed(p)[f], Vp)
      BY <2>1, <1>1, <1>2 DEF ReusedOrParsed, Pruned, Parsed
    <3>4. PrunedModule(Parsed(p)[f], Vp) = PrunedModule(fresh[f], V)
      BY <2>1, <3>1, <1>2 DEF NamesStay
    <3>5. QED
      BY <3>2, <3>3, <3>4
  <2>2. CASE f \notin Compiled(p) \ changed
    BY <2>2, <1>1, <1>2, ParsedModules DEF ReusedOrParsed
  <2>3. QED
    BY <2>1, <2>2
<1> HIDE DEF mods, fresh, Vp, V
<1>3. \A f \in Compiled(commit) : IsModule(fresh[f])
  BY ParsedModules DEF fresh
<1>4. \A f \in Compiled(commit) : NamesDefined(mods[f]) = NamesDefined(fresh[f])
  BY <1>2, <1>3, PrunedModuleFacts
<1>5. ValidNames(mods) = V
  <2>1. \A n : n \in ValidNames(mods) <=> n \in ValidNames(fresh)
    BY <1>1, <1>4, ValidByModule
  <2>2. QED
    BY <2>1 DEF V
<1>6. ASSUME NEW f \in Compiled(commit)
      PROVE  PrunedModule(mods[f], V) = PrunedModule(fresh[f], V)
  BY <1>2, <1>3, <1>6, PrunedModuleFacts
<1>7. Pruned(mods) = [f \in Compiled(commit) |-> PrunedModule(mods[f], V)]
  BY <1>1, <1>5 DEF Pruned
<1>8. Pruned(fresh) = [f \in Compiled(commit) |-> PrunedModule(fresh[f], V)]
  BY <1>1 DEF Pruned, V
<1>9. Pruned(mods) = Pruned(fresh)
  BY <1>6, <1>7, <1>8
<1>10. QED
  BY <1>9 DEF mods, fresh

(* With no cache every file is new. *)
LEMMA ParseAll ==
  Pruned(ReusedOrParsed(Empty)) = Pruned(Parsed(commit))
<1>1. ReusedOrParsed(Empty) = Parsed(commit)
  BY DEF ReusedOrParsed, Parsed, Empty
<1>2. QED
  BY <1>1
------------------------------------------------------------------------------
(***************************************************************************)
(* Which commit the two caches stand for.  Between the two writes the name *)
(* cache is one commit behind, and changed is the difference; at any other *)
(* time both are those of the commit checked out.                          *)
(***************************************************************************)
NamesOf(c) == Pruned(Parsed(c))

NoneIsNoNames == NoneIsNoRecord /\ \A c \in Commit : None # NamesOf(c)

ControlInv ==
  /\ commit \in Commit
  /\ pc \in {"idle", "load", "run", "done"}
  /\ stage # "files" => pc \in {"run", "done"}
  /\ pc = "done" => stage # "files"
  /\ stage \in {"files", "named", "narrowed"}
  /\ checksums = ChecksumsOf(commit) \/ (pc = "idle" /\ checksums = None)

Behind ==
  \/ nameCache = None
  \/ \E p \in Commit : nameCache = NamesOf(p) /\ changed = Differing(p, commit)

PhaseInv ==
  /\ checksums = None => nameCache = None
  /\ pc = "idle" /\ checksums # None => nameCache = NamesOf(commit)
  /\ stage = "files" /\ pc \in {"load", "run"} => Behind
  /\ stage # "files" => names = NamesOf(commit) /\ nameCache = NamesOf(commit)

NamesInv == ControlInv /\ (~split => PhaseInv)

(* get_changed_files on the caches of the commit checked out before. *)
LEMMA ComparedWithLast ==
  ASSUME commit \in Commit, NEW c \in Commit, CompareChecksums(c), NoneIsNoNames,
         checksums = ChecksumsOf(commit)
  PROVE  changed' = Differing(commit, c)
<1>1. checksums # None
  BY DEF NoneIsNoNames, NoneIsNoRecord, ChecksumsOf
<1>2. checksums.py = Tree[commit] /\ checksums.pyc = Codes(commit)
  BY DEF ChecksumsOf
<1>3. changed' = Compared(Codes(commit), Codes(c))
  BY <1>1, <1>2, PycIncremental DEF CompareChecksums
<1>4. QED
  BY <1>3, ComparedCodes

LEMMA ChecksumsWritten ==
  ASSUME commit \in Commit, NEW c \in Commit, CompareChecksums(c),
         checksums = None \/ checksums = ChecksumsOf(commit)
  PROVE  checksums' = ChecksumsOf(c)
<1>1. CASE checksums = None
  BY <1>1, PycFromScratch DEF CompareChecksums, ChecksumsOf, Empty
<1>2. CASE checksums # None
  <2>1. checksums.py = Tree[commit] /\ checksums.pyc = Codes(commit)
    BY <1>2 DEF ChecksumsOf
  <2>2. QED
    BY <1>2, <2>1, PycIncremental DEF CompareChecksums, ChecksumsOf
<1>3. QED
  BY <1>1, <1>2

LEMMA NamesStep ==
  ASSUME NamesStay, NoneIsNoNames, NamesInv, [PipelineNext]_pipelineVars
  PROVE  NamesInv'
<1>1. ASSUME NEW c \in Commit, CompareChecksums(c),
             stage' = "files", UNCHANGED <<nameCache, split>>
      PROVE  NamesInv'
  <2>1. commit' = c /\ pc' = "load" /\ pc \in {"idle", "done"}
    BY <1>1 DEF CompareChecksums
  <2>2. checksums' = ChecksumsOf(c)
    BY <1>1, ChecksumsWritten DEF NamesInv, ControlInv
  <2>3. checksums' # None
    BY <2>2 DEF NoneIsNoNames, NoneIsNoRecord, ChecksumsOf
  <2>4. ASSUME ~split PROVE Behind'
    <3>1. CASE checksums = None
      BY <3>1, <2>4, <1>1 DEF NamesInv, PhaseInv, Behind
    <3>2. CASE checksums # None
      <4>1. changed' = Differing(commit, c)
        BY <3>2, <1>1, ComparedWithLast DEF NamesInv, ControlInv
      <4>2. nameCache = NamesOf(commit) /\ commit \in Commit
        BY <3>2, <2>1, <2>4 DEF NamesInv, PhaseInv, ControlInv
      <4>3. QED
        BY <4>1, <4>2, <2>1, <1>1 DEF Behind
    <3>3. QED
      BY <3>1, <3>2
  <2>5. QED
    BY <1>1, <2>1, <2>2, <2>3, <2>4 DEF NamesInv, ControlInv, PhaseInv
<1>2. ASSUME SelectTests, stage' = "files", UNCHANGED <<nameCache, split>>
      PROVE  NamesInv'
  <2>1. pc = "load" /\ pc' = "run" /\ UNCHANGED <<commit, checksums, changed>>
    BY <1>2 DEF SelectTests
  <2>2. stage = "files"
    BY <2>1 DEF NamesInv, ControlInv
  <2>3. QED
    BY <1>2, <2>1, <2>2 DEF NamesInv, ControlInv, PhaseInv, Behind
<1>3. CASE ParseNames
  <2>1. pc = "run" /\ stage = "files" /\ stage' = "named"
        /\ names' = Pruned(ReusedOrParsed(previous')) /\ nameCache' = names'
        /\ previous' = (IF nameCache = None THEN Empty ELSE nameCache)
        /\ UNCHANGED <<commit, checksums, pc, changed, split>>
    BY <1>3 DEF ParseNames, vars, tool
  <2>2. ASSUME ~split PROVE names' = NamesOf(commit)
    <3>1. Behind /\ commit \in Commit
      BY <2>1, <2>2 DEF NamesInv, PhaseInv, ControlInv
    <3>2. CASE nameCache = None
      BY <3>2, <2>1, ParseAll DEF NamesOf
    <3>3. CASE nameCache # None
      <4>1. PICK p \in Commit : nameCache = NamesOf(p) /\ changed = Differing(p, commit)
        BY <3>1, <3>3 DEF Behind
      <4>2. previous' = Pruned(Parsed(p))
        BY <4>1, <3>3, <2>1 DEF NamesOf
      <4>3. QED
        BY <4>1, <4>2, <3>1, <2>1, ReuseIsParse DEF NamesOf
    <3>4. QED
      BY <3>2, <3>3
  <2>3. checksums # None => checksums' # None
    BY <2>1
  <2>4. checksums' # None
    BY <2>1 DEF NamesInv, ControlInv, NoneIsNoNames, NoneIsNoRecord, ChecksumsOf
  <2>5. NamesOf(commit)' = NamesOf(commit)
    BY <2>1 DEF NamesOf, Parsed
  <2>6. QED
    BY <2>1, <2>2, <2>4, <2>5 DEF NamesInv, ControlInv, PhaseInv
<1>4. CASE NarrowByNames
  BY <1>4 DEF NarrowByNames, NamesInv, ControlInv, PhaseInv, Behind
<1>5. CASE RunSelected
  <2>1. stage = "narrowed" /\ UNCHANGED nameVars
    BY <1>5 DEF RunSelected
  <2>2. UNCHANGED <<commit, checksums>> /\ pc = "run" /\ pc' \in {"run", "done"}
    BY <1>5 DEF RunSelected, RunTest, KillTest, DumpDeps
  <2>3. QED
    BY <2>1, <2>2 DEF nameVars, NamesInv, ControlInv, PhaseInv
<1>6. CASE Die
  <2>1. pc \in {"load", "run"} /\ pc' = "idle" /\ stage' = "files"
        /\ split' = (split \/ stage = "files") /\ UNCHANGED <<commit, checksums, nameCache>>
    BY <1>6 DEF Die, Crash
  <2>2. ASSUME ~split' PROVE nameCache = NamesOf(commit) /\ checksums # None
    BY <2>1, <2>2 DEF NamesInv, PhaseInv, ControlInv, NoneIsNoNames, NoneIsNoRecord, ChecksumsOf
  <2>3. ControlInv'
    BY <2>1 DEF NamesInv, ControlInv
  <2>4. QED
    BY <2>1, <2>2, <2>3 DEF NamesInv, PhaseInv
<1>7. CASE UNCHANGED pipelineVars
  BY <1>7 DEF pipelineVars, vars, tool, nameVars, NamesInv, ControlInv, PhaseInv, Behind
<1>8. QED
  BY <1>1, <1>2, <1>3, <1>4, <1>5, <1>6, <1>7 DEF PipelineNext, SelectFiles

(* The names a run works with are those of the whole tree, in every        *)
(* history of commits, skipped tests and deaths, but for a death between   *)
(* the writing of the two caches (namebdp.py:899-922, checksum.py:142).    *)
THEOREM NamesOfTheTree ==
  NamesStay /\ NoneIsNoNames => (PipelineSpec => []NamesCurrent)
<1> SUFFICES ASSUME NamesStay, NoneIsNoNames PROVE PipelineSpec => []NamesCurrent
  OBVIOUS
<1>1. PipelineInit => NamesInv
  BY DEF PipelineInit, Init, NamesInv, ControlInv, PhaseInv
<1>2. NamesInv /\ [PipelineNext]_pipelineVars => NamesInv'
  BY NamesStep
<1>3. NamesInv => NamesCurrent
  BY DEF NamesInv, PhaseInv, NamesCurrent, NamesOf
<1>4. QED
  BY <1>1, <1>2, <1>3, PTL DEF PipelineSpec

------------------------------------------------------------------------------
(* The types, of the caches of both levels                                 *)

PipelineTyped ==
  /\ TypeInv
  /\ stage \in {"files", "named", "narrowed"} /\ split \in BOOLEAN
  /\ DOMAIN names \subseteq Present(commit) /\ ElementsOf(names) \subseteq Element
  /\ DOMAIN previous \subseteq File /\ ElementsOf(previous) \subseteq Element
  /\ nameCache # None => DOMAIN nameCache \subseteq File /\ ElementsOf(nameCache) \subseteq Element

LEMMA EmptyTyped == DOMAIN Empty = {} /\ ElementsOf(Empty) = {}
BY DEF Empty, ElementsOf

LEMMA ElementsByModule ==
  ASSUME NEW mods
  PROVE  ElementsOf(mods) \subseteq Element <=> \A f \in DOMAIN mods : IsModule(mods[f])
BY DEF ElementsOf, IsModule

LEMMA ReusedTyped ==
  ASSUME commit \in Commit, NEW cached, ElementsOf(cached) \subseteq Element
  PROVE  /\ DOMAIN Pruned(ReusedOrParsed(cached)) = Compiled(commit)
         /\ ElementsOf(Pruned(ReusedOrParsed(cached))) \subseteq Element
<1> DEFINE mods == ReusedOrParsed(cached)
<1>1. DOMAIN mods = Compiled(commit) /\ DOMAIN Pruned(mods) = Compiled(commit)
  BY DEF ReusedOrParsed, Pruned
<1>2. ASSUME NEW f \in Compiled(commit) PROVE IsModule(mods[f])
  <2>1. IsModule(ModuleDict[Code(commit, f)])
    BY ParsedModules
  <2>2. f \in DOMAIN cached => IsModule(cached[f])
    BY ElementsByModule
  <2>3. QED
    BY <2>1, <2>2 DEF ReusedOrParsed
<1>3. \A f \in Compiled(commit) : Pruned(mods)[f] = PrunedModule(mods[f], ValidNames(mods))
  BY <1>1 DEF Pruned
<1> HIDE DEF mods
<1>4. \A f \in Compiled(commit) : IsModule(Pruned(mods)[f])
  BY <1>2, <1>3, PrunedModuleFacts
<1>5. ElementsOf(Pruned(mods)) \subseteq Element
  BY <1>1, <1>4, ElementsByModule
<1>6. QED
  BY <1>1, <1>5 DEF mods

LEMMA PipelineStep ==
  ASSUME PipelineTyped, [PipelineNext]_pipelineVars
  PROVE  PipelineTyped'
<1>1. ASSUME [Next]_vars PROVE TypeInv'
  BY <1>1, TypeStep DEF PipelineTyped
<1>2. CASE SelectFiles
  <2>1. [Next]_vars /\ stage' = "files" /\ names' = Empty /\ previous' = Empty
        /\ UNCHANGED <<nameCache, split>>
    BY <1>2 DEF SelectFiles, Next
  <2>2. QED
    BY <1>1, <2>1, EmptyTyped DEF PipelineTyped, ElementsOf
<1>3. CASE ParseNames
  <2>1. /\ UNCHANGED vars /\ stage' = "named" /\ split' = split
        /\ previous' = (IF nameCache = None THEN Empty ELSE nameCache)
        /\ names' = Pruned(ReusedOrParsed(previous')) /\ nameCache' = names'
    BY <1>3 DEF ParseNames
  <2>2. commit \in Commit /\ commit' = commit
    BY <2>1 DEF vars, PipelineTyped, TypeInv, TypeOK
  <2>3. DOMAIN previous' \subseteq File /\ ElementsOf(previous') \subseteq Element
    BY <2>1, EmptyTyped DEF PipelineTyped
  <2>4. DOMAIN names' = Compiled(commit) /\ ElementsOf(names') \subseteq Element
    BY <2>1, <2>2, <2>3, ReusedTyped
  <2>5. Compiled(commit) \subseteq Present(commit) /\ Present(commit) \subseteq File
    BY <2>2, TreeInFile DEF Compiled
  <2>6. QED
    BY <1>1, <2>1, <2>2, <2>3, <2>4, <2>5 DEF PipelineTyped, ElementsOf
<1>4. CASE NarrowByNames
  <2>1. toRun' \subseteq toRun /\ stage' = "narrowed"
        /\ UNCHANGED <<commit, checksums, deps, pc, changed, added, removed, memory, coverage,
                       seen, kills, crashes, nameCache, names, previous, split>>
    BY <1>4 DEF NarrowByNames
  <2>2. TypeInv'
    BY <2>1 DEF PipelineTyped, TypeInv, TypeOK, CachesInv, IsDeps
  <2>3. QED
    BY <2>1, <2>2 DEF PipelineTyped, ElementsOf
<1>5. CASE RunSelected
  <2>1. [Next]_vars /\ UNCHANGED nameVars /\ commit' = commit
    BY <1>5 DEF RunSelected, Next, RunTest, KillTest, DumpDeps
  <2>2. QED
    BY <1>1, <2>1 DEF PipelineTyped, nameVars, ElementsOf
<1>6. CASE Die
  <2>1. [Next]_vars /\ stage' = "files" /\ names' = Empty /\ previous' = Empty
        /\ nameCache' = nameCache /\ split' \in BOOLEAN
    BY <1>6 DEF Die, Next, PipelineTyped
  <2>2. QED
    BY <1>1, <2>1, EmptyTyped DEF PipelineTyped, ElementsOf
<1>7. CASE UNCHANGED pipelineVars
  <2>1. [Next]_vars /\ UNCHANGED nameVars /\ commit' = commit
    BY <1>7 DEF pipelineVars, vars
  <2>2. QED
    BY <1>1, <2>1 DEF PipelineTyped, nameVars, ElementsOf
<1>8. QED
  BY <1>2, <1>3, <1>4, <1>5, <1>6, <1>7 DEF PipelineNext

LEMMA PipelineTypedAlways == PipelineSpec => []PipelineTyped
<1>1. PipelineInit => PipelineTyped
  <2> SUFFICES ASSUME PipelineInit PROVE PipelineTyped
    OBVIOUS
  <2>1. TypeInv
    BY HistoryAssumption, BoundAssumption
       DEF PipelineInit, Init, TypeInv, TypeOK, CachesInv, IsDeps, NoDeps, Empty
  <2>2. QED
    BY <2>1, EmptyTyped DEF PipelineInit, PipelineTyped
<1>2. QED
  BY <1>1, PipelineStep, PTL DEF PipelineSpec

(* What is read back from nbdp_cache.json, parsed and pruned has the form   *)
(* the comparison expects, and names only files of the tree: elements of    *)
(* deleted files do not come back out of the cache.                         *)
THEOREM PipelineTypes == PipelineSpec => []PipelineTypeOK
<1>1. PipelineTyped => PipelineTypeOK
  BY DEF PipelineTyped, TypeInv, PipelineTypeOK
<1>2. QED
  BY <1>1, PipelineTypedAlways, PTL

------------------------------------------------------------------------------
(***************************************************************************)
(* What a test that is skipped by name, run after run, still needs.        *)
(*                                                                         *)
(* A test may load files that have changed since it ran, so its file-level *)
(* behaviour is not kept; what is kept are the elements it needs, and the  *)
(* record of its dynamic imports (NameCurrent).                            *)
(***************************************************************************)
NameHypotheses ==
  Hypotheses /\ NamesStay /\ ChangesShow /\ CapturesStay /\ NoneIsNoNames

NameCurrent(p, t, S) ==
  \/ seen[t] = Killed
  \/ /\ seen[t] \in Commit
     /\ NameBehaviour[seen[t]][t] = NameBehaviour[p][t]
     /\ Captured(p, t) \subseteq S

NamesKnown(p, d) == \A t \in TestsAt(p) : NameCurrent(p, t, Recorded(d, t))

(* More files in reach, more names held, more elements needed. *)
LEMMA HeldMonotone ==
  ASSUME NEW mods, NEW t, NEW R, NEW S, R \subseteq S
  PROVE  HeldNames(mods, t, R) \subseteq HeldNames(mods, t, S)
<1> DEFINE entry(X) == mods[t].entry \cup UNION {mods[f].entry : f \in (DOMAIN mods \cap X) \ TestFile}
           found(X) == UNION {mods[f].elements : f \in InReach(mods, X)}
           Closed(X, H) == entry(X) \subseteq H /\ \A e \in found(X) : Holds(H, e) => e.uses \subseteq H
<1>1. \A X : HeldNames(mods, t, X) = {n \in Name : \A H \in SUBSET Name : Closed(X, H) => n \in H}
  BY DEF HeldNames
<1>2. entry(R) \subseteq entry(S)
  OBVIOUS
<1>3. found(R) \subseteq found(S)
  BY DEF InReach
<1> HIDE DEF entry, found
<1>4. \A H : Closed(S, H) => Closed(R, H)
  BY <1>2, <1>3
<1> HIDE DEF Closed
<1>5. QED
  BY <1>1, <1>4

LEMMA NeededMonotone ==
  ASSUME NEW mods, NEW t, NEW R, NEW S, R \subseteq S
  PROVE  SumsOf(Needed(mods, t, R)) \subseteq SumsOf(Needed(mods, t, S))
<1> DEFINE with(X, f) == {<<f, e>> : e \in {x \in mods[f].elements : Holds(HeldNames(mods, t, X), x)}}
<1>1. \A X : Needed(mods, t, X) = UNION {with(X, f) : f \in InReach(mods, X)}
  BY DEF Needed
<1>2. \A f : with(R, f) \subseteq with(S, f)
  BY HeldMonotone DEF Holds
<1>3. InReach(mods, R) \subseteq InReach(mods, S)
  BY DEF InReach
<1> HIDE DEF with
<1>4. Needed(mods, t, R) \subseteq Needed(mods, t, S)
  BY <1>1, <1>2, <1>3
<1>5. QED
  BY <1>4 DEF SumsOf

(* The element-level behaviour is a part of the file-level one. *)
LEMMA BehavesByFiles ==
  ASSUME NEW p \in Commit, NEW c \in Commit, NEW t \in TestsAt(p) \cap TestsAt(c),
         Behaviour(p, t) = Behaviour(c, t)
  PROVE  NameBehaviour[p][t] = NameBehaviour[c][t]
<1>1. Executes(p, t) = Executes(c, t) /\ \A f \in Executes(p, t) : Code(p, f) = Code(c, f)
  <2>1. DOMAIN Behaviour(p, t) = Executes(p, t) /\ DOMAIN Behaviour(c, t) = Executes(c, t)
    BY DEF Behaviour
  <2>2. \A f \in Executes(p, t) : Behaviour(p, t)[f] = Code(p, f)
    BY DEF Behaviour
  <2>3. \A f \in Executes(c, t) : Behaviour(c, t)[f] = Code(c, f)
    BY DEF Behaviour
  <2>4. QED
    BY <2>1, <2>2, <2>3
<1>2. Code(p, t) = Code(c, t)
  BY <1>1, ExecutesLeast DEF TestsAt
<1>3. Compiled(p) \cap Executes(p, t) = Compiled(c) \cap Executes(c, t)
  BY <1>1 DEF Compiled, Code
<1>4. Loaded(p, t) = Loaded(c, t)
  BY <1>1, <1>3 DEF Loaded
<1>5. Behaves(p, t) = Behaves(c, t)
  BY <1>1, <1>2, <1>4 DEF Behaves
<1>6. QED
  BY <1>5 DEF NameBehaviour

(* The files a test loads are among those the tool relates to it, when it   *)
(* knows the imports of the tree and the test's dynamic ones.               *)
LEMMA RelatedCovers ==
  ASSUME NameHypotheses, TypeInv, KnowsStatic(commit, memory.raw), NEW t \in TestsAt(commit),
         Captured(commit, t) \subseteq Recorded(memory, t)
  PROVE  Executes(commit, t) \subseteq RelatedFiles(t)
<1>1. commit \in Commit /\ IsDeps(memory)
  BY DEF TypeInv, TypeOK
<1>2. AllDynamic(memory.dyna) \subseteq Edge /\ Captured(commit, t) \subseteq AllDynamic(memory.dyna)
  BY <1>1 DEF IsDeps, AllDynamic, Recorded
<1>3. Differing(commit, commit) = {}
  BY DEF Differing
<1>4. Executes(commit, t) \subseteq Descendants(t, Graph(memory.raw, memory.dyna))
  BY <1>1, <1>2, <1>3, ReachesWhatItExecuted DEF NameHypotheses, KnowsStatic, IsDeps
<1>5. QED
  BY <1>4 DEF RelatedFiles

(* A selected test that is neither edited nor reaches a change needs what   *)
(* it needed before.                                                        *)
LEMMA SkippedByName ==
  ASSUME NameHypotheses, TypeInv, KnowsStatic(commit, memory.raw),
         NEW p \in Commit, changed = Differing(p, commit),
         previous = NamesOf(p), names = NamesOf(commit),
         NEW t \in TestsAt(commit), t \notin changed, ~Reaches(t),
         NameCurrent(p, t, Recorded(memory, t))
  PROVE  NameCurrent(commit, t, Recorded(memory, t))
<1>1. commit \in Commit /\ t \in TestsAt(p) /\ Code(p, t) = Code(commit, t)
  BY UnchangedPresence DEF TypeInv, TypeOK, TestsAt, NameHypotheses
<1>2. Captured(commit, t) = Captured(p, t)
  BY <1>1 DEF NameHypotheses, CapturesStay
<1> SUFFICES ASSUME seen[t] # Killed PROVE NameCurrent(commit, t, Recorded(memory, t))
  BY DEF NameCurrent
<1>3. /\ seen[t] \in Commit /\ NameBehaviour[seen[t]][t] = NameBehaviour[p][t]
      /\ Captured(commit, t) \subseteq Recorded(memory, t)
  BY <1>2 DEF NameCurrent
<1> SUFFICES ASSUME NameBehaviour[p][t] # NameBehaviour[commit][t] PROVE FALSE
  BY <1>3 DEF NameCurrent
<1>4. SumsOf(Needed(names, t, Executes(commit, t))) \cap DifferentSums # {}
  BY <1>1 DEF NameHypotheses, ChangesShow, NamesOf, Differing, DifferentSums
<1>5. SumsOf(Needed(names, t, Executes(commit, t))) \subseteq SumsOf(Needed(names, t, RelatedFiles(t)))
  BY <1>3, RelatedCovers, NeededMonotone
<1>6. t \notin DOMAIN names
  BY <1>4, <1>5 DEF Reaches
<1>7. DOMAIN names = Compiled(commit)
  BY DEF NamesOf, Pruned, Parsed
<1>8. Code(commit, t) = NoCode /\ Code(p, t) = NoCode
  BY <1>1, <1>6, <1>7 DEF Compiled, TestsAt
<1>9. Behaves(p, t) = Behaves(commit, t)
  BY <1>8 DEF Behaves
<1>10. QED
  BY <1>1, <1>9 DEF NameBehaviour

(***************************************************************************)
(* The inductive invariant, as long as the tool has not died.  p is the    *)
(* commit of the run before, for which the name cache stands until it is   *)
(* written again.                                                          *)
(***************************************************************************)
AfterLast(p) ==
  /\ changed = Differing(p, commit)
  /\ removed = Present(p) \ Present(commit) /\ added = Present(commit) \ Present(p)

NamesOfLast(p) ==
  /\ stage = "files" => nameCache = NamesOf(p)
  /\ stage = "named" => previous = NamesOf(p)

LoadNames ==
  pc = "load" =>
    \/ deps = None /\ changed = Compiled(commit) /\ removed = {}
    \/ /\ deps # None
       /\ \E p \in Commit : /\ AfterLast(p) /\ nameCache = NamesOf(p)
                            /\ KnowsStatic(p, deps.raw) /\ NamesKnown(p, deps)

SelectNames ==
  pc = "run" /\ stage # "narrowed" =>
    /\ deps # None =>
         \E p \in Commit :
           /\ AfterLast(p) /\ NamesOfLast(p)
           /\ \A t \in TestsAt(p) \cap TestsAt(commit) : NameCurrent(p, t, Recorded(memory, t))
    /\ \A t \in TestsAt(commit) \ toRun : NameCurrent(commit, t, Recorded(memory, t))

RunNames ==
  pc = "run" =>
    /\ removed \cap Present(commit) = {}
    /\ KnowsStatic(commit, memory.raw)
    /\ stage = "narrowed" =>
         \A t \in TestsAt(commit) \ toRun :
           NameCurrent(commit, t, Recorded(memory, t) \cup CapturedNow(t))

DoneNames ==
  pc = "done" => deps # None /\ KnowsStatic(commit, deps.raw) /\ NamesKnown(commit, deps)

KnowNames == ~split /\ IdleInv /\ LoadNames /\ SelectNames /\ RunNames /\ DoneNames
KnowNamesInv == crashes = 0 => KnowNames

LEMMA KnowNamesStep ==
  ASSUME NameHypotheses, PipelineTyped, NamesInv, NamesInv', KnowNamesInv,
         [PipelineNext]_pipelineVars
  PROVE  KnowNamesInv'
<1> SUFFICES ASSUME crashes' = 0 PROVE KnowNames'
  BY DEF KnowNamesInv
<1>a. TypeInv /\ commit \in Commit /\ crashes \in Nat /\ Hypotheses
  BY BoundAssumption DEF PipelineTyped, TypeInv, TypeOK, NameHypotheses
<1>b. crashes = 0 /\ ~Die
  <2>1. ~Die
    BY <1>a DEF Die, Crash
  <2>2. crashes' = crashes
    BY <2>1 DEF PipelineNext, pipelineVars, vars, SelectFiles, ParseNames, NarrowByNames, RunSelected,
                CompareChecksums, SelectTests, RunTest, KillTest, DumpDeps
  <2>3. QED
    BY <2>1, <2>2
<1>c. KnowNames
  BY <1>b DEF KnowNamesInv
<1>d. ~split /\ ControlInv /\ PhaseInv
  BY <1>c DEF KnowNames, NamesInv
<1>e. ~split'
  BY <1>b, <1>d DEF PipelineNext, pipelineVars, nameVars, SelectFiles, ParseNames, NarrowByNames, RunSelected
<1>1. ASSUME NEW c \in Commit, CompareChecksums(c),
             stage' = "files", UNCHANGED <<nameCache, split>>
      PROVE  KnowNames'
  <2>1. commit' = c /\ pc' = "load" /\ UNCHANGED <<deps, seen>>
    BY <1>1 DEF CompareChecksums
  <2>2. CASE pc = "idle"
    <3>1. checksums = None /\ deps = None /\ \A p \in Commit : checksums # ChecksumsOf(p)
      BY <2>2, <1>a, <1>c DEF KnowNames, IdleInv, ChecksumsOf, Hypotheses, NoneIsNoRecord
    <3>2. changed' = Compiled(c) /\ removed' = {}
      BY <1>1, <1>a, <3>1, ComparisonStep DEF TypeInv
    <3>3. QED
      BY <1>e, <2>1, <3>1, <3>2 DEF KnowNames, IdleInv, LoadNames, SelectNames, RunNames, DoneNames
  <2>3. CASE pc = "done"
    <3>1. checksums # None /\ checksums = ChecksumsOf(commit) /\ nameCache = NamesOf(commit)
      BY <2>3, <1>a, <1>d DEF ControlInv, PhaseInv, ChecksumsOf, Hypotheses, NoneIsNoRecord
    <3>2. changed' = Differing(commit, c) /\ removed' = Present(commit) \ Present(c)
          /\ added' = Present(c) \ Present(commit)
      BY <1>1, <1>a, <3>1, ComparisonStep, SameTree DEF TypeInv
    <3>3. deps # None /\ KnowsStatic(commit, deps.raw) /\ NamesKnown(commit, deps)
      BY <2>3, <1>c DEF KnowNames, DoneNames
    <3>4. nameCache' = NamesOf(commit)
      BY <1>1, <3>1
    <3>6. \E p \in Commit : /\ changed' = Differing(p, c) /\ removed' = Present(p) \ Present(c)
                            /\ added' = Present(c) \ Present(p)
                            /\ nameCache' = NamesOf(p)
                            /\ KnowsStatic(p, deps.raw)
                            /\ \A t \in TestsAt(p) : NameCurrent(p, t, Recorded(deps, t))
      BY <1>a, <3>2, <3>3, <3>4 DEF NamesKnown
    <3>7. LoadNames'
      BY <2>1, <3>3, <3>6 DEF LoadNames, AfterLast, NamesKnown, NameCurrent, Recorded
    <3>8. QED
      BY <1>e, <2>1, <3>7 DEF KnowNames, IdleInv, SelectNames, RunNames, DoneNames
  <2>4. QED
    BY <1>1, <2>2, <2>3 DEF CompareChecksums
<1>2. ASSUME SelectTests, stage' = "files", UNCHANGED <<nameCache, split>>
      PROVE  KnowNames'
  <2>1. pc = "load" /\ pc' = "run"
        /\ UNCHANGED <<commit, checksums, deps, changed, added, removed, seen>>
    BY <1>2 DEF SelectTests
  <2>2. CASE deps = None
    <3>1. changed = Compiled(commit) /\ removed = {}
      BY <1>c, <2>1, <2>2 DEF KnowNames, LoadNames
    <3>2. toRun' = TestsAt(commit) /\ memory'.raw = RefreshedRaw(NoDeps.raw)
      BY <1>2, <2>2 DEF SelectTests
    <3>3. KnowsStatic(commit, memory'.raw)
      BY <3>1, <3>2, FirstRefreshedKnows
    <3>4. RunNames' /\ SelectNames'
      BY <1>2, <2>1, <2>2, <3>1, <3>2, <3>3 DEF RunNames, SelectNames
    <3>5. QED
      BY <1>e, <2>1, <3>4 DEF KnowNames, IdleInv, LoadNames, DoneNames
  <2>3. CASE deps # None
    <3>1. PICK p \in Commit : /\ AfterLast(p) /\ nameCache = NamesOf(p)
                              /\ KnowsStatic(p, deps.raw) /\ NamesKnown(p, deps)
      BY <1>c, <2>1, <2>3 DEF KnowNames, LoadNames
    <3>2. memory'.raw = RefreshedRaw(deps.raw)
      BY <1>2, <2>3 DEF SelectTests
    <3>3. KnowsStatic(commit, memory'.raw)
      BY <1>a, <3>1, <3>2, RefreshedKnows DEF AfterLast
    <3>4. \A t \in TestFile : Recorded(deps, t) \subseteq Recorded(memory', t)
      BY <1>2, <1>a, <2>3, SelectKeepsRecords DEF TypeInv
    <3>5. ASSUME NEW t \in TestsAt(p)
          PROVE  NameCurrent(p, t, Recorded(memory', t))
      BY <3>1, <3>4 DEF NamesKnown, NameCurrent, TestsAt
    <3>6. ASSUME NEW t \in TestsAt(commit) \ toRun'
          PROVE  NameCurrent(commit, t, Recorded(memory', t))
      <4>1. t \in TestsAt(p)
        BY <1>2, <1>a, <2>1, <3>1, UnchangedPresence DEF SelectTests, AfterLast, TestsAt
      <4>2. NameCurrent(p, t, Recorded(deps, t))
        BY <3>1, <4>1 DEF NamesKnown
      <4>3. CASE seen[t] = Killed
        BY <4>3 DEF NameCurrent
      <4>4. CASE seen[t] # Killed
        <5>1. /\ seen[t] \in Commit /\ NameBehaviour[seen[t]][t] = NameBehaviour[p][t]
              /\ Captured(p, t) \subseteq Recorded(deps, t)
          BY <4>2, <4>4 DEF NameCurrent
        <5>2. Behaviour(p, t) = Behaviour(commit, t) /\ Captured(p, t) = Captured(commit, t)
          BY <1>2, <1>a, <2>3, <3>1, <3>6, <5>1, UnselectedBehaves DEF AfterLast
        <5>3. NameBehaviour[p][t] = NameBehaviour[commit][t]
          BY <1>a, <4>1, <5>2, BehavesByFiles
        <5>4. QED
          BY <3>4, <5>1, <5>2, <5>3 DEF NameCurrent, TestsAt
      <4>5. QED
        BY <4>3, <4>4
    <3>7. SelectNames'
      <4>1. AfterLast(p)' /\ NamesOfLast(p)'
        BY <1>2, <2>1, <3>1 DEF AfterLast, NamesOfLast
      <4>2. QED
        BY <2>1, <3>5, <3>6, <4>1 DEF SelectNames, NameCurrent, Recorded
    <3>8. RunNames'
      BY <1>2, <2>1, <3>1, <3>3 DEF RunNames, AfterLast
    <3>9. QED
      BY <1>e, <2>1, <3>7, <3>8 DEF KnowNames, IdleInv, LoadNames, DoneNames
  <2>4. QED
    BY <2>2, <2>3
<1>3. CASE ParseNames
  <2>1. /\ pc = "run" /\ stage = "files" /\ stage' = "named"
        /\ previous' = (IF nameCache = None THEN Empty ELSE nameCache)
        /\ UNCHANGED <<commit, checksums, deps, pc, changed, added, removed, memory, toRun,
                       coverage, seen>>
    BY <1>3 DEF ParseNames, vars, tool
  <2>2. ASSUME NEW p \in Commit, AfterLast(p) /\ NamesOfLast(p) PROVE (AfterLast(p) /\ NamesOfLast(p))'
    BY <2>1, <2>2 DEF AfterLast, NamesOfLast, NameHypotheses, NoneIsNoNames
  <2>3. SelectNames'
    BY <1>c, <2>1, <2>2 DEF KnowNames, SelectNames, NameCurrent, Recorded
  <2>4. QED
    BY <1>c, <1>e, <2>1, <2>3 DEF KnowNames, IdleInv, LoadNames, RunNames, DoneNames
<1>4. CASE NarrowByNames
  <2>1. /\ stage = "named" /\ stage' = "narrowed"
        /\ UNCHANGED <<commit, checksums, deps, pc, changed, added, removed, memory,
                       coverage, seen, names, previous>>
        /\ toRun' = IF deps = None \/ NewHashes # {} THEN toRun
                    ELSE {t \in toRun : StaysSelected(t)}
    BY <1>4 DEF NarrowByNames
  <2>2. ASSUME pc = "run", NEW t \in TestsAt(commit) \ toRun'
        PROVE  NameCurrent(commit, t, Recorded(memory, t))
    <3>1. CASE t \notin toRun
      BY <1>c, <2>1, <2>2, <3>1 DEF KnowNames, SelectNames
    <3>2. CASE t \in toRun
      <4>1. deps # None /\ t \notin changed /\ ~Reaches(t)
        BY <2>1, <2>2, <3>2 DEF StaysSelected
      <4>2. PICK p \in Commit :
              /\ AfterLast(p) /\ NamesOfLast(p)
              /\ \A u \in TestsAt(p) \cap TestsAt(commit) : NameCurrent(p, u, Recorded(memory, u))
        BY <1>c, <2>1, <2>2, <4>1 DEF KnowNames, SelectNames
      <4>3. t \in TestsAt(p)
        BY <1>a, <2>2, <4>1, <4>2, UnchangedPresence DEF AfterLast, TestsAt
      <4>4. names = NamesOf(commit) /\ previous = NamesOf(p) /\ changed = Differing(p, commit)
        BY <1>d, <2>1, <4>2 DEF PhaseInv, NamesOfLast, AfterLast
      <4>5. KnowsStatic(commit, memory.raw)
        BY <1>c, <2>2 DEF KnowNames, RunNames
      <4>6. QED
        BY <1>a, <2>2, <4>1, <4>2, <4>3, <4>4, <4>5, SkippedByName
    <3>3. QED
      BY <3>1, <3>2
  <2>3. RunNames'
    BY <1>c, <2>1, <2>2 DEF KnowNames, RunNames, NameCurrent, Recorded, CapturedNow
  <2>4. IdleInv' /\ LoadNames' /\ DoneNames'
    BY <1>c, <1>d, <2>1 DEF KnowNames, ControlInv, IdleInv, LoadNames, DoneNames, NamesKnown,
                            NameCurrent, Recorded
  <2>5. SelectNames'
    BY <2>1 DEF SelectNames
  <2>6. QED
    BY <1>e, <2>3, <2>4, <2>5 DEF KnowNames
<1>5. ASSUME stage = "narrowed", UNCHANGED nameVars, NEW t \in TestFile, RunTest(t)
      PROVE  KnowNames'
  <2>1. /\ pc = "run"
        /\ seen' = [seen EXCEPT ![t] = commit] /\ toRun' = toRun \ {t}
        /\ coverage' = Update(coverage, [x \in {t} |-> Captured(commit, t)])
        /\ UNCHANGED <<commit, checksums, deps, pc, removed, memory>>
    BY <1>5 DEF RunTest
  <2>2. seen \in [TestFile -> Commit \cup {Never, Killed}]
    BY <1>a DEF TypeInv, TypeOK
  <2>3. seen'[t] = commit /\ t \in DOMAIN coverage' /\ coverage'[t] = Captured(commit, t)
    BY <2>1, <2>2 DEF Update
  <2>4. NameCurrent(commit, t, Recorded(memory, t) \cup CapturedNow(t))'
    BY <1>a, <2>1, <2>3 DEF NameCurrent, CapturedNow, Recorded
  <2>5. ASSUME NEW u \in TestsAt(commit) \ toRun', u # t
        PROVE  NameCurrent(commit, u, Recorded(memory, u) \cup CapturedNow(u))'
    <3>1. NameCurrent(commit, u, Recorded(memory, u) \cup CapturedNow(u))
      BY <1>5, <1>c, <2>1, <2>5 DEF KnowNames, RunNames
    <3>2. seen'[u] = seen[u]
      BY <2>1, <2>2, <2>5 DEF TestsAt
    <3>3. CapturedNow(u)' = CapturedNow(u)
      BY <2>1, <2>5 DEF CapturedNow, Update
    <3>4. Recorded(memory, u)' = Recorded(memory, u)
      BY <2>1 DEF Recorded
    <3>5. QED
      BY <2>1, <3>1, <3>2, <3>3, <3>4 DEF NameCurrent
  <2>6. RunNames'
    BY <1>c, <2>1, <2>4, <2>5 DEF KnowNames, RunNames
  <2>7. QED
    BY <1>c, <1>e, <1>5, <2>1, <2>6 DEF KnowNames, IdleInv, LoadNames, SelectNames, DoneNames, nameVars
<1>6. ASSUME stage = "narrowed", UNCHANGED nameVars, NEW t \in TestFile, KillTest(t)
      PROVE  KnowNames'
  <2>1. /\ pc = "run"
        /\ seen' = [seen EXCEPT ![t] = Killed] /\ toRun' = toRun \ {t}
        /\ UNCHANGED <<commit, checksums, deps, pc, removed, memory, coverage>>
    BY <1>6 DEF KillTest
  <2>2. seen \in [TestFile -> Commit \cup {Never, Killed}]
    BY <1>a DEF TypeInv, TypeOK
  <2>3. ASSUME NEW u \in TestsAt(commit) \ toRun'
        PROVE  NameCurrent(commit, u, Recorded(memory, u) \cup CapturedNow(u))'
    <3>1. u = t => seen'[u] = Killed
      BY <2>1, <2>2
    <3>2. u # t => NameCurrent(commit, u, Recorded(memory, u) \cup CapturedNow(u)) /\ seen'[u] = seen[u]
      BY <1>6, <1>c, <2>1, <2>2, <2>3 DEF KnowNames, RunNames, TestsAt
    <3>3. QED
      BY <2>1, <3>1, <3>2 DEF NameCurrent, Recorded, CapturedNow
  <2>4. RunNames'
    BY <1>c, <2>1, <2>3 DEF KnowNames, RunNames
  <2>5. QED
    BY <1>c, <1>e, <1>6, <2>1, <2>4 DEF KnowNames, IdleInv, LoadNames, SelectNames, DoneNames, nameVars
<1>7. ASSUME stage = "narrowed", UNCHANGED nameVars, DumpDeps PROVE KnowNames'
  <2>1. /\ pc = "run" /\ toRun = {} /\ pc' = "done"
        /\ deps' = [raw  |-> Pop(memory.raw, removed),
                    dyna |-> Pop(MergedDyna(memory.dyna), removed)]
        /\ UNCHANGED <<commit, checksums, seen>>
    BY <1>7 DEF DumpDeps
  <2>2. removed \cap Present(commit) = {} /\ KnowsStatic(commit, memory.raw)
    BY <1>c, <2>1 DEF KnowNames, RunNames
  <2>3. KnowsStatic(commit, deps'.raw)
    BY <2>1, <2>2 DEF KnowsStatic, Pop, Compiled, TestsAt
  <2>4. ASSUME NEW t \in TestsAt(commit)
        PROVE  NameCurrent(commit, t, Recorded(deps', t))
    <3>1. NameCurrent(commit, t, Recorded(memory, t) \cup CapturedNow(t))
      BY <1>7, <1>c, <2>1 DEF KnowNames, RunNames
    <3>2. Recorded(memory, t) \cup CapturedNow(t) \subseteq Recorded(deps', t)
      BY <1>7, <2>2, DumpKeepsRecords DEF TestsAt
    <3>3. QED
      BY <3>1, <3>2 DEF NameCurrent
  <2>5. deps' # None
    BY <2>1, <1>a DEF Hypotheses, NoneIsNoRecord
  <2>6. DoneNames'
    BY <2>1, <2>3, <2>4, <2>5 DEF DoneNames, NamesKnown, NameCurrent, Recorded
  <2>7. QED
    BY <1>e, <2>1, <2>6 DEF KnowNames, IdleInv, LoadNames, SelectNames, RunNames
<1>8. CASE UNCHANGED pipelineVars
  BY <1>8, <1>c DEF pipelineVars, vars, tool, nameVars, KnowNames, IdleInv, LoadNames, SelectNames,
     RunNames, DoneNames, AfterLast, NamesOfLast, NamesKnown, NameCurrent, Recorded, CapturedNow
<1>9. QED
  BY <1>b, <1>1, <1>2, <1>3, <1>4, <1>5, <1>6, <1>7, <1>8 DEF PipelineNext, SelectFiles, RunSelected

(* A test that get_tests_to_run leaves out needs no element that has        *)
(* changed, come or gone since it last ran, over any number of runs that    *)
(* left it out, although the files it loads have changed under it and       *)
(* nothing but two caches remembers them.                                   *)
THEOREM NamesUpToDate ==
  ASSUME NameHypotheses
  PROVE  PipelineSpec => []NameUpToDate
<1>1. PipelineInit => NamesInv /\ KnowNamesInv
  BY DEF PipelineInit, Init, NamesInv, ControlInv, PhaseInv, KnowNamesInv, KnowNames, IdleInv,
         LoadNames, SelectNames, RunNames, DoneNames
<1>2. NamesInv /\ [PipelineNext]_pipelineVars => NamesInv'
  BY NamesStep DEF NameHypotheses
<1>3. PipelineTyped /\ NamesInv /\ NamesInv' /\ KnowNamesInv /\ [PipelineNext]_pipelineVars
        => KnowNamesInv'
  BY KnowNamesStep
<1>4. NamesInv /\ KnowNamesInv => NameUpToDate
  <2> SUFFICES ASSUME NamesInv, KnowNamesInv, crashes = 0, stage = "narrowed",
                      NEW t \in TestsAt(commit) \ toRun
               PROVE  seen[t] = Killed
                      \/ (seen[t] \in Commit /\ NameBehaviour[seen[t]][t] = NameBehaviour[commit][t])
    BY DEF NameUpToDate
  <2>1. pc \in {"run", "done"}
    BY DEF NamesInv, ControlInv
  <2>2. QED
    BY <2>1 DEF KnowNamesInv, KnowNames, RunNames, DoneNames, NamesKnown, NameCurrent
<1>5. QED
  BY <1>1, <1>2, <1>3, <1>4, PipelineTypedAlways, PTL DEF PipelineSpec

=============================================================================
