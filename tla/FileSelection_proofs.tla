------------------------ MODULE FileSelection_proofs ------------------------
(***************************************************************************)
(* Proofs about the file-level selection, for every repository, every set  *)
(* of commits and every order in which they are visited.                   *)
(***************************************************************************)
EXTENDS FileSelection, TLAPS

(* What a file imports, and what a test captures, is in the tree. *)
LEMMA ImportsInTree ==
  ASSUME NEW c \in Commit, NEW f \in Present(c), NEW K \in SUBSET Kind
  PROVE  ResolvedImports(c, f, K) \subseteq Present(c)
<1>1. Tree[c][f] \in Source
  BY FileWorldAssumption DEF FileWorldAssumption
<1>2. \A i \in Imports[Tree[c][f]] : Resolve(c, i[1]) \subseteq Present(c)
  BY DEF Resolve
<1>3. QED
  BY <1>1, <1>2 DEF ResolvedImports

LEMMA TreeInFile == \A c \in Commit : Present(c) \subseteq File
BY FileWorldAssumption DEF FileWorldAssumption

LEMMA StaticInFile ==
  ASSUME NEW c \in Commit, NEW f \in Present(c)
  PROVE  StaticImports(c, f) \subseteq File
<1>1. ResolvedImports(c, f, {"name"}) \subseteq File /\ ResolvedImports(c, f, {"wildcard"}) \subseteq File
  BY ImportsInTree, TreeInFile DEF Kind
<1>2. QED
  BY <1>1 DEF StaticImports

LEMMA CapturedInEdge ==
  ASSUME NEW c \in Commit, NEW t \in TestFile
  PROVE  Captured(c, t) \subseteq Edge
<1> DEFINE ran == {f \in Executes(c, t) : Code(c, f) # NoCode}
           dyn(f) == {<<f, g>> : g \in ResolvedImports(c, f, {"dynamic"})}
           lib(f) == {<<External, g>> : g \in ResolvedImports(c, f, {"external"})}
<1>1. ASSUME NEW f \in ran PROVE dyn(f) \cup lib(f) \subseteq Edge
  <2>1. f \in Present(c) /\ f \in File
    BY TreeInFile DEF Code, Executes, Descendants
  <2>2. ResolvedImports(c, f, {"dynamic"}) \subseteq File
    BY <2>1, ImportsInTree, TreeInFile DEF Kind
  <2>3. ResolvedImports(c, f, {"external"}) \subseteq File
    BY <2>1, ImportsInTree, TreeInFile DEF Kind
  <2>4. QED
    BY <2>1, <2>2, <2>3 DEF Edge
<1>2. Captured(c, t) = UNION {dyn(f) \cup lib(f) : f \in ran}
  BY DEF Captured
<1>3. QED
  BY <1>1, <1>2

(* The imports of every kind together are those of each kind. *)
LEMMA ImportsByKind ==
  ASSUME NEW c \in Commit, NEW f \in Present(c), NEW g
  PROVE  g \in ResolvedImports(c, f, Kind) <=>
           \E k \in Kind : g \in ResolvedImports(c, f, {k})
<1>1. \A i \in Imports[Tree[c][f]] : i[2] \in Kind
  BY FileWorldAssumption DEF FileWorldAssumption
<1>2. QED
  BY <1>1 DEF ResolvedImports

(* nx.descendants: the least set that holds the test and is closed.        *)
LEMMA DescendantsLeast ==
  ASSUME NEW t \in File, NEW edges, \A e \in edges : e[2] \in File
  PROVE  /\ t \in Descendants(t, edges)
         /\ Descendants(t, edges) \subseteq File
         /\ ClosedUnder(Descendants(t, edges), edges)
         /\ \A S \in SUBSET File : t \in S /\ ClosedUnder(S, edges) =>
              Descendants(t, edges) \subseteq S
BY DEF Descendants, ClosedUnder

LEMMA RealEdgesInFile ==
  ASSUME NEW c \in Commit, NEW t \in TestFile
  PROVE  \A e \in RealEdges(c, t) : e[2] \in File
<1> DEFINE from(f) == {<<f, g>> : g \in ResolvedImports(c, f, Kind)}
<1>1. ASSUME NEW f \in Present(c), NEW e \in from(f) PROVE e[2] \in File
  BY ImportsInTree, TreeInFile
<1>2. \A e \in Loads(c) : e[2] \in File
  BY <1>1 DEF Loads
<1>3. \A g \in ConftestsAt(c, t) : g \in File
  BY TreeInFile DEF ConftestsAt
<1>4. QED
  BY <1>2, <1>3 DEF RealEdges

LEMMA LoadsMembers ==
  ASSUME NEW c \in Commit, NEW e
  PROVE  e \in Loads(c) <=>
           \E f \in Present(c) : /\ Code(c, f) # NoCode
                                 /\ \E g \in ResolvedImports(c, f, Kind) : e = <<f, g>>
BY DEF Loads

LEMMA ExecutesLeast ==
  ASSUME NEW c \in Commit, NEW t \in TestFile
  PROVE  /\ t \in Executes(c, t)
         /\ Executes(c, t) \subseteq File
         /\ ClosedUnder(Executes(c, t), RealEdges(c, t))
         /\ \A S \in SUBSET File : t \in S /\ ClosedUnder(S, RealEdges(c, t)) =>
              Executes(c, t) \subseteq S
<1>1. t \in File
  BY FileWorldAssumption DEF FileWorldAssumption
<1>2. QED
  BY <1>1, RealEdgesInFile, DescendantsLeast DEF Executes

LEMMA CapturedMembers ==
  ASSUME NEW c \in Commit, NEW t \in TestFile, NEW e
  PROVE  e \in Captured(c, t) <=>
           \E f \in Executes(c, t) :
             /\ Code(c, f) # NoCode
             /\ \/ \E g \in ResolvedImports(c, f, {"dynamic"}) : e = <<f, g>>
                \/ \E g \in ResolvedImports(c, f, {"external"}) : e = <<External, g>>
BY DEF Captured

(***************************************************************************)
(* The checksum caches: whatever died before, they are those of the commit *)
(* that was compared last.                                                 *)
(***************************************************************************)
Codes(c) == [f \in Compiled(c) |-> Code(c, f)]
ChecksumsOf(c) == [py |-> Tree[c], pyc |-> Codes(c)]

(* The compiled files in which two commits differ. *)
Differing(p, c) == {f \in Compiled(p) \cup Compiled(c) : Code(p, f) # Code(c, f)}

LEMMA ComparedCodes ==
  \A p, c \in Commit : Compared(Codes(p), Codes(c)) = Differing(p, c)
BY DEF Compared, Different, Codes, Differing, Compiled, Code

LEMMA ComparedEmpty ==
  \A c \in Commit : Compared(Empty, Codes(c)) = Compiled(c)
BY DEF Compared, Different, Codes, Empty

(* Reading only the bytecode of files whose text differs is enough. *)
LEMMA PycFromScratch ==
  ASSUME NEW c \in Commit
  PROVE  PycChecksums(c, Empty, Compared(Empty, Tree[c])) = Codes(c)
<1>1. Compared(Empty, Tree[c]) = Present(c)
  BY DEF Compared, Different, Empty, Present
<1>2. Compiled(c) \subseteq Present(c)
  BY DEF Compiled
<1>3. QED
  BY <1>1, <1>2 DEF PycChecksums, Codes

LEMMA PycIncremental ==
  ASSUME NEW p \in Commit, NEW c \in Commit
  PROVE  PycChecksums(c, Codes(p), Compared(Tree[p], Tree[c])) = Codes(c)
<1> DEFINE textual == Compared(Tree[p], Tree[c])
<1>1. ASSUME NEW f \in Compiled(c), f \notin textual
      PROVE  f \in Compiled(p) /\ Code(p, f) = Code(c, f)
  <2>1. f \in Present(p) /\ f \in Present(c) /\ Tree[p][f] = Tree[c][f]
    BY <1>1 DEF Compared, Different, Compiled, Present
  <2>2. QED
    BY <2>1, <1>1 DEF Code, Compiled
<1>2. {x \in Compiled(c) : x \in textual \/ x \in DOMAIN Codes(p)} = Compiled(c)
  BY <1>1 DEF Codes
<1>3. ASSUME NEW f \in Compiled(c)
      PROVE  (IF f \in textual THEN Code(c, f) ELSE Codes(p)[f]) = Code(c, f)
  BY <1>1 DEF Codes
<1> HIDE DEF textual
<1>4. PycChecksums(c, Codes(p), textual) = Codes(c)
  BY <1>2, <1>3, Zenon DEF PycChecksums, Codes
<1>5. QED
  BY <1>4 DEF textual

CachesInv ==
  /\ checksums # None => \E p \in Commit : checksums = ChecksumsOf(p)
  /\ pc \in {"load", "run"} => changed \ removed \subseteq Present(commit)

TypeInv == TypeOK /\ CachesInv

(* What get_changed_files computes, first run or not. *)
LEMMA ComparisonStep ==
  ASSUME CachesInv, NEW c \in Commit, CompareChecksums(c)
  PROVE  /\ checksums' = ChecksumsOf(c)
         /\ \/ /\ checksums = None
               /\ changed' = Compiled(c) /\ removed' = {} /\ added' = Present(c)
            \/ \E p \in Commit : /\ checksums = ChecksumsOf(p)
                                 /\ changed' = Differing(p, c)
                                 /\ removed' = Present(p) \ Present(c)
                                 /\ added' = Present(c) \ Present(p)
<1>1. CASE checksums = None
  BY <1>1, PycFromScratch, ComparedEmpty DEF CompareChecksums, ChecksumsOf, Empty, Present
<1>2. CASE checksums # None
  <2>1. PICK p \in Commit : checksums = ChecksumsOf(p)
    BY <1>2 DEF CachesInv
  <2>2. checksums.py = Tree[p] /\ checksums.pyc = Codes(p)
    BY <2>1 DEF ChecksumsOf
  <2>3. /\ checksums' = [py |-> Tree[c], pyc |-> Codes(c)]
        /\ changed' = Compared(Codes(p), Codes(c))
        /\ removed' = DOMAIN Tree[p] \ Present(c)
        /\ added' = Present(c) \ DOMAIN Tree[p]
    BY <1>2, <2>2, PycIncremental DEF CompareChecksums
  <2>4. QED
    BY <2>1, <2>3, ComparedCodes DEF ChecksumsOf, Present
<1>3. QED
  BY <1>1, <1>2

LEMMA RefreshedType ==
  ASSUME NEW raw, DOMAIN raw \subseteq File, \A f \in DOMAIN raw : raw[f] \subseteq File,
         commit \in Commit, changed \ removed \subseteq Present(commit)
  PROVE  /\ DOMAIN RefreshedRaw(raw) \subseteq File
         /\ \A f \in DOMAIN RefreshedRaw(raw) : RefreshedRaw(raw)[f] \subseteq File
<1> DEFINE fresh == [f \in changed \ removed |-> StaticImports(commit, f)]
           parsed == Update(raw, fresh)
           given(t) == IF t \in DOMAIN parsed THEN parsed[t] ELSE {}
           tests == [t \in TestsAt(commit) |-> given(t) \cup ConftestsAt(commit, t)]
<1>1. changed \ removed \subseteq File /\ \A f \in changed \ removed : StaticImports(commit, f) \subseteq File
  BY StaticInFile, TreeInFile
<1>2. DOMAIN parsed \subseteq File /\ \A f \in DOMAIN parsed : parsed[f] \subseteq File
  BY <1>1 DEF Update
<1>3. TestsAt(commit) \subseteq File /\ \A t \in TestsAt(commit) : ConftestsAt(commit, t) \subseteq File
  BY TreeInFile DEF TestsAt, ConftestsAt
<1>4. RefreshedRaw(raw) = Update(parsed, tests)
  BY DEF RefreshedRaw
<1> HIDE DEF parsed
<1>5. QED
  BY <1>2, <1>3, <1>4 DEF Update

LEMMA SharedType ==
  ASSUME NEW raw, NEW dyna, NEW owner,
         DOMAIN dyna \subseteq TestFile, \A t \in DOMAIN dyna : dyna[t] \subseteq Edge
  PROVE  /\ DOMAIN Shared(raw, dyna, owner) = DOMAIN dyna
         /\ \A t \in DOMAIN dyna : /\ dyna[t] \subseteq Shared(raw, dyna, owner)[t]
                                   /\ Shared(raw, dyna, owner)[t] \subseteq Edge
<1>1. AllDynamic(dyna) \subseteq Edge
  BY DEF AllDynamic
<1>2. QED
  BY <1>1 DEF Shared

(* Every step keeps the types and the checksum cache of one commit.        *)
LEMMA TypeStep ==
  ASSUME TypeInv, [Next]_vars
  PROVE  TypeInv'
<1> USE DEF TypeInv
<1>1. ASSUME NEW c \in Commit, CompareChecksums(c) PROVE TypeInv'
  <2>1. /\ checksums' = ChecksumsOf(c) /\ commit' = c /\ pc' = "load"
        /\ UNCHANGED <<deps, memory, toRun, coverage, seen, kills, crashes>>
    BY <1>1, ComparisonStep DEF CompareChecksums
  <2>2. /\ changed' \subseteq File /\ added' \subseteq File /\ removed' \subseteq File
        /\ changed' \ removed' \subseteq Present(c)
    BY <1>1, ComparisonStep, TreeInFile DEF Differing, Compiled
  <2>3. DOMAIN ChecksumsOf(c).py \subseteq File /\ DOMAIN ChecksumsOf(c).pyc \subseteq File
    BY TreeInFile DEF ChecksumsOf, Codes, Compiled, Present
  <2>4. QED
    BY <2>1, <2>2, <2>3 DEF TypeOK, CachesInv, IsDeps
<1>2. CASE SelectTests
  <2>1. PICK old, raw, owner :
          /\ old = IF deps = None THEN NoDeps ELSE deps
          /\ raw = RefreshedRaw(old.raw)
          /\ memory' = [raw |-> raw, dyna |-> Shared(raw, old.dyna, owner)]
    BY <1>2 DEF SelectTests
  <2>2. IsDeps(old)
    BY <2>1 DEF TypeOK, IsDeps, NoDeps, Empty
  <2>3. changed \ removed \subseteq Present(commit) /\ commit \in Commit
    BY <1>2 DEF SelectTests, CachesInv, TypeOK
  <2>4. DOMAIN raw \subseteq File /\ \A f \in DOMAIN raw : raw[f] \subseteq File
    BY <2>1, <2>2, <2>3, RefreshedType DEF IsDeps
  <2>5. IsDeps(memory')
    BY <2>1, <2>2, <2>4, SharedType DEF IsDeps
  <2>6. toRun' \subseteq TestFile /\ coverage' = Empty /\ pc' = "run"
        /\ UNCHANGED <<commit, checksums, deps, changed, added, removed, seen, kills, crashes>>
    BY <1>2 DEF SelectTests, TestsAt, Affected
  <2>7. QED
    BY <2>3, <2>5, <2>6 DEF TypeOK, CachesInv, IsDeps, Empty
<1>3. ASSUME NEW t \in TestFile, RunTest(t) PROVE TypeInv'
  <2>1. Captured(commit, t) \subseteq Edge
    BY CapturedInEdge DEF TypeOK
  <2>2. DOMAIN coverage' \subseteq TestFile /\ \A x \in DOMAIN coverage' : coverage'[x] \subseteq Edge
    BY <1>3, <2>1 DEF RunTest, Update, TypeOK
  <2>3. QED
    BY <1>3, <2>2 DEF RunTest, TypeOK, CachesInv, IsDeps
<1>4. ASSUME NEW t \in TestFile, KillTest(t) PROVE TypeInv'
  BY <1>4, BoundAssumption DEF KillTest, TypeOK, CachesInv, IsDeps
<1>5. CASE DumpDeps
  <2>1. /\ DOMAIN MergedDyna(memory.dyna) \subseteq TestFile
        /\ \A t \in DOMAIN MergedDyna(memory.dyna) : MergedDyna(memory.dyna)[t] \subseteq Edge
    BY DEF TypeOK, IsDeps, MergedDyna, Update
  <2>2. IsDeps(deps')
    BY <1>5, <2>1 DEF DumpDeps, Pop, TypeOK, IsDeps
  <2>3. QED
    BY <1>5, <2>2 DEF DumpDeps, TypeOK, CachesInv, IsDeps, NoDeps, Empty
<1>6. CASE Crash
  BY <1>6, BoundAssumption DEF Crash, TypeOK, CachesInv, IsDeps, NoDeps, Empty
<1>7. CASE UNCHANGED vars
  BY <1>7 DEF vars, tool, TypeOK, CachesInv, IsDeps
<1>8. QED
  BY <1>1, <1>2, <1>3, <1>4, <1>5, <1>6, <1>7 DEF Next

(* TypeOK, strengthened by what makes it inductive. *)
LEMMA TypeInvariant == Spec => []TypeInv
<1>1. Init => TypeInv
  BY HistoryAssumption, BoundAssumption
     DEF Init, TypeInv, TypeOK, CachesInv, IsDeps, NoDeps, Empty
<1>2. TypeInv /\ [Next]_vars => TypeInv'
  BY TypeStep
<1>3. QED
  BY <1>1, <1>2, PTL DEF Spec

(* The type invariant, for every repository and every history of runs,     *)
(* deaths of the tool (framework.py, checksum.py) included.                *)
THEOREM TypeCorrect == Spec => []TypeOK
<1>1. TypeInv => TypeOK
  BY DEF TypeInv
<1>2. QED
  BY <1>1, TypeInvariant, PTL

(* Reading only what differs in its text (checksum.py, get_changed_files) *)
(* leaves the checksums a full compilation would, in every history.       *)
THEOREM IncrementalChecksums == Spec => []IncrementalIsFull
<1>1. TypeInv => IncrementalIsFull
  <2> SUFFICES ASSUME TypeInv, checksums # None PROVE IncrementalIsFull
    BY DEF IncrementalIsFull
  <2>1. PICK p \in Commit : checksums.py = Tree[p] /\ checksums.pyc = Codes(p)
    BY DEF TypeInv, CachesInv, ChecksumsOf
  <2>2. QED
    BY <2>1 DEF IncrementalIsFull, Codes, Compiled, Code, Present
<1>2. QED
  BY <1>1, TypeInvariant, PTL

(***************************************************************************)
(* What was captured stays recorded.                                       *)
(***************************************************************************)
Recorded(d, t) == IF t \in DOMAIN d.dyna THEN d.dyna[t] ELSE {}
CapturedNow(t) == IF t \in DOMAIN coverage THEN coverage[t] ELSE {}

KeptInv ==
  pc = "run" /\ deps # None =>
    \A t \in DOMAIN deps.dyna : deps.dyna[t] \subseteq Recorded(memory, t)

LEMMA DumpKeepsRecords ==
  ASSUME DumpDeps
  PROVE  \A t \in TestFile \ removed :
           Recorded(memory, t) \cup CapturedNow(t) \subseteq Recorded(deps', t)
<1> SUFFICES ASSUME NEW t \in TestFile, t \notin removed
             PROVE  Recorded(memory, t) \cup CapturedNow(t) \subseteq Recorded(deps', t)
  OBVIOUS
<1> DEFINE merged == MergedDyna(memory.dyna)
<1>1. Recorded(memory, t) \cup CapturedNow(t) \subseteq (IF t \in DOMAIN merged THEN merged[t] ELSE {})
  BY DEF Recorded, CapturedNow, MergedDyna, Update
<1> HIDE DEF merged
<1>2. deps'.dyna = Pop(merged, removed)
  BY DEF DumpDeps, merged
<1>3. QED
  BY <1>1, <1>2 DEF Recorded, Pop

LEMMA SelectKeepsRecords ==
  ASSUME TypeOK, SelectTests, deps # None
  PROVE  \A t \in TestFile : Recorded(deps, t) \subseteq Recorded(memory', t)
<1>1. PICK raw, owner : memory' = [raw |-> raw, dyna |-> Shared(raw, deps.dyna, owner)]
  BY DEF SelectTests
<1>2. IsDeps(deps)
  BY DEF TypeOK
<1>3. QED
  BY <1>1, <1>2, SharedType DEF Recorded, IsDeps

(* Dynamic imports that were captured once are never forgotten while the   *)
(* test exists (framework.py, run_and_catch_dep), in every history.        *)
THEOREM DynamicImportsKept == Spec => DynamicKept
<1> DEFINE Kept == deps # None /\ deps' # None =>
       \A t \in DOMAIN deps.dyna : t \in removed \/ deps.dyna[t] \subseteq
          (IF t \in DOMAIN deps'.dyna THEN deps'.dyna[t] ELSE {})
<1>1. Init => KeptInv
  BY DEF Init, KeptInv
<1>2. TypeInv /\ KeptInv /\ [Next]_vars => KeptInv'
  <2> SUFFICES ASSUME TypeInv, KeptInv, [Next]_vars PROVE KeptInv'
    OBVIOUS
  <2> USE DEF KeptInv
  <2>1. CASE SelectTests
    <3>1. SelectTests /\ UNCHANGED deps
      BY <2>1 DEF SelectTests
    <3>2. deps # None => IsDeps(deps)
      BY DEF TypeInv, TypeOK
    <3>3. QED
      BY <3>1, <3>2, SelectKeepsRecords DEF IsDeps, Recorded, TypeInv
  <2>2. CASE UNCHANGED <<pc, deps, memory>>
    BY <2>2 DEF Recorded
  <2>3. CASE pc' # "run"
    BY <2>3
  <2>4. QED
    BY <2>1, <2>2, <2>3
       DEF Next, vars, tool, CompareChecksums, RunTest, KillTest, DumpDeps, Crash
<1>3. TypeInv /\ KeptInv /\ [Next]_vars => Kept \/ UNCHANGED vars
  <2> SUFFICES ASSUME TypeInv, KeptInv, [Next]_vars PROVE Kept
    OBVIOUS
  <2>1. CASE UNCHANGED deps
    BY <2>1
  <2>2. CASE DumpDeps
    <3> SUFFICES ASSUME deps # None, NEW t \in DOMAIN deps.dyna, t \notin removed
                 PROVE  deps.dyna[t] \subseteq Recorded(deps', t)
      BY DEF Recorded
    <3>1. t \in TestFile
      BY DEF TypeInv, TypeOK, IsDeps
    <3>2. deps.dyna[t] \subseteq Recorded(memory, t)
      BY <2>2 DEF DumpDeps, KeptInv
    <3>3. QED
      BY <2>2, <3>1, <3>2, DumpKeepsRecords
  <2>3. QED
    BY <2>1, <2>2 DEF Next, vars, tool, CompareChecksums, SelectTests, RunTest, KillTest, Crash
<1>4. QED
  BY <1>1, <1>2, <1>3, TypeInvariant, PTL DEF Spec, DynamicKept

(***************************************************************************)
(* The selection is complete.  Hypotheses:                                 *)
(*   - Settled: adding or deleting files does not make a name of unchanged *)
(*     code resolve to another file;                                       *)
(*   - PackageWildcards and BrokenKnown;                                   *)
(*   - None is no record.                                                  *)
(* The worlds Move and Wildcard of MCFileSelection show that Settled and   *)
(* PackageWildcards cannot be dropped.                                     *)
(***************************************************************************)
NoneIsNoRecord ==
  /\ \A p, q : None # [py |-> p, pyc |-> q]
  /\ \A r, d : None # [raw |-> r, dyna |-> d]

Hypotheses ==
  Settled /\ PackageWildcards /\ BrokenKnown /\ NoneIsNoRecord

(* raw knows the static imports of every compiled file of p, and the       *)
(* conftest files of its tests.                                            *)
KnowsStatic(p, raw) ==
  /\ \A f \in Compiled(p) : f \in DOMAIN raw /\ StaticImports(p, f) \subseteq raw[f]
  /\ \A t \in TestsAt(p) : t \in DOMAIN raw /\ ConftestsAt(p, t) \subseteq raw[t]

(* Test t is up to date with commit p, and its dynamic imports are in S.   *)
Current(p, t, S) ==
  \/ seen[t] = Killed
  \/ /\ seen[t] \in Commit
     /\ Behaviour(seen[t], t) = Behaviour(p, t)
     /\ Captured(p, t) \subseteq S

KnowsTests(p, d) == \A t \in TestsAt(p) : Current(p, t, Recorded(d, t))

(* An unchanged file makes the same imports. *)
LEMMA SettledImports ==
  ASSUME Hypotheses, NEW p \in Commit, NEW c \in Commit, NEW f \in Compiled(p),
         f \notin Differing(p, c)
  PROVE  /\ f \in Compiled(c) /\ Code(p, f) = Code(c, f)
         /\ \A k \in Kind : ResolvedImports(p, f, {k}) = ResolvedImports(c, f, {k})
         /\ ResolvedImports(p, f, Kind) = ResolvedImports(c, f, Kind)
         /\ StaticImports(p, f) = StaticImports(c, f)
<1>1. f \in Compiled(c) /\ Code(p, f) = Code(c, f)
  BY DEF Differing, Compiled, Code
<1>2. f \in Present(p) \cap Present(c) /\ Code(p, f) # NoCode
  BY <1>1 DEF Compiled
<1>3. \A k \in Kind : ResolvedImports(p, f, {k}) = ResolvedImports(c, f, {k})
  BY <1>1, <1>2 DEF Hypotheses, Settled
<1>4. ResolvedImports(p, f, Kind) = ResolvedImports(c, f, Kind)
  BY <1>2, <1>3, ImportsByKind
<1>5. StaticImports(p, f) = StaticImports(c, f)
  BY <1>3 DEF StaticImports, Kind
<1>6. QED
  BY <1>1, <1>3, <1>4, <1>5

(* A file that is no different is there, or is not there, in both. *)
LEMMA UnchangedPresence ==
  ASSUME Hypotheses, NEW p \in Commit, NEW c \in Commit, NEW f, f \notin Differing(p, c)
  PROVE  (f \in Present(p) <=> f \in Present(c)) /\ Code(p, f) = Code(c, f)
<1>1. Code(p, f) = Code(c, f)
  BY DEF Differing, Compiled, Code
<1>2. CASE Code(p, f) # NoCode
  BY <1>1, <1>2 DEF Code
<1>3. CASE Code(p, f) = NoCode
  BY <1>1, <1>3 DEF Hypotheses, BrokenKnown
<1>4. QED
  BY <1>1, <1>2, <1>3

(* What update_imports and the conftest loop leave in deps_dict_raw, when  *)
(* it knew the previous commit p.                                          *)
LEMMA RefreshedKnows ==
  ASSUME Hypotheses, commit \in Commit, NEW p \in Commit, NEW raw, KnowsStatic(p, raw),
         changed = Differing(p, commit), removed = Present(p) \ Present(commit)
  PROVE  /\ KnowsStatic(commit, RefreshedRaw(raw))
         /\ \A f \in Compiled(p) \ changed : StaticImports(p, f) \subseteq RefreshedRaw(raw)[f]
         /\ \A t \in (TestsAt(p) \cap TestsAt(commit)) \ changed :
              ConftestsAt(p, t) \cup ConftestsAt(commit, t) \subseteq RefreshedRaw(raw)[t]
<1> DEFINE fresh == [f \in changed \ removed |-> StaticImports(commit, f)]
           parsed == Update(raw, fresh)
           given(t) == IF t \in DOMAIN parsed THEN parsed[t] ELSE {}
           tests == [t \in TestsAt(commit) |-> given(t) \cup ConftestsAt(commit, t)]
<1>1. \A f \in Compiled(commit) : f \in DOMAIN parsed /\ StaticImports(commit, f) \subseteq parsed[f]
  <2> TAKE f \in Compiled(commit)
  <2>1. CASE f \in changed
    BY <2>1 DEF Compiled, Update
  <2>2. CASE f \notin changed
    <3>1. f \in Compiled(p)
      BY <2>2 DEF Differing, Compiled, Code
    <3>2. StaticImports(p, f) = StaticImports(commit, f)
      BY <2>2, <3>1, SettledImports
    <3>3. QED
      BY <2>2, <3>1, <3>2 DEF Update, KnowsStatic
  <2>3. QED
    BY <2>1, <2>2
<1>2. \A f \in Compiled(p) \ changed : f \in DOMAIN parsed /\ StaticImports(p, f) \subseteq parsed[f]
  BY DEF Update, KnowsStatic
<1>3. \A t \in TestsAt(p) \ changed : t \in DOMAIN parsed /\ ConftestsAt(p, t) \subseteq parsed[t]
  BY DEF Update, KnowsStatic
<1>4. RefreshedRaw(raw) = Update(parsed, tests)
  BY DEF RefreshedRaw
<1> HIDE DEF parsed
<1>5. \A f \in DOMAIN parsed : f \in DOMAIN RefreshedRaw(raw) /\ parsed[f] \subseteq RefreshedRaw(raw)[f]
  BY <1>4 DEF Update
<1>6. \A t \in TestsAt(commit) : t \in DOMAIN RefreshedRaw(raw)
                                 /\ ConftestsAt(commit, t) \subseteq RefreshedRaw(raw)[t]
  BY <1>4 DEF Update
<1>7. QED
  BY <1>1, <1>2, <1>3, <1>5, <1>6 DEF KnowsStatic

(* What it leaves in the first run. *)
LEMMA FirstRefreshedKnows ==
  ASSUME NEW raw, changed = Compiled(commit), removed = {}
  PROVE  KnowsStatic(commit, RefreshedRaw(raw))
<1> DEFINE fresh == [f \in changed \ removed |-> StaticImports(commit, f)]
           parsed == Update(raw, fresh)
           given(t) == IF t \in DOMAIN parsed THEN parsed[t] ELSE {}
           tests == [t \in TestsAt(commit) |-> given(t) \cup ConftestsAt(commit, t)]
<1>1. \A f \in Compiled(commit) : f \in DOMAIN parsed /\ StaticImports(commit, f) \subseteq parsed[f]
  BY DEF Update
<1>2. RefreshedRaw(raw) = Update(parsed, tests)
  BY DEF RefreshedRaw
<1> HIDE DEF parsed
<1>3. QED
  BY <1>1, <1>2 DEF Update, KnowsStatic

(* The edges of compute_coverage's graph. *)
LEMMA GraphEdges ==
  ASSUME NEW raw, NEW dyna
  PROVE  /\ \A f \in DOMAIN raw : \A g \in raw[f] : <<f, g>> \in Graph(raw, dyna)
         /\ \A e \in AllDynamic(dyna) : e[1] # External => e \in Graph(raw, dyna)
         /\ \A g : <<External, g>> \in AllDynamic(dyna) =>
              \A t \in TestsAt(commit) : <<t, g>> \in Graph(raw, dyna)
         /\ \A e \in Graph(raw, dyna) :
              \/ \E f \in DOMAIN raw : \E g \in raw[f] : e = <<f, g>>
              \/ e \in AllDynamic(dyna)
              \/ \E t \in TestsAt(commit) : \E d \in AllDynamic(dyna) : e = <<t, d[2]>>
<1> DEFINE static == UNION {{<<f, g>> : g \in raw[f]} : f \in DOMAIN raw}
           inside == {e \in AllDynamic(dyna) : e[1] # External}
           outside == TestsAt(commit) \X {e[2] : e \in {d \in AllDynamic(dyna) : d[1] = External}}
<1>1. Graph(raw, dyna) = static \cup inside \cup outside
  BY DEF Graph
<1>2. \A e : e \in static <=> \E f \in DOMAIN raw : \E g \in raw[f] : e = <<f, g>>
  OBVIOUS
<1>3. \A g : <<External, g>> \in AllDynamic(dyna) => \A t \in TestsAt(commit) : <<t, g>> \in outside
  OBVIOUS
<1>4. \A e \in outside : \E t \in TestsAt(commit) : \E d \in AllDynamic(dyna) : e = <<t, d[2]>>
  OBVIOUS
<1> HIDE DEF static, outside
<1>5. QED
  BY <1>1, <1>2, <1>3, <1>4

(***************************************************************************)
(* The heart of the argument.  R is what compute_coverage finds reachable  *)
(* from test t with the old graph, brought up to date; S is what the test  *)
(* executed in the old commit.  R covers S, so when nothing in R changed   *)
(* the test executes the same files, with the same code.                   *)
(***************************************************************************)
LEMMA ReachesWhatItExecuted ==
  ASSUME Hypotheses, commit \in Commit, NEW p \in Commit,
         NEW t \in TestsAt(p) \cap TestsAt(commit), NEW raw, NEW dyna,
         DOMAIN raw \subseteq File, \A f \in DOMAIN raw : raw[f] \subseteq File,
         AllDynamic(dyna) \subseteq Edge,
         \A f \in Compiled(p) \ Differing(p, commit) :
            f \in DOMAIN raw /\ StaticImports(p, f) \subseteq raw[f],
         t \in DOMAIN raw, t \notin Differing(p, commit) => ConftestsAt(p, t) \subseteq raw[t],
         ConftestsAt(commit, t) \subseteq raw[t],
         Captured(p, t) \subseteq AllDynamic(dyna),
         Descendants(t, Graph(raw, dyna)) \cap Differing(p, commit) = {}
  PROVE  Executes(p, t) \cup ConftestsAt(commit, t) \subseteq Descendants(t, Graph(raw, dyna))
<1> DEFINE G == Graph(raw, dyna)
           R == Descendants(t, G)
           S == Executes(p, t)
           X == R \cap S
<1>1. t \in TestFile /\ t \in File
  BY FileWorldAssumption DEF FileWorldAssumption, TestsAt
<1>2. \A e \in G : e[2] \in File
  <2> TAKE e \in G
  <2>1. \A d \in AllDynamic(dyna) : d[2] \in File
    BY DEF Edge
  <2>2. QED
    BY <2>1, GraphEdges
<1>3. t \in R /\ R \subseteq File /\ \A f, g : f \in R /\ <<f, g>> \in G => g \in R
  <2>1. t \in R /\ R \subseteq File /\ ClosedUnder(R, G)
    BY <1>1, <1>2, DescendantsLeast
  <2>2. QED
    BY <2>1 DEF ClosedUnder
<1>4. t \in S /\ S \subseteq File /\ ClosedUnder(S, RealEdges(p, t))
  BY <1>1, ExecutesLeast
<1>5. \A g \in ConftestsAt(p, t) \cup ConftestsAt(commit, t) : g \in R
  BY <1>3, GraphEdges
<1>6. ASSUME NEW f \in X, Code(p, f) # NoCode, NEW g \in ResolvedImports(p, f, Kind)
      PROVE  g \in R
  <2>1. f \in Present(p) /\ f \in Compiled(p) /\ f \notin Differing(p, commit) /\ f \in File
    BY <1>3, <1>6 DEF Code, Compiled
  <2>2. \A h \in StaticImports(p, f) : h \in R
    BY <1>3, <2>1, GraphEdges
  <2>3. CASE g \in ResolvedImports(p, f, {"name"}) \cup ResolvedImports(p, f, {"wildcard"})
    BY <2>1, <2>2, <2>3 DEF StaticImports, Hypotheses, PackageWildcards
  <2>4. CASE g \in ResolvedImports(p, f, {"dynamic"})
    <3>1. <<f, g>> \in AllDynamic(dyna)
      BY <1>1, <1>6, <2>4, CapturedMembers
    <3>2. f # External
      BY <2>1, FileWorldAssumption DEF FileWorldAssumption
    <3>3. QED
      BY <1>3, <3>1, <3>2, GraphEdges
  <2>5. CASE g \in ResolvedImports(p, f, {"external"})
    <3>1. <<External, g>> \in AllDynamic(dyna)
      BY <1>1, <1>6, <2>5, CapturedMembers
    <3>2. QED
      BY <1>3, <3>1, GraphEdges
  <2>6. QED
    BY <2>1, <2>3, <2>4, <2>5, ImportsByKind DEF Kind
<1>7. ClosedUnder(X, RealEdges(p, t))
  <2> SUFFICES ASSUME NEW e \in RealEdges(p, t), e[1] \in X PROVE e[2] \in X
    BY DEF ClosedUnder
  <2>1. e[2] \in S
    BY <1>4 DEF ClosedUnder
  <2>2. CASE e \in Loads(p)
    BY <1>6, <2>1, <2>2, LoadsMembers
  <2>3. CASE e \in {<<t, g>> : g \in ConftestsAt(p, t)}
    BY <1>5, <2>1, <2>3
  <2>4. QED
    BY <2>2, <2>3 DEF RealEdges
<1>8. S \subseteq X
  BY <1>1, <1>3, <1>4, <1>7, ExecutesLeast
<1>9. QED
  BY <1>5, <1>8

LEMMA UnaffectedBehaves ==
  ASSUME Hypotheses, NEW p \in Commit, NEW c \in Commit,
         NEW t \in TestsAt(p) \cap TestsAt(c),
         (Executes(p, t) \cup ConftestsAt(c, t)) \cap Differing(p, c) = {}
  PROVE  Behaviour(p, t) = Behaviour(c, t) /\ Captured(p, t) = Captured(c, t)
<1> DEFINE S == Executes(p, t)
           T == Executes(c, t)
<1>1. t \in TestFile
  BY DEF TestsAt
<1>2. /\ t \in S /\ S \subseteq File /\ ClosedUnder(S, RealEdges(p, t))
      /\ t \in T /\ T \subseteq File /\ ClosedUnder(T, RealEdges(c, t))
  BY <1>1, ExecutesLeast
<1>3. \A g : <<t, g>> \in RealEdges(p, t) => g \in S
  BY <1>2 DEF ClosedUnder
<1>4. \A g : <<t, g>> \in RealEdges(c, t) => g \in T
  BY <1>2 DEF ClosedUnder
<1>5. ConftestsAt(p, t) = ConftestsAt(c, t)
  <2>1. ConftestsAt(p, t) \subseteq S
    BY <1>3 DEF RealEdges
  <2>2. ConftestsAt(p, t) \subseteq ConftestsAt(c, t)
    BY <2>1, UnchangedPresence DEF ConftestsAt
  <2>3. ConftestsAt(c, t) \subseteq ConftestsAt(p, t)
    BY UnchangedPresence DEF ConftestsAt
  <2>4. QED
    BY <2>2, <2>3
<1>6. ASSUME NEW f \in S
      PROVE  /\ Code(p, f) = Code(c, f)
             /\ Code(p, f) # NoCode =>
                  /\ f \in Present(p) /\ f \in Present(c)
                  /\ ResolvedImports(p, f, Kind) = ResolvedImports(c, f, Kind)
                  /\ \A k \in Kind : ResolvedImports(p, f, {k}) = ResolvedImports(c, f, {k})
  <2>1. Code(p, f) = Code(c, f)
    BY UnchangedPresence
  <2>2. CASE Code(p, f) # NoCode
    <3>1. f \in Compiled(p)
      BY <2>2 DEF Compiled, Code
    <3>2. QED
      BY <2>1, <3>1, SettledImports DEF Compiled
  <2>3. QED
    BY <2>1, <2>2
<1>7. \A f \in S : \A g : <<f, g>> \in RealEdges(p, t) <=> <<f, g>> \in RealEdges(c, t)
  <2> TAKE f \in S
  <2> TAKE g
  <2>1. <<f, g>> \in Loads(p) <=> <<f, g>> \in Loads(c)
    BY <1>6, LoadsMembers
  <2>2. QED
    BY <1>5, <2>1 DEF RealEdges
<1>8. \A e \in RealEdges(p, t) \cup RealEdges(c, t) : e = <<e[1], e[2]>>
  BY LoadsMembers DEF RealEdges
<1>9. T \subseteq S
  <2>1. ClosedUnder(S, RealEdges(c, t))
    BY <1>2, <1>7, <1>8 DEF ClosedUnder
  <2>2. QED
    BY <1>1, <1>2, <2>1, ExecutesLeast
<1>10. S \subseteq T
  <2>1. ClosedUnder(T, RealEdges(p, t))
    BY <1>2, <1>7, <1>8, <1>9 DEF ClosedUnder
  <2>2. QED
    BY <1>1, <1>2, <2>1, ExecutesLeast
<1>11. S = T
  BY <1>9, <1>10
<1>12. Behaviour(p, t) = Behaviour(c, t)
  BY <1>6, <1>11 DEF Behaviour
<1>13. ASSUME NEW e PROVE e \in Captured(p, t) <=> e \in Captured(c, t)
  BY <1>1, <1>6, <1>11, CapturedMembers DEF Kind
<1>14. QED
  BY <1>12, <1>13

(***************************************************************************)
(* The inductive invariant: what the caches, and the tool's memory, know   *)
(* at each point of a run, as long as the tool has not died.               *)
(***************************************************************************)
IdleInv == pc = "idle" => checksums = None /\ deps = None
ComparedInv == pc # "idle" => checksums # None /\ checksums = ChecksumsOf(commit)

LoadInv ==
  pc = "load" =>
    \/ deps = None /\ changed = Compiled(commit) /\ removed = {}
    \/ /\ deps # None
       /\ \E p \in Commit : /\ changed = Differing(p, commit)
                            /\ removed = Present(p) \ Present(commit)
                            /\ KnowsStatic(p, deps.raw) /\ KnowsTests(p, deps)

RunInv ==
  pc = "run" =>
    /\ removed \cap Present(commit) = {}
    /\ KnowsStatic(commit, memory.raw)
    /\ \A t \in TestsAt(commit) \ toRun :
         Current(commit, t, Recorded(memory, t) \cup CapturedNow(t))

DoneInv ==
  pc = "done" => deps # None /\ KnowsStatic(commit, deps.raw) /\ KnowsTests(commit, deps)

Knows == IdleInv /\ ComparedInv /\ LoadInv /\ RunInv /\ DoneInv
KnowInv == crashes = 0 => Knows

LEMMA SameTree ==
  ASSUME NEW p \in Commit, NEW q \in Commit, ChecksumsOf(p) = ChecksumsOf(q)
  PROVE  /\ Present(p) = Present(q)
         /\ \A c \in Commit : Differing(p, c) = Differing(q, c)
<1>1. Tree[p] = Tree[q]
  BY DEF ChecksumsOf
<1>2. Present(p) = Present(q) /\ \A f : Code(p, f) = Code(q, f)
  BY <1>1 DEF Present, Code
<1>3. QED
  BY <1>2 DEF Differing, Compiled

(* A test that is not selected executes what it executed in the previous    *)
(* commit, if its dynamic imports of then are on record.                    *)
LEMMA UnselectedBehaves ==
  ASSUME Hypotheses, TypeInv, SelectTests, deps # None,
         NEW p \in Commit, changed = Differing(p, commit),
         removed = Present(p) \ Present(commit), KnowsStatic(p, deps.raw),
         NEW t \in TestsAt(commit), t \notin toRun',
         t \in TestsAt(p) => Captured(p, t) \subseteq Recorded(deps, t)
  PROVE  /\ t \in TestsAt(p)
         /\ Behaviour(p, t) = Behaviour(commit, t) /\ Captured(p, t) = Captured(commit, t)
<1> DEFINE raw == RefreshedRaw(deps.raw)
           R == Descendants(t, Graph(raw, deps.dyna))
<1>1. IsDeps(deps) /\ commit \in Commit /\ changed \ removed \subseteq Present(commit)
  BY DEF TypeInv, TypeOK, CachesInv, SelectTests
<1>2. t \notin changed /\ R \cap changed = {}
  BY DEF SelectTests, Affected
<1>3. t \in TestsAt(p)
  BY <1>1, <1>2, UnchangedPresence DEF TestsAt
<1>4. DOMAIN raw \subseteq File /\ \A f \in DOMAIN raw : raw[f] \subseteq File
  BY <1>1, RefreshedType DEF IsDeps
<1>5. AllDynamic(deps.dyna) \subseteq Edge
  BY <1>1 DEF IsDeps, AllDynamic
<1>6. Captured(p, t) \subseteq AllDynamic(deps.dyna)
  BY <1>3 DEF Recorded, AllDynamic
<1>7. /\ KnowsStatic(commit, raw)
      /\ \A f \in Compiled(p) \ changed : StaticImports(p, f) \subseteq raw[f]
      /\ ConftestsAt(p, t) \cup ConftestsAt(commit, t) \subseteq raw[t]
  BY <1>1, <1>2, <1>3, RefreshedKnows
<1>8. t \in DOMAIN raw
  BY <1>7 DEF KnowsStatic
<1>9. \A f \in Compiled(p) \ changed : f \in DOMAIN raw /\ StaticImports(p, f) \subseteq raw[f]
  BY <1>1, <1>7, SettledImports DEF KnowsStatic
<1> HIDE DEF raw
<1>10. Executes(p, t) \cup ConftestsAt(commit, t) \subseteq R
  BY <1>1, <1>2, <1>3, <1>4, <1>5, <1>6, <1>7, <1>8, <1>9, ReachesWhatItExecuted
<1>11. QED
  BY <1>1, <1>2, <1>3, <1>10, UnaffectedBehaves

(* So it is up to date with the new commit, if it was with the previous one. *)
LEMMA NotSelected ==
  ASSUME Hypotheses, TypeInv, SelectTests, deps # None,
         NEW p \in Commit, changed = Differing(p, commit),
         removed = Present(p) \ Present(commit),
         KnowsStatic(p, deps.raw), KnowsTests(p, deps),
         NEW t \in TestsAt(commit), t \notin toRun'
  PROVE  Current(commit, t, Recorded(deps, t))
<1> SUFFICES ASSUME seen[t] # Killed PROVE Current(commit, t, Recorded(deps, t))
  BY DEF Current
<1>1. t \in TestsAt(p) => /\ seen[t] \in Commit /\ Behaviour(seen[t], t) = Behaviour(p, t)
                          /\ Captured(p, t) \subseteq Recorded(deps, t)
  BY DEF KnowsTests, Current
<1>2. QED
  BY <1>1, UnselectedBehaves DEF Current

LEMMA KnowStep ==
  ASSUME Hypotheses, TypeInv, KnowInv, [Next]_vars
  PROVE  KnowInv'
<1> SUFFICES ASSUME crashes' = 0 PROVE Knows'
  BY DEF KnowInv
<1>0. Knows /\ ~Crash
  <2>1. crashes \in Nat
    BY BoundAssumption DEF TypeInv, TypeOK
  <2>2. Crash => crashes' = crashes + 1
    BY DEF Crash
  <2>3. ~Crash
    BY <2>1, <2>2
  <2>4. crashes' = crashes
    BY <2>3 DEF Next, vars, CompareChecksums, SelectTests, RunTest, KillTest, DumpDeps
  <2>5. QED
    BY <2>3, <2>4 DEF KnowInv
<1> USE <1>0 DEF Knows
<1>1. ASSUME NEW c \in Commit, CompareChecksums(c) PROVE Knows'
  <2>1. checksums' = ChecksumsOf(c) /\ commit' = c /\ pc' = "load" /\ UNCHANGED <<deps, seen>>
    BY <1>1, ComparisonStep DEF CompareChecksums, TypeInv
  <2>2. checksums' # None
    BY <2>1 DEF ChecksumsOf, Hypotheses, NoneIsNoRecord
  <2>3. CASE pc = "idle"
    <3>1. checksums = None /\ deps = None /\ \A p \in Commit : checksums # ChecksumsOf(p)
      BY <2>3 DEF IdleInv, ChecksumsOf, Hypotheses, NoneIsNoRecord
    <3>2. changed' = Compiled(c) /\ removed' = {}
      BY <1>1, <3>1, ComparisonStep DEF TypeInv
    <3>3. QED
      BY <2>1, <2>2, <3>1, <3>2 DEF IdleInv, ComparedInv, LoadInv, RunInv, DoneInv
  <2>4. CASE pc = "done"
    <3>1. checksums # None /\ checksums = ChecksumsOf(commit) /\ commit \in Commit
      BY <2>4 DEF ComparedInv, TypeInv, TypeOK
    <3>2. changed' = Differing(commit, c) /\ removed' = Present(commit) \ Present(c)
      BY <1>1, <3>1, ComparisonStep, SameTree DEF TypeInv
    <3>3. deps # None /\ KnowsStatic(commit, deps.raw) /\ KnowsTests(commit, deps)
      BY <2>4 DEF DoneInv
    <3>4. LoadInv'
      <4>1. \E p \in Commit : /\ changed' = Differing(p, c)
                              /\ removed' = Present(p) \ Present(c)
                              /\ KnowsStatic(p, deps.raw)
                              /\ \A t \in TestsAt(p) : Current(p, t, Recorded(deps, t))
        BY <3>1, <3>2, <3>3 DEF KnowsTests
      <4>2. QED
        BY <2>1, <3>3, <4>1 DEF LoadInv, KnowsTests, Current, Recorded
    <3>6. QED
      BY <2>1, <2>2, <3>4 DEF IdleInv, ComparedInv, RunInv, DoneInv
  <2>5. QED
    BY <1>1, <2>3, <2>4 DEF CompareChecksums
<1>2. CASE SelectTests
  <2>1. pc = "load" /\ pc' = "run"
        /\ UNCHANGED <<commit, checksums, deps, changed, added, removed, seen>>
    BY <1>2 DEF SelectTests
  <2>2. CASE deps = None
    <3>1. changed = Compiled(commit) /\ removed = {}
      BY <2>1, <2>2 DEF LoadInv
    <3>2. toRun' = TestsAt(commit)
      BY <1>2, <2>2 DEF SelectTests
    <3>3. memory'.raw = RefreshedRaw(NoDeps.raw)
      BY <1>2, <2>2 DEF SelectTests
    <3>4. KnowsStatic(commit, memory'.raw)
      BY <3>1, <3>3, FirstRefreshedKnows
    <3>5. RunInv'
      BY <2>1, <3>1, <3>2, <3>4 DEF RunInv
    <3>6. QED
      BY <2>1, <3>5 DEF IdleInv, ComparedInv, LoadInv, DoneInv
  <2>3. CASE deps # None
    <3>1. PICK p \in Commit : /\ changed = Differing(p, commit)
                              /\ removed = Present(p) \ Present(commit)
                              /\ KnowsStatic(p, deps.raw) /\ KnowsTests(p, deps)
      BY <2>1, <2>3 DEF LoadInv
    <3>2. memory'.raw = RefreshedRaw(deps.raw)
      BY <1>2, <2>3 DEF SelectTests
    <3>3. KnowsStatic(commit, memory'.raw)
      BY <3>1, <3>2, RefreshedKnows DEF TypeInv, TypeOK
    <3>4. ASSUME NEW t \in TestsAt(commit) \ toRun'
          PROVE  Current(commit, t, Recorded(memory', t))
      <4>1. Current(commit, t, Recorded(deps, t))
        BY <1>2, <2>3, <3>1, NotSelected
      <4>2. Recorded(deps, t) \subseteq Recorded(memory', t)
        BY <1>2, <2>3, SelectKeepsRecords DEF TypeInv, TestsAt
      <4>3. QED
        BY <4>1, <4>2 DEF Current
    <3>5. RunInv'
      BY <2>1, <3>1, <3>3, <3>4 DEF RunInv, Current, Recorded
    <3>6. QED
      BY <2>1, <3>5 DEF IdleInv, ComparedInv, LoadInv, DoneInv
  <2>4. QED
    BY <2>2, <2>3
<1>3. ASSUME NEW t \in TestFile, RunTest(t) PROVE Knows'
  <2>1. /\ pc = "run" /\ commit \in Commit
        /\ seen' = [seen EXCEPT ![t] = commit] /\ toRun' = toRun \ {t}
        /\ coverage' = Update(coverage, [x \in {t} |-> Captured(commit, t)])
        /\ UNCHANGED <<commit, checksums, deps, pc, removed, memory>>
    BY <1>3 DEF RunTest, TypeInv, TypeOK
  <2>2. seen \in [TestFile -> Commit \cup {Never, Killed}]
    BY DEF TypeInv, TypeOK
  <2>3. seen'[t] = commit /\ t \in DOMAIN coverage' /\ coverage'[t] = Captured(commit, t)
    BY <2>1, <2>2 DEF Update
  <2>4. Current(commit, t, Recorded(memory, t) \cup CapturedNow(t))'
    BY <2>1, <2>3 DEF Current, CapturedNow, Recorded
  <2>5. ASSUME NEW u \in TestsAt(commit) \ toRun', u # t
        PROVE  Current(commit, u, Recorded(memory, u) \cup CapturedNow(u))'
    <3>1. Current(commit, u, Recorded(memory, u) \cup CapturedNow(u))
      BY <2>1, <2>5 DEF RunInv
    <3>2. seen'[u] = seen[u]
      BY <2>1, <2>2, <2>5 DEF TestsAt
    <3>3. CapturedNow(u)' = CapturedNow(u)
      BY <2>1, <2>5 DEF CapturedNow, Update
    <3>4. Recorded(memory, u)' = Recorded(memory, u)
      BY <2>1 DEF Recorded
    <3>5. QED
      BY <2>1, <3>1, <3>2, <3>3, <3>4 DEF Current
  <2>6. RunInv'
    BY <2>1, <2>4, <2>5 DEF RunInv
  <2>7. QED
    BY <2>1, <2>6 DEF IdleInv, ComparedInv, LoadInv, DoneInv
<1>4. ASSUME NEW t \in TestFile, KillTest(t) PROVE Knows'
  <2>1. /\ pc = "run"
        /\ seen' = [seen EXCEPT ![t] = Killed] /\ toRun' = toRun \ {t}
        /\ UNCHANGED <<commit, checksums, deps, pc, removed, memory, coverage>>
    BY <1>4 DEF KillTest
  <2>2. seen \in [TestFile -> Commit \cup {Never, Killed}]
    BY DEF TypeInv, TypeOK
  <2>3. ASSUME NEW u \in TestsAt(commit) \ toRun'
        PROVE  Current(commit, u, Recorded(memory, u) \cup CapturedNow(u))'
    <3>1. u = t => seen'[u] = Killed
      BY <2>1, <2>2
    <3>2. u # t => Current(commit, u, Recorded(memory, u) \cup CapturedNow(u)) /\ seen'[u] = seen[u]
      BY <2>1, <2>2, <2>3 DEF RunInv, TestsAt
    <3>3. QED
      BY <2>1, <3>1, <3>2 DEF Current, Recorded, CapturedNow
  <2>4. RunInv'
    BY <2>1, <2>3 DEF RunInv
  <2>5. QED
    BY <2>1, <2>4 DEF IdleInv, ComparedInv, LoadInv, DoneInv
<1>5. CASE DumpDeps
  <2>1. /\ pc = "run" /\ toRun = {} /\ pc' = "done"
        /\ deps' = [raw  |-> Pop(memory.raw, removed),
                    dyna |-> Pop(MergedDyna(memory.dyna), removed)]
        /\ UNCHANGED <<commit, checksums, seen>>
    BY <1>5 DEF DumpDeps
  <2>2. removed \cap Present(commit) = {} /\ KnowsStatic(commit, memory.raw)
    BY <2>1 DEF RunInv
  <2>3. KnowsStatic(commit, deps'.raw)
    BY <2>1, <2>2 DEF KnowsStatic, Pop, Compiled, TestsAt
  <2>4. ASSUME NEW t \in TestsAt(commit)
        PROVE  Current(commit, t, Recorded(deps', t))
    <3>1. Current(commit, t, Recorded(memory, t) \cup CapturedNow(t))
      BY <2>1 DEF RunInv
    <3>2. Recorded(memory, t) \cup CapturedNow(t) \subseteq Recorded(deps', t)
      BY <1>5, <2>2, DumpKeepsRecords DEF TestsAt
    <3>3. QED
      BY <3>1, <3>2 DEF Current
  <2>5. deps' # None
    BY <2>1 DEF Hypotheses, NoneIsNoRecord
  <2>6. DoneInv'
    BY <2>1, <2>3, <2>4, <2>5 DEF DoneInv, KnowsTests, Current, Recorded
  <2>7. QED
    BY <2>1, <2>6 DEF IdleInv, ComparedInv, LoadInv, RunInv
<1>6. CASE Crash
  BY <1>6
<1>7. CASE UNCHANGED vars
  BY <1>7 DEF vars, tool, IdleInv, ComparedInv, LoadInv, RunInv, DoneInv,
              KnowsTests, Current, Recorded, CapturedNow
<1>8. QED
  BY <1>1, <1>2, <1>3, <1>4, <1>5, <1>6, <1>7 DEF Next

(* The promise of EkstaziP.get_tests_to_run, for every repository, every   *)
(* walk over its commits and every choice of killed test processes: a test *)
(* that is not selected behaves as when it last ran.                       *)
THEOREM SelectionUpToDate ==
  ASSUME Hypotheses
  PROVE  Spec => []UpToDate
<1>1. Init => KnowInv
  BY DEF Init, KnowInv, Knows, IdleInv, ComparedInv, LoadInv, RunInv, DoneInv
<1>2. TypeInv /\ KnowInv /\ [Next]_vars => KnowInv'
  BY KnowStep
<1>3. KnowInv => UpToDate
  BY DEF KnowInv, Knows, RunInv, DoneInv, KnowsTests, Current, UpToDate
<1>4. QED
  BY <1>1, <1>2, <1>3, TypeInvariant, PTL DEF Spec
=============================================================================
