---------------------------- MODULE FileSelection ----------------------------
(***************************************************************************)
(* EkstaziP (framework.py, checksum.py): file-level regression test        *)
(* selection.  One run checks out a commit, compares the checksum caches   *)
(* with the tree and overwrites them, selects the tests that reach a       *)
(* changed file, runs each in a process of its own while capturing dynamic *)
(* imports, and at its very end writes the dependencies for the next run.  *)
(*                                                                         *)
(* The history variable seen says in which commit each test last ran, as   *)
(* far as the caches on disk can know.                                     *)
(***************************************************************************)
EXTENDS FileWorld

CONSTANTS None, Never, Killed,
          MaxKills,    \* bound: test processes killed by their timeout
          MaxCrashes   \* bound: deaths of the tool itself

ASSUME HistoryAssumption == {Never, Killed} \cap Commit = {}
ASSUME BoundAssumption == MaxKills \in Nat /\ MaxCrashes \in Nat

VARIABLES
  commit,     \* the commit checked out
  checksums,  \* py_checksums_cache.json, or None
  deps,       \* dependencies.json, or None
  pc,         \* where the tool is: "idle", "load", "run", "done"
  changed,    \* self.changed_files
  added,      \* files that had no checksum
  removed,    \* self.removed
  memory,     \* deps_dict_raw and dyna_deps of the running tool
  toRun,      \* selected tests that have not run yet
  coverage,   \* the coverage directory: [test -> captured edges]
  seen,       \* history: [TestFile -> the commit a test last ran in]
  kills, crashes

tool == <<pc, changed, added, removed, memory, toRun, coverage>>
vars == <<commit, checksums, deps, tool, seen, kills, crashes>>

Empty == [k \in {} |-> {}]
NoDeps == [raw |-> Empty, dyna |-> Empty]

(* A dictionary with keys added, or with keys popped. *)
Update(d, e) == [k \in DOMAIN d \cup DOMAIN e |-> IF k \in DOMAIN e THEN e[k] ELSE d[k]]
Pop(d, keys) == [k \in DOMAIN d \ keys |-> d[k]]

(* compare_checksums_dict *)
Different(old, new) == {k \in DOMAIN old \cap DOMAIN new : old[k] # new[k]}
Compared(old, new) ==
  (DOMAIN new \ DOMAIN old) \cup (DOMAIN old \ DOMAIN new) \cup Different(old, new)

Compiled(c) == {f \in Present(c) : Code(c, f) # NoCode}

(* Mutant: a known bytecode checksum is never read again. *)
StalePycChecksums(c, old, update) ==
  [f \in Compiled(c) |-> IF f \in DOMAIN old THEN old[f] ELSE Code(c, f)]

(***************************************************************************)
(* get_changed_files: texts first; bytecode is read again only where the   *)
(* text differs, its old checksum is kept elsewhere.                       *)
(***************************************************************************)
PycChecksums(c, old, update) ==
  [f \in {x \in Compiled(c) : x \in update \/ x \in DOMAIN old} |->
     IF f \in update THEN Code(c, f) ELSE old[f]]

Init ==
  /\ commit \in Commit
  /\ checksums = None /\ deps = None
  /\ pc = "idle"
  /\ changed = {} /\ added = {} /\ removed = {}
  /\ memory = NoDeps /\ toRun = {} /\ coverage = Empty
  /\ seen = [t \in TestFile |-> Never]
  /\ kills = 0 /\ crashes = 0

CompareChecksums(c) ==
  /\ pc \in {"idle", "done"}
  /\ LET old     == IF checksums = None THEN [py |-> Empty, pyc |-> Empty] ELSE checksums
         textual == Compared(old.py, Tree[c])
         new     == PycChecksums(c, old.pyc, textual)
     IN  /\ changed' = Compared(old.pyc, new)
         /\ added' = Present(c) \ DOMAIN old.py
         /\ removed' = DOMAIN old.py \ Present(c)
         /\ checksums' = [py |-> Tree[c], pyc |-> new]
  /\ commit' = c
  /\ pc' = "load"
  /\ UNCHANGED <<deps, memory, toRun, coverage, seen, kills, crashes>>

(* Mutant: a file is parsed once, when it is first seen. *)
RawParsedOnce(raw) ==
  Update([f \in changed \ removed |-> StaticImports(commit, f)], raw)

(* The imports of changed files, and the conftest files of every test. *)
RefreshedRaw(raw) ==
  LET parsed == Update(raw, [f \in changed \ removed |-> StaticImports(commit, f)])
      given(t) == IF t \in DOMAIN parsed THEN parsed[t] ELSE {}
  IN  Update(parsed, [t \in TestsAt(commit) |-> given(t) \cup ConftestsAt(commit, t)])

AllDynamic(dyna) == UNION {dyna[t] : t \in DOMAIN dyna}

(* compute_coverage's graph: static and dynamic imports, and every test    *)
(* depends on what importers outside the project imported.                 *)
Graph(raw, dyna) ==
  (UNION {{<<f, g>> : g \in raw[f]} : f \in DOMAIN raw})
  \cup {e \in AllDynamic(dyna) : e[1] # External}
  \cup TestsAt(commit) \X {e[2] : e \in {d \in AllDynamic(dyna) : d[1] = External}}

Affected(graph) ==
  {t \in TestsAt(commit) : (Descendants(t, graph) \cup added) \cap changed # {}}

(* Importers with no static entry: deps_dict takes over the set object of  *)
(* one test's record, and the edges of the other tests are added to it.    *)
Orphans(raw, dyna) == {e[1] : e \in AllDynamic(dyna)} \ (DOMAIN raw \cup {External})
Shared(raw, dyna, owner) ==
  [t \in DOMAIN dyna |->
     dyna[t] \cup {e \in AllDynamic(dyna) : e[1] \in Orphans(raw, dyna) /\ owner[e[1]] = t}]

(* get_tests_to_run, after the comparison *)
SelectTests ==
  /\ pc = "load"
  /\ LET old == IF deps = None THEN NoDeps ELSE deps
         raw == RefreshedRaw(old.raw)
     IN  /\ toRun' = IF deps = None
                     THEN TestsAt(commit)
                     ELSE (changed \cup Affected(Graph(raw, old.dyna))) \cap TestsAt(commit)
         /\ \E owner \in [Orphans(raw, old.dyna) -> DOMAIN old.dyna] :
              /\ \A i \in DOMAIN owner : \E e \in old.dyna[owner[i]] : e[1] = i
              /\ memory' = [raw |-> raw, dyna |-> Shared(raw, old.dyna, owner)]
  /\ coverage' = Empty
  /\ pc' = "run"
  /\ UNCHANGED <<commit, checksums, deps, changed, added, removed, seen, kills, crashes>>

(* One process per test file; the hook writes its file at exit. *)
RunTest(t) ==
  /\ pc = "run" /\ t \in toRun
  /\ coverage' = Update(coverage, [x \in {t} |-> Captured(commit, t)])
  /\ seen' = [seen EXCEPT ![t] = commit]
  /\ toRun' = toRun \ {t}
  /\ UNCHANGED <<commit, checksums, deps, pc, changed, added, removed, memory, kills, crashes>>

(* PER_FILE_TEST_TIMEOUT: the process group is killed, nothing is captured. *)
KillTest(t) ==
  /\ pc = "run" /\ t \in toRun
  /\ kills < MaxKills
  /\ seen' = [seen EXCEPT ![t] = Killed]
  /\ toRun' = toRun \ {t}
  /\ kills' = kills + 1
  /\ UNCHANGED <<commit, checksums, deps, pc, changed, added, removed, memory, coverage, crashes>>

(* Mutant: what the last run captured replaces what was known. *)
ReplacedDyna(dyna) ==
  Update(dyna, [t \in {x \in DOMAIN coverage : coverage[x] # {}} |-> coverage[t]])

(* The end of run_and_catch_dep and of run_and_update. *)
MergedDyna(dyna) ==
  Update(dyna, [t \in {x \in DOMAIN coverage : coverage[x] # {}} |->
                  coverage[t] \cup IF t \in DOMAIN dyna THEN dyna[t] ELSE {}])

DumpDeps ==
  /\ pc = "run" /\ toRun = {}
  /\ deps' = [raw  |-> Pop(memory.raw, removed),
              dyna |-> Pop(MergedDyna(memory.dyna), removed)]
  /\ memory' = NoDeps /\ coverage' = Empty
  /\ changed' = {} /\ added' = {} /\ removed' = {}
  /\ pc' = "done"
  /\ UNCHANGED <<commit, checksums, toRun, seen, kills, crashes>>

(* The tool dies: what is on disk stays, what is in memory is lost. *)
Crash ==
  /\ pc \in {"load", "run"}
  /\ crashes < MaxCrashes
  /\ crashes' = crashes + 1
  /\ pc' = "idle"
  /\ changed' = {} /\ added' = {} /\ removed' = {}
  /\ memory' = NoDeps /\ toRun' = {} /\ coverage' = Empty
  /\ UNCHANGED <<commit, checksums, deps, seen, kills>>

Next ==
  \/ \E c \in Commit : CompareChecksums(c)
  \/ SelectTests
  \/ \E t \in TestFile : RunTest(t) \/ KillTest(t)
  \/ DumpDeps
  \/ Crash

Spec == Init /\ [][Next]_vars
------------------------------------------------------------------------------
IsDeps(d) ==
  /\ DOMAIN d.raw \subseteq File /\ \A f \in DOMAIN d.raw : d.raw[f] \subseteq File
  /\ DOMAIN d.dyna \subseteq TestFile /\ \A t \in DOMAIN d.dyna : d.dyna[t] \subseteq Edge

(* Type correctness of the caches and of the running tool. *)
TypeOK ==
  /\ commit \in Commit
  /\ checksums # None => /\ DOMAIN checksums.py \subseteq File
                         /\ DOMAIN checksums.pyc \subseteq File
  /\ deps # None => IsDeps(deps)
  /\ pc \in {"idle", "load", "run", "done"}
  /\ changed \subseteq File /\ added \subseteq File /\ removed \subseteq File
  /\ IsDeps(memory)
  /\ toRun \subseteq TestFile
  /\ DOMAIN coverage \subseteq TestFile /\ \A t \in DOMAIN coverage : coverage[t] \subseteq Edge
  /\ seen \in [TestFile -> Commit \cup {Never, Killed}]
  /\ kills \in 0..MaxKills /\ crashes \in 0..MaxCrashes

(* Re-reading only the bytecode of files whose text differs leaves the     *)
(* same checksums as compiling and reading every file again                *)
(* (gen_checksums_and_compare with update_subset).                         *)
IncrementalIsFull ==
  checksums # None =>
    checksums.pyc = [f \in {x \in DOMAIN checksums.py : CodeOf[checksums.py[x]] # NoCode} |->
                       CodeOf[checksums.py[f]]]

(* The promise of the selection: once it has been made, every test that is *)
(* not waiting to run either ran last in a tree in which it behaves as it  *)
(* does in this one, or left no record because its process was killed.     *)
(* A death of the tool voids the promise: the checksums it compared are on *)
(* disk already (checksum.py:142), the selection it made is not.           *)
UpToDate ==
  crashes = 0 /\ pc \in {"run", "done"} =>
    \A t \in TestsAt(commit) \ toRun :
      seen[t] = Killed \/ (seen[t] \in Commit /\ Behaviour(seen[t], t) = Behaviour(commit, t))

(* A dynamic import stays recorded for as long as its test exists: a run   *)
(* in which the test did not take that path does not forget it.            *)
DynamicKept ==
  [][deps # None /\ deps' # None =>
       \A t \in DOMAIN deps.dyna : t \in removed \/ deps.dyna[t] \subseteq
          (IF t \in DOMAIN deps'.dyna THEN deps'.dyna[t] ELSE {})]_vars
=============================================================================
