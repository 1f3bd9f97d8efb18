----------------------------- MODULE NamePipeline -----------------------------
(***************************************************************************)
(* NameBDP over a history of commits (namebdp.py, get_tests_to_run): the   *)
(* selection EkstaziP makes is narrowed by names.  The elements of every   *)
(* file are parsed, those of unchanged files are taken from                *)
(* nbdp_cache.json, the cache is written, the checksums of the changed     *)
(* files are compared with the cached ones, and of the tests EkstaziP      *)
(* selected only those run that are edited themselves or reach an element  *)
(* that differs.                                                           *)
(*                                                                         *)
(* What one propagation computes is NameWorld's and NamePropagation's      *)
(* matter; here it is its fixed point, with PRUNE_NAME_RESOLUTION and      *)
(* PRUNE_CRITICAL_FUNCTIONS off, and without the names recorded at run     *)
(* time.  The question is whether the caches on disk keep telling the      *)
(* truth about a tree that most runs read only in part.                    *)
(***************************************************************************)
EXTENDS FileSelection

CONSTANTS
  Name,        \* names of functions, variables and classes
  ModuleDict   \* [bytecode -> [entry, elements]]: what parse_pyc returns

(* An element of a file.  A class has no checksum of its own, only a       *)
(* registered function has a decorator hash, "None" is the class of what   *)
(* is defined at module level.                                             *)
Element == [kind : {"function", "variable", "class"}, name : Name, class : Name \cup {"None"},
            sums : SUBSET Nat, uses : SUBSET Name, bases : SUBSET Name, hashes : SUBSET Nat]

PipelineAssumption ==
  /\ \A c \in Commit : \A f \in Compiled(c) : Code(c, f) \in DOMAIN ModuleDict
  /\ \A k \in DOMAIN ModuleDict :
       /\ ModuleDict[k].entry \subseteq Name
       /\ \A e \in ModuleDict[k].elements : e \in Element
ASSUME PipelineAssumption

(* Where a tree has several classes of a name the code takes the first; a  *)
(* tree has one here.                                                      *)
UniqueClasses ==
  \A c \in Commit : \A f, g \in Compiled(c) :
    \A d \in ModuleDict[Code(c, f)].elements : \A e \in ModuleDict[Code(c, g)].elements :
      d.kind = "class" /\ e.kind = "class" /\ d.name = e.name => f = g /\ d = e
ASSUME UniqueClasses

VARIABLES
  stage,      \* of get_tests_to_run: "files", "named", "narrowed"
  nameCache,  \* nbdp_cache.json, or None
  names,      \* module_name_dict_all
  previous,   \* cached_module_name_dict_all
  split       \* history: the tool died with the checksums written, the names not

nameVars == <<stage, nameCache, names, previous, split>>
pipelineVars == <<vars, nameVars>>

ElementsOf(mods) == UNION {mods[f].elements : f \in DOMAIN mods}

(* valid_names: everything that is defined somewhere. *)
ValidNames(mods) == {e.name : e \in ElementsOf(mods)}

(* remove_invalid_names; the names of a variable are kept in its class or  *)
(* module and are not looked at.                                           *)
PrunedElement(e, valid) ==
  IF e.kind = "variable" THEN e ELSE [e EXCEPT !.uses = @ \cap valid]
PrunedModule(m, valid) ==
  [entry |-> m.entry \cap valid, elements |-> {PrunedElement(e, valid) : e \in m.elements}]
Pruned(mods) == [f \in DOMAIN mods |-> PrunedModule(mods[f], ValidNames(mods))]

Parsed(c) == [f \in Compiled(c) |-> ModuleDict[Code(c, f)]]

(* Mutant: the cache is trusted for changed files too. *)
ReusedIfKnown(cached) ==
  [f \in Compiled(commit) |->
     IF f \in DOMAIN cached THEN cached[f] ELSE ModuleDict[Code(commit, f)]]

(* Mutant: what is in the cache is kept, whether its file exists or not. *)
ReusedEvenIfGone(cached) ==
  Update(cached, [f \in Compiled(commit) |-> ModuleDict[Code(commit, f)]])

(* A file that did not change is not parsed if it is in the cache. *)
ReusedOrParsed(cached) ==
  [f \in Compiled(commit) |->
     IF f \in DOMAIN cached \ changed THEN cached[f] ELSE ModuleDict[Code(commit, f)]]
------------------------------------------------------------------------------
(* The names a test holds at the end of its propagation: those of the test *)
(* module, those the modules it loads use when they are imported, and      *)
(* those used by elements it holds; a method counts once its class does.   *)
Holds(H, e) == e.name \in H /\ (e.class = "None" \/ e.class \in H)

InReach(mods, related) ==
  DOMAIN mods \cap (related \cup UNION {Conftests[t] : t \in TestFile})

HeldNames(mods, t, related) ==
  LET entry == mods[t].entry
               \cup UNION {mods[f].entry : f \in (DOMAIN mods \cap related) \ TestFile}
      found == UNION {mods[f].elements : f \in InReach(mods, related)}
      Closed(H) == entry \subseteq H /\ \A e \in found : Holds(H, e) => e.uses \subseteq H
  IN  {n \in Name : \A H \in SUBSET Name : Closed(H) => n \in H}

Needed(mods, t, related) ==
  LET held == HeldNames(mods, t, related)
  IN  UNION {{<<f, e>> : e \in {x \in mods[f].elements : Holds(held, x)}}
               : f \in InReach(mods, related)}

SumsOf(needed) == UNION {n[2].sums : n \in needed}

(* get_checksum_name_dict: the functions of test files are left out. *)
Sums(f, m) ==
  UNION {e.sums : e \in {x \in m.elements : x.kind = "variable" \/ f \notin TestFile}}

(* handle_deleted_added_functions: for a deleted method, the methods of    *)
(* that name that its class now inherits.  The class is looked up in the   *)
(* file of the method only, a base wherever it is defined.                 *)
Functions(mods) ==
  UNION {{<<f, e.class, e.name>> : e \in {x \in mods[f].elements : x.kind = "function"}}
           : f \in DOMAIN mods}
ClassesNamed(elements, k) == {e \in elements : e.kind = "class" /\ e.name = k}
Bases(elements, k) == UNION {e.bases : e \in ClassesNamed(elements, k)}
Methods(mods, k, n) ==
  {e \in ElementsOf(mods) : e.kind = "function" /\ e.class = k /\ e.name = n}

Inherited(mods, f, k, n) ==
  LET own == Bases(IF f \in DOMAIN mods THEN mods[f].elements ELSE {}, k)
      Searched(S) ==
        /\ own \subseteq S
        /\ \A b \in S : Methods(mods, b, n) = {} => Bases(ElementsOf(mods), b) \subseteq S
  IN  UNION {Methods(mods, b, n) : b \in {x \in Name : \A S \in SUBSET Name : Searched(S) => x \in S}}

DeletedInSuperClasses(before, after) ==
  UNION {UNION {e.sums : e \in Inherited(after, d[1], d[2], d[3])}
           : d \in Functions(before) \ Functions(after)}

(* different_checksums: what a changed file has and had not. *)
ShownSums(before, after, files) ==
  DeletedInSuperClasses(before, after)
  \cup UNION {Sums(f, after[f]) \ (IF f \in DOMAIN before THEN Sums(f, before[f]) ELSE {})
                : f \in files \cap DOMAIN after}

(* Mutant: everything in a changed file counts as different. *)
EverySum == ShownSums(Empty, names, changed)

DifferentSums == ShownSums(previous, names, changed)

NewHashes ==
  UNION {e.hashes : e \in ElementsOf(names)} \ UNION {e.hashes : e \in ElementsOf(previous)}

(* dependencies_dict: an added file may be used by anyone. *)
RelatedFiles(t) == Descendants(t, Graph(memory.raw, memory.dyna)) \cup added

Reaches(t) ==
  /\ t \in DOMAIN names
  /\ SumsOf(Needed(names, t, RelatedFiles(t))) \cap DifferentSums # {}

(* A test that was edited runs whatever its names reach.  Its mutant is    *)
(* Reaches alone, which forgets that an edit is a reason to run.           *)
StaysSelected(t) == t \in changed \/ Reaches(t)
------------------------------------------------------------------------------
PipelineInit ==
  /\ Init
  /\ stage = "files"
  /\ nameCache = None /\ names = Empty /\ previous = Empty
  /\ split = FALSE

(* EkstaziP.get_tests_to_run, called first. *)
SelectFiles ==
  /\ \/ \E c \in Commit : CompareChecksums(c)
     \/ SelectTests
  /\ stage' = "files" /\ names' = Empty /\ previous' = Empty
  /\ UNCHANGED <<nameCache, split>>

(* Parsing, pruning, and the cache dumped for the next run. *)
ParseNames ==
  /\ pc = "run" /\ stage = "files"
  /\ previous' = IF nameCache = None THEN Empty ELSE nameCache
  /\ names' = Pruned(ReusedOrParsed(previous'))
  /\ nameCache' = names'
  /\ stage' = "named"
  /\ UNCHANGED <<vars, split>>

(* A run is an initialising one when there are no dependencies yet, as in  *)
(* evaluate.py.  It, and one that meets a new registration, keeps every    *)
(* test that EkstaziP selected.                                            *)
NarrowByNames ==
  /\ stage = "named"
  /\ toRun' = IF deps = None \/ NewHashes # {}
              THEN toRun
              ELSE {t \in toRun : StaysSelected(t)}
  /\ stage' = "narrowed"
  /\ UNCHANGED <<commit, checksums, deps, pc, changed, added, removed, memory, coverage,
                 seen, kills, crashes, nameCache, names, previous, split>>

(* run_and_update.  The instrumentation of the sources is undone at its    *)
(* end, or by the checkout of the next run.                                *)
RunSelected ==
  /\ stage = "narrowed"
  /\ (\E t \in TestFile : RunTest(t) \/ KillTest(t)) \/ DumpDeps
  /\ UNCHANGED nameVars

Die ==
  /\ Crash
  /\ split' = (split \/ stage = "files")
  /\ stage' = "files" /\ names' = Empty /\ previous' = Empty
  /\ UNCHANGED nameCache

PipelineNext == SelectFiles \/ ParseNames \/ NarrowByNames \/ RunSelected \/ Die

PipelineSpec == PipelineInit /\ [][PipelineNext]_pipelineVars
------------------------------------------------------------------------------
(* What a test executes, element by element, read off the files it loads.  *)
Loaded(c, t) == [f \in Compiled(c) \cap Executes(c, t) |-> ModuleDict[Code(c, f)]]
Behaves(c, t) ==
  <<Code(c, t),
    IF Code(c, t) = NoCode THEN {} ELSE
      {<<n[1], n[2].class, n[2].name, n[2].sums>> : n \in Needed(Loaded(c, t), t, Executes(c, t))}>>
NameBehaviour == [c \in Commit |-> [t \in TestsAt(c) |-> Behaves(c, t)]]

(* Type correctness. *)
PipelineTypeOK ==
  /\ TypeOK
  /\ stage \in {"files", "named", "narrowed"} /\ split \in BOOLEAN
  /\ DOMAIN names \subseteq Present(commit) /\ ElementsOf(names) \subseteq Element
  /\ DOMAIN previous \subseteq File /\ ElementsOf(previous) \subseteq Element
  /\ nameCache # None => DOMAIN nameCache \subseteq File /\ ElementsOf(nameCache) \subseteq Element

(* The names of a tree that was read in part are those of the whole tree:  *)
(* the two caches, written one after the other, describe the same commit   *)
(* whenever one is compared with the other, unless the tool died between   *)
(* the two writes (checksum.py:142, namebdp.py:922).  A death at any other *)
(* moment is harmless.                                                     *)
NamesCurrent == stage # "files" /\ ~split => names = Pruned(Parsed(commit))

(* No element a skipped test needs has changed, come or gone since the     *)
(* test last ran, however many runs skipped it in between.                 *)
NameUpToDate ==
  crashes = 0 /\ stage = "narrowed" =>
    \A t \in TestsAt(commit) \ toRun :
      seen[t] = Killed
      \/ (seen[t] \in Commit /\ NameBehaviour[seen[t]][t] = NameBehaviour[commit][t])

(* Precision: but for first runs, killed processes and new registrations,  *)
(* a test that is selected needs an element that is no longer what it was  *)
(* when the test last ran, several skipped runs ago perhaps.  In a tree    *)
(* where two elements share a name or a checksum a single comparison is    *)
(* not so precise, and the property is not expected to hold.               *)
NoneRunInVain ==
  crashes = 0 /\ stage = "narrowed" /\ pc = "run" /\ deps # None /\ NewHashes = {} =>
    \A t \in toRun :
      seen[t] \in Commit /\ t \notin added =>
        NameBehaviour[seen[t]][t] # NameBehaviour[commit][t]

(* The names an unchanged file uses are defined in all trees or in none:   *)
(* pruning never removes a name for which a definition comes later.        *)
NamesStay ==
  \A c, d \in Commit : \A f \in Compiled(c) \cap Compiled(d) :
    Code(c, f) = Code(d, f) =>
      PrunedModule(Parsed(c)[f], ValidNames(Parsed(c)))
        = PrunedModule(Parsed(d)[f], ValidNames(Parsed(d)))

(* The edits a comparison of checksums can show: between any two trees,    *)
(* where an unedited test executes something else, it needs an element     *)
(* with a checksum its file did not have, or one that it now inherits in   *)
(* place of a deleted one.  An element deleted without either, a statement *)
(* at module level or the head of a class that changes leave no checksum.  *)
ChangesShow ==
  \A p, c \in Commit : \A t \in TestsAt(p) \cap TestsAt(c) :
    Code(p, t) = Code(c, t) /\ NameBehaviour[p][t] # NameBehaviour[c][t] =>
      SumsOf(Needed(Pruned(Parsed(c)), t, Executes(c, t)))
        \cap ShownSums(Pruned(Parsed(p)), Pruned(Parsed(c)),
                       {f \in Compiled(p) \cup Compiled(c) : Code(p, f) # Code(c, f)}) # {}

(* An unedited test makes the same dynamic imports in every tree: those a  *)
(* module gains are recorded only when a test that makes them runs.        *)
CapturesStay ==
  \A p, c \in Commit : \A t \in TestsAt(p) \cap TestsAt(c) :
    Code(p, t) = Code(c, t) => Captured(p, t) = Captured(c, t)
=============================================================================
