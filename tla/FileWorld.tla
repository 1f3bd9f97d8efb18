------------------------------ MODULE FileWorld ------------------------------
(***************************************************************************)
(* The repository under test as EkstaziP sees it: one tree of source files *)
(* per commit, what each file compiles to, the imports each file makes and *)
(* the file a module name resolves to in a tree.                           *)
(*                                                                         *)
(* Static imports are found by import_collector.py in the text of a file;  *)
(* what a test process really loads is decided by Python, which the        *)
(* repository does not contain, so Executes below is external: it is the   *)
(* truth a selection is judged against.                                    *)
(***************************************************************************)
EXTENDS Naturals, Sequences, FiniteSets

CONSTANTS
  File,        \* relative paths of .py files
  TestFile,    \* the paths is_test_file_pytest accepts
  InitFile,    \* the paths ending in __init__.py
  Conftests,   \* [TestFile -> SUBSET File]: conftest.py paths in ancestor directories
  Commit,      \* revisions (and patched trees) that can be checked out
  Tree,        \* [Commit -> [a set of files -> Source]]
  CodeOf,      \* [Source -> bytecode, or NoCode for a text that does not compile]
  NoCode,
  Imports,     \* [Source -> set of import statements]
  Candidates,  \* [module name -> Seq(File)]: package before module, root by root
  External     \* the importers outside the project

(* An import statement is <<module, kind>>.  "name" stands for "import m"  *)
(* and "from m import x", with an entry of its own for each parent package *)
(* that is loaded on the way; "wildcard" for "from m import *"; "dynamic"  *)
(* for importlib.import_module called in the file; "external" for a        *)
(* library outside the project that the file makes import m.               *)
Kind == {"name", "wildcard", "dynamic", "external"}

Source == DOMAIN CodeOf
Present(c) == DOMAIN Tree[c]
TestsAt(c) == TestFile \cap Present(c)
Code(c, f) == IF f \in Present(c) THEN CodeOf[Tree[c][f]] ELSE NoCode

(* _resolve_module_chain: the first candidate that exists in the tree. *)
Resolve(c, m) ==
  LET there == {i \in DOMAIN Candidates[m] : Candidates[m][i] \in Present(c)}
  IN  {Candidates[m][i] : i \in {j \in there : \A k \in there : j <= k}}

(* extract_imports: the files named by the import statements of a text. *)
ResolvedImports(c, f, kinds) ==
  UNION {Resolve(c, i[1]) : i \in {j \in Imports[Tree[c][f]] : j[2] \in kinds}}

(* update_imports: wildcard entries are dropped, except that the package   *)
(* __init__.py files on the way were emitted without a name and stay.      *)
StaticImports(c, f) ==
  ResolvedImports(c, f, {"name"})
  \cup (ResolvedImports(c, f, {"wildcard"}) \cap InitFile)

(* conftests_for_test_file *)
ConftestsAt(c, t) == Conftests[t] \cap Present(c)

Edge == (File \cup {External}) \X File

ClosedUnder(S, edges) == \A e \in edges : e[1] \in S => e[2] \in S

(* nx.descendants(g, entry) | {entry} *)
Descendants(t, edges) ==
  {f \in File : \A S \in SUBSET File : t \in S /\ ClosedUnder(S, edges) => f \in S}

(* What Python loads: every import of a file that compiles is executed,    *)
(* and pytest loads the conftest files of the test.                        *)
Loads(c) ==
  UNION {{<<f, g>> : g \in ResolvedImports(c, f, Kind)}
           : f \in {x \in Present(c) : Code(c, x) # NoCode}}
RealEdges(c, t) == Loads(c) \cup {<<t, g>> : g \in ConftestsAt(c, t)}
Executes(c, t) == Descendants(t, RealEdges(c, t))

(* Everything the outcome of a test can depend on. *)
Behaviour(c, t) == [f \in Executes(c, t) |-> Code(c, f)]

(* Mutant: importer and imported swapped. *)
CapturedSwapped(c, t) ==
  UNION {{<<g, External>> : g \in ResolvedImports(c, f, {"external"})}
           : f \in {x \in Executes(c, t) : Code(c, x) # NoCode}}

(* What the runtime hook writes for one test process: the pairs of every   *)
(* importlib.import_module call, the external importer for those made by a *)
(* library.                                                                *)
Captured(c, t) ==
  LET ran == {f \in Executes(c, t) : Code(c, f) # NoCode}
  IN  UNION {{<<f, g>> : g \in ResolvedImports(c, f, {"dynamic"})}
             \cup {<<External, g>> : g \in ResolvedImports(c, f, {"external"})} : f \in ran}

(* The same bytecode makes the same imports. *)
FileWorldAssumption ==
  /\ TestFile \subseteq File /\ InitFile \subseteq File /\ External \notin File
  /\ Conftests \in [TestFile -> SUBSET File]
  /\ \A c \in Commit : Present(c) \subseteq File /\ \A f \in Present(c) : Tree[c][f] \in Source
  /\ \A s \in Source : \A i \in Imports[s] : i[1] \in DOMAIN Candidates /\ i[2] \in Kind
  /\ \A m \in DOMAIN Candidates : Candidates[m] \in Seq(File)
  /\ \A s, r \in Source : CodeOf[s] = CodeOf[r] /\ CodeOf[s] # NoCode => Imports[s] = Imports[r]
ASSUME FileWorldAssumption

(* A module name used in unchanged code keeps resolving to the same file.  *)
(* Moving m.py to m/__init__.py breaks it.                                 *)
Settled ==
  \A c, d \in Commit : \A f \in Present(c) \cap Present(d) :
    Code(c, f) = Code(d, f) /\ Code(c, f) # NoCode =>
      \A k \in Kind : ResolvedImports(c, f, {k}) = ResolvedImports(d, f, {k})

(* No file imports everything from a module that is not a package. *)
PackageWildcards ==
  \A c \in Commit : \A f \in Present(c) : ResolvedImports(c, f, {"wildcard"}) \subseteq InitFile

(* A file that does not compile has been there, and compiled, before: the  *)
(* selection never sees a file without bytecode come or go.                *)
BrokenKnown ==
  \A c, d \in Commit : \A f \in Present(c) : Code(c, f) = NoCode => f \in Present(d)
=============================================================================
