------------------------------ MODULE NameWorld ------------------------------
(***************************************************************************)
(* The static world NameBDP.algorithm propagates over: the code elements   *)
(* parsed from the .pyc files (bytecode.py), the constraint dictionaries   *)
(* that resolve a used name to a file or a class, and the pure parts of    *)
(* the algorithm: which elements a relevant item stands for and which      *)
(* items an element uses.                                                  *)
(*                                                                         *)
(* An item is the triple (name, type, source) the code keeps in            *)
(* relevant_items: the types 0, 1, 2 are "name", "attr" and "both".        *)
(***************************************************************************)
EXTENDS Naturals, Sequences, FiniteSets

CONSTANTS
  File,            \* paths of the .py files of the project
  Test,            \* the test modules, keys of world_pyc_dict that are tests
  Conftest,        \* files whose path ends with conftest.py
  Element,         \* the objects of world_name_dict (functions, classes, variables)
  Class,           \* the keys of defined_classes
  Related,         \* [Test -> SUBSET File]: ekstazip.dependencies_dict
  ModuleNames,     \* [File -> SUBSET names]: external_names of the module object
  ModuleBoths,     \* [File -> SUBSET names]: external_boths of the module object
  Fixtures,        \* [Test -> SUBSET names]: injected_fixtures
  Registered,      \* registered_classes
  GetattrNames,    \* [Test -> SUBSET names]: getattr_names of the test and of "*"
  MemberNames,     \* [Test -> SUBSET names]: member_names of the test and of "*"
  OperatorNames,   \* get_all_operator_overloading_names()
  Decorated,       \* [Test -> SUBSET Element]: elements of the decorators a test used
  FileConstrain,   \* [File -> [names -> SUBSET source]]: non_attr_file_constrain_dict
  ClassConstrain,  \* [class -> [names -> SUBSET Class]]: attr_class_constrain_dict
  ModifiedBy,      \* [File -> [names -> SUBSET File]]: modified_by_external_modules
  Critical,        \* critical_names
  UseCritical,     \* [Test -> [names -> SUBSET (File \X class)]]: use_critical_test
  Blacklist,       \* files of ins_blacklist, never instrumented
  Needed,          \* [Test -> [BOOLEAN -> SUBSET Item]]: the least closed set, see below
  PruneNames,      \* config.PRUNE_NAME_RESOLUTION
  None             \* Python's None

AnySource == "*"

(* co_is_attribute: an element of a class. *)
IsAttribute(e) == e.cls # None

(* dict.get(key, default) on a dictionary written as a function. *)
Get(dict, key, default) == IF key \in DOMAIN dict THEN dict[key] ELSE default

Checksum == {e.checksum : e \in Element} \ {None}

(***************************************************************************)
(* What an element uses: every resolution of each of its names, each of    *)
(* its attributes inside the class hierarchy, and its names of unknown     *)
(* kind; a module variable also uses the modules that assign it from       *)
(* outside.  A name the constraint dictionary does not know is dropped.    *)
(***************************************************************************)
Uses(e) ==
  LET fileOf  == Get(FileConstrain, e.file, <<>>)
      classOf == Get(ClassConstrain, e.cls, <<>>)
  IN  UNION {{<<n, "name", s>> : s \in Get(fileOf, n, {})} : n \in e.names}
      \cup UNION {{<<a, "attr", c>> : c \in Get(classOf, a, {})} : a \in e.attrs}
      \cup {<<b, "both", None>> : b \in e.boths}
      \cup IF e.kind = "variable"
           THEN {<<e.name, "name", s>> : s \in Get(Get(ModifiedBy, e.file, <<>>), e.name, {})}
           ELSE {}

(* Items of a module body: a name without a constraint has no source. *)
ModuleItems(f) ==
  UNION {{<<n, "name", s>> : s \in Get(Get(FileConstrain, f, <<>>), n, {None})}
           : n \in ModuleNames[f]}
  \cup {<<b, "both", None>> : b \in ModuleBoths[f]}

(* refine_world_dict: only related files and conftests can be reached. *)
World(t) == {e \in Element : e.file \in Related[t] \cup Conftest}

(* Module bodies that run on import: every file's when initialising. *)
Imported(t, init) == (IF init THEN File ELSE Related[t]) \ Test

(* pytest injects fixtures by name: functions of the conftest files. *)
FixtureItems(t) ==
  {<<e.name, "name", e.file>> :
      e \in {x \in World(t) : /\ x.name \in Fixtures[t]
                              /\ x.kind = "function" /\ ~IsAttribute(x)
                              /\ x.file \in Conftest}}

(* Names of unknown kind: those no element defines are left out. *)
Defined(names) == {n \in names : \E e \in Element : e.name = n}
Boths(names) == {<<n, "both", None>> : n \in names}

(* The lists work_stack is concatenated from, each with where it is from. *)
SeedLists(t, init) ==
  {<<"import", f, ModuleItems(f)>> : f \in Imported(t, init)}
  \cup {<<"entry", t, ModuleItems(t)>>,
        <<"fixtures", t, FixtureItems(t)>>,
        <<"registered", t, {<<c, "name", AnySource>> : c \in Registered}>>,
        <<"getattr", t, Boths(Defined(GetattrNames[t]))>>,
        <<"members", t, Boths(Defined(MemberNames[t]))>>,
        <<"operators", t, Boths(OperatorNames)>>}

Seeds(t, init) == UNION {l[3] : l \in SeedLists(t, init)}

(* How often that concatenation holds an item. *)
Occurrences(t, init, i) == Cardinality({l \in SeedLists(t, init) : i \in l[3]})

AllSeeds == UNION {Seeds(t, init) : t \in Test, init \in BOOLEAN}
AllUses == UNION {Uses(e) : e \in Element}
Item == AllSeeds \cup AllUses

(***************************************************************************)
(* get_elements before its class test: the elements an item may denote,    *)
(* by kind and source, and for a monitored (critical) name only those      *)
(* functions the test was seen to run.                                     *)
(***************************************************************************)
Resolves(e, i) ==
  \/ ~PruneNames
  \/ i[2] = "both"
  \/ i[2] = "name" /\ ~IsAttribute(e) /\ i[3] \in {None, AnySource, e.file}
  \/ i[2] = "attr" /\ IsAttribute(e) /\ i[3] \in {None, e.cls}

SeenRunning(t, init, e) ==
  \/ init
  \/ e.name \notin Critical
  \/ e.kind # "function"
  \/ <<e.file, e.cls>> \in Get(UseCritical[t], e.name, {})
  \/ e.file \in Blacklist

Matches(t, init, i) ==
  {e \in World(t) : e.name = i[1] /\ Resolves(e, i) /\ SeenRunning(t, init, e)}

NamesOf(items) == {i[1] : i \in items}

(* An attribute counts only once the name of its class is relevant. *)
Live(t, init, i, names) ==
  {e \in Matches(t, init, i) : IsAttribute(e) => e.cls \in names}

-----------------------------------------------------------------------------
(***************************************************************************)
(* The declarative meaning of the propagation.  A set of items is closed   *)
(* when it holds the seeds, what the used decorators need, and everything  *)
(* used by an element one of its items denotes.  What a test needs is the  *)
(* least such set.                                                         *)
(***************************************************************************)
Closed(t, init, S) ==
  /\ Seeds(t, init) \subseteq S
  /\ \A e \in Decorated[t] : Uses(e) \subseteq S
  /\ \A i \in S : \A e \in Live(t, init, i, NamesOf(S)) : Uses(e) \subseteq S

ASSUME NeededIsLeast ==
  \A t \in Test, init \in BOOLEAN :
     /\ Needed[t][init] \subseteq Item
     /\ Closed(t, init, Needed[t][init])
     /\ \A S \in SUBSET Item : Closed(t, init, S) => Needed[t][init] \subseteq S

(* The elements reached through a set of items. *)
Reached(t, init, S) ==
  Decorated[t] \cup UNION {Live(t, init, i, NamesOf(S)) : i \in S}

ChecksumsOf(elements) == {e.checksum : e \in elements} \ {None}

NeededChecksums(t, init) == ChecksumsOf(Reached(t, init, Needed[t][init]))

(***************************************************************************)
(* Two different elements with one checksum: equal bytecode in two files   *)
(* or classes.  The propagation identifies elements by checksum, which is  *)
(* exact only if equal checksums mean equal uses.  Variables are exempt:   *)
(* the code never skips them.                                              *)
(***************************************************************************)
ChecksumsIdentify ==
  \A d, e \in Element :
     (/\ d.checksum = e.checksum
      /\ d.checksum # None
      /\ e.kind # "variable") => Uses(e) = Uses(d)

(* Every element is a record of this shape; an attribute's class is defined. *)
ASSUME ElementShape ==
  \A e \in Element :
     /\ e.kind \in {"function", "class", "variable"}
     /\ e.checksum = None <=> e.kind = "class"
     /\ IsAttribute(e) => e.cls \in Class

ASSUME WorldFinite ==
  /\ IsFiniteSet(Item)
  /\ \A t \in Test, init \in BOOLEAN : IsFiniteSet(SeedLists(t, init))

ASSUME DecoratedElements == \A t \in Test : Decorated[t] \subseteq Element
=============================================================================
