---------------------------- MODULE NameConstraints ----------------------------
(***************************************************************************)
(* NameBDP.build_constrain_dicts: for every name an element uses, the      *)
(* files whose definition it may mean, and for every attribute of self the *)
(* classes that may provide it.  The answers are memoised while they are   *)
(* computed, along imports that rename and that form cycles, and Python's  *)
(* sets are walked in any order.                                           *)
(*                                                                         *)
(* A world w is a project: w.defs[file], the names defined in a file;      *)
(* w.imports, the entries <<importer, imported, name, alias>> of           *)
(* deps_dict_raw; w.wildcards, pairs <<importer, imported>> of wildcard    *)
(* imports; w.elements, records of file, cls, names and attrs;             *)
(* w.supers[class], the bases of a defined class; w.members[class], the    *)
(* attributes it defines; w.edits, the sets of files that may be changed.  *)
(***************************************************************************)
EXTENDS Naturals, FiniteSets, TLC

CONSTANTS
  Worlds,    \* the projects considered
  MaxDepth,  \* where get_super_sub_classes gives up (100 in the code)
  None

VARIABLES
  world, changed,  \* the project and ekstazip.changed_files
  import_alias,    \* [<<file, alias>> -> the name it is imported for]
  memo,            \* non_attr_file_constrain_dict and used_alias_mapping
  hierarchy,       \* all_super_classes and all_sub_classes
  attr_classes,    \* attr_class_constrain_dict
  names,           \* [element -> external_names]
  left, at, todo   \* elements to come, the one at hand, what is left of it

vars == <<world, changed, import_alias, memo, hierarchy, attr_classes, names, left, at, todo>>

AnySource == "*"
Has(dict, key) == key \in DOMAIN dict
Get(dict, key) == IF Has(dict, key) THEN dict[key] ELSE None

(* make_non_attr_import_graph: an alias imported twice keeps either name. *)
Aliased(w) == {<<i[1], i[4]>> : i \in {j \in w.imports : j[4] # None}}
ImportNames(w) == {i[3] : i \in w.imports}
AliasesOf(w) ==
  {h \in [Aliased(w) -> ImportNames(w)] :
     \A p \in Aliased(w) : \E i \in w.imports : i[1] = p[1] /\ i[3] = h[p] /\ i[4] = p[2]}

ImportedFrom(f, n) == {i[2] : i \in {j \in world.imports : j[1] = f /\ j[3] = n}}

Init ==
  /\ world \in Worlds
  /\ changed \in world.edits
  /\ import_alias \in AliasesOf(world)
  /\ memo = [constrain |-> <<>>, used |-> <<>>]
  /\ hierarchy = <<>>
  /\ attr_classes = <<>>
  /\ names = [e \in world.elements |-> e.names]
  /\ left = world.elements
  /\ at = None
  /\ todo = [names |-> {}, attrs |-> {}]

-----------------------------------------------------------------------------
(***************************************************************************)
(* add_name_constraint: its possible answers, each with the memo after it, *)
(* the files, and the original name when the name turns out an alias.      *)
(***************************************************************************)
Answer(m, files, alias) == [memo |-> m, files |-> files, alias |-> alias]

(* Mutant: the memo forgets that the name was an alias. *)
RememberNameOnly(a, f, n) ==
  LET files == IF AnySource \in a.files \/ a.files = {} THEN {AnySource} ELSE a.files
  IN  Answer([a.memo EXCEPT !.constrain = (<<f, n>> :> files) @@ @], files, a.alias)

(* Nothing found means anything; a renamed name is kept under the original. *)
Remember(a, f, n) ==
  LET files == IF AnySource \in a.files \/ a.files = {} THEN {AnySource} ELSE a.files
      kept == IF a.alias = None THEN n ELSE a.alias
      used == IF a.alias = None THEN a.memo.used ELSE (<<f, n>> :> a.alias) @@ a.memo.used
  IN  Answer([constrain |-> (<<f, kept>> :> files) @@ a.memo.constrain, used |-> used],
             files, a.alias)

RECURSIVE AddNameConstraint(_, _, _, _), AskImported(_, _, _, _)

(* The loop over import_files; what one answers renames the next question. *)
AskImported(a, sources, n, visited) ==
  IF sources = {} THEN {a}
  ELSE UNION {
    IF g \in visited THEN AskImported(a, sources \ {g}, n, visited)
    ELSE UNION {AskImported(Answer(b.memo, a.files \cup b.files,
                                   IF b.alias # None THEN b.alias ELSE a.alias),
                            sources \ {g}, n, visited) :
                b \in AddNameConstraint(a.memo, g, IF a.alias # None THEN a.alias ELSE n,
                                        visited \cup {g})} : g \in sources}

(* Mutant: a file that is imported from counts as the one that defines. *)
CandidatesOneStep(m, f, n, visited) ==
  LET orig == Get(import_alias, <<f, n>>)
      sources == ImportedFrom(f, IF orig # None THEN orig ELSE n) \ visited
  IN  {Answer(m, IF n \in world.defs[f] THEN {f} ELSE sources, orig)}

(* Where a name that is not in the memo may be defined. *)
Candidates(m, f, n, visited) ==
  LET orig == Get(import_alias, <<f, n>>)
      sources == ImportedFrom(f, IF orig # None THEN orig ELSE n)
      wildcard == \E p \in world.wildcards : p[1] = f
  IN  IF n \in world.defs[f] THEN {Answer(m, {f}, orig)}
      ELSE IF f \in changed THEN {Answer(m, {AnySource}, orig)}
      ELSE IF sources # {} THEN AskImported(Answer(m, {}, orig), sources, n, visited)
      ELSE {Answer(m, IF wildcard THEN {AnySource} ELSE {}, orig)}

AddNameConstraint(m, f, n, visited) ==
  LET alias == Get(m.used, <<f, n>>)
  IN  IF alias # None /\ Has(m.constrain, <<f, alias>>)
      THEN {Answer(m, m.constrain[<<f, alias>>], alias)}
      ELSE IF Has(m.constrain, <<f, n>>) THEN {Answer(m, m.constrain[<<f, n>>], None)}
      ELSE {Remember(a, f, n) : a \in Candidates(m, f, n, visited)}

(***************************************************************************)
(* get_super_sub_classes: its possible answers with the memo after them.   *)
(***************************************************************************)
Direct(kind, c) ==
  IF kind = "super" THEN world.supers[c]
  ELSE {d \in DOMAIN world.supers : c \in world.supers[d]}

RECURSIVE SuperSub(_, _, _, _), SuperSubOf(_, _, _, _)

SuperSubOf(h, rest, kind, dep) ==
  IF rest = {} THEN {[memo |-> h, classes |-> {}]}
  ELSE UNION {UNION {{[r EXCEPT !.classes = @ \cup q.classes \cup {d}] :
                        r \in SuperSubOf(q.memo, rest \ {d}, kind, dep)} :
                     q \in SuperSub(h, d, kind, dep + 1)} : d \in rest}

SuperSub(h, c, kind, dep) ==
  IF dep >= MaxDepth THEN {[memo |-> h, classes |-> {}]}
  ELSE IF Has(h, <<kind, c>>) THEN {[memo |-> h, classes |-> h[<<kind, c>>]]}
  ELSE IF ~Has(world.supers, c) THEN {[memo |-> h, classes |-> {}]}
  ELSE {[r EXCEPT !.memo = (<<kind, c>> :> r.classes) @@ @] :
          r \in SuperSubOf(h, Direct(kind, c), kind, dep)}

-----------------------------------------------------------------------------
(* The loop over the elements; external_names_copy is taken on entry. *)
TakeElement(e) ==
  /\ at = None /\ e \in left
  /\ at' = e /\ left' = left \ {e}
  /\ todo' = [names |-> names[e], attrs |-> IF e.cls = None THEN {} ELSE e.attrs]
  /\ UNCHANGED <<world, changed, import_alias, memo, hierarchy, attr_classes, names>>

(* One name: a renamed one is replaced by the original. *)
ConstrainName(n) ==
  /\ at # None /\ n \in todo.names
  /\ todo' = [todo EXCEPT !.names = @ \ {n}]
  /\ IF Has(memo.constrain, <<at.file, n>>) THEN UNCHANGED <<memo, names>>
     ELSE \E a \in AddNameConstraint(memo, at.file, n, {at.file}) :
          /\ memo' = a.memo
          /\ names' = IF a.alias = None THEN names
                      ELSE [names EXCEPT ![at] = (@ \cup {a.alias}) \ {n}]
  /\ UNCHANGED <<world, changed, import_alias, hierarchy, attr_classes, left, at>>

(* Mutant: only the class's own bases are looked at. *)
ProvidersAbove(c, a, above, below) == {d \in {c} \cup above : Has(world.members, d) /\ a \in world.members[d]}

(* The class itself and all its super and sub classes. *)
Providers(c, a, above, below) ==
  {d \in {c} \cup above \cup below : Has(world.members, d) /\ a \in world.members[d]}

ConstrainAttribute(a) ==
  /\ at # None /\ todo.names = {} /\ a \in todo.attrs
  /\ todo' = [todo EXCEPT !.attrs = @ \ {a}]
  /\ IF Has(attr_classes, <<at.cls, a>>) THEN UNCHANGED <<attr_classes, hierarchy>>
     ELSE \E s \in SuperSub(hierarchy, at.cls, "super", 0) :
          \E b \in SuperSub(s.memo, at.cls, "sub", 0) :
            /\ hierarchy' = b.memo
            /\ attr_classes' = (<<at.cls, a>> :> Providers(at.cls, a, s.classes, b.classes))
                               @@ attr_classes
  /\ UNCHANGED <<world, changed, import_alias, memo, names, left, at>>

LeaveElement ==
  /\ at # None /\ todo.names = {} /\ todo.attrs = {}
  /\ at' = None
  /\ UNCHANGED <<world, changed, import_alias, memo, hierarchy, attr_classes, names, left, todo>>

Next ==
  \/ \E e \in left : TakeElement(e)
  \/ \E n \in todo.names : ConstrainName(n)
  \/ \E a \in todo.attrs : ConstrainAttribute(a)
  \/ LeaveElement

Spec == Init /\ [][Next]_vars

-----------------------------------------------------------------------------
(* What Python makes of a name in a file: the definitions <<file, name>>   *)
(* that its definition or its imports there can bind it to.                *)
RECURSIVE Denotes(_, _, _)
Denotes(f, n, seen) ==
  IF <<f, n>> \in seen THEN {}
  ELSE (IF n \in world.defs[f] THEN {<<f, n>>} ELSE {})
       \cup UNION {Denotes(i[2], i[3], seen \cup {<<f, n>>}) :
                   i \in {j \in world.imports :
                            j[1] = f /\ n = (IF j[4] # None THEN j[4] ELSE j[3])}}
       \cup UNION {Denotes(p[2], n, seen \cup {<<f, n>>}) :
                   p \in {q \in world.wildcards : q[1] = f}}

Settled == world.elements \ (left \cup {at})
Constraint(f, n) == IF Has(memo.constrain, <<f, n>>) THEN memo.constrain[<<f, n>>] ELSE {}

(* The constraints cover what a name can mean: once an element is through, *)
(* and for good, every definition that a name it uses denotes is looked    *)
(* for under its name and in its file.                                     *)
NamesCover ==
  \A e \in Settled : \A n \in e.names : \A d \in Denotes(e.file, n, {}) :
     /\ d[2] \in names[e]
     /\ Constraint(e.file, d[2]) \cap {d[1], AnySource} # {}

(* They are no wider either, where they are not given up: a file is named  *)
(* only if its definition is one that a name of the element denotes.       *)
NamesExact ==
  \A e \in Settled : \A n \in names[e] :
     \A f \in Constraint(e.file, n) \ {AnySource} :
        \E u \in e.names : <<f, n>> \in Denotes(e.file, u, {})

(* What self may be in a method of class c, and so where self.a may come   *)
(* from: any class below c and all the classes above that one.             *)
RECURSIVE Above(_, _)
Above(c, n) ==
  {c} \cup IF n = 0 \/ ~Has(world.supers, c) THEN {}
           ELSE UNION {Above(d, n - 1) : d \in world.supers[c]}
Deepest == Cardinality(DOMAIN world.supers)
SelfOf(c) == {d \in DOMAIN world.supers : c \in Above(d, Deepest)}

(* The classes an attribute of self is looked for in include every class   *)
(* of the project that can provide it to an instance, whatever hierarchies *)
(* were walked and remembered before (namebdp.py:819, "over-approximate"). *)
AttributesCover ==
  \A e \in Settled : e.cls # None =>
    \A a \in e.attrs : \A d \in UNION {Above(s, Deepest) : s \in SelfOf(e.cls)} :
       Has(world.members, d) /\ a \in world.members[d] => d \in attr_classes[<<e.cls, a>>]
=============================================================================
