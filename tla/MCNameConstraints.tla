-------------------------- MODULE MCNameConstraints --------------------------
(***************************************************************************)
(* Small projects for build_constrain_dicts.  Package and Classes are the  *)
(* checked ones; each of the others breaks a property in a way of its own. *)
(***************************************************************************)
EXTENDS NameConstraints

Use(f, used) == [file |-> f, cls |-> None, names |-> used, attrs |-> {}]
Method(c, used) == [file |-> "b", cls |-> c, names |-> {}, attrs |-> used]
NoClasses == [c \in {} |-> {}]

(* A package p that re-exports a.run as go, modules b and c that import    *)
(* each other, an optional import with two sources, and a test t with a    *)
(* wildcard; d imports ghost from a cycle in which nobody defines it.      *)
Package ==
  [defs |-> [t |-> {}, p |-> {}, a |-> {"run", "opt"}, b |-> {"main"}, c |-> {"util", "opt"}],
   imports |-> {<<"p", "a", "run", "go">>, <<"b", "p", "go", None>>, <<"b", "c", "util", None>>,
                <<"c", "b", "main", None>>, <<"t", "b", "main", "start">>,
                <<"t", "a", "opt", None>>, <<"t", "c", "opt", None>>,
                <<"b", "c", "ghost", None>>, <<"c", "b", "ghost", None>>},
   wildcards |-> {<<"t", "c">>},
   elements |-> {Use("p", {"go"}), Use("b", {"go", "util"}), Use("c", {"main", "ghost"}),
                 Use("t", {"start", "opt", "util"})},
   supers |-> NoClasses, members |-> NoClasses,
   edits |-> SUBSET {"p", "a", "c"}]

(* A diamond under External, which is not part of the project. *)
Classes ==
  [defs |-> [b |-> {}], imports |-> {}, wildcards |-> {}, edits |-> {{}},
   elements |-> {Method("Low", {"run", "stop"}), Method("Left", {"run", "stop"}),
                 Method("Top", {"run", "stop"}), Method("Right", {"run"})},
   supers |-> [Low |-> {"Left", "Right"}, Left |-> {"Top"}, Right |-> {"Top"}, Top |-> {"External"}],
   members |-> [Low |-> {"run"}, Left |-> {"stop"}, Right |-> {}, Top |-> {"run", "stop"}]]

TameWorlds == {Package, Classes}

(* f imports run under another name and wraps it in a run of its own. *)
Wrapper ==
  [Package EXCEPT !.imports = {<<"b", "a", "run", "base_run">>}, !.wildcards = {},
                  !.defs = [a |-> {"run"}, b |-> {"run", "main"}],
                  !.elements = {Use("b", {"base_run"}), Use("b", {"run"})}, !.edits = {{}}]

(* from a import run as run, the idiom for a re-export. *)
SameAlias ==
  [Package EXCEPT !.imports = {<<"b", "a", "run", "run">>}, !.wildcards = {},
                  !.defs = [a |-> {"run"}, b |-> {}], !.elements = {Use("b", {"run"})}, !.edits = {{}}]

(* A changed file that uses a name another file renames. *)
RenamedBehind == [Package EXCEPT !.edits = {{"b"}}]

(* Two sources for a name and a cycle: the memo keeps a partial answer. *)
Ring ==
  [Package EXCEPT !.imports = {<<"p", "b", "opt", None>>, <<"p", "c", "opt", None>>,
                               <<"b", "p", "opt", None>>, <<"b", "a", "opt", None>>},
                  !.wildcards = {}, !.edits = {{}},
                  !.elements = {Use("p", {"opt"}), Use("b", {"opt"})}]

(* Top calls what only a sibling base of its sub class provides. *)
Mixins ==
  [Classes EXCEPT !.elements = {Method("Left", {"hook"})},
                  !.members = [Low |-> {}, Left |-> {}, Right |-> {"hook"}, Top |-> {}]]

(* Two classes of one name, one of which inherits from the other by way of *)
(* Left: the recursion ends at its depth, and a short answer is kept.      *)
NamedTwice ==
  [Classes EXCEPT !.supers = [Low |-> {"Left"}, Left |-> {"Low", "Right"}, Right |-> {"Top"},
                              Top |-> {"Far"}, Far |-> {"Root"}, Root |-> {}],
                  !.elements = {Method("Low", {"run"})},
                  !.members = [Low |-> {}, Left |-> {}, Right |-> {}, Top |-> {}, Far |-> {}, Root |-> {"run"}]]

AliasWorlds == {Wrapper}
=============================================================================
