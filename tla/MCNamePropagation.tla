-------------------------- MODULE MCNamePropagation --------------------------
(***************************************************************************)
(* A small project for NamePropagation.                                    *)
(*                                                                         *)
(*   a.py         make() returns C; class C with method m(), which calls   *)
(*                self.n(); help(), monitored as a critical name           *)
(*   b.py         class D(C) with method n(), and the global V = D         *)
(*   conftest.py  fixture fx, which returns C                               *)
(*   t.py, u.py   tests: t calls make().m(), reads V, uses fx; u: help()   *)
(*                                                                         *)
(* m is reachable only once C is relevant and n only once D is, so items   *)
(* are skipped and queued again, and whether they are depends on the order *)
(* in which the stack lists them.                                          *)
(***************************************************************************)
EXTENDS NamePropagation

elem(name, kind, file, cls, sum, names, attrs, boths) ==
  [name |-> name, kind |-> kind, file |-> file, cls |-> cls, checksum |-> sum,
   names |-> names, attrs |-> attrs, boths |-> boths]

MCFile == {"a", "b", "conftest", "t", "u"}
MCTest == {"t", "u"}
MCClass == {"C", "D"}

MCElement == {
  elem("make", "function", "a", "None", "1", {"C"}, {}, {}),
  elem("C", "class", "a", "None", "None", {}, {}, {}),
  elem("m", "function", "a", "C", "2", {}, {"n"}, {}),
  elem("help", "function", "a", "None", "3", {"make"}, {}, {}),
  elem("D", "class", "b", "None", "None", {"C"}, {}, {}),
  elem("n", "function", "b", "D", "4", {}, {}, {"m", "help"}),
  elem("V", "variable", "b", "None", "5", {"D"}, {}, {}),
  elem("V", "variable", "a", "None", "5", {}, {}, {}),
  elem("fx", "function", "conftest", "None", "1", {"C"}, {}, {}) }

MCRelated == [t |-> {"t", "a", "b"}, u |-> {"u", "a", "b"}]
MCModuleNames == [a |-> {}, b |-> {}, conftest |-> {}, t |-> {"make", "V"}, u |-> {"help"}]
MCModuleBoths == [a |-> {}, b |-> {}, conftest |-> {}, t |-> {"m"}, u |-> {"n"}]
MCFixtures == [t |-> {"fx"}, u |-> {}]
MCGetattrNames == [t |-> {}, u |-> {"m", "zz"}]
MCMemberNames == [t |-> {}, u |-> {"m"}]
MCDecorated == [t |-> {}, u |-> {elem("m", "function", "a", "C", "2", {}, {"n"}, {})}]
MCFileConstrain ==
  [a |-> [C |-> {"a"}, make |-> {"*"}], b |-> [C |-> {"a"}, D |-> {"b"}, V |-> {"b"}],
   conftest |-> [C |-> {"a"}], t |-> [make |-> {"a"}, V |-> {"b"}]]
MCClassConstrain == [C |-> [n |-> {"D"}]]
MCModifiedBy == [b |-> [V |-> {"a"}]]
MCUseCritical == [t |-> <<>>, u |-> [help |-> {<<"a", "None">>}]]

(* The least closed sets; the assumption NeededIsLeast checks them. *)
MCNeeded ==
  LET always == {<<"C", "name", "*">>, <<"C", "name", "a">>, <<"n", "attr", "D">>,
                 <<"m", "both", "None">>}
      ofT == always \cup {<<"D", "name", "b">>, <<"V", "name", "b">>, <<"V", "name", "a">>,
               <<"fx", "name", "conftest">>, <<"make", "name", "a">>, <<"help", "both", "None">>}
      ofU == always \cup {<<"help", "name", "None">>, <<"make", "name", "*">>,
               <<"n", "both", "None">>}
  IN  [t \in Test |-> [first \in BOOLEAN |->
         IF t = "u" THEN ofU
         ELSE IF first THEN ofT \cup {<<"make", "name", "*">>} ELSE ofT]]
=============================================================================
