---------------------------- MODULE MCNamePipeline ----------------------------
(***************************************************************************)
(* A repository of two tests, a module a on top of a module m, and a       *)
(* conftest.py.  The digits of a text are versions; "a1'" is a1 with       *)
(* another comment.                                                        *)
(***************************************************************************)
EXTENDS NamePipeline, TLC

MCCodeOf ==
  [s \in {"t1", "t2", "t2b", "a1", "a1'", "a2", "m1", "m2", "m3", "m4", "m5", "k1", "k2"} |->
     IF s = "a1'" THEN "a1" ELSE s]

MCImports ==
  [s \in DOMAIN MCCodeOf |->
     CASE s = "t1" -> {<<"a", "dynamic">>}
       [] s \in {"t2", "t2b", "a1", "a1'", "a2"} -> {<<"m", "name">>}
       [] OTHER -> {}]

MCCandidates == [m \in {"a", "m"} |-> <<m>>]
MCConftests == [t \in TestFile |-> {"conf"}]

Function(n, class, sum, uses) ==
  [kind |-> "function", name |-> n, class |-> class, sums |-> {sum}, uses |-> uses,
   bases |-> {}, hashes |-> {}]
Variable(n, sum, uses) == [Function(n, "None", sum, uses) EXCEPT !.kind = "variable"]
Class(n, bases) ==
  [Function(n, "None", 0, bases) EXCEPT !.kind = "class", !.sums = {}, !.bases = bases]

(* Base.run, overridden in Sub but not in Mid between them. *)
Classes == {Class("Base", {}), Class("Mid", {"Base"}), Class("Sub", {"Mid"}),
            Function("run", "Base", 1, {})}
SubRun == Function("run", "Sub", 2, {"g"})
G(sum) == Function("g", "None", sum, {})

MCModuleDict ==
  "t1" :> [entry |-> {"f", "fix"}, elements |-> {}]
  @@ "t2" :> [entry |-> {"Sub", "run"}, elements |-> {}]
  @@ "t2b" :> [entry |-> {"Base", "run"}, elements |-> {}]
  @@ "a1" :> [entry |-> {}, elements |-> {Function("f", "None", 3, {"g", "print"})}]
  @@ "a2" :> [entry |-> {"v"}, elements |-> {Function("f", "None", 4, {"v", "print"})}]
  @@ "m1" :> [entry |-> {}, elements |-> Classes \cup {SubRun, G(5), Variable("v", 6, {"g"})}]
  @@ "m2" :> [entry |-> {}, elements |-> Classes \cup {SubRun, G(7), Variable("v", 6, {"g"})}]
  @@ "m3" :> [entry |-> {}, elements |-> Classes \cup {G(5), Variable("v", 6, {"g"})}]
  @@ "m4" :> [entry |-> {}, elements |-> Classes \cup
                {SubRun, [G(8) EXCEPT !.hashes = {1}], Variable("v", 6, {"g"})}]
  @@ "m5" :> [entry |-> {}, elements |-> Classes \cup
                {SubRun, G(5), Variable("v", 9, {"h"}), Function("h", "None", 10, {"print"})}]
  @@ "k1" :> [entry |-> {}, elements |-> {Function("fix", "None", 11, {})}]
  @@ "k2" :> [entry |-> {}, elements |-> {Function("fix", "None", 12, {"g"})}]

MCTree ==
  "c1" :> ("t1" :> "t1" @@ "t2" :> "t2" @@ "a" :> "a1" @@ "m" :> "m1" @@ "conf" :> "k1")
  @@ "c2" :> ("t1" :> "t1" @@ "t2" :> "t2" @@ "a" :> "a1" @@ "m" :> "m2" @@ "conf" :> "k1")
  @@ "c3" :> ("t1" :> "t1" @@ "t2" :> "t2" @@ "a" :> "a2" @@ "m" :> "m3" @@ "conf" :> "k1")
  @@ "c4" :> ("t1" :> "t1" @@ "t2" :> "t2b" @@ "a" :> "a1" @@ "m" :> "m4" @@ "conf" :> "k2")
  @@ "c5" :> ("t2" :> "t2" @@ "a" :> "a1'" @@ "m" :> "m5" @@ "conf" :> "k1")

(* The hypotheses of the theorems hold in this world. *)
ASSUME Settled /\ PackageWildcards /\ BrokenKnown /\ NamesStay /\ ChangesShow /\ CapturesStay
=============================================================================
