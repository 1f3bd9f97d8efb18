--------------------------- MODULE MCFileSelection ---------------------------
(***************************************************************************)
(* Small repositories for FileSelection.  Paths and texts are strings; the *)
(* text "x'" has the bytecode of "x" (a comment was edited), and "x!" does *)
(* not compile.                                                            *)
(***************************************************************************)
EXTENDS FileSelection, TLC

MCCodeOf ==
  [s \in {"t1", "t2", "t2b", "a1", "a1'", "a2", "b1", "b2", "k", "s!", "s1", "s2", "w", "m1", "m2"} |->
     CASE s = "a1'" -> "a1" [] s = "s!" -> NoCode [] OTHER -> s]

MCImports ==
  [s \in DOMAIN MCCodeOf |->
     CASE s = "t1" -> {<<"a", "name">>}
       [] s = "t2" -> {<<"b", "dynamic">>}
       [] s = "a2" -> {<<"b", "name">>, <<"s", "external">>}
       [] s = "b2" -> {<<"s", "dynamic">>}
       [] s = "w"  -> {<<"m", "wildcard">>}
       [] s = "k"  -> {<<"m", "name">>}
       [] OTHER    -> {}]

MCCandidates == [m \in {"a", "b", "s", "m"} |->
  IF m = "m" THEN <<"m/__init__.py", "m.py">> ELSE <<m>>]

MCInit == {"m/__init__.py"}
MCConftests == [t \in TestFile |-> {"conf"}]

(* Edits of every kind, none of which changes what a name resolves to.     *)
(* It satisfies Settled, PackageWildcards and BrokenKnown.                 *)
Edits ==
  "c1" :> ("t1" :> "t1" @@ "t2" :> "t2" @@ "a" :> "a1" @@ "b" :> "b1" @@ "s" :> "s1")
  @@ "c2" :> ("t1" :> "t1" @@ "t2" :> "t2" @@ "a" :> "a1'" @@ "b" :> "b2" @@ "s" :> "s1")
  @@ "c3" :> ("t1" :> "t1" @@ "t2" :> "t2b" @@ "a" :> "a2" @@ "b" :> "b2"
            @@ "s" :> "s1" @@ "conf" :> "s1")
  @@ "c4" :> ("t1" :> "t1" @@ "t2" :> "t2b" @@ "a" :> "a1" @@ "s" :> "s2" @@ "conf" :> "s2")
  @@ "c5" :> ("t1" :> "t1" @@ "a" :> "a1" @@ "s" :> "s!")

(* A module becomes a package; the package is edited later.                *)
Move ==
  "c1" :> ("t1" :> "k" @@ "m.py" :> "m1")
  @@ "c2" :> ("t1" :> "k" @@ "m/__init__.py" :> "m1")
  @@ "c3" :> ("t1" :> "k" @@ "m/__init__.py" :> "m2")

(* A test imports everything from a plain module, which is edited.         *)
Wildcard ==
  "c1" :> ("t1" :> "w" @@ "m.py" :> "m1") @@ "c2" :> ("t1" :> "w" @@ "m.py" :> "m2")
=============================================================================
