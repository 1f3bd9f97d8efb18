-------------------------- MODULE MCIsolatedSession --------------------------
(***************************************************************************)
(* Sessions of three files, the first with two tests.                      *)
(***************************************************************************)
EXTENDS IsolatedSession

MCFileOf == [a1 |-> "a", a2 |-> "a", b1 |-> "b", c1 |-> "c"]
ThreeFiles == <<"a1", "a2", "b1", "c1">>

Config(n, restarts, deaths, anywhere) ==
  [n |-> n, restarts |-> restarts, deaths |-> deaths, anywhere |-> anywhere]
NobodyDies == {Config(3, 12, 0, FALSE)}
OneOrTwo == {Config(1, 1, 2, FALSE), Config(2, 1, 2, TRUE)}
DeathInTest == {Config(2, 8, 1, FALSE)}
=============================================================================
