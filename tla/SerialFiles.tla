------------------------------ MODULE SerialFiles ------------------------------
(***************************************************************************)
(* What --dist=isolation promises (the docstring of scheduler/isolation.py *)
(* and testing/test_isolation.py): every test file runs once, in a worker  *)
(* of its own that has run nothing before, and one file at a time.         *)
(***************************************************************************)
CONSTANTS Files, Workers, Nobody

VARIABLES
  home,     \* [Files -> Workers \cup {Nobody}]: the worker that runs or ran a file
  finished  \* the files that are through

Waiting == {f \in Files : home[f] = Nobody}
Underway == {f \in Files : home[f] # Nobody} \ finished

InitFiles == home = [f \in Files |-> Nobody] /\ finished = {}

Fresh == Workers \ {home[f] : f \in Files}

StartFile ==
  /\ Underway = {}
  /\ \E f \in Waiting, w \in Fresh : home' = [home EXCEPT ![f] = w]
  /\ UNCHANGED finished

FinishFile ==
  /\ \E f \in Underway : finished' = finished \cup {f}
  /\ UNCHANGED home

NextFiles == StartFile \/ FinishFile

SerialSpec == InitFiles /\ [][NextFiles]_<<home, finished>>
=============================================================================
