---------------------------- MODULE NameSelection ----------------------------
(***************************************************************************)
(* What NameBDP promises for one test: it is run exactly when one of the   *)
(* changed elements is among the elements the test needs, where the needed *)
(* elements are the declarative closure of NameWorld.  One decision, no    *)
(* rounds, no stack, no order.                                             *)
(***************************************************************************)
EXTENDS NameWorld

VARIABLES test,       \* the test being decided
          init,       \* TRUE for the initialising run
          different,  \* checksums that changed since the last run
          verdict     \* "pending", "run" or "skip"

selectionVars == <<test, init, different, verdict>>

SelectionInit ==
  /\ test \in Test
  /\ init \in BOOLEAN
  /\ different \in IF init THEN {{}} ELSE SUBSET Checksum
  /\ verdict = "pending"

Decide ==
  /\ verdict = "pending"
  /\ verdict' \in {"run", "skip"}
  /\ verdict' = "run" <=> NeededChecksums(test, init) \cap different # {}
  /\ UNCHANGED <<test, init, different>>

SelectionSpec == SelectionInit /\ [][Decide]_selectionVars
=============================================================================
