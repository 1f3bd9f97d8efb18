-------------------------- MODULE MCEvaluationChain --------------------------
EXTENDS EvaluationChain, MCFileSelection

(* Three pairs of consecutive commits as in dataset/, and a candidate patch *)
(* on the first one for which only the selection is wanted.                 *)
MCInstances ==
  << [parent |-> "c1", current |-> "c2", tests |-> TRUE, reuse |-> TRUE],
     [parent |-> "c2", current |-> "c3", tests |-> TRUE, reuse |-> TRUE],
     [parent |-> "c3", current |-> "c4", tests |-> TRUE, reuse |-> FALSE],
     [parent |-> "c1", current |-> "c5", tests |-> FALSE, reuse |-> TRUE] >>

(* The world of the passing runs meets the hypotheses of the theorem       *)
(* SelectionUpToDate, and no parent commit holds a broken file, which the  *)
(* theorems about the archives ask for besides.                            *)
ASSUME EditsAreTame == Settled /\ PackageWildcards /\ BrokenKnown
ASSUME ParentsAreWhole ==
  \A k \in DOMAIN Instances : Compiled(Instances[k].parent) = Present(Instances[k].parent)
=============================================================================
