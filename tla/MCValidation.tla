---------------------------- MODULE MCValidation ----------------------------
(* Two patches of one project, the second of which adds a file: a enters    *)
(* both and fails under the first, b enters the first and NameRTS misses it. *)
EXTENDS ValidationDrivers, TLC
CONSTANTS i1, i2, a, b

TwoPatches == <<i1, i2>>
EntersAB == (i1 :> {a, b}) @@ (i2 :> {a})
FailsA == (i1 :> {a}) @@ (i2 :> {})
SelectsA == (i1 :> {a}) @@ (i2 :> {a})
Plain(only, force, skip, goon) == [only |-> only, force |-> force, skip |-> skip, goon |-> goon]
AllOptions ==
  {Plain("both", FALSE, FALSE, TRUE), Plain("both", FALSE, TRUE, FALSE),
   Plain("truth", TRUE, FALSE, TRUE), Plain("namerts", FALSE, FALSE, FALSE),
   Plain("smoke", FALSE, FALSE, TRUE)}
BothGoingOn == {Plain("both", FALSE, FALSE, TRUE)}
NoReview == [i \in Instance |-> None]
NoReviewFile == {NoReview}

(* Two reviews of one patch: the first keeps a and so takes b off, the       *)
(* second takes a off; applied one after the other they contradict.          *)
ReviewA == [NoReview EXCEPT ![i1] = [keep |-> None, exclude |-> {a}, include |-> {}]]
KeepA == [NoReview EXCEPT ![i1] = [keep |-> {a}, exclude |-> {}, include |-> {a}]]
TwoReviewFiles == {KeepA, ReviewA}
=============================================================================
