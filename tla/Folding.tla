------------------------------- MODULE Folding -------------------------------
(***************************************************************************)
(* Loops.  The schedulers go through sequences with FoldLeft; whatever a   *)
(* turn of the loop keeps, the loop keeps.  The method of a turn and what  *)
(* it keeps are parameters of this module, which is instantiated for each  *)
(* of the loops.                                                           *)
(***************************************************************************)
EXTENDS Integers, Sequences, SequencesExt, WellFoundedInduction, TLAPS

CONSTANTS
  Method(_, _, _),  \* of a context, the state before a turn and the element
  Keeps(_, _, _)    \* of the context, a state and how many turns were made

Loop(c, s, ws) == FoldLeft(LAMBDA r, w : Method(c, r, w), s, ws)

(* Induction in the form the provers take.                                  *)
LEMMA AllNaturals ==
  ASSUME NEW N \in SUBSET Nat, 0 \in N, \A n \in N : n + 1 \in N
  PROVE  N = Nat
<1> SUFFICES ASSUME N # Nat PROVE FALSE
  OBVIOUS
<1>1. IsWellFoundedOn(OpToRel(<, Nat), Nat)
  BY NatLessThanWellFounded
<1>2. PICK m \in Nat \ N : \A k \in Nat \ N : ~(<<k, m>> \in OpToRel(<, Nat))
  BY <1>1, WFMin, Nat \ N # {}
<1>3. \A k \in Nat \ N : ~(k < m)
  BY <1>2 DEF OpToRel
<1>4. CASE m = 0
  BY <1>4
<1>5. CASE m # 0
  <2>1. m - 1 \in Nat /\ m - 1 < m /\ (m - 1) + 1 = m
    BY <1>5
  <2>2. m - 1 \in N
    BY <1>3, <2>1
  <2>3. QED
    BY <2>1, <2>2
<1>6. QED
  BY <1>4, <1>5

(* FoldLeft goes through the indices from the highest down, by recursion   *)
(* on sets of indices.                                                     *)
Unfolds(iter, c, s, ws, k) ==
  iter = [I \in SUBSET (1 .. k) |->
            IF I = {} THEN s ELSE Method(c, iter[I \ {Max(I)}], ws[Max(I)])]

LEMMA MaxOfPrefix ==
  ASSUME NEW k \in Nat, NEW I \in SUBSET (1 .. (k + 1)), k + 1 \in I
  PROVE  Max(I) = k + 1
<1>1. \A y \in I : k + 1 >= y
  OBVIOUS
<1>2. \A x \in I : (\A y \in I : x >= y) => x = k + 1
  BY <1>1
<1>3. QED
  BY <1>1, <1>2 DEF Max

LEMMA UnfoldsExist ==
  ASSUME NEW c, NEW s, NEW ws
  PROVE  \A k \in Nat : \E iter : Unfolds(iter, c, s, ws, k)
<1> DEFINE N == {k \in Nat : \E iter : Unfolds(iter, c, s, ws, k)}
<1>1. 0 \in N
  <2>1. Unfolds([I \in SUBSET (1 .. 0) |-> s], c, s, ws, 0)
    <3>1. SUBSET (1 .. 0) = {{}}
      OBVIOUS
    <3>2. QED
      BY <3>1 DEF Unfolds
  <2>2. QED
    BY <2>1
<1>2. ASSUME NEW k \in N PROVE k + 1 \in N
  <2>1. PICK iter : Unfolds(iter, c, s, ws, k)
    OBVIOUS
  <2> DEFINE next == [I \in SUBSET (1 .. (k + 1)) |->
                        IF k + 1 \in I THEN Method(c, iter[I \ {k + 1}], ws[k + 1]) ELSE iter[I]]
             said == [I \in SUBSET (1 .. (k + 1)) |->
                        IF I = {} THEN s ELSE Method(c, next[I \ {Max(I)}], ws[Max(I)])]
  <2>2. ASSUME NEW I \in SUBSET (1 .. (k + 1)), k + 1 \notin I
        PROVE  I \in SUBSET (1 .. k) /\ next[I] = iter[I]
    BY <2>2
  <2>3. ASSUME NEW I \in SUBSET (1 .. (k + 1)) PROVE next[I] = said[I]
    <3>1. CASE k + 1 \in I
      <4>1. Max(I) = k + 1
        BY <3>1, MaxOfPrefix
      <4>2. next[I \ {k + 1}] = iter[I \ {k + 1}]
        BY <2>2
      <4>3. next[I] = Method(c, iter[I \ {k + 1}], ws[k + 1])
        BY <3>1
      <4>4. said[I] = Method(c, next[I \ {k + 1}], ws[k + 1])
        BY <3>1, <4>1
      <4>5. QED
        BY <4>2, <4>3, <4>4
    <3>2. CASE k + 1 \notin I
      <4>1. I \in SUBSET (1 .. k) /\ next[I] = iter[I]
        BY <3>2, <2>2
      <4>2. iter[I] = IF I = {} THEN s ELSE Method(c, iter[I \ {Max(I)}], ws[Max(I)])
        BY <2>1, <4>1 DEF Unfolds
      <4>3. next[I \ {Max(I)}] = iter[I \ {Max(I)}]
        BY <3>2, <2>2
      <4>4. said[I] = IF I = {} THEN s ELSE Method(c, next[I \ {Max(I)}], ws[Max(I)])
        OBVIOUS
      <4>5. QED
        BY <4>1, <4>2, <4>3, <4>4
    <3>3. QED
      BY <3>1, <3>2
  <2>4. next = said
    BY <2>3
  <2>5. Unfolds(next, c, s, ws, k + 1)
    BY <2>4 DEF Unfolds
  <2>6. QED
    BY <2>5
<1>3. N = Nat
  BY <1>1, <1>2, AllNaturals
<1>4. QED
  BY <1>3

(* What holds before the loop and is kept by each of its turns holds after *)
(* it.                                                                     *)
LEMMA LoopKeeps ==
  ASSUME NEW c, NEW s, NEW W, NEW ws \in Seq(W),
         Keeps(c, s, 0),
         \A k \in 0 .. (Len(ws) - 1) : \A r :
           Keeps(c, r, k) => Keeps(c, Method(c, r, ws[k + 1]), k + 1)
  PROVE  Keeps(c, Loop(c, s, ws), Len(ws))
<1> DEFINE n == Len(ws)
           iter == CHOOSE iter : Unfolds(iter, c, s, ws, n)
<1>1. n \in Nat /\ DOMAIN ws = 1 .. n
  OBVIOUS
<1>2. Loop(c, s, ws) = iter[1 .. n]
  BY <1>1 DEF Loop, FoldLeft, MapThenFoldSet, Unfolds
<1>3. Unfolds(iter, c, s, ws, n)
  BY <1>1, UnfoldsExist
<1> HIDE DEF iter, n
<1> DEFINE N == {k \in Nat : k <= n => Keeps(c, iter[1 .. k], k)}
<1>4. 0 \in N
  <2>1. 1 .. 0 = {}
    OBVIOUS
  <2>2. iter[1 .. 0] = s
    <3>1. {} \in SUBSET (1 .. n)
      OBVIOUS
    <3>2. iter[{}] = s
      BY <1>3, <3>1 DEF Unfolds
    <3>3. QED
      BY <2>1, <3>2
  <2>3. QED
    BY <2>2
<1>5. ASSUME NEW k \in N PROVE k + 1 \in N
  <2> SUFFICES ASSUME k + 1 <= n PROVE Keeps(c, iter[1 .. (k + 1)], k + 1)
    OBVIOUS
  <2>1. Max(1 .. (k + 1)) = k + 1 /\ (1 .. (k + 1)) \ {k + 1} = 1 .. k
    <3>1. k \in Nat /\ k + 1 \in 1 .. (k + 1)
      OBVIOUS
    <3>2. Max(1 .. (k + 1)) = k + 1
      BY <3>1, MaxOfPrefix
    <3>3. (1 .. (k + 1)) \ {k + 1} = 1 .. k
      BY <3>1
    <3>4. QED
      BY <3>2, <3>3
  <2>2. 1 .. (k + 1) \in SUBSET (1 .. n) /\ 1 .. (k + 1) # {}
    <3>1. n \in Nat /\ k \in Nat /\ k + 1 <= n
      BY <1>1
    <3>2. \A i \in 1 .. (k + 1) : i \in 1 .. n
      BY <3>1
    <3>3. 1 \in 1 .. (k + 1)
      BY <3>1
    <3>4. QED
      BY <3>2, <3>3
  <2>3. iter[1 .. (k + 1)] = Method(c, iter[1 .. k], ws[k + 1])
    BY <1>3, <2>1, <2>2 DEF Unfolds
  <2>4. Keeps(c, iter[1 .. k], k) /\ k \in 0 .. (n - 1)
    BY <1>1
  <2>5. QED
    BY <2>3, <2>4 DEF n
<1>6. N = Nat
  BY <1>4, <1>5, AllNaturals
<1>7. Keeps(c, iter[1 .. n], n)
  BY <1>1, <1>6
<1>8. QED
  BY <1>2, <1>7 DEF n
=============================================================================
