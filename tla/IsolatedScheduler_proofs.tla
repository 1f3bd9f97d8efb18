---------------------- MODULE IsolatedScheduler_proofs ----------------------
(***************************************************************************)
(* What the methods of the scheduler of --dist=isolation keep, for every   *)
(* collection and every number of workers.                                 *)
(***************************************************************************)
EXTENDS IsolatedScheduler, Integers, SequenceTheorems, WellFoundedInduction, TLAPS

(***************************************************************************)
(* Sequences, in the vocabulary of the community modules.                  *)
(***************************************************************************)
(* Sequences without duplicates, and what becomes of them. *)
Distinct(q) == \A i, j \in DOMAIN q : q[i] = q[j] => i = j

LEMMA ContainsMeans ==
  ASSUME NEW S, NEW q \in Seq(S), NEW e
  PROVE  Contains(q, e) <=> e \in ToSet(q)
BY DEF Contains, ToSet

LEMMA EmptyFacts ==
  ToSet(<<>>) = {} /\ Distinct(<<>>)
BY DEF ToSet, Distinct

LEMMA NonEmptyFacts ==
  ASSUME NEW S, NEW q \in Seq(S)
  PROVE  ToSet(q) \subseteq S /\ (ToSet(q) = {} <=> q = <<>>)
<1>1. q = <<>> <=> Len(q) = 0
  OBVIOUS
<1>2. Len(q) # 0 => q[1] \in ToSet(q)
  BY DEF ToSet
<1>3. QED
  BY <1>1, <1>2 DEF ToSet

LEMMA AppendFacts ==
  ASSUME NEW S, NEW q \in Seq(S), NEW e \in S
  PROVE  /\ Append(q, e) \in Seq(S)
         /\ ToSet(Append(q, e)) = ToSet(q) \cup {e}
         /\ Distinct(q) /\ e \notin ToSet(q) => Distinct(Append(q, e))
<1> DEFINE r == Append(q, e)
<1>1. DOMAIN q = 1 .. Len(q) /\ DOMAIN r = 1 .. (Len(q) + 1) /\ Len(q) \in Nat
  OBVIOUS
<1>2. r[Len(q) + 1] = e /\ \A i \in DOMAIN q : r[i] = q[i]
  OBVIOUS
<1>3. ToSet(r) = ToSet(q) \cup {e}
  BY <1>1, <1>2 DEF ToSet
<1>4. Distinct(q) /\ e \notin ToSet(q) => Distinct(r)
  BY <1>1, <1>2 DEF ToSet, Distinct
<1>5. QED
  BY <1>3, <1>4

LEMMA TailFacts ==
  ASSUME NEW S, NEW q \in Seq(S), q # <<>>
  PROVE  /\ Tail(q) \in Seq(S) /\ Head(q) \in S
         /\ ToSet(q) = {Head(q)} \cup ToSet(Tail(q))
         /\ Distinct(q) => Distinct(Tail(q)) /\ Head(q) \notin ToSet(Tail(q))
<1> DEFINE r == Tail(q)
<1>1. /\ Len(q) \in Nat /\ Len(q) >= 1 /\ DOMAIN q = 1 .. Len(q) /\ DOMAIN r = 1 .. (Len(q) - 1)
      /\ \A i \in DOMAIN r : r[i] = q[i + 1]
      /\ Head(q) = q[1]
  OBVIOUS
<1>2. ToSet(q) = {Head(q)} \cup ToSet(r)
  <2>1. ASSUME NEW i \in DOMAIN q PROVE q[i] \in {Head(q)} \cup ToSet(r)
    <3>1. CASE i = 1
      BY <1>1, <3>1
    <3>2. CASE i # 1
      <4>1. i - 1 \in DOMAIN r /\ r[i - 1] = q[i]
        BY <1>1, <3>2
      <4>2. QED
        BY <4>1 DEF ToSet
    <3>3. QED
      BY <3>1, <3>2
  <2>2. ASSUME NEW i \in DOMAIN r PROVE r[i] \in ToSet(q)
    BY <1>1 DEF ToSet
  <2>3. Head(q) \in ToSet(q)
    BY <1>1 DEF ToSet
  <2>4. QED
    BY <2>1, <2>2, <2>3 DEF ToSet
<1>3. Distinct(q) => Distinct(r) /\ Head(q) \notin ToSet(r)
  BY <1>1 DEF Distinct, ToSet
<1>4. QED
  BY <1>2, <1>3

LEMMA ConcatFacts ==
  ASSUME NEW S, NEW p \in Seq(S), NEW q \in Seq(S)
  PROVE  /\ p \o q \in Seq(S)
         /\ ToSet(p \o q) = ToSet(p) \cup ToSet(q)
         /\ Distinct(p) /\ Distinct(q) /\ ToSet(p) \cap ToSet(q) = {} => Distinct(p \o q)
<1> DEFINE r == p \o q
<1>1. /\ Len(p) \in Nat /\ Len(q) \in Nat
      /\ DOMAIN p = 1 .. Len(p) /\ DOMAIN q = 1 .. Len(q) /\ DOMAIN r = 1 .. (Len(p) + Len(q))
      /\ \A i \in DOMAIN r : r[i] = IF i <= Len(p) THEN p[i] ELSE q[i - Len(p)]
  OBVIOUS
<1>2. \A i \in DOMAIN p : i \in DOMAIN r /\ r[i] = p[i]
  BY <1>1
<1>3. \A i \in DOMAIN q : i + Len(p) \in DOMAIN r /\ r[i + Len(p)] = q[i]
  BY <1>1
<1>4. \A i \in DOMAIN r : \/ i \in DOMAIN p /\ r[i] = p[i]
                          \/ i - Len(p) \in DOMAIN q /\ r[i] = q[i - Len(p)]
  BY <1>1
<1> HIDE DEF r
<1>5. ToSet(r) = ToSet(p) \cup ToSet(q)
  BY <1>2, <1>3, <1>4 DEF ToSet
<1>6. Distinct(p) /\ Distinct(q) /\ ToSet(p) \cap ToSet(q) = {} => Distinct(r)
  <2> SUFFICES ASSUME Distinct(p), Distinct(q), ToSet(p) \cap ToSet(q) = {},
                      NEW i \in DOMAIN r, NEW j \in DOMAIN r, r[i] = r[j]
               PROVE  i = j
    BY DEF Distinct
  <2>1. CASE i \in DOMAIN p /\ j \in DOMAIN p
    BY <1>2, <2>1 DEF Distinct
  <2>2. CASE i \notin DOMAIN p /\ j \notin DOMAIN p
    <3>1. i - Len(p) \in DOMAIN q /\ j - Len(p) \in DOMAIN q /\ q[i - Len(p)] = q[j - Len(p)]
      BY <1>4, <2>2
    <3>2. i - Len(p) = j - Len(p)
      BY <3>1 DEF Distinct
    <3>3. QED
      BY <1>1, <3>2
  <2>3. CASE i \in DOMAIN p /\ j \notin DOMAIN p
    BY <1>4, <2>3 DEF ToSet
  <2>4. CASE i \notin DOMAIN p /\ j \in DOMAIN p
    BY <1>4, <2>4 DEF ToSet
  <2>5. QED
    BY <2>1, <2>2, <2>3, <2>4
<1>7. r \in Seq(S)
  BY DEF r
<1>8. QED
  BY <1>5, <1>6, <1>7 DEF r

LEMMA MinFacts ==
  ASSUME NEW I \in SUBSET Nat, I # {}
  PROVE  Min(I) \in I
<1>1. IsWellFoundedOn(OpToRel(<, Nat), Nat)
  BY NatLessThanWellFounded
<1>2. PICK m \in I : \A k \in I : ~(<<k, m>> \in OpToRel(<, Nat))
  BY <1>1, WFMin
<1>3. \A k \in I : k \in Nat /\ m \in Nat /\ ~(k < m)
  BY <1>2 DEF OpToRel
<1>4. \A k \in I : m <= k
  BY <1>3
<1>5. QED
  BY <1>4 DEF Min

(* list.remove and dict.pop. *)
LEMMA RemoveFirstFacts ==
  ASSUME NEW S, NEW q \in Seq(S), NEW e
  PROVE  /\ RemoveFirst(q, e) \in Seq(S)
         /\ ToSet(RemoveFirst(q, e)) \subseteq ToSet(q)
         /\ Distinct(q) => /\ Distinct(RemoveFirst(q, e))
                           /\ ToSet(RemoveFirst(q, e)) = ToSet(q) \ {e}
<1> DEFINE n == Len(q)
           I == {i \in 1 .. n : q[i] = e}
           k == Min(I)
           r == SubSeq(q, 1, k - 1) \o SubSeq(q, k + 1, n)
<1>1. n \in Nat /\ DOMAIN q = 1 .. n
  OBVIOUS
<1>2. CASE I = {}
  <2>1. RemoveFirst(q, e) = q
    BY <1>2 DEF RemoveFirst
  <2>2. e \notin ToSet(q)
    BY <1>1, <1>2 DEF ToSet
  <2>3. QED
    BY <2>1, <2>2
<1>3. CASE I # {}
  <2>1. k \in 1 .. n /\ q[k] = e
    BY <1>1, <1>3, MinFacts, I \in SUBSET Nat
  <2>2. RemoveFirst(q, e) = r
    BY <1>3 DEF RemoveFirst, RemoveAt, SelectInSeq
  <2> HIDE DEF k, I, n
  <2>3. /\ r \in Seq(S) /\ Len(r) = n - 1
        /\ \A i \in 1 .. (n - 1) : r[i] = IF i < k THEN q[i] ELSE q[i + 1]
    <3> DEFINE a == SubSeq(q, 1, k - 1)
               b == SubSeq(q, k + 1, n)
    <3>1. \A i \in 1 .. n : q[i] \in S
      BY <1>1
    <3>2. /\ a \in Seq(S) /\ Len(a) = k - 1
          /\ \A i \in 1 .. (k - 1) : a[i] = q[i]
      <4>1. 1 \in Int /\ k - 1 \in Int /\ \A i \in 1 .. (k - 1) : q[i] \in S
        BY <1>1, <2>1, <3>1
      <4>2. /\ a \in Seq(S) /\ Len(a) = IF 1 <= k - 1 THEN (k - 1) - 1 + 1 ELSE 0
            /\ \A i \in 1 .. (k - 1) - 1 + 1 : a[i] = q[1 + i - 1]
        BY <4>1, SubSeqProperties
      <4> HIDE DEF a
      <4>3. QED
        BY <1>1, <2>1, <4>2
    <3>3. /\ b \in Seq(S) /\ Len(b) = n - k
          /\ \A i \in 1 .. (n - k) : b[i] = q[i + k]
      <4>1. k + 1 \in Int /\ n \in Int /\ \A i \in (k + 1) .. n : q[i] \in S
        BY <1>1, <2>1, <3>1
      <4>2. /\ b \in Seq(S) /\ Len(b) = IF k + 1 <= n THEN n - (k + 1) + 1 ELSE 0
            /\ \A i \in 1 .. n - (k + 1) + 1 : b[i] = q[(k + 1) + i - 1]
        BY <4>1, SubSeqProperties
      <4> HIDE DEF b
      <4>3. n - (k + 1) + 1 = n - k /\ \A i \in Int : (k + 1) + i - 1 = i + k
        BY <1>1, <2>1
      <4>4. Len(b) = n - k
        BY <1>1, <2>1, <4>2, <4>3
      <4>5. \A i \in 1 .. (n - k) : b[i] = q[i + k]
        BY <1>1, <2>1, <4>2, <4>3
      <4>6. QED
        BY <4>2, <4>4, <4>5
    <3> HIDE DEF a, b
    <3>4. /\ a \o b \in Seq(S) /\ Len(a \o b) = Len(a) + Len(b)
          /\ \A i \in 1 .. Len(a) + Len(b) :
               (a \o b)[i] = IF i <= Len(a) THEN a[i] ELSE b[i - Len(a)]
      BY <3>2, <3>3, ConcatProperties
    <3> DEFINE ab == a \o b
    <3>5. r = ab
      BY DEF r, a, b
    <3> HIDE DEF ab
    <3>6. /\ ab \in Seq(S) /\ Len(ab) = n - 1
          /\ \A i \in 1 .. (n - 1) : ab[i] = IF i < k THEN q[i] ELSE q[i + 1]
      <4>1. /\ ab \in Seq(S) /\ Len(ab) = n - 1
            /\ \A i \in 1 .. (n - 1) : ab[i] = IF i <= k - 1 THEN a[i] ELSE b[i - (k - 1)]
        BY <1>1, <2>1, <3>2, <3>3, <3>4 DEF ab
      <4>2. ASSUME NEW i \in 1 .. (n - 1) PROVE ab[i] = IF i < k THEN q[i] ELSE q[i + 1]
        <5>1. CASE i < k
          BY <1>1, <2>1, <3>2, <4>1, <5>1
        <5>2. CASE ~(i < k)
          <6>1. i - (k - 1) \in 1 .. (n - k) /\ i - (k - 1) + k = i + 1
            BY <1>1, <2>1, <5>2
          <6>2. QED
            BY <1>1, <2>1, <3>3, <4>1, <5>2, <6>1
        <5>3. QED
          BY <5>1, <5>2
      <4>3. QED
        BY <4>1, <4>2
    <3>7. QED
      BY <3>5, <3>6
  <2> HIDE DEF r
  <2>4. DOMAIN r = 1 .. (n - 1)
    BY <1>1, <2>1, <2>3
  <2>a. \A i \in 1 .. (n - 1) : i \in 1 .. n /\ i + 1 \in 1 .. n
    BY <1>1
  <2>5. ToSet(r) \subseteq ToSet(q)
    BY <1>1, <2>3, <2>4, <2>a DEF ToSet
  <2>6. ASSUME NEW i \in 1 .. n, i # k PROVE q[i] \in ToSet(r)
    <3>1. CASE i < k
      BY <1>1, <2>1, <2>3, <2>4, <3>1 DEF ToSet
    <3>2. CASE i > k
      <4>1. i - 1 \in 1 .. (n - 1) /\ r[i - 1] = q[i]
        BY <1>1, <2>1, <2>3, <3>2
      <4>2. QED
        BY <2>4, <4>1 DEF ToSet
    <3>3. QED
      BY <1>1, <2>1, <2>6, <3>1, <3>2
  <2>7. ASSUME Distinct(q) PROVE Distinct(r) /\ e \notin ToSet(r)
    <3>1. \A i \in 1 .. (n - 1) : r[i] = q[IF i < k THEN i ELSE i + 1]
      BY <2>3
    <3>2. \A i, j \in 1 .. (n - 1) :
            (IF i < k THEN i ELSE i + 1) = (IF j < k THEN j ELSE j + 1) => i = j
      BY <1>1, <2>1
    <3>3. \A i \in 1 .. (n - 1) : (IF i < k THEN i ELSE i + 1) \in (1 .. n) \ {k}
      BY <1>1, <2>1
    <3>4. Distinct(r)
      BY <1>1, <2>4, <2>7, <3>1, <3>2, <3>3 DEF Distinct
    <3>5. e \notin ToSet(r)
      BY <1>1, <2>1, <2>4, <2>7, <3>1, <3>3 DEF Distinct, ToSet
    <3>6. QED
      BY <3>4, <3>5
  <2>9. Distinct(q) => ToSet(r) = ToSet(q) \ {e}
    BY <1>1, <2>1, <2>5, <2>6, <2>7 DEF ToSet
  <2>10. QED
    BY <2>2, <2>3, <2>5, <2>7, <2>9
<1>4. QED
  BY <1>2, <1>3

(* What follows an element. *)
LEMMA SuffixFacts ==
  ASSUME NEW S, NEW q \in Seq(S), NEW k \in DOMAIN q
  PROVE  LET r == SubSeq(q, k + 1, Len(q))
         IN  /\ r \in Seq(S)
             /\ ToSet(r) \subseteq ToSet(q)
             /\ Distinct(q) => Distinct(r) /\ q[k] \notin ToSet(r)
<1> DEFINE r == SubSeq(q, k + 1, Len(q))
<1>1. /\ k \in Nat /\ Len(q) \in Nat /\ 1 <= k /\ k <= Len(q)
      /\ DOMAIN q = 1 .. Len(q)
  OBVIOUS
<1>2. /\ r \in Seq(S) /\ DOMAIN r = 1 .. (Len(q) - k)
      /\ \A i \in 1 .. (Len(q) - k) : r[i] = q[k + i]
  BY <1>1
<1> HIDE DEF r
<1>3. \A i \in 1 .. (Len(q) - k) : k + i \in DOMAIN q /\ k + i # k
  BY <1>1
<1>4. ToSet(r) \subseteq ToSet(q)
  BY <1>2, <1>3 DEF ToSet
<1>5. ASSUME Distinct(q) PROVE Distinct(r) /\ q[k] \notin ToSet(r)
  <2>1. \A i, j \in 1 .. (Len(q) - k) : r[i] = r[j] => k + i = k + j
    BY <1>2, <1>3, <1>5 DEF Distinct
  <2>2. \A i, j \in 1 .. (Len(q) - k) : k + i = k + j => i = j
    BY <1>1
  <2>3. \A i \in 1 .. (Len(q) - k) : r[i] # q[k]
    BY <1>2, <1>3, <1>5 DEF Distinct
  <2>4. QED
    BY <1>2, <2>1, <2>2, <2>3 DEF Distinct, ToSet
<1>6. QED
  BY <1>2, <1>4, <1>5 DEF r
------------------------------------------------------------------------------
(* The two loops over the collection. *)
InOrderTurn(tests, q, t) == IF t \in tests THEN Append(q, t) ELSE q
InOrderKeeps(tests, q, k) ==
  q \in Seq(Test) /\ Distinct(q) /\ ToSet(q) = {Collection[i] : i \in 1 .. k} \cap tests
Ordering == INSTANCE Folding WITH Method <- InOrderTurn, Keeps <- InOrderKeeps

LEMMA InOrderFacts ==
  ASSUME NEW tests \in SUBSET Test
  PROVE  /\ InOrder(tests) \in Seq(Test)
         /\ ToSet(InOrder(tests)) = tests
         /\ Distinct(InOrder(tests))
<1>1. InOrder(tests) = Ordering!Loop(tests, <<>>, Collection)
  BY DEF InOrder, Ordering!Loop, InOrderTurn, FoldLeft, Ordering!FoldLeft, MapThenFoldSet,
         Ordering!MapThenFoldSet, Max, Ordering!Max
<1>2. Collection \in Seq(Test) /\ Distinct(Collection)
  BY NoTestTwice DEF Distinct
<1>3. InOrderKeeps(tests, <<>>, 0)
  BY EmptyFacts DEF InOrderKeeps
<1>4. ASSUME NEW k \in 0 .. (Len(Collection) - 1), NEW q, InOrderKeeps(tests, q, k)
      PROVE  InOrderKeeps(tests, InOrderTurn(tests, q, Collection[k + 1]), k + 1)
  <2> DEFINE t == Collection[k + 1]
             before == {Collection[i] : i \in 1 .. k}
             after == {Collection[i] : i \in 1 .. (k + 1)}
  <2>1. t \in Test /\ after = before \cup {t} /\ t \notin before
    <3>1. /\ k \in Nat /\ k + 1 \in DOMAIN Collection
          /\ 1 .. (k + 1) = (1 .. k) \cup {k + 1} /\ 1 .. k \subseteq DOMAIN Collection
      BY <1>2
    <3>2. t \notin before
      BY <1>2, <3>1 DEF Distinct
    <3>3. QED
      BY <1>2, <3>1, <3>2
  <2>2. q \in Seq(Test) /\ Distinct(q) /\ ToSet(q) = before \cap tests
    BY <1>4 DEF InOrderKeeps
  <2> HIDE DEF t, before, after
  <2>3. CASE t \in tests
    <3>1. /\ Append(q, t) \in Seq(Test) /\ Distinct(Append(q, t))
          /\ ToSet(Append(q, t)) = ToSet(q) \cup {t}
      BY <2>1, <2>2, AppendFacts
    <3>2. InOrderKeeps(tests, Append(q, t), k + 1)
      BY <2>1, <2>2, <2>3, <3>1 DEF InOrderKeeps, after
    <3>3. QED
      BY <2>3, <3>2 DEF InOrderTurn, t
  <2>4. CASE t \notin tests
    <3>1. InOrderKeeps(tests, q, k + 1)
      BY <2>1, <2>2, <2>4 DEF InOrderKeeps, after
    <3>2. QED
      BY <2>4, <3>1 DEF InOrderTurn, t
  <2>5. QED
    BY <2>3, <2>4
<1>5. InOrderKeeps(tests, InOrder(tests), Len(Collection))
  BY <1>1, <1>2, <1>3, <1>4, Ordering!LoopKeeps
<1>6. {Collection[i] : i \in 1 .. Len(Collection)} = Test
  BY <1>2 DEF Test, ToSet
<1>7. QED
  BY <1>5, <1>6 DEF InOrderKeeps

FilesTurn(c, files, t) ==
  IF Contains(files, FileOf[t]) THEN files ELSE Append(files, FileOf[t])
FilesKeep(c, files, k) ==
  /\ files \in Seq(TestFile) /\ Distinct(files)
  /\ ToSet(files) = {FileOf[Collection[i]] : i \in 1 .. k}
Grouping == INSTANCE Folding WITH Method <- FilesTurn, Keeps <- FilesKeep

LEMMA FilesInOrderFacts ==
  FilesInOrder \in Seq(TestFile) /\ Distinct(FilesInOrder) /\ ToSet(FilesInOrder) = TestFile
<1>1. FilesInOrder = Grouping!Loop(None, <<>>, Collection)
  BY DEF FilesInOrder, Grouping!Loop, FilesTurn, FoldLeft, Grouping!FoldLeft, MapThenFoldSet,
         Grouping!MapThenFoldSet, Max, Grouping!Max
<1>2. Collection \in Seq(Test)
  BY NoTestTwice
<1>3. FilesKeep(None, <<>>, 0)
  BY EmptyFacts DEF FilesKeep
<1>4. ASSUME NEW k \in 0 .. (Len(Collection) - 1), NEW q, FilesKeep(None, q, k)
      PROVE  FilesKeep(None, FilesTurn(None, q, Collection[k + 1]), k + 1)
  <2> DEFINE f == FileOf[Collection[k + 1]]
             before == {FileOf[Collection[i]] : i \in 1 .. k}
             after == {FileOf[Collection[i]] : i \in 1 .. (k + 1)}
  <2>1. f \in TestFile /\ after = before \cup {f}
    <3>1. /\ k \in Nat /\ k + 1 \in DOMAIN Collection
          /\ 1 .. (k + 1) = (1 .. k) \cup {k + 1}
      BY <1>2
    <3>2. QED
      BY <1>2, <3>1 DEF TestFile
  <2>2. q \in Seq(TestFile) /\ Distinct(q) /\ ToSet(q) = before
    BY <1>4 DEF FilesKeep
  <2>3. Contains(q, f) <=> f \in ToSet(q)
    BY <2>2, ContainsMeans
  <2> HIDE DEF f, before, after
  <2>4. CASE f \notin ToSet(q)
    <3>1. /\ Append(q, f) \in Seq(TestFile) /\ Distinct(Append(q, f))
          /\ ToSet(Append(q, f)) = ToSet(q) \cup {f}
      BY <2>1, <2>2, <2>4, AppendFacts
    <3>2. FilesKeep(None, Append(q, f), k + 1)
      BY <2>1, <2>2, <3>1 DEF FilesKeep, after
    <3>3. QED
      BY <2>3, <2>4, <3>2 DEF FilesTurn, f
  <2>5. CASE f \in ToSet(q)
    <3>1. FilesKeep(None, q, k + 1)
      BY <2>1, <2>2, <2>5 DEF FilesKeep, after
    <3>2. QED
      BY <2>3, <2>5, <3>1 DEF FilesTurn, f
  <2>6. QED
    BY <2>4, <2>5
<1>5. FilesKeep(None, FilesInOrder, Len(Collection))
  BY <1>1, <1>2, <1>3, <1>4, Grouping!LoopKeeps
<1>6. {FileOf[Collection[i]] : i \in 1 .. Len(Collection)} = TestFile
  BY <1>2 DEF TestFile, Test, ToSet
<1>7. QED
  BY <1>5, <1>6 DEF FilesKeep
------------------------------------------------------------------------------
(***************************************************************************)
(* What the scheduler keeps whatever it does.  ahead[w] stands for the     *)
(* tests worker w has taken from its queue of commands and for which the   *)
(* controller has not handled a completion; no method can see them.        *)
(***************************************************************************)
Sched ==
  [numnodes : Nat, active : Worker \cup {None}, next : Worker \cup {None},
   waiting : Worker \cup {None}, standby : Seq(Worker), current : SUBSET Worker,
   clones : SUBSET Worker, nodes : Seq(Worker), assigned : [Worker -> Seq(TestFile)],
   queue : Seq(TestFile), completed : SUBSET Test, registered : SUBSET Worker,
   collected : BOOLEAN, torun : [Worker -> Seq(Test \cup {SHUTDOWN})], sent : SUBSET Worker,
   down : SUBSET Worker, broken : SUBSET Worker,
   raised : {None, "OSError", "KeyError", "AssertionError"}]

Shape(s) ==
  /\ s \in Sched
  /\ Distinct(s.nodes)
  /\ {s.active, s.next} \subseteq ToSet(s.nodes) \cup {None}
  /\ ~s.collected => s.completed = {}

Held(s, w) == ToSet(s.assigned[w])
Open(s, f) == s.collected /\ ~(TestsOf(f) \subseteq s.completed)

(* A file that is not through is in one place, one that is in none. *)
FilesPlaced(s) ==
  /\ Distinct(s.queue)
  /\ \A w \in Worker : /\ Distinct(s.assigned[w])
                       /\ Held(s, w) \cap ToSet(s.queue) = {}
                       /\ Held(s, w) # {} => w \in ToSet(s.nodes)
  /\ \A v, w \in Worker : v # w => Held(s, v) \cap Held(s, w) = {}
  /\ \A f \in TestFile :
       Open(s, f) <=> f \in ToSet(s.queue) \/ \E w \in Worker : f \in Held(s, w)

(* What a worker has in front of it are tests of the files it holds, each  *)
(* once, and none of them is known to be completed.                        *)
TestsSent(ahead, s) ==
  \A w \in Worker :
    /\ \A t \in ahead[w] : t \in Test \ s.completed /\ FileOf[t] \in Held(s, w)
    /\ \A i \in DOMAIN s.torun[w] :
         s.torun[w][i] # SHUTDOWN =>
           /\ s.torun[w][i] \notin s.completed \cup ahead[w]
           /\ FileOf[s.torun[w][i]] \in Held(s, w)
           /\ \A j \in DOMAIN s.torun[w] : s.torun[w][i] = s.torun[w][j] => i = j

Sound(ahead, s) == Shape(s) /\ FilesPlaced(s) /\ TestsSent(ahead, s)

(* What its internal methods leave alone. *)
Same(s, r) ==
  /\ r.completed = s.completed /\ r.registered = s.registered /\ r.collected = s.collected
  /\ r.nodes = s.nodes /\ r.down = s.down /\ r.broken = s.broken /\ r.numnodes = s.numnodes
  /\ ToSet(r.queue) \subseteq ToSet(s.queue)
  /\ \A w \in s.broken : r.torun[w] = s.torun[w]

From(ahead, s, r) == Sound(ahead, r) /\ Same(s, r)

LEMMA FromFollows ==
  ASSUME NEW ahead, NEW s, NEW r, NEW q, From(ahead, s, r), From(ahead, r, q)
  PROVE  From(ahead, s, q)
BY DEF From, Same

LEMMA FromItself ==
  ASSUME NEW ahead, NEW s, Sound(ahead, s)
  PROVE  From(ahead, s, s)
BY DEF From, Same

LEMMA BookkeepingKeeps ==
  ASSUME NEW ahead, NEW s, Sound(ahead, s), NEW r \in Sched, Same(s, r),
         r.queue = s.queue, r.assigned = s.assigned, r.torun = s.torun,
         {r.active, r.next} \subseteq ToSet(s.nodes) \cup {None}
  PROVE  From(ahead, s, r)
BY DEF From, Sound, Same, Shape, FilesPlaced, TestsSent, Held, Open

LEMMA RaisedKeeps ==
  ASSUME NEW ahead, NEW s, Sound(ahead, s),
         NEW x \in {None, "OSError", "KeyError", "AssertionError"}
  PROVE  From(ahead, s, [s EXCEPT !.raised = x])
<1> DEFINE r == [s EXCEPT !.raised = x]
<1>1. s \in Sched /\ {s.active, s.next} \subseteq ToSet(s.nodes) \cup {None}
  BY DEF Sound, Shape
<1>2. r \in Sched
  BY <1>1 DEF Sched
<1>3. /\ Same(s, r) /\ r.queue = s.queue /\ r.assigned = s.assigned /\ r.torun = s.torun
      /\ r.active = s.active /\ r.next = s.next
  BY <1>1 DEF Sched, Same
<1> HIDE DEF r
<1>4. From(ahead, s, r)
  BY <1>1, <1>2, <1>3, BookkeepingKeeps
<1>5. QED
  BY <1>4 DEF r

LEMMA ShutdownKeeps ==
  ASSUME NEW ahead, NEW s, Sound(ahead, s), NEW ws \in SUBSET Worker
  PROVE  From(ahead, s, ShutdownEach(s, ws))
<1> DEFINE r == ShutdownEach(s, ws)
           up == (ws \ s.down) \ s.broken
           q == [w \in Worker |-> IF w \in up THEN Append(s.torun[w], SHUTDOWN) ELSE s.torun[w]]
<1>1. s \in Sched
  BY DEF Sound, Shape
<1>2. \A w \in Worker : s.torun[w] \in Seq(Test \cup {SHUTDOWN})
  BY <1>1 DEF Sched
<1>3. \A w \in Worker : q[w] \in Seq(Test \cup {SHUTDOWN})
  BY <1>2
<1>4. r = [s EXCEPT !.sent = s.sent \cup (ws \ s.down), !.torun = q]
  BY DEF ShutdownEach
<1>5. \A w \in Worker : \A i \in DOMAIN q[w] :
        q[w][i] # SHUTDOWN => i \in DOMAIN s.torun[w] /\ q[w][i] = s.torun[w][i]
  <2> TAKE w \in Worker
  <2>1. s.torun[w] \in Seq(Test \cup {SHUTDOWN})
    BY <1>2
  <2>2. \A i \in DOMAIN Append(s.torun[w], SHUTDOWN) :
          \/ i \in DOMAIN s.torun[w] /\ Append(s.torun[w], SHUTDOWN)[i] = s.torun[w][i]
          \/ Append(s.torun[w], SHUTDOWN)[i] = SHUTDOWN
    BY <2>1
  <2>3. QED
    BY <2>2
<1> HIDE DEF q
<1>6. /\ r \in Sched /\ r.torun = q /\ Same(s, r)
      /\ r.queue = s.queue /\ r.assigned = s.assigned /\ r.active = s.active /\ r.next = s.next
  <2>0. \A w \in s.broken : q[w] = s.torun[w]
    BY <1>1 DEF q, Sched
  <2>1. q \in [Worker -> Seq(Test \cup {SHUTDOWN})]
    BY <1>3 DEF q
  <2>2. s.sent \cup (ws \ s.down) \in SUBSET Worker
    BY <1>1 DEF Sched
  <2>3. QED
    BY <1>1, <1>4, <2>0, <2>1, <2>2 DEF Sched, Same
<1>7. TestsSent(ahead, r)
  <2>1. TestsSent(ahead, s)
    BY DEF Sound
  <2>2. \A w \in Worker : \A i \in DOMAIN q[w] : \A j \in DOMAIN q[w] :
          q[w][i] # SHUTDOWN /\ q[w][i] = q[w][j] =>
             /\ i \in DOMAIN s.torun[w] /\ j \in DOMAIN s.torun[w]
             /\ q[w][i] = s.torun[w][i] /\ q[w][j] = s.torun[w][j]
    BY <1>5
  <2>3. QED
    BY <1>5, <1>6, <2>1, <2>2 DEF TestsSent, Same, Held
<1>8. Shape(r) /\ FilesPlaced(r)
  BY <1>6 DEF Sound, Shape, FilesPlaced, Same, Held, Open
<1>9. QED
  BY <1>6, <1>7, <1>8 DEF From, Sound

(* A file leaves the queue for a worker, and its open tests are sent. *)
Given(s, w) == [s EXCEPT !.queue = Tail(@), !.assigned[w] = Append(@, Head(s.queue))]

LEMMA GiveKeeps ==
  ASSUME NEW ahead, NEW s, Sound(ahead, s), NEW w \in Worker, w \in ToSet(s.nodes),
         s.queue # <<>>
  PROVE  /\ From(ahead, s, Given(s, w))
         /\ Head(s.queue) \in TestFile /\ Head(s.queue) \in Held(Given(s, w), w)
         /\ Given(s, w).torun = s.torun
         /\ \A i \in DOMAIN s.torun[w] :
              s.torun[w][i] # SHUTDOWN => FileOf[s.torun[w][i]] # Head(s.queue)
         /\ \A t \in ahead[w] : FileOf[t] # Head(s.queue)
<1> DEFINE f == Head(s.queue)
           given == [s EXCEPT !.queue = Tail(@), !.assigned[w] = Append(@, f)]
<1>1. s \in Sched /\ s.queue \in Seq(TestFile) /\ s.assigned[w] \in Seq(TestFile)
  BY DEF Sound, Shape, Sched
<1>2. /\ Tail(s.queue) \in Seq(TestFile) /\ f \in TestFile
      /\ ToSet(s.queue) = {f} \cup ToSet(Tail(s.queue))
      /\ Distinct(Tail(s.queue)) /\ f \notin ToSet(Tail(s.queue))
  BY <1>1, TailFacts DEF Sound, FilesPlaced
<1>3. f \in ToSet(s.queue) /\ \A v \in Worker : f \notin Held(s, v)
  BY <1>2 DEF Sound, FilesPlaced
<1>4. /\ Append(s.assigned[w], f) \in Seq(TestFile)
      /\ ToSet(Append(s.assigned[w], f)) = Held(s, w) \cup {f}
      /\ Distinct(Append(s.assigned[w], f))
  BY <1>1, <1>2, <1>3, AppendFacts DEF Held, Sound, FilesPlaced
<1>5. /\ given \in Sched /\ given.queue = Tail(s.queue) /\ given.torun = s.torun
      /\ given.assigned = [s.assigned EXCEPT ![w] = Append(s.assigned[w], f)]
      /\ given.active = s.active /\ given.next = s.next /\ Same(s, given)
  BY <1>1, <1>2, <1>4 DEF Sched, Same
<1> HIDE DEF f, given
<1>6. s.assigned \in [Worker -> Seq(TestFile)]
  BY <1>1 DEF Sched
<1>7. \A v \in Worker : /\ Held(given, v) = IF v = w THEN Held(s, w) \cup {f} ELSE Held(s, v)
                        /\ Distinct(given.assigned[v])
  BY <1>4, <1>5, <1>6 DEF Held, Sound, FilesPlaced
<1>8. FilesPlaced(given)
  <2>1. FilesPlaced(s)
    BY DEF Sound
  <2>2. \A v \in Worker : /\ Held(given, v) \cap ToSet(given.queue) = {}
                          /\ Held(given, v) # {} => v \in ToSet(given.nodes)
    BY <1>2, <1>3, <1>5, <1>7, <2>1 DEF FilesPlaced, Same
  <2>3. \A u, v \in Worker : u # v => Held(given, u) \cap Held(given, v) = {}
    BY <1>3, <1>7, <2>1 DEF FilesPlaced
  <2>4. \A g \in TestFile : Open(given, g) <=>
          g \in ToSet(given.queue) \/ \E v \in Worker : g \in Held(given, v)
    BY <1>2, <1>5, <1>7, <2>1 DEF FilesPlaced, Same, Open
  <2>5. QED
    BY <1>2, <1>5, <1>7, <2>2, <2>3, <2>4 DEF FilesPlaced
<1>9. TestsSent(ahead, given)
  BY <1>5, <1>7 DEF Sound, TestsSent, Same
<1>10. Shape(given)
  BY <1>5 DEF Sound, Shape, Same
<1>11. /\ \A i \in DOMAIN s.torun[w] : s.torun[w][i] # SHUTDOWN => FileOf[s.torun[w][i]] # f
       /\ \A t \in ahead[w] : FileOf[t] # f
  BY <1>3 DEF Sound, TestsSent
<1>12. From(ahead, s, given)
  BY <1>5, <1>8, <1>9, <1>10 DEF From, Sound
<1>13. given = Given(s, w) /\ f = Head(s.queue)
  BY DEF f, given, Given
<1>14. QED
  BY <1>2, <1>5, <1>7, <1>11, <1>12, <1>13

LEMMA SendKeeps ==
  ASSUME NEW ahead, NEW s, Sound(ahead, s), NEW w \in Worker, NEW f \in TestFile, f \in Held(s, w),
         \A i \in DOMAIN s.torun[w] : s.torun[w][i] # SHUTDOWN => FileOf[s.torun[w][i]] # f,
         \A t \in ahead[w] : FileOf[t] # f
  PROVE  From(ahead, s, SendRuntest(s, w, InOrder(TestsOf(f) \ s.completed)))
<1> DEFINE tests == TestsOf(f) \ s.completed
           sent == InOrder(tests)
           old == s.torun[w]
           new == old \o sent
           r == [s EXCEPT !.torun[w] = new]
<1>1. s \in Sched /\ old \in Seq(Test \cup {SHUTDOWN})
  BY DEF Sound, Shape, Sched
<1>2. CASE w \in s.broken
  <2>1. SendRuntest(s, w, sent) = [s EXCEPT !.raised = "OSError"]
    BY <1>2 DEF SendRuntest
  <2>2. From(ahead, s, [s EXCEPT !.raised = "OSError"])
    BY RaisedKeeps
  <2>3. QED
    BY <2>1, <2>2 DEF sent, tests
<1>3. CASE w \notin s.broken
  <2>1. SendRuntest(s, w, sent) = r
    BY <1>3 DEF SendRuntest
  <2>2. tests \in SUBSET Test /\ \A t \in tests : FileOf[t] = f /\ t \notin s.completed
    BY DEF TestsOf
  <2>3. sent \in Seq(Test) /\ ToSet(sent) = tests /\ Distinct(sent)
    BY <2>2, InOrderFacts
  <2> HIDE DEF sent, tests
  <2>4. sent \in Seq(Test \cup {SHUTDOWN})
    BY <2>3, SeqMonotonic, Test \subseteq Test \cup {SHUTDOWN}
  <2>5. /\ new \in Seq(Test \cup {SHUTDOWN}) /\ Len(new) = Len(old) + Len(sent)
        /\ \A i \in 1 .. (Len(old) + Len(sent)) :
             new[i] = IF i <= Len(old) THEN old[i] ELSE sent[i - Len(old)]
    BY <1>1, <2>4, ConcatProperties
  <2> HIDE DEF old, new
  <2>6. /\ Len(old) \in Nat /\ Len(sent) \in Nat
        /\ DOMAIN old = 1 .. Len(old) /\ DOMAIN sent = 1 .. Len(sent) /\ DOMAIN new = 1 .. Len(new)
    BY <1>1, <2>3, <2>5
  <2>7. \A i \in DOMAIN new : \/ i \in DOMAIN old /\ new[i] = old[i]
                              \/ /\ i \notin DOMAIN old
                                 /\ i - Len(old) \in DOMAIN sent /\ new[i] = sent[i - Len(old)]
    BY <2>5, <2>6
  <2>8. \A i \in DOMAIN sent : sent[i] \in tests
    BY <2>3 DEF ToSet
  <2>9. \A i \in DOMAIN old : old[i] # SHUTDOWN =>
          /\ old[i] \notin s.completed \cup ahead[w] /\ FileOf[old[i]] \in Held(s, w)
          /\ FileOf[old[i]] # f
          /\ \A j \in DOMAIN old : old[i] = old[j] => i = j
    BY DEF Sound, TestsSent, old
  <2>10. ASSUME NEW i \in DOMAIN new, new[i] # SHUTDOWN
         PROVE  /\ new[i] \notin s.completed \cup ahead[w]
                /\ FileOf[new[i]] \in Held(s, w)
                /\ \A j \in DOMAIN new : new[i] = new[j] => i = j
    <3>1. CASE i \in DOMAIN old /\ new[i] = old[i]
      BY <2>2, <2>7, <2>8, <2>9, <2>10, <3>1
    <3>2. CASE i \notin DOMAIN old /\ i - Len(old) \in DOMAIN sent /\ new[i] = sent[i - Len(old)]
      <4>1. FileOf[new[i]] = f /\ new[i] \notin s.completed \cup ahead[w]
        BY <2>2, <2>8, <3>2
      <4>2. ASSUME NEW j \in DOMAIN new, new[i] = new[j] PROVE i = j
        <5>1. j - Len(old) \in DOMAIN sent /\ new[j] = sent[j - Len(old)]
          BY <2>7, <2>9, <2>10, <4>1, <4>2
        <5>2. i - Len(old) = j - Len(old)
          BY <2>3, <3>2, <4>2, <5>1 DEF Distinct
        <5>3. QED
          BY <2>6, <5>2
      <4>3. QED
        BY <4>1, <4>2
    <3>3. QED
      BY <2>7, <3>1, <3>2
  <2>11. s.torun \in [Worker -> Seq(Test \cup {SHUTDOWN})]
    BY <1>1 DEF Sched
  <2>12. /\ r \in Sched /\ r.torun = [s.torun EXCEPT ![w] = new] /\ Same(s, r)
         /\ r.queue = s.queue /\ r.assigned = s.assigned /\ r.active = s.active /\ r.next = s.next
    BY <1>1, <1>3, <2>5, <2>11 DEF Sched, Same
  <2> HIDE DEF r
  <2>13. TestsSent(ahead, r)
    BY <2>10, <2>11, <2>12 DEF Sound, TestsSent, Same, Held
  <2>14. Shape(r) /\ FilesPlaced(r)
    BY <2>12 DEF Sound, Shape, FilesPlaced, Same, Held, Open
  <2>15. From(ahead, s, r)
    BY <2>12, <2>13, <2>14 DEF From, Sound
  <2>16. QED
    BY <2>1, <2>15 DEF sent, tests
<1>4. QED
  BY <1>2, <1>3

LEMMA AssignKeeps ==
  ASSUME NEW ahead, NEW s, Sound(ahead, s), NEW w \in Worker, w \in ToSet(s.nodes),
         s.queue # <<>>
  PROVE  From(ahead, s, Assign(s, w))
<1> DEFINE f == Head(s.queue)
           given == Given(s, w)
<1>1. /\ From(ahead, s, given)
      /\ f \in TestFile /\ f \in Held(given, w)
      /\ given.torun = s.torun
      /\ \A i \in DOMAIN s.torun[w] : s.torun[w][i] # SHUTDOWN => FileOf[s.torun[w][i]] # f
      /\ \A t \in ahead[w] : FileOf[t] # f
  BY GiveKeeps
<1>2. Assign(s, w) = IF w \notin s.registered THEN [given EXCEPT !.raised = "KeyError"]
                     ELSE SendRuntest(given, w, InOrder(TestsOf(f) \ s.completed))
  BY DEF Assign, Given
<1> HIDE DEF f, given
<1>3. CASE w \in s.registered
  <2>1. given.completed = s.completed
    BY <1>1 DEF From, Same
  <2>2. From(ahead, given, SendRuntest(given, w, InOrder(TestsOf(f) \ given.completed)))
    BY <1>1, SendKeeps DEF From
  <2>3. Assign(s, w) = SendRuntest(given, w, InOrder(TestsOf(f) \ given.completed))
    BY <1>2, <1>3, <2>1
  <2>4. QED
    BY <1>1, <2>2, <2>3, FromFollows
<1>4. CASE w \notin s.registered
  <2>1. Sound(ahead, given)
    BY <1>1 DEF From
  <2>2. From(ahead, given, [given EXCEPT !.raised = "KeyError"])
    BY <2>1, RaisedKeeps
  <2>3. QED
    BY <1>1, <1>2, <1>4, <2>2, FromFollows
<1>5. QED
  BY <1>3, <1>4

LEMMA RescheduleKeeps ==
  ASSUME NEW ahead, NEW s, Sound(ahead, s), NEW w \in Worker, w \in ToSet(s.nodes)
  PROVE  From(ahead, s, Reschedule(s, w))
<1>1. From(ahead, s, s)
  BY FromItself
<1>2. From(ahead, s, Shutdown(s, w))
  BY ShutdownKeeps DEF Shutdown
<1>3. s.queue # <<>> => From(ahead, s, Assign(s, w))
  BY AssignKeeps
<1>4. QED
  BY <1>1, <1>2, <1>3 DEF Reschedule

RescheduleTurn(c, r, w) == Then(r, LAMBDA t : Reschedule(t, w))
RescheduleFrom(c, r, k) == From(c.ahead, c.s, r)
Rescheduling == INSTANCE Folding WITH Method <- RescheduleTurn, Keeps <- RescheduleFrom

LEMMA RescheduleAllKeeps ==
  ASSUME NEW ahead, NEW s, Sound(ahead, s)
  PROVE  From(ahead, s, InTurn(Reschedule, s, s.nodes))
<1> DEFINE c == [ahead |-> ahead, s |-> s]
<1>1. InTurn(Reschedule, s, s.nodes) = Rescheduling!Loop(c, s, s.nodes)
  BY DEF InTurn, Then, Rescheduling!Loop, RescheduleTurn, FoldLeft, Rescheduling!FoldLeft,
         MapThenFoldSet, Rescheduling!MapThenFoldSet, Max, Rescheduling!Max
<1>2. s.nodes \in Seq(Worker)
  BY DEF Sound, Shape, Sched
<1>3. RescheduleFrom(c, s, 0)
  BY FromItself DEF RescheduleFrom
<1>4. ASSUME NEW k \in 0 .. (Len(s.nodes) - 1), NEW r, RescheduleFrom(c, r, k)
      PROVE  RescheduleFrom(c, RescheduleTurn(c, r, s.nodes[k + 1]), k + 1)
  <2> DEFINE w == s.nodes[k + 1]
  <2>1. From(ahead, s, r)
    BY <1>4 DEF RescheduleFrom
  <2>2. w \in Worker /\ w \in ToSet(r.nodes)
    <3>1. k + 1 \in DOMAIN s.nodes
      BY <1>2
    <3>2. QED
      BY <1>2, <2>1, <3>1 DEF From, Same, ToSet
  <2>3. From(ahead, r, Reschedule(r, w))
    BY <2>1, <2>2, RescheduleKeeps DEF From
  <2>4. RescheduleTurn(c, r, w) = Reschedule(r, w)
    BY DEF RescheduleTurn, Then
  <2>5. QED
    BY <2>1, <2>3, <2>4, FromFollows DEF RescheduleFrom
<1>5. RescheduleFrom(c, Rescheduling!Loop(c, s, s.nodes), Len(s.nodes))
  BY <1>2, <1>3, <1>4, Rescheduling!LoopKeeps
<1>6. QED
  BY <1>1, <1>5 DEF RescheduleFrom

(* The next worker is the first spare that is still a node and not active. *)
LEMMA FillNextCases ==
  ASSUME NEW s \in Sched
  PROVE  \/ FillNext(s) = s
         \/ /\ s.next = None /\ FillNext(s) = [s EXCEPT !.standby = <<>>]
            /\ ToSet(s.standby) \cap ToSet(s.nodes) \subseteq {s.active}
         \/ /\ s.next = None
            /\ \E k \in DOMAIN s.standby :
                 /\ s.standby[k] # s.active /\ s.standby[k] \in ToSet(s.nodes)
                 /\ FillNext(s) = [s EXCEPT !.next = s.standby[k],
                                           !.standby = SubSeq(s.standby, k + 1, Len(s.standby))]
<1> DEFINE fit(w) == w # s.active /\ Contains(s.nodes, w)
           Good == {w \in Worker : fit(w)}
           k == SelectInSeq(s.standby, fit)
           rest == SubSeq(s.standby, k + 1, Len(s.standby))
<1>1. s.standby \in Seq(Worker) /\ s.nodes \in Seq(Worker)
  BY DEF Sched
<1> DEFINE I == {i \in 1 .. Len(s.standby) : s.standby[i] \in Good}
<1>2. k = IF I = {} THEN 0 ELSE Min(I)
  <2>1. I = {i \in 1 .. Len(s.standby) : fit(s.standby[i])}
    BY <1>1
  <2>2. QED
    BY <2>1 DEF SelectInSeq
<1> HIDE DEF Good, k
<1>3. k # 0 => k \in DOMAIN s.standby /\ s.standby[k] \in Good
  <2>1. Len(s.standby) \in Nat /\ DOMAIN s.standby = 1 .. Len(s.standby)
    BY <1>1
  <2>2. I # {} => Min(I) \in I
    BY <2>1, MinFacts, I \in SUBSET (1 .. Len(s.standby))
  <2>3. QED
    BY <1>2, <2>1, <2>2
<1>4. k = 0 => ToSet(s.standby) \cap ToSet(s.nodes) \subseteq {s.active}
  <2>1. Len(s.standby) \in Nat /\ DOMAIN s.standby = 1 .. Len(s.standby)
    BY <1>1
  <2>2. k = 0 => I = {}
    <3>1. I # {} => Min(I) \in I
      BY <2>1, MinFacts, I \in SUBSET (1 .. Len(s.standby))
    <3>2. 0 \notin I
      BY <2>1
    <3> HIDE DEF I
    <3>3. QED
      BY <1>2, <3>1, <3>2
  <2>3. ToSet(s.standby) \subseteq Worker
    BY <1>1, NonEmptyFacts
  <2>4. ASSUME k = 0, NEW w \in ToSet(s.standby), w \in ToSet(s.nodes)
        PROVE  w = s.active
    <3>1. w \in Worker /\ \E i \in 1 .. Len(s.standby) : s.standby[i] = w
      BY <2>1, <2>3, <2>4 DEF ToSet
    <3>2. w \notin Good
      BY <2>2, <2>4, <3>1
    <3>3. QED
      BY <1>1, <2>4, <3>1, <3>2, ContainsMeans DEF Good
  <2>5. QED
    BY <2>4
<1> HIDE DEF I
<1> USE DEF Good, k
<1>5. FillNext(s) = IF s.next # None THEN s
                    ELSE IF k = 0 THEN [s EXCEPT !.standby = <<>>]
                    ELSE [s EXCEPT !.next = s.standby[k], !.standby = rest]
  BY DEF FillNext
<1> HIDE DEF k
<1>6. k # 0 => s.standby[k] # s.active /\ s.standby[k] \in ToSet(s.nodes)
  BY <1>1, <1>3, ContainsMeans
<1>7. QED
  BY <1>3, <1>4, <1>5, <1>6

LEMMA FillNextKeeps ==
  ASSUME NEW ahead, NEW s, Sound(ahead, s)
  PROVE  From(ahead, s, FillNext(s))
<1>1. /\ s \in Sched /\ s.standby \in Seq(Worker)
      /\ {s.active, s.next} \subseteq ToSet(s.nodes) \cup {None}
  BY DEF Sound, Shape, Sched
<1>2. CASE s.next = None /\ FillNext(s) = [s EXCEPT !.standby = <<>>]
  <2> DEFINE r == [s EXCEPT !.standby = <<>>]
  <2>1. /\ r \in Sched /\ Same(s, r) /\ r.queue = s.queue /\ r.assigned = s.assigned
        /\ r.torun = s.torun /\ r.active = s.active /\ r.next = s.next
    BY <1>1, <<>> \in Seq(Worker) DEF Sched, Same
  <2>2. QED
    BY <1>1, <1>2, <2>1, BookkeepingKeeps
<1>3. ASSUME NEW k \in DOMAIN s.standby, s.standby[k] \in ToSet(s.nodes),
             FillNext(s) = [s EXCEPT !.next = s.standby[k],
                                     !.standby = SubSeq(s.standby, k + 1, Len(s.standby))]
      PROVE  From(ahead, s, FillNext(s))
  <2> DEFINE rest == SubSeq(s.standby, k + 1, Len(s.standby))
             r == [s EXCEPT !.next = s.standby[k], !.standby = rest]
  <2>1. s.standby[k] \in Worker /\ rest \in Seq(Worker)
    BY <1>1
  <2> HIDE DEF rest
  <2>2. /\ r \in Sched /\ Same(s, r) /\ r.queue = s.queue /\ r.assigned = s.assigned
        /\ r.torun = s.torun /\ r.active = s.active /\ r.next = s.standby[k]
    BY <1>1, <2>1 DEF Sched, Same
  <2>3. FillNext(s) = r
    BY <1>3 DEF rest
  <2> HIDE DEF r
  <2>4. QED
    BY <1>1, <1>3, <2>2, <2>3, BookkeepingKeeps
<1>4. CASE FillNext(s) = s
  BY <1>4, FromItself
<1>5. QED
  <2>1. CASE ~(FillNext(s) = s \/ (s.next = None /\ FillNext(s) = [s EXCEPT !.standby = <<>>]))
    <3>1. PICK k \in DOMAIN s.standby :
            /\ s.standby[k] \in ToSet(s.nodes)
            /\ FillNext(s) = [s EXCEPT !.next = s.standby[k],
                                      !.standby = SubSeq(s.standby, k + 1, Len(s.standby))]
      BY <1>1, <2>1, FillNextCases, Zenon
    <3>2. QED
      BY <1>3, <3>1
  <2>2. QED
    BY <1>2, <1>4, <2>1

LEMMA PromoteKeeps ==
  ASSUME NEW ahead, NEW s, Sound(ahead, s)
  PROVE  From(ahead, s, Promote(s))
<1> DEFINE f == FillNext(s)
           r == [f EXCEPT !.active = f.next, !.next = None, !.waiting = None]
<1>1. Promote(s) = IF s.active # None THEN s ELSE IF f.next = None THEN f ELSE r
  BY DEF Promote, Then
<1>2. From(ahead, s, f)
  BY FillNextKeeps
<1>3. f \in Sched /\ {f.active, f.next} \subseteq ToSet(f.nodes) \cup {None} /\ Sound(ahead, f)
  BY <1>2 DEF From, Sound, Shape
<1> HIDE DEF f
<1>4. From(ahead, f, r)
  BY <1>3, BookkeepingKeeps DEF Sched, Same
<1> HIDE DEF r
<1>5. QED
  BY <1>1, <1>2, <1>4, FromItself, FromFollows

LEMMA UpdateCloneKeeps ==
  ASSUME NEW ahead, NEW s, Sound(ahead, s)
  PROVE  From(ahead, s, UpdateClone(s))
<1>1. s \in Sched /\ {s.active, s.next} \subseteq ToSet(s.nodes) \cup {None}
  BY DEF Sound, Shape
<1>2. CASE s.active = None \/ s.active \notin s.current
  BY <1>2, FromItself DEF UpdateClone
<1>3. CASE ~(s.active = None \/ s.active \notin s.current)
  <2>1. \A C \in SUBSET Worker : From(ahead, s, [s EXCEPT !.clones = C])
    BY <1>1, BookkeepingKeeps DEF Sched, Same
  <2>2. s.clones \cup {s.active} \in SUBSET Worker /\ s.clones \ {s.active} \in SUBSET Worker
    BY <1>1, <1>3 DEF Sched
  <2>3. QED
    BY <1>3, <2>1, <2>2 DEF UpdateClone
<1>4. QED
  BY <1>2, <1>3

LEMMA ShutdownUnneededKeeps ==
  ASSUME NEW ahead, NEW s, Sound(ahead, s)
  PROVE  From(ahead, s, ShutdownUnneeded(s))
<1> DEFINE idle == ({s.next, s.active} \cup ToSet(s.standby)) \ {None}
           down == RequestShutdown(s, idle)
           quiet == [down EXCEPT !.next = None, !.standby = <<>>]
<1>1. ShutdownUnneeded(s) = IF s.queue # <<>> THEN s ELSE UpdateClone(quiet)
  BY DEF ShutdownUnneeded, Then
<1>2. idle \in SUBSET Worker
  BY NonEmptyFacts DEF Sound, Shape, Sched
<1>3. From(ahead, s, down)
  BY <1>2, ShutdownKeeps DEF RequestShutdown
<1> HIDE DEF idle, down
<1>4. down \in Sched /\ {down.active, down.next} \subseteq ToSet(down.nodes) \cup {None} /\ Sound(ahead, down)
  BY <1>3 DEF From, Sound, Shape
<1>5. From(ahead, down, quiet)
  BY <1>4, BookkeepingKeeps, <<>> \in Seq(Worker) DEF Sched, Same
<1> HIDE DEF quiet
<1>6. From(ahead, quiet, UpdateClone(quiet))
  BY <1>5, UpdateCloneKeeps DEF From
<1>7. QED
  BY <1>1, <1>3, <1>5, <1>6, FromItself, FromFollows

LEMMA StartActiveKeeps ==
  ASSUME NEW ahead, NEW s, Sound(ahead, s), s.active # None, s.queue # <<>>
  PROVE  From(ahead, s, StartActive(s))
<1> DEFINE a == Assign(s, s.active)
           given == [a EXCEPT !.current = @ \cup {s.active}]
           told == RequestShutdown(given, {s.active})
           filled == FillNext(told)
           eased == ShutdownUnneeded(filled)
<1>1. StartActive(s) = UpdateClone(eased)
  BY DEF StartActive, Then
<1>2. s.active \in Worker /\ s.active \in ToSet(s.nodes)
  BY DEF Sound, Shape, Sched
<1>3. From(ahead, s, a)
  BY <1>2, AssignKeeps
<1> HIDE DEF a
<1>4. a \in Sched /\ {a.active, a.next} \subseteq ToSet(a.nodes) \cup {None} /\ Sound(ahead, a)
  BY <1>3 DEF From, Sound, Shape
<1>5. From(ahead, a, given)
  BY <1>2, <1>4, BookkeepingKeeps DEF Sched, Same
<1> HIDE DEF given
<1>6. From(ahead, given, told)
  BY <1>2, <1>5, ShutdownKeeps DEF RequestShutdown, From
<1> HIDE DEF told
<1>7. From(ahead, told, filled)
  BY <1>6, FillNextKeeps DEF From
<1> HIDE DEF filled
<1>8. From(ahead, filled, eased)
  BY <1>7, ShutdownUnneededKeeps DEF From
<1> HIDE DEF eased
<1>9. From(ahead, eased, UpdateClone(eased))
  BY <1>8, UpdateCloneKeeps DEF From
<1>10. QED
  BY <1>1, <1>3, <1>5, <1>6, <1>7, <1>8, <1>9, FromFollows

LEMMA MaybeStartKeeps ==
  ASSUME NEW ahead, NEW s, Sound(ahead, s)
  PROVE  From(ahead, s, MaybeStart(s))
<1> DEFINE p == Promote(s)
<1>1. MaybeStart(s) =
        IF ~s.collected THEN s
        ELSE IF p.active = None THEN p
        ELSE IF p.active \notin p.registered THEN [p EXCEPT !.waiting = p.active]
        ELSE IF p.active \in p.current THEN p
        ELSE IF p.queue = <<>> THEN ShutdownUnneeded(p)
        ELSE StartActive(p)
  BY DEF MaybeStart, Then
<1>2. From(ahead, s, p)
  BY PromoteKeeps
<1> HIDE DEF p
<1>3. p \in Sched /\ {p.active, p.next} \subseteq ToSet(p.nodes) \cup {None} /\ Sound(ahead, p)
  BY <1>2 DEF From, Sound, Shape
<1>4. From(ahead, p, [p EXCEPT !.waiting = p.active])
  BY <1>3, BookkeepingKeeps DEF Sched, Same
<1>5. From(ahead, p, ShutdownUnneeded(p))
  BY <1>3, ShutdownUnneededKeeps
<1>6. p.active # None /\ p.queue # <<>> => From(ahead, p, StartActive(p))
  BY <1>3, StartActiveKeeps
<1>7. QED
  BY <1>1, <1>2, <1>4, <1>5, <1>6, FromItself, FromFollows
------------------------------------------------------------------------------
(***************************************************************************)
(* The methods the event loop calls: what they do to the books, followed   *)
(* by what they decide with the methods above.                             *)
(***************************************************************************)
NodeAdded(s, w) == [s EXCEPT !.nodes = Append(@, w), !.assigned[w] = <<>>]

LEMMA NodeAddedSound ==
  ASSUME NEW ahead, NEW s, Sound(ahead, s), NEW w \in Worker, w \notin ToSet(s.nodes)
  PROVE  LET n == NodeAdded(s, w)
         IN  /\ Sound(ahead, n) /\ n \in Sched /\ n.nodes = Append(s.nodes, w)
             /\ n.active = s.active /\ n.next = s.next /\ n.standby = s.standby
             /\ n.current = s.current /\ n.assigned = s.assigned /\ n.queue = s.queue
             /\ n.torun = s.torun /\ n.completed = s.completed /\ n.collected = s.collected
<1> DEFINE n == NodeAdded(s, w)
<1>1. s \in Sched /\ s.nodes \in Seq(Worker) /\ s.assigned \in [Worker -> Seq(TestFile)]
  BY DEF Sound, Shape, Sched
<1>2. s.assigned[w] = <<>>
  <2>1. Held(s, w) = {}
    BY DEF Sound, FilesPlaced
  <2>2. s.assigned[w] \in Seq(TestFile)
    BY <1>1
  <2>3. QED
    BY <2>1, <2>2, NonEmptyFacts DEF Held
<1>3. [s.assigned EXCEPT ![w] = <<>>] = s.assigned
  BY <1>1, <1>2
<1>4. /\ Append(s.nodes, w) \in Seq(Worker) /\ Distinct(Append(s.nodes, w))
      /\ ToSet(Append(s.nodes, w)) = ToSet(s.nodes) \cup {w}
  BY <1>1, AppendFacts DEF Sound, Shape
<1>5. n = [s EXCEPT !.nodes = Append(s.nodes, w), !.assigned = s.assigned]
  BY <1>1, <1>3 DEF NodeAdded, Sched
<1>6. n \in Sched
  BY <1>1, <1>4, <1>5 DEF Sched
<1>7. /\ n.nodes = Append(s.nodes, w) /\ n.assigned = s.assigned /\ n.queue = s.queue
      /\ n.torun = s.torun /\ n.completed = s.completed /\ n.collected = s.collected
      /\ n.active = s.active /\ n.next = s.next /\ n.standby = s.standby
      /\ n.current = s.current
  BY <1>1, <1>5 DEF Sched
<1> HIDE DEF n
<1>8. Sound(ahead, n)
  <2>1. Shape(n)
    BY <1>4, <1>6, <1>7 DEF Sound, Shape
  <2>2. FilesPlaced(n)
    BY <1>4, <1>7 DEF Sound, FilesPlaced, Held, Open
  <2>3. TestsSent(ahead, n)
    BY <1>7 DEF Sound, TestsSent, Held
  <2>4. QED
    BY <2>1, <2>2, <2>3 DEF Sound
<1>9. QED
  BY <1>6, <1>7, <1>8 DEF n

LEMMA AddNodeKeeps ==
  ASSUME NEW ahead, NEW s, Sound(ahead, s), NEW w \in Worker, w \notin ToSet(s.nodes)
  PROVE  From(ahead, NodeAdded(s, w), AddNode(s, w))
<1> DEFINE n == NodeAdded(s, w)
           spare == IF s.next = None THEN [n EXCEPT !.next = w]
                    ELSE [n EXCEPT !.standby = Append(@, w)]
           act == [n EXCEPT !.active = w, !.waiting = None]
<1>1. AddNode(s, w) = IF s.active = None THEN MaybeStart(act) ELSE UpdateClone(FillNext(spare))
  BY DEF AddNode, NodeAdded, Then
<1>2. s.nodes \in Seq(Worker)
  BY DEF Sound, Shape, Sched
<1>3. ToSet(Append(s.nodes, w)) = ToSet(s.nodes) \cup {w}
  BY <1>2, AppendFacts
<1>4. Sound(ahead, n) /\ n \in Sched /\ n.nodes = Append(s.nodes, w)
  BY NodeAddedSound
<1> HIDE DEF n
<1>5. From(ahead, n, act)
  <2>1. act \in Sched /\ Same(n, act) /\ act.queue = n.queue /\ act.assigned = n.assigned
        /\ act.torun = n.torun /\ act.active = w /\ act.next = n.next
    BY <1>4 DEF Sched, Same
  <2> HIDE DEF act
  <2>2. QED
    BY <1>3, <1>4, <2>1, BookkeepingKeeps DEF Sound, Shape
<1>6. From(ahead, n, spare)
  <2>1. n.standby \in Seq(Worker) /\ Append(n.standby, w) \in Seq(Worker)
    BY <1>4, AppendFacts DEF Sched
  <2>2. /\ spare \in Sched /\ Same(n, spare) /\ spare.queue = n.queue
        /\ spare.assigned = n.assigned /\ spare.torun = n.torun /\ spare.active = n.active
        /\ spare.next \in {n.next, w}
    BY <1>4, <2>1 DEF Sched, Same
  <2> HIDE DEF spare
  <2>3. QED
    BY <1>3, <1>4, <2>2, BookkeepingKeeps DEF Sound, Shape
<1> HIDE DEF act, spare
<1>7. From(ahead, act, MaybeStart(act))
  BY <1>5, MaybeStartKeeps DEF From
<1>8. From(ahead, spare, FillNext(spare))
  BY <1>6, FillNextKeeps DEF From
<1>9. From(ahead, FillNext(spare), UpdateClone(FillNext(spare)))
  BY <1>8, UpdateCloneKeeps DEF From
<1>10. QED
  BY <1>1, <1>5, <1>6, <1>7, <1>8, <1>9, FromFollows DEF n

CollectionAdded(s, w) == [s EXCEPT !.registered = @ \cup {w}]

LEMMA AddNodeCollectionKeeps ==
  ASSUME NEW ahead, NEW s, Sound(ahead, s), NEW w \in Worker
  PROVE  LET r == AddNodeCollection(s, w)
         IN  \/ r.raised # None /\ From(ahead, s, r)
             \/ From(ahead, CollectionAdded(s, w), r)
<1> DEFINE r == CollectionAdded(s, w)
           heard == [r EXCEPT !.waiting = None]
           failed == [s EXCEPT !.raised = "AssertionError"]
<1>1. AddNodeCollection(s, w) =
        IF Refused(s, w) THEN failed
        ELSE IF w = s.waiting THEN MaybeStart(heard)
        ELSE IF w = s.next THEN UpdateClone(r)
        ELSE r
  BY DEF AddNodeCollection, CollectionAdded, Then
<1>2. s \in Sched
  BY DEF Sound, Shape
<1>3. failed.raised # None /\ From(ahead, s, failed)
  <2>1. failed.raised # None
    BY <1>2, NoTestTwice DEF Sched
  <2>2. From(ahead, s, failed)
    BY RaisedKeeps DEF failed
  <2>3. QED
    BY <2>1, <2>2
<1>4. /\ r \in Sched /\ r.nodes = s.nodes /\ r.assigned = s.assigned /\ r.queue = s.queue
      /\ r.torun = s.torun /\ r.completed = s.completed /\ r.collected = s.collected
      /\ r.active = s.active /\ r.next = s.next
  BY <1>2 DEF Sched, CollectionAdded
<1> HIDE DEF r
<1>5. Sound(ahead, r)
  <2>1. Shape(r)
    BY <1>4 DEF Sound, Shape
  <2>2. FilesPlaced(r)
    BY <1>4 DEF Sound, FilesPlaced, Held, Open
  <2>3. TestsSent(ahead, r)
    BY <1>4 DEF Sound, TestsSent, Held
  <2>4. QED
    BY <2>1, <2>2, <2>3 DEF Sound
<1>6. From(ahead, r, heard)
  <2>1. heard \in Sched /\ Same(r, heard) /\ heard.queue = r.queue
        /\ heard.assigned = r.assigned /\ heard.torun = r.torun
        /\ heard.active = r.active /\ heard.next = r.next
    BY <1>4 DEF Sched, Same
  <2> HIDE DEF heard
  <2>2. QED
    BY <1>5, <2>1, BookkeepingKeeps DEF Sound, Shape
<1> HIDE DEF heard, failed
<1>7. From(ahead, heard, MaybeStart(heard))
  BY <1>6, MaybeStartKeeps DEF From
<1>8. From(ahead, r, UpdateClone(r))
  BY <1>5, UpdateCloneKeeps
<1>9. QED
  BY <1>1, <1>3, <1>5, <1>6, <1>7, <1>8, FromItself, FromFollows DEF r

Scheduled(s) ==
  IF s.collected THEN s ELSE [s EXCEPT !.collected = TRUE, !.queue = FilesInOrder]

LEMMA ScheduledSound ==
  ASSUME NEW ahead, NEW s, Sound(ahead, s)
  PROVE  Sound(ahead, Scheduled(s))
<1> DEFINE c == [s EXCEPT !.collected = TRUE, !.queue = FilesInOrder]
<1>1. s \in Sched
  BY DEF Sound, Shape
<1>2. CASE s.collected
  BY <1>2 DEF Scheduled
<1>3. CASE ~s.collected
  <2>1. /\ c \in Sched /\ c.queue = FilesInOrder /\ c.collected /\ c.nodes = s.nodes
        /\ c.assigned = s.assigned /\ c.torun = s.torun /\ c.completed = s.completed
        /\ c.active = s.active /\ c.next = s.next
    BY <1>1, FilesInOrderFacts DEF Sched
  <2> HIDE DEF c
  <2>2. s.completed = {} /\ \A f \in TestFile : ~Open(s, f)
    BY <1>3 DEF Sound, Shape, Open
  <2>3. \A w \in Worker : Held(s, w) = {}
    <3> TAKE w \in Worker
    <3>1. Held(s, w) \subseteq TestFile
      BY <1>1, NonEmptyFacts DEF Sched, Held
    <3>2. QED
      BY <2>2, <3>1 DEF Sound, FilesPlaced
  <2>4. \A f \in TestFile : Open(c, f)
    <3> TAKE f \in TestFile
    <3>1. TestsOf(f) # {}
      BY DEF TestFile, TestsOf
    <3>2. QED
      BY <2>1, <2>2, <3>1 DEF Open
  <2>5. FilesPlaced(c)
    BY <2>1, <2>3, <2>4, FilesInOrderFacts DEF Sound, FilesPlaced, Held
  <2>6. TestsSent(ahead, c)
    BY <2>1 DEF Sound, TestsSent, Held
  <2>7. Sound(ahead, c)
    BY <2>1, <2>5, <2>6 DEF Sound, Shape
  <2>8. QED
    BY <1>3, <2>7 DEF Scheduled, c
<1>4. QED
  BY <1>2, <1>3

LEMMA ScheduleKeeps ==
  ASSUME NEW ahead, NEW s, Sound(ahead, s)
  PROVE  From(ahead, Scheduled(s), Schedule(s))
<1> DEFINE c == Scheduled(s)
<1>1. Schedule(s) = IF s.collected THEN MaybeStart(c)
                    ELSE IF Collection = <<>> THEN ShutdownUnneeded(c)
                    ELSE MaybeStart(Promote(c))
  BY DEF Schedule, Scheduled, Then
<1>2. Sound(ahead, c)
  BY ScheduledSound
<1> HIDE DEF c
<1>3. From(ahead, c, ShutdownUnneeded(c)) /\ From(ahead, c, Promote(c))
  BY <1>2, ShutdownUnneededKeeps, PromoteKeeps
<1>4. From(ahead, c, MaybeStart(c)) /\ From(ahead, Promote(c), MaybeStart(Promote(c)))
  BY <1>2, <1>3, MaybeStartKeeps DEF From
<1>5. QED
  BY <1>1, <1>3, <1>4, FromFollows DEF c

(* A worker with no test pending holds no file, and has none in front of it. *)
LEMMA NothingPending ==
  ASSUME NEW ahead, NEW s, Sound(ahead, s), NEW w \in Worker, Pending(s, w) = {}
  PROVE  /\ s.assigned[w] = <<>> /\ Held(s, w) = {} /\ ahead[w] = {}
         /\ \A i \in DOMAIN s.torun[w] : s.torun[w][i] = SHUTDOWN
<1>1. s.assigned[w] \in Seq(TestFile)
  BY DEF Sound, Shape, Sched
<1>2. ASSUME NEW f \in Held(s, w) PROVE FALSE
  <2>1. f \in TestFile
    BY <1>1, NonEmptyFacts DEF Held
  <2>2. Open(s, f)
    BY <2>1 DEF Sound, FilesPlaced
  <2>3. PICK t \in Test : FileOf[t] = f /\ t \notin s.completed
    BY <2>2 DEF Open, TestsOf
  <2>4. Contains(s.assigned[w], f)
    BY <1>1, ContainsMeans DEF Held
  <2>5. QED
    BY <2>3, <2>4 DEF Pending
<1>3. Held(s, w) = {}
  BY <1>2
<1>4. QED
  BY <1>1, <1>3, NonEmptyFacts DEF Held, Sound, TestsSent

WorkReturned(s, w) ==
  [s EXCEPT !.nodes = RemoveFirst(s.nodes, w), !.assigned = [s.assigned EXCEPT ![w] = <<>>],
            !.queue = s.queue \o s.assigned[w]]

(* What a dead worker held goes back to the queue. *)
LEMMA ReturnKeeps ==
  ASSUME NEW ahead, NEW s, Sound(ahead, s), NEW w \in Worker, w \in ToSet(s.nodes),
         w \notin {s.active, s.next}, ahead[w] = {},
         \A i \in DOMAIN s.torun[w] : s.torun[w][i] = SHUTDOWN
  PROVE  Sound(ahead, WorkReturned(s, w))
<1> DEFINE r == WorkReturned(s, w)
<1>1. /\ s \in Sched /\ s.nodes \in Seq(Worker) /\ s.queue \in Seq(TestFile)
      /\ s.assigned \in [Worker -> Seq(TestFile)] /\ s.assigned[w] \in Seq(TestFile)
  BY DEF Sound, Shape, Sched
<1>2. /\ RemoveFirst(s.nodes, w) \in Seq(Worker) /\ Distinct(RemoveFirst(s.nodes, w))
      /\ ToSet(RemoveFirst(s.nodes, w)) = ToSet(s.nodes) \ {w}
  BY <1>1, RemoveFirstFacts DEF Sound, Shape
<1>3. /\ s.queue \o s.assigned[w] \in Seq(TestFile) /\ Distinct(s.queue \o s.assigned[w])
      /\ ToSet(s.queue \o s.assigned[w]) = ToSet(s.queue) \cup Held(s, w)
  BY <1>1, ConcatFacts DEF Sound, FilesPlaced, Held
<1>4. /\ r \in Sched /\ r.nodes = RemoveFirst(s.nodes, w) /\ r.queue = s.queue \o s.assigned[w]
      /\ r.assigned = [s.assigned EXCEPT ![w] = <<>>] /\ r.torun = s.torun
      /\ r.completed = s.completed /\ r.collected = s.collected
      /\ r.active = s.active /\ r.next = s.next
  BY <1>1, <1>2, <1>3, <<>> \in Seq(TestFile) DEF WorkReturned, Sched
<1> HIDE DEF r
<1>5. \A v \in Worker : /\ Held(r, v) = IF v = w THEN {} ELSE Held(s, v)
                        /\ Distinct(r.assigned[v])
  BY <1>1, <1>4, EmptyFacts DEF Held, Sound, FilesPlaced
<1>6. FilesPlaced(r)
  <2>1. \A v \in Worker : /\ Held(r, v) \cap ToSet(r.queue) = {}
                          /\ Held(r, v) # {} => v \in ToSet(r.nodes)
    BY <1>2, <1>3, <1>4, <1>5 DEF Sound, FilesPlaced
  <2>2. \A u, v \in Worker : u # v => Held(r, u) \cap Held(r, v) = {}
    BY <1>5 DEF Sound, FilesPlaced
  <2>3. \A f \in TestFile : Open(r, f) <=>
          f \in ToSet(r.queue) \/ \E v \in Worker : f \in Held(r, v)
    BY <1>3, <1>4, <1>5 DEF Sound, FilesPlaced, Open
  <2>4. QED
    BY <1>3, <1>4, <1>5, <2>1, <2>2, <2>3 DEF FilesPlaced
<1>7. TestsSent(ahead, r)
  BY <1>4, <1>5 DEF Sound, TestsSent
<1>8. Shape(r)
  BY <1>2, <1>4 DEF Sound, Shape
<1>9. QED
  BY <1>6, <1>7, <1>8 DEF Sound, r

Left(s, w) == IF w \in ToSet(s.nodes) THEN WorkReturned(s, w) ELSE s

(* RemoveNode: the worker leaves every place, then the nodes, then it is   *)
(* replaced.                                                               *)
Unless(w, x) == IF x = w THEN None ELSE x
Without(s, w) ==
  [s EXCEPT !.active = Unless(w, s.active), !.next = Unless(w, s.next),
            !.waiting = Unless(w, s.waiting), !.current = s.current \ {w},
            !.standby = RemoveFirst(s.standby, w)]
Replaced(s, w, r) ==
  IF w = s.active THEN MaybeStart(Promote(r))
  ELSE IF w = s.next THEN UpdateClone(FillNext(r))
  ELSE r
Cloned(s, w, r) == [Replaced(s, w, r) EXCEPT !.clones = @ \cup (s.clones \cap {w})]

LEMMA RemoveNodeMeans ==
  ASSUME NEW s \in Sched, NEW w
  PROVE  LET r == LeaveNodes(Without(s, w), w)
         IN  RemoveNode(s, w) = IF ~Contains(s.nodes, w) THEN Without(s, w)
                                ELSE IF r.raised # None THEN r ELSE Cloned(s, w, r)
<1> DEFINE un(x) == IF x = w THEN None ELSE x
           s1 == [s EXCEPT !.active = un(@), !.next = un(@), !.waiting = un(@),
                           !.current = @ \ {w}, !.standby = RemoveFirst(@, w)]
           rep(x) ==
             IF w = s.active THEN CHOOSE y \in {MaybeStart(t) : t \in {Promote(x)}} : TRUE
             ELSE IF w = s.next THEN CHOOSE y \in {UpdateClone(t) : t \in {FillNext(x)}} : TRUE
             ELSE x
           aft(x) == IF x.raised # None THEN x
                     ELSE [rep(x) EXCEPT !.clones = @ \cup (s.clones \cap {w})]
           lft == CHOOSE y \in {LeaveNodes(t, w) : t \in {s1}} : TRUE
           r == LeaveNodes(Without(s, w), w)
<1>1. RemoveNode(s, w) = IF ~Contains(s.nodes, w) THEN s1
                         ELSE CHOOSE y \in {aft(t) : t \in {lft}} : TRUE
  BY DEF RemoveNode, Then
<1>2. s1 = Without(s, w)
  BY DEF Without, Unless
<1> HIDE DEF aft
<1>3. lft = r
  <2> HIDE DEF s1
  <2>1. QED
    BY <1>2
<1> HIDE DEF lft, r
<1>4. (CHOOSE y \in {aft(t) : t \in {lft}} : TRUE) = aft(r)
  BY <1>3
<1>5. rep(r) = Replaced(s, w, r)
  BY DEF Replaced
<1> HIDE DEF rep
<1>6. aft(r) = IF r.raised # None THEN r ELSE Cloned(s, w, r)
  BY <1>5 DEF aft, Cloned
<1> HIDE DEF s1
<1>7. QED
  BY <1>1, <1>2, <1>4, <1>6 DEF r

LEMMA WithoutKeeps ==
  ASSUME NEW ahead, NEW s, Sound(ahead, s), NEW w \in Worker
  PROVE  LET r == Without(s, w)
         IN  /\ From(ahead, s, r) /\ w \notin {r.active, r.next}
             /\ r.assigned = s.assigned /\ r.torun = s.torun /\ r.queue = s.queue
<1> DEFINE r == Without(s, w)
<1>1. /\ s \in Sched /\ s.standby \in Seq(Worker)
      /\ {s.active, s.next} \subseteq ToSet(s.nodes) \cup {None}
  BY DEF Sound, Shape, Sched
<1>2. /\ Unless(w, s.active) \in (Worker \cup {None}) \ {w}
      /\ Unless(w, s.next) \in (Worker \cup {None}) \ {w}
      /\ Unless(w, s.waiting) \in Worker \cup {None}
      /\ {Unless(w, s.active), Unless(w, s.next)} \subseteq ToSet(s.nodes) \cup {None}
  BY <1>1, WorkerNumbers DEF Sched, Unless
<1>3. RemoveFirst(s.standby, w) \in Seq(Worker)
  BY <1>1, RemoveFirstFacts
<1>4. /\ r \in Sched /\ Same(s, r) /\ r.queue = s.queue /\ r.assigned = s.assigned
      /\ r.torun = s.torun /\ r.active = Unless(w, s.active) /\ r.next = Unless(w, s.next)
  BY <1>1, <1>2, <1>3 DEF Sched, Same, Without
<1> HIDE DEF r
<1>5. From(ahead, s, r)
  BY <1>2, <1>4, BookkeepingKeeps
<1>6. QED
  BY <1>2, <1>4, <1>5 DEF r

LEMMA LeaveNodesKeeps ==
  ASSUME NEW ahead, NEW s, Sound(ahead, s), NEW w \in Worker, w \in ToSet(s.nodes),
         w \notin {s.active, s.next}, ahead[w] = {},
         \A i \in DOMAIN s.torun[w] : s.torun[w][i] = SHUTDOWN
  PROVE  From(ahead, WorkReturned(s, w), LeaveNodes(s, w))
<1> DEFINE b == WorkReturned(s, w)
           gone == [s EXCEPT !.nodes = RemoveFirst(@, w), !.assigned[w] = <<>>]
           back == [gone EXCEPT !.queue = @ \o s.assigned[w]]
<1>1. s \in Sched /\ s.queue \in Seq(TestFile)
  BY DEF Sound, Shape, Sched
<1>2. Sound(ahead, b)
  BY ReturnKeeps
<1>3. LeaveNodes(s, w) = IF Pending(s, w) = {} THEN gone ELSE InTurn(Reschedule, back, back.nodes)
  BY DEF LeaveNodes
<1>4. back = b
  BY <1>1 DEF WorkReturned, Sched
<1>5. Pending(s, w) = {} => gone = b
  <2>1. Pending(s, w) = {} => s.assigned[w] = <<>>
    BY NothingPending
  <2>2. s.queue \o <<>> = s.queue
    BY <1>1
  <2>3. gone = [s EXCEPT !.nodes = RemoveFirst(s.nodes, w),
                         !.assigned = [s.assigned EXCEPT ![w] = <<>>], !.queue = s.queue]
    BY <1>1 DEF Sched
  <2>4. QED
    BY <2>1, <2>2, <2>3 DEF WorkReturned
<1> HIDE DEF b, gone, back
<1>6. From(ahead, b, InTurn(Reschedule, b, b.nodes)) /\ From(ahead, b, b)
  BY <1>2, RescheduleAllKeeps, FromItself
<1>7. QED
  BY <1>3, <1>4, <1>5, <1>6 DEF b

LEMMA RemoveNodeKeeps ==
  ASSUME NEW ahead, NEW s, Sound(ahead, s), NEW w \in Worker,
         \/ Pending(s, w) = {}
         \/ ahead[w] = {} /\ \A i \in DOMAIN s.torun[w] : s.torun[w][i] = SHUTDOWN
  PROVE  From(ahead, Left(s, w), RemoveNode(s, w))
<1> DEFINE s1 == Without(s, w)
           b == WorkReturned(s1, w)
           r == LeaveNodes(s1, w)
           replaced == Replaced(s, w, r)
           cloned == Cloned(s, w, r)
<1>1. s \in Sched /\ s.nodes \in Seq(Worker)
  BY DEF Sound, Shape, Sched
<1>2. RemoveNode(s, w) = IF ~Contains(s.nodes, w) THEN s1
                         ELSE IF r.raised # None THEN r ELSE cloned
  BY <1>1, RemoveNodeMeans
<1>3. ahead[w] = {} /\ \A i \in DOMAIN s.torun[w] : s.torun[w][i] = SHUTDOWN
  BY NothingPending
<1>4. /\ From(ahead, s, s1) /\ w \notin {s1.active, s1.next}
      /\ s1.assigned = s.assigned /\ s1.torun = s.torun /\ s1.queue = s.queue
  BY WithoutKeeps
<1>5. s1 \in Sched /\ Sound(ahead, s1) /\ Same(s, s1)
  BY <1>4 DEF From, Sound, Shape
<1>6. Contains(s.nodes, w) <=> w \in ToSet(s.nodes)
  BY <1>1, ContainsMeans
<1>7. CASE w \notin ToSet(s.nodes)
  BY <1>2, <1>4, <1>6, <1>7 DEF Left
<1>8. CASE w \in ToSet(s.nodes)
  <2> HIDE DEF s1
  <2>1. From(ahead, b, r)
    BY <1>3, <1>4, <1>5, <1>8, LeaveNodesKeeps DEF Same
  <2>2. Same(WorkReturned(s, w), b)
    BY <1>1, <1>4, <1>5 DEF Same, WorkReturned, Sched
  <2> HIDE DEF b, r
  <2>3. From(ahead, r, r) /\ From(ahead, r, Promote(r)) /\ From(ahead, r, FillNext(r))
    BY <2>1, FromItself, PromoteKeeps, FillNextKeeps DEF From
  <2>4. /\ From(ahead, Promote(r), MaybeStart(Promote(r)))
        /\ From(ahead, FillNext(r), UpdateClone(FillNext(r)))
    BY <2>3, MaybeStartKeeps, UpdateCloneKeeps DEF From
  <2>5. From(ahead, r, replaced)
    BY <2>3, <2>4, FromFollows DEF Replaced
  <2>6. From(ahead, replaced, cloned)
    <3>1. replaced \in Sched /\ Sound(ahead, replaced)
      BY <2>5 DEF From, Sound, Shape
    <3>2. replaced.clones \cup (s.clones \cap {w}) \in SUBSET Worker
      BY <1>1, <3>1 DEF Sched
    <3>3. cloned = [replaced EXCEPT !.clones = @ \cup (s.clones \cap {w})]
      BY DEF Cloned
    <3> HIDE DEF replaced, cloned
    <3>4. /\ cloned \in Sched /\ Same(replaced, cloned) /\ cloned.queue = replaced.queue
          /\ cloned.assigned = replaced.assigned /\ cloned.torun = replaced.torun
          /\ cloned.active = replaced.active /\ cloned.next = replaced.next
      BY <3>1, <3>2, <3>3 DEF Sched, Same
    <3>5. QED
      BY <3>1, <3>4, BookkeepingKeeps DEF Sound, Shape
  <2> HIDE DEF replaced, cloned
  <2>7. From(ahead, b, RemoveNode(s, w))
    BY <1>2, <1>6, <1>8, <2>1, <2>5, <2>6, FromFollows
  <2>8. QED
    BY <1>8, <2>2, <2>7 DEF Left, From, Same
<1>9. QED
  BY <1>7, <1>8

Through(s, t) == TestsOf(FileOf[t]) \subseteq s.completed \cup {t}

Marked(s, w, t) ==
  [s EXCEPT !.completed = s.completed \cup {t},
            !.assigned = IF Through(s, t)
                         THEN [s.assigned EXCEPT ![w] = RemoveFirst(s.assigned[w], FileOf[t])]
                         ELSE s.assigned]

(* A completion that arrives is of a test the worker had in front of it. *)
LEMMA MarkedKeeps ==
  ASSUME NEW ahead, NEW left, NEW s, Sound(ahead, s), NEW w \in Worker, NEW t \in ahead[w],
         \A v \in Worker : left[v] = IF v = w THEN ahead[w] \ {t} ELSE ahead[v]
  PROVE  Sound(left, Marked(s, w, t))
<1> DEFINE f == FileOf[t]
           m == Marked(s, w, t)
           taken == RemoveFirst(s.assigned[w], f)
<1>1. /\ s \in Sched /\ s.assigned \in [Worker -> Seq(TestFile)]
      /\ s.assigned[w] \in Seq(TestFile) /\ s.torun[w] \in Seq(Test \cup {SHUTDOWN})
  BY DEF Sound, Shape, Sched
<1>2. t \in Test /\ t \notin s.completed /\ f \in Held(s, w) /\ f \in TestFile
  BY DEF Sound, TestsSent, TestFile
<1>3. s.collected
  BY <1>2 DEF Sound, FilesPlaced, Open
<1>4. taken \in Seq(TestFile) /\ Distinct(taken) /\ ToSet(taken) = Held(s, w) \ {f}
  BY <1>1, RemoveFirstFacts DEF Sound, FilesPlaced, Held
<1>5. /\ m \in Sched /\ m.completed = s.completed \cup {t}
      /\ m.assigned = IF Through(s, t) THEN [s.assigned EXCEPT ![w] = taken] ELSE s.assigned
      /\ m.nodes = s.nodes /\ m.queue = s.queue /\ m.torun = s.torun /\ m.collected = s.collected
      /\ m.active = s.active /\ m.next = s.next
  <2>1. s.completed \cup {t} \in SUBSET Test
    BY <1>1, <1>2 DEF Sched
  <2> HIDE DEF taken
  <2>2. (IF Through(s, t) THEN [s.assigned EXCEPT ![w] = taken] ELSE s.assigned)
          \in [Worker -> Seq(TestFile)]
    BY <1>1, <1>4
  <2>3. m = [s EXCEPT !.completed = s.completed \cup {t},
                      !.assigned = IF Through(s, t) THEN [s.assigned EXCEPT ![w] = taken]
                                   ELSE s.assigned]
    BY DEF Marked, taken
  <2> HIDE DEF m
  <2>4. QED
    BY <1>1, <2>1, <2>2, <2>3 DEF Sched
<1> HIDE DEF m
<1>6. \A v \in Worker :
        /\ Held(m, v) = IF v = w /\ Through(s, t) THEN Held(s, v) \ {f} ELSE Held(s, v)
        /\ Distinct(m.assigned[v])
  <2> HIDE DEF f, taken
  <2>1. \A v \in Worker : m.assigned[v] = IF v = w /\ Through(s, t) THEN taken ELSE s.assigned[v]
    BY <1>1, <1>5
  <2>2. \A v \in Worker : Distinct(s.assigned[v])
    BY DEF Sound, FilesPlaced
  <2>3. QED
    BY <1>4, <2>1, <2>2 DEF Held
<1>7. \A g \in TestFile : Open(m, g) <=> Open(s, g) /\ ~(g = f /\ Through(s, t))
  <2> TAKE g \in TestFile
  <2>1. Open(m, g) <=> ~(TestsOf(g) \subseteq s.completed \cup {t})
    BY <1>3, <1>5 DEF Open
  <2>2. Open(s, g) <=> ~(TestsOf(g) \subseteq s.completed)
    BY <1>3 DEF Open
  <2>3. t \in TestsOf(g) <=> g = f
    BY <1>2 DEF TestsOf
  <2>4. CASE g = f
    BY <1>2, <2>1, <2>2, <2>3, <2>4 DEF Through
  <2>5. CASE g # f
    BY <2>1, <2>2, <2>3, <2>5
  <2>6. QED
    BY <2>4, <2>5
<1> HIDE DEF f, taken
<1>8. FilesPlaced(m)
  <2>0. FilesPlaced(s)
    BY DEF Sound
  <2>1. \A v \in Worker : /\ Held(m, v) \cap ToSet(m.queue) = {}
                          /\ Held(m, v) # {} => v \in ToSet(m.nodes)
    BY <1>5, <1>6, <2>0 DEF FilesPlaced
  <2>2. \A u, v \in Worker : u # v => Held(m, u) \cap Held(m, v) = {}
    BY <1>6, <2>0 DEF FilesPlaced
  <2>3. ASSUME NEW g \in TestFile
        PROVE  Open(m, g) <=> g \in ToSet(m.queue) \/ \E v \in Worker : g \in Held(m, v)
    <3>1. Open(s, g) <=> g \in ToSet(s.queue) \/ \E v \in Worker : g \in Held(s, v)
      BY <2>0 DEF FilesPlaced
    <3>2. CASE g = f
      <4>1. g \notin ToSet(s.queue) /\ \A v \in Worker : g \in Held(s, v) <=> v = w
        BY <1>2, <2>0, <3>2 DEF FilesPlaced
      <4>2. QED
        BY <1>5, <1>6, <1>7, <3>1, <3>2, <4>1
    <3>3. CASE g # f
      BY <1>5, <1>6, <1>7, <3>1, <3>3
    <3>4. QED
      BY <3>2, <3>3
  <2>4. QED
    BY <1>5, <1>6, <2>0, <2>1, <2>2, <2>3 DEF FilesPlaced
<1>9. TestsSent(left, m)
  <2>0. TestsSent(ahead, s) /\ FilesPlaced(s)
    BY DEF Sound
  <2>1. ASSUME NEW v \in Worker, NEW u \in Test, u \notin s.completed, u # t, FileOf[u] \in Held(s, v)
        PROVE  u \notin m.completed /\ FileOf[u] \in Held(m, v)
    <3>1. Through(s, t) => FileOf[u] # f
      BY <2>1 DEF Through, TestsOf, f
    <3>2. QED
      BY <1>5, <1>6, <2>1, <3>1
  <2>2. ASSUME NEW v \in Worker, NEW u \in left[v]
        PROVE  u \in Test \ m.completed /\ FileOf[u] \in Held(m, v)
    <3>1. u \in ahead[v] /\ (v = w => u # t)
      BY <2>2
    <3>2. u \in Test /\ u \notin s.completed /\ FileOf[u] \in Held(s, v)
      BY <2>0, <3>1 DEF TestsSent
    <3>3. u # t
      BY <1>2, <2>0, <3>1, <3>2 DEF FilesPlaced, f
    <3>4. QED
      BY <2>1, <3>2, <3>3
  <2>3. ASSUME NEW v \in Worker, NEW i \in DOMAIN s.torun[v], s.torun[v][i] # SHUTDOWN
        PROVE  /\ s.torun[v][i] \notin m.completed \cup left[v]
               /\ FileOf[s.torun[v][i]] \in Held(m, v)
    <3> DEFINE u == s.torun[v][i]
    <3>1. u \in Test
      <4>1. s.torun[v] \in Seq(Test \cup {SHUTDOWN})
        BY <1>1 DEF Sched
      <4>2. QED
        BY <2>3, <4>1
    <3>2. u \notin s.completed \cup ahead[v] /\ FileOf[u] \in Held(s, v)
      BY <2>0, <2>3 DEF TestsSent
    <3> HIDE DEF u
    <3>3. u # t
      BY <1>2, <2>0, <3>2 DEF FilesPlaced, f
    <3>4. left[v] \subseteq ahead[v]
      OBVIOUS
    <3>5. u \notin m.completed /\ FileOf[u] \in Held(m, v)
      BY <2>1, <3>1, <3>2, <3>3
    <3>6. QED
      BY <3>2, <3>4, <3>5 DEF u
  <2>4. \A v \in Worker : \A i, j \in DOMAIN s.torun[v] :
          s.torun[v][i] # SHUTDOWN /\ s.torun[v][i] = s.torun[v][j] => i = j
    BY <2>0 DEF TestsSent
  <2>5. QED
    BY <1>5, <2>2, <2>3, <2>4 DEF TestsSent
<1>10. Shape(m)
  BY <1>3, <1>5 DEF Sound, Shape
<1>11. QED
  BY <1>8, <1>9, <1>10 DEF Sound, m

(* What is done about a file that is through. *)
Released(s, w, t) ==
  RequestShutdown([Marked(s, w, t) EXCEPT !.current = @ \ {w}], {w})

LEMMA MarkTestCompleteMeans ==
  ASSUME NEW s \in Sched, NEW w, NEW t
  PROVE  LET q == Released(s, w, t)
         IN  MarkTestComplete(s, w, t) =
               IF ~Through(s, t) THEN Marked(s, w, t)
               ELSE IF w = s.active THEN MaybeStart(Promote([q EXCEPT !.active = None]))
               ELSE q
<1> DEFINE m == [s EXCEPT !.completed = @ \cup {t}]
           d == [m EXCEPT !.assigned[w] = RemoveFirst(@, FileOf[t]), !.current = @ \ {w}]
           q == RequestShutdown(d, {w})
<1>1. MarkTestComplete(s, w, t) =
        IF ~(TestsOf(FileOf[t]) \subseteq m.completed) THEN m
        ELSE IF w = s.active THEN MaybeStart(Promote([q EXCEPT !.active = None])) ELSE q
  BY DEF MarkTestComplete, Then
<1>2. m.completed = s.completed \cup {t}
  BY DEF Sched
<1>3. ~Through(s, t) => m = Marked(s, w, t)
  BY DEF Marked, Sched
<1>4. Through(s, t) => d = [Marked(s, w, t) EXCEPT !.current = @ \ {w}]
  BY DEF Marked, Sched
<1> HIDE DEF m, d
<1>5. QED
  BY <1>1, <1>2, <1>3, <1>4 DEF Through, Released

LEMMA ReleasedKeeps ==
  ASSUME NEW left, NEW s, NEW w \in Worker, NEW t, Sound(left, Marked(s, w, t))
  PROVE  LET q == Released(s, w, t)
         IN  /\ From(left, Marked(s, w, t), q)
             /\ From(left, q, [q EXCEPT !.active = None])
<1> DEFINE b == Marked(s, w, t)
           d == [b EXCEPT !.current = @ \ {w}]
           q == RequestShutdown(d, {w})
           idle == [q EXCEPT !.active = None]
<1>1. b \in Sched /\ {b.active, b.next} \subseteq ToSet(b.nodes) \cup {None} /\ Sound(left, b)
  BY DEF Sound, Shape
<1> HIDE DEF b
<1>2. From(left, b, d)
  <2>1. /\ d \in Sched /\ Same(b, d) /\ d.queue = b.queue /\ d.assigned = b.assigned
        /\ d.torun = b.torun /\ d.active = b.active /\ d.next = b.next
    BY <1>1 DEF Sched, Same
  <2> HIDE DEF d
  <2>2. QED
    BY <1>1, <2>1, BookkeepingKeeps
<1> HIDE DEF d
<1>3. From(left, d, q)
  BY <1>2, ShutdownKeeps DEF RequestShutdown, From
<1> HIDE DEF q
<1>4. q \in Sched /\ {q.active, q.next} \subseteq ToSet(q.nodes) \cup {None} /\ Sound(left, q)
  BY <1>3 DEF From, Sound, Shape
<1>5. From(left, q, idle)
  <2>1. /\ idle \in Sched /\ Same(q, idle) /\ idle.queue = q.queue
        /\ idle.assigned = q.assigned /\ idle.torun = q.torun /\ idle.active = None
        /\ idle.next = q.next
    BY <1>4 DEF Sched, Same
  <2> HIDE DEF idle
  <2>2. QED
    BY <1>4, <2>1, BookkeepingKeeps
<1>6. Released(s, w, t) = q
  BY DEF Released, q, d, b
<1>7. QED
  BY <1>2, <1>3, <1>5, <1>6, FromFollows DEF b

LEMMA MarkTestCompleteKeeps ==
  ASSUME NEW ahead, NEW left, NEW s, Sound(ahead, s), NEW w \in Worker, NEW t \in ahead[w],
         \A v \in Worker : left[v] = IF v = w THEN ahead[w] \ {t} ELSE ahead[v]
  PROVE  From(left, Marked(s, w, t), MarkTestComplete(s, w, t))
<1> DEFINE b == Marked(s, w, t)
           q == Released(s, w, t)
           idle == [q EXCEPT !.active = None]
<1>1. Sound(left, b)
  BY MarkedKeeps
<1>2. From(left, b, b) /\ From(left, b, q) /\ From(left, q, idle)
  BY <1>1, FromItself, ReleasedKeeps
<1>3. MarkTestComplete(s, w, t) =
        IF ~Through(s, t) THEN b ELSE IF w = s.active THEN MaybeStart(Promote(idle)) ELSE q
  BY MarkTestCompleteMeans DEF Sound, Shape
<1> HIDE DEF b, q, idle
<1>4. From(left, idle, Promote(idle))
  BY <1>2, PromoteKeeps DEF From
<1>5. From(left, Promote(idle), MaybeStart(Promote(idle)))
  BY <1>4, MaybeStartKeeps DEF From
<1>6. QED
  BY <1>2, <1>3, <1>4, <1>5, FromFollows DEF b
------------------------------------------------------------------------------
(***************************************************************************)
(* Where a file is at home.  home[w] stands for the tests worker w has     *)
(* begun or is about to begin; steady says that no worker has died.        *)
(***************************************************************************)
Sent(s, w) == {t \in Test : \E i \in DOMAIN s.torun[w] : s.torun[w][i] = t}
Work(home, s, w) == home[w] \cup Sent(s, w)
OneFile(tests) == \A t, u \in tests : FileOf[t] = FileOf[u]

(* The workers that may still be given a first file: each waits in one     *)
(* place, and none has had a test yet.                                     *)
Idle(s) ==
  {w \in Worker : w = s.next \/ w \in ToSet(s.standby) \/ (w = s.active /\ w \notin s.current)}

LineUp(s) ==
  /\ Distinct(s.standby) /\ ToSet(s.standby) \subseteq ToSet(s.nodes)
  /\ s.next \notin ToSet(s.standby) /\ s.active \notin ToSet(s.standby)
  /\ s.active = s.next => s.active = None

(* The active worker holds the one file that is under way, and an open     *)
(* file of which tests have begun is held where they have.                 *)
OneAtATime(home, s) ==
  \A w \in Worker :
    /\ Held(s, w) # {} => w = s.active /\ w \in s.current
    /\ \A f, g \in Held(s, w) : f = g
    /\ \A t \in home[w] : Open(s, FileOf[t]) => FileOf[t] \in Held(s, w)

Homely(home, steady, s) ==
  /\ LineUp(s)
  /\ \A w \in Idle(s) : Work(home, s, w) = {}
  /\ \A w \in Worker : OneFile(Work(home, s, w))
  /\ steady => OneAtATime(home, s)

Tidy(ahead, home, steady, s) == Sound(ahead, s) /\ Homely(home, steady, s)

(* Nobody joins the line, is sent a test or loses its file. *)
LEMMA HomelyStays ==
  ASSUME NEW home, NEW steady, NEW s, Homely(home, steady, s), NEW r, LineUp(r),
         Idle(r) \subseteq Idle(s),
         \A w \in Worker : Sent(r, w) \subseteq Sent(s, w),
         steady => OneAtATime(home, r)
  PROVE  Homely(home, steady, r)
<1>1. \A w \in Worker : Work(home, r, w) \subseteq Work(home, s, w)
  BY DEF Work
<1>2. \A w \in Idle(r) : w \in Worker /\ Work(home, r, w) = {}
  BY <1>1 DEF Homely, Idle
<1>3. \A w \in Worker : OneFile(Work(home, r, w))
  BY <1>1 DEF Homely, OneFile
<1>4. QED
  BY <1>2, <1>3 DEF Homely

LEMMA HomelyFollows ==
  ASSUME NEW home, NEW steady, NEW s, Homely(home, steady, s), NEW r, LineUp(r),
         Idle(r) \subseteq Idle(s),
         \A w \in Worker : Sent(r, w) \subseteq Sent(s, w),
         r.assigned = s.assigned, r.completed = s.completed, r.collected = s.collected,
         \A w \in Worker : w = s.active /\ w \in s.current => w = r.active /\ w \in r.current
  PROVE  Homely(home, steady, r)
<1>1. OneAtATime(home, s) => OneAtATime(home, r)
  BY DEF OneAtATime, Held, Open
<1>2. steady => OneAtATime(home, r)
  BY <1>1 DEF Homely
<1>3. QED
  BY <1>2, HomelyStays

LEMMA PlacesKept ==
  ASSUME NEW home, NEW steady, NEW s, Homely(home, steady, s), NEW r,
         r.active = s.active, r.next = s.next, r.standby = s.standby, r.current = s.current,
         r.nodes = s.nodes,
         \A w \in Worker : Sent(r, w) \subseteq Sent(s, w),
         r.assigned = s.assigned, r.completed = s.completed, r.collected = s.collected
  PROVE  Homely(home, steady, r)
<1>1. LineUp(r) /\ Idle(r) \subseteq Idle(s)
  BY DEF Homely, LineUp, Idle
<1>2. QED
  BY <1>1, HomelyFollows

LEMMA ShutdownFrame ==
  ASSUME NEW s \in Sched, NEW ws \in SUBSET Worker
  PROVE  LET r == ShutdownEach(s, ws)
         IN  /\ r.active = s.active /\ r.next = s.next /\ r.standby = s.standby
             /\ r.current = s.current /\ r.nodes = s.nodes /\ r.assigned = s.assigned
             /\ r.completed = s.completed /\ r.collected = s.collected /\ r.queue = s.queue
             /\ r.clones = s.clones /\ r.raised = s.raised
             /\ \A w \in Worker : Sent(r, w) \subseteq Sent(s, w)
<1> DEFINE r == ShutdownEach(s, ws)
           up == (ws \ s.down) \ s.broken
           q == [w \in Worker |-> IF w \in up THEN Append(s.torun[w], SHUTDOWN) ELSE s.torun[w]]
<1>1. r = [s EXCEPT !.sent = s.sent \cup (ws \ s.down), !.torun = q]
  BY DEF ShutdownEach
<1> HIDE DEF q, up
<1>2. /\ r.active = s.active /\ r.next = s.next /\ r.standby = s.standby
      /\ r.current = s.current /\ r.nodes = s.nodes /\ r.assigned = s.assigned
      /\ r.completed = s.completed /\ r.collected = s.collected /\ r.queue = s.queue
      /\ r.clones = s.clones /\ r.raised = s.raised /\ r.torun = q
  BY <1>1 DEF Sched
<1> HIDE DEF r
<1>3. ASSUME NEW w \in Worker PROVE Sent(r, w) \subseteq Sent(s, w)
  <2>1. s.torun[w] \in Seq(Test \cup {SHUTDOWN}) /\ SHUTDOWN \notin Test
    BY NoTestTwice DEF Sched
  <2>2. q[w] = Append(s.torun[w], SHUTDOWN) \/ q[w] = s.torun[w]
    BY DEF q
  <2>3. \A i \in DOMAIN Append(s.torun[w], SHUTDOWN) :
          \/ i \in DOMAIN s.torun[w] /\ Append(s.torun[w], SHUTDOWN)[i] = s.torun[w][i]
          \/ Append(s.torun[w], SHUTDOWN)[i] = SHUTDOWN
    BY <2>1
  <2>4. \A i \in DOMAIN q[w] :
          q[w][i] \in Test => i \in DOMAIN s.torun[w] /\ q[w][i] = s.torun[w][i]
    BY <2>1, <2>2, <2>3
  <2>5. QED
    BY <1>2, <2>4 DEF Sent
<1>4. QED
  BY <1>2, <1>3 DEF r

LEMMA ShutdownTidy ==
  ASSUME NEW ahead, NEW home, NEW steady, NEW s, Tidy(ahead, home, steady, s),
         NEW ws \in SUBSET Worker
  PROVE  Tidy(ahead, home, steady, ShutdownEach(s, ws))
<1> DEFINE r == ShutdownEach(s, ws)
<1>1. Sound(ahead, s) /\ s \in Sched /\ Homely(home, steady, s)
  BY DEF Tidy, Sound, Shape
<1>2. Sound(ahead, r)
  BY <1>1, ShutdownKeeps DEF From
<1>3. /\ r.active = s.active /\ r.next = s.next /\ r.standby = s.standby
      /\ r.current = s.current /\ r.nodes = s.nodes /\ r.assigned = s.assigned
      /\ r.completed = s.completed /\ r.collected = s.collected
      /\ \A w \in Worker : Sent(r, w) \subseteq Sent(s, w)
  BY <1>1, ShutdownFrame
<1> HIDE DEF r
<1>4. Homely(home, steady, r)
  BY <1>1, <1>3, PlacesKept
<1>5. QED
  BY <1>2, <1>4 DEF Tidy, r

LEMMA FillNextTidy ==
  ASSUME NEW ahead, NEW home, NEW steady, NEW s, Tidy(ahead, home, steady, s)
  PROVE  Tidy(ahead, home, steady, FillNext(s)) /\ FillNext(s).active = s.active
<1>1. /\ Sound(ahead, s) /\ s \in Sched /\ Homely(home, steady, s)
      /\ s.standby \in Seq(Worker) /\ s.nodes \in Seq(Worker)
  BY DEF Tidy, Sound, Shape, Sched
<1>2. LineUp(s)
  BY <1>1 DEF Homely
<1>3. Sound(ahead, FillNext(s))
  BY <1>1, FillNextKeeps DEF From
<1>4. CASE FillNext(s) = s
  BY <1>4
<1>5. CASE s.next = None /\ FillNext(s) = [s EXCEPT !.standby = <<>>]
  <2> DEFINE r == [s EXCEPT !.standby = <<>>]
  <2>1. /\ r.active = s.active /\ r.next = s.next /\ r.standby = <<>>
        /\ r.current = s.current /\ r.nodes = s.nodes /\ r.assigned = s.assigned
        /\ r.completed = s.completed /\ r.collected = s.collected /\ r.torun = s.torun
    BY <1>1 DEF Sched
  <2>2. FillNext(s) = r
    BY <1>5
  <2> HIDE DEF r
  <2>3. LineUp(r) /\ Idle(r) \subseteq Idle(s)
    BY <1>2, <2>1, EmptyFacts DEF LineUp, Idle
  <2>4. \A w \in Worker : Sent(r, w) = Sent(s, w)
    BY <2>1 DEF Sent
  <2>5. Homely(home, steady, r)
    BY <1>1, <2>1, <2>3, <2>4, HomelyFollows
  <2>6. QED
    BY <1>3, <2>1, <2>2, <2>5 DEF Tidy
<1>6. ASSUME s.next = None, NEW k \in DOMAIN s.standby, s.standby[k] # s.active,
             FillNext(s) = [s EXCEPT !.next = s.standby[k],
                                     !.standby = SubSeq(s.standby, k + 1, Len(s.standby))]
      PROVE  Tidy(ahead, home, steady, FillNext(s)) /\ FillNext(s).active = s.active
  <2> DEFINE rest == SubSeq(s.standby, k + 1, Len(s.standby))
             x == s.standby[k]
             r == [s EXCEPT !.next = x, !.standby = rest]
  <2>1. /\ x \in Worker /\ x \in ToSet(s.standby) /\ x # s.active /\ x \notin ToSet(rest)
        /\ ToSet(rest) \subseteq ToSet(s.standby) /\ Distinct(rest)
    BY <1>1, <1>2, <1>6, SuffixFacts DEF LineUp, ToSet
  <2> HIDE DEF rest, x
  <2>2. /\ r.active = s.active /\ r.next = x /\ r.standby = rest
        /\ r.current = s.current /\ r.nodes = s.nodes /\ r.assigned = s.assigned
        /\ r.completed = s.completed /\ r.collected = s.collected /\ r.torun = s.torun
    BY <1>1 DEF Sched
  <2>3. FillNext(s) = r
    BY <1>6 DEF x, rest
  <2> HIDE DEF r
  <2>4. LineUp(r) /\ Idle(r) \subseteq Idle(s)
    BY <1>2, <2>1, <2>2 DEF LineUp, Idle
  <2>5. \A w \in Worker : Sent(r, w) = Sent(s, w)
    BY <2>2 DEF Sent
  <2>6. Homely(home, steady, r)
    BY <1>1, <2>2, <2>4, <2>5, HomelyFollows
  <2>7. QED
    BY <1>3, <2>2, <2>3, <2>6 DEF Tidy
<1>7. QED
  <2>1. CASE ~(FillNext(s) = s \/ (s.next = None /\ FillNext(s) = [s EXCEPT !.standby = <<>>]))
    <3>1. s.next = None
      BY <1>1, <2>1, FillNextCases, Zenon
    <3>2. PICK k \in DOMAIN s.standby :
            /\ s.standby[k] # s.active
            /\ FillNext(s) = [s EXCEPT !.next = s.standby[k],
                                      !.standby = SubSeq(s.standby, k + 1, Len(s.standby))]
      BY <1>1, <2>1, FillNextCases, Zenon
    <3>3. QED
      BY <1>6, <3>1, <3>2
  <2>2. QED
    BY <1>4, <1>5, <2>1

LEMMA PromoteTidy ==
  ASSUME NEW ahead, NEW home, NEW steady, NEW s, Tidy(ahead, home, steady, s)
  PROVE  Tidy(ahead, home, steady, Promote(s))
<1> DEFINE f == FillNext(s)
           r == [f EXCEPT !.active = f.next, !.next = None, !.waiting = None]
<1>1. Promote(s) = IF s.active # None THEN s ELSE IF f.next = None THEN f ELSE r
  BY DEF Promote, Then
<1>2. Tidy(ahead, home, steady, f) /\ f.active = s.active
  BY FillNextTidy
<1>3. Sound(ahead, s)
  BY DEF Tidy
<1>4. Sound(ahead, Promote(s))
  BY <1>3, PromoteKeeps DEF From
<1> HIDE DEF f
<1>5. CASE s.active # None \/ f.next = None
  BY <1>1, <1>2, <1>5
<1>6. CASE s.active = None /\ f.next # None
  <2>1. f \in Sched /\ f.active = None /\ Homely(home, steady, f) /\ LineUp(f)
    BY <1>2, <1>6 DEF Tidy, Sound, Shape, Homely
  <2>2. f.standby \in Seq(Worker) /\ None \notin ToSet(f.standby)
    BY <2>1, NonEmptyFacts, WorkerNumbers DEF Sched
  <2>3. /\ r.active = f.next /\ r.next = None /\ r.standby = f.standby
        /\ r.current = f.current /\ r.nodes = f.nodes /\ r.assigned = f.assigned
        /\ r.completed = f.completed /\ r.collected = f.collected /\ r.torun = f.torun
    BY <2>1 DEF Sched
  <2>4. Promote(s) = r
    BY <1>1, <1>6
  <2> HIDE DEF r
  <2>5. LineUp(r)
    BY <1>6, <2>1, <2>2, <2>3 DEF LineUp
  <2>6. Idle(r) \subseteq Idle(f)
    BY <2>3, WorkerNumbers DEF Idle
  <2>7. \A w \in Worker : Sent(r, w) = Sent(f, w) /\ w # f.active
    BY <2>1, <2>3, WorkerNumbers DEF Sent
  <2>8. Homely(home, steady, r)
    BY <2>1, <2>3, <2>5, <2>6, <2>7, HomelyFollows
  <2>9. QED
    BY <1>4, <2>4, <2>8 DEF Tidy
<1>7. QED
  BY <1>5, <1>6

LEMMA UpdateCloneTidy ==
  ASSUME NEW ahead, NEW home, NEW steady, NEW s, Tidy(ahead, home, steady, s)
  PROVE  Tidy(ahead, home, steady, UpdateClone(s))
<1> DEFINE r == UpdateClone(s)
<1>1. Sound(ahead, s) /\ s \in Sched /\ Homely(home, steady, s)
  BY DEF Tidy, Sound, Shape
<1>2. Sound(ahead, r)
  BY <1>1, UpdateCloneKeeps DEF From
<1>3. /\ r.active = s.active /\ r.next = s.next /\ r.standby = s.standby
      /\ r.current = s.current /\ r.nodes = s.nodes /\ r.assigned = s.assigned
      /\ r.completed = s.completed /\ r.collected = s.collected /\ r.torun = s.torun
  BY <1>1 DEF Sched, UpdateClone
<1> HIDE DEF r
<1>4. \A w \in Worker : Sent(r, w) = Sent(s, w)
  BY <1>3 DEF Sent
<1>5. Homely(home, steady, r)
  BY <1>1, <1>3, <1>4, PlacesKept
<1>6. QED
  BY <1>2, <1>5 DEF Tidy, r

LEMMA ShutdownUnneededTidy ==
  ASSUME NEW ahead, NEW home, NEW steady, NEW s, Tidy(ahead, home, steady, s)
  PROVE  Tidy(ahead, home, steady, ShutdownUnneeded(s))
<1> DEFINE idle == ({s.next, s.active} \cup ToSet(s.standby)) \ {None}
           down == RequestShutdown(s, idle)
           quiet == [down EXCEPT !.next = None, !.standby = <<>>]
<1>1. ShutdownUnneeded(s) = IF s.queue # <<>> THEN s ELSE UpdateClone(quiet)
  BY DEF ShutdownUnneeded, Then
<1>2. idle \in SUBSET Worker
  BY NonEmptyFacts DEF Tidy, Sound, Shape, Sched
<1>3. Tidy(ahead, home, steady, down)
  BY <1>2, ShutdownTidy DEF RequestShutdown
<1> HIDE DEF idle, down
<1>4. /\ down \in Sched /\ Sound(ahead, down) /\ Homely(home, steady, down)
      /\ {down.active, down.next} \subseteq ToSet(down.nodes) \cup {None} /\ LineUp(down)
  BY <1>3 DEF Tidy, Sound, Shape, Homely
<1>5. From(ahead, down, quiet)
  BY <1>4, BookkeepingKeeps, <<>> \in Seq(Worker) DEF Sched, Same
<1>6. /\ quiet.active = down.active /\ quiet.next = None /\ quiet.standby = <<>>
      /\ quiet.current = down.current /\ quiet.nodes = down.nodes
      /\ quiet.assigned = down.assigned /\ quiet.completed = down.completed
      /\ quiet.collected = down.collected /\ quiet.torun = down.torun
  BY <1>4 DEF Sched
<1> HIDE DEF quiet
<1>7. LineUp(quiet) /\ Idle(quiet) \subseteq Idle(down)
  BY <1>4, <1>6, EmptyFacts, WorkerNumbers DEF LineUp, Idle
<1>8. \A w \in Worker : Sent(quiet, w) = Sent(down, w)
  BY <1>6 DEF Sent
<1>9. Homely(home, steady, quiet)
  BY <1>4, <1>6, <1>7, <1>8, HomelyFollows
<1>10. Tidy(ahead, home, steady, UpdateClone(quiet))
  BY <1>5, <1>9, UpdateCloneTidy DEF From, Tidy
<1>11. QED
  BY <1>1, <1>10

(* A file that is assigned goes to a worker that holds none, and its tests *)
(* are the first the worker is sent.                                       *)
LEMMA AssignFrame ==
  ASSUME NEW s \in Sched, NEW w \in Worker, s.queue # <<>>
  PROVE  LET r == Assign(s, w)
             f == Head(s.queue)
         IN  /\ r.active = s.active /\ r.next = s.next /\ r.standby = s.standby
             /\ r.current = s.current /\ r.nodes = s.nodes
             /\ r.completed = s.completed /\ r.collected = s.collected
             /\ \A v \in Worker : /\ Held(r, v) = IF v = w THEN Held(s, v) \cup {f} ELSE Held(s, v)
                                  /\ Sent(r, v) \subseteq IF v = w THEN Sent(s, v) \cup TestsOf(f)
                                                          ELSE Sent(s, v)
<1> DEFINE r == Assign(s, w)
           f == Head(s.queue)
           g == Given(s, w)
           sent == InOrder(TestsOf(f) \ s.completed)
           old == s.torun[w]
<1>1. /\ s.queue \in Seq(TestFile) /\ s.assigned \in [Worker -> Seq(TestFile)]
      /\ s.assigned[w] \in Seq(TestFile) /\ s.torun \in [Worker -> Seq(Test \cup {SHUTDOWN})]
  BY DEF Sched
<1>2. f \in TestFile
  BY <1>1, TailFacts
<1>3. /\ Append(s.assigned[w], f) \in Seq(TestFile)
      /\ ToSet(Append(s.assigned[w], f)) = Held(s, w) \cup {f}
  BY <1>1, <1>2, AppendFacts DEF Held
<1>4. TestsOf(f) \ s.completed \in SUBSET Test
  BY DEF TestsOf
<1>5. sent \in Seq(Test) /\ ToSet(sent) \subseteq TestsOf(f)
  BY <1>4, InOrderFacts
<1>6. r = IF w \notin s.registered THEN [g EXCEPT !.raised = "KeyError"]
          ELSE IF w \in g.broken THEN [g EXCEPT !.raised = "OSError"]
          ELSE [g EXCEPT !.torun[w] = @ \o sent]
  BY DEF Assign, Given, SendRuntest
<1>7. g = [s EXCEPT !.queue = Tail(s.queue),
                    !.assigned = [s.assigned EXCEPT ![w] = Append(s.assigned[w], f)]]
  BY <1>1 DEF Given
<1> HIDE DEF f, sent, r, g
<1>8. /\ g.active = s.active /\ g.next = s.next /\ g.standby = s.standby
      /\ g.current = s.current /\ g.nodes = s.nodes /\ g.torun = s.torun
      /\ g.completed = s.completed /\ g.collected = s.collected /\ g.broken = s.broken
      /\ g.assigned = [s.assigned EXCEPT ![w] = Append(s.assigned[w], f)]
      /\ g \in Sched
  <2>1. Tail(s.queue) \in Seq(TestFile)
    BY <1>1, TailFacts
  <2>2. [s.assigned EXCEPT ![w] = Append(s.assigned[w], f)] \in [Worker -> Seq(TestFile)]
    BY <1>1, <1>3
  <2>3. QED
    BY <1>7, <2>1, <2>2 DEF Sched
<1>9. /\ r.active = g.active /\ r.next = g.next /\ r.standby = g.standby
      /\ r.current = g.current /\ r.nodes = g.nodes /\ r.assigned = g.assigned
      /\ r.completed = g.completed /\ r.collected = g.collected
      /\ r.torun = g.torun \/ r.torun = [g.torun EXCEPT ![w] = old \o sent]
  BY <1>6, <1>8 DEF Sched
<1>10. \A v \in Worker : Held(r, v) = IF v = w THEN Held(s, v) \cup {f} ELSE Held(s, v)
  BY <1>1, <1>3, <1>8, <1>9 DEF Held
<1>11. \A v \in Worker : v # w => Sent(r, v) = Sent(s, v)
  BY <1>1, <1>8, <1>9 DEF Sent
<1>12. Sent(r, w) \subseteq Sent(s, w) \cup TestsOf(f)
  <2>1. old \in Seq(Test \cup {SHUTDOWN}) /\ sent \in Seq(Test \cup {SHUTDOWN})
    BY <1>1, <1>5, SeqMonotonic, Test \subseteq Test \cup {SHUTDOWN}
  <2>2. ToSet(old \o sent) = ToSet(old) \cup ToSet(sent)
    BY <2>1, ConcatFacts
  <2>3. r.torun[w] = old \/ r.torun[w] = old \o sent
    BY <1>1, <1>8, <1>9
  <2>4. Sent(r, w) = Test \cap ToSet(r.torun[w]) /\ Sent(s, w) = Test \cap ToSet(old)
    BY DEF Sent, ToSet
  <2>5. QED
    BY <1>5, <2>2, <2>3, <2>4
<1>13. QED
  BY <1>8, <1>9, <1>10, <1>11, <1>12 DEF r, f

LEMMA StartActiveTidy ==
  ASSUME NEW ahead, NEW home, NEW steady, NEW s, Tidy(ahead, home, steady, s),
         s.active # None, s.active \notin s.current, s.queue # <<>>
  PROVE  Tidy(ahead, home, steady, StartActive(s))
<1> DEFINE w == s.active
           f == Head(s.queue)
           a == Assign(s, w)
           given == [a EXCEPT !.current = @ \cup {w}]
           told == RequestShutdown(given, {w})
           filled == FillNext(told)
<1>1. StartActive(s) = UpdateClone(ShutdownUnneeded(filled))
  BY DEF StartActive, Then
<1>2. /\ s \in Sched /\ Sound(ahead, s) /\ Homely(home, steady, s) /\ LineUp(s)
      /\ w \in Worker /\ w \in ToSet(s.nodes) /\ w \notin s.current
  BY DEF Tidy, Sound, Shape, Sched, Homely
<1>3. From(ahead, s, a)
  BY <1>2, AssignKeeps
<1>4. a \in Sched /\ Sound(ahead, a) /\ {a.active, a.next} \subseteq ToSet(a.nodes) \cup {None}
  BY <1>3 DEF From, Sound, Shape
<1>5. /\ a.active = w /\ a.next = s.next /\ a.standby = s.standby
      /\ a.current = s.current /\ a.nodes = s.nodes
      /\ a.completed = s.completed /\ a.collected = s.collected
      /\ \A v \in Worker : /\ Held(a, v) = IF v = w THEN Held(s, v) \cup {f} ELSE Held(s, v)
                           /\ Sent(a, v) \subseteq IF v = w THEN Sent(s, v) \cup TestsOf(f)
                                                   ELSE Sent(s, v)
  BY <1>2, AssignFrame
<1> HIDE DEF a, f
<1>6. From(ahead, a, given)
  BY <1>2, <1>4, BookkeepingKeeps DEF Sched, Same
<1>7. /\ given.active = w /\ given.next = s.next /\ given.standby = s.standby
      /\ given.current = s.current \cup {w} /\ given.nodes = s.nodes
      /\ given.completed = s.completed /\ given.collected = s.collected
      /\ \A v \in Worker : Held(given, v) = Held(a, v) /\ Sent(given, v) = Sent(a, v)
  BY <1>4, <1>5 DEF Sched, Held, Sent
<1> HIDE DEF given, w
<1>8. w = s.active
  BY DEF w
<1>9. LineUp(given)
  BY <1>2, <1>7, <1>8 DEF LineUp
<1>10. w \in Idle(s) /\ w \notin Idle(given) /\ Idle(given) \subseteq Idle(s)
  BY <1>2, <1>7, <1>8, <1>9, WorkerNumbers DEF Idle, LineUp
<1>11. Work(home, s, w) = {}
  BY <1>2, <1>10 DEF Homely
<1>12. \A v \in Worker : Work(home, given, v) \subseteq IF v = w THEN TestsOf(f) ELSE Work(home, s, v)
  BY <1>5, <1>7, <1>11 DEF Work
<1>13. steady => OneAtATime(home, given)
  <2> SUFFICES ASSUME OneAtATime(home, s) PROVE OneAtATime(home, given)
    BY <1>2 DEF Homely
  <2>1. \A v \in Worker : Held(s, v) = {}
    BY <1>2, <1>8 DEF OneAtATime
  <2>2. \A v \in Worker : Held(given, v) = IF v = w THEN {f} ELSE {}
    BY <1>5, <1>7, <2>1
  <2>3. \A v \in Worker : \A t \in home[v] : ~Open(given, FileOf[t])
    BY <1>7, <2>1 DEF OneAtATime, Open
  <2>4. QED
    BY <1>7, <2>2, <2>3 DEF OneAtATime
<1>14. Homely(home, steady, given)
  <2>1. \A v \in Idle(given) : Work(home, given, v) = {}
    <3> TAKE v \in Idle(given)
    <3>1. v \in Worker /\ v # w /\ Work(home, s, v) = {}
      BY <1>2, <1>10 DEF Homely, Idle
    <3>2. QED
      BY <1>12, <3>1
  <2>2. \A v \in Worker : OneFile(Work(home, given, v))
    <3> TAKE v \in Worker
    <3>1. CASE v = w
      BY <1>12, <3>1 DEF OneFile, TestsOf
    <3>2. CASE v # w
      BY <1>2, <1>12, <3>2 DEF OneFile, Homely
    <3>3. QED
      BY <3>1, <3>2
  <2>3. QED
    BY <1>9, <1>13, <2>1, <2>2 DEF Homely
<1>15. Tidy(ahead, home, steady, given)
  BY <1>6, <1>14 DEF From, Tidy
<1>16. Tidy(ahead, home, steady, told)
  BY <1>2, <1>8, <1>15, ShutdownTidy DEF RequestShutdown
<1> HIDE DEF told
<1>17. Tidy(ahead, home, steady, filled)
  BY <1>16, FillNextTidy
<1> HIDE DEF filled
<1>18. Tidy(ahead, home, steady, ShutdownUnneeded(filled))
  BY <1>17, ShutdownUnneededTidy
<1>19. QED
  BY <1>1, <1>18, UpdateCloneTidy DEF filled, told, given, a, w

LEMMA MaybeStartTidy ==
  ASSUME NEW ahead, NEW home, NEW steady, NEW s, Tidy(ahead, home, steady, s)
  PROVE  Tidy(ahead, home, steady, MaybeStart(s))
<1> DEFINE p == Promote(s)
           r == [p EXCEPT !.waiting = p.active]
<1>1. MaybeStart(s) =
        IF ~s.collected THEN s
        ELSE IF p.active = None THEN p
        ELSE IF p.active \notin p.registered THEN r
        ELSE IF p.active \in p.current THEN p
        ELSE IF p.queue = <<>> THEN ShutdownUnneeded(p)
        ELSE StartActive(p)
  BY DEF MaybeStart, Then
<1>2. Tidy(ahead, home, steady, p)
  BY PromoteTidy
<1> HIDE DEF p
<1>3. p \in Sched /\ Sound(ahead, p) /\ {p.active, p.next} \subseteq ToSet(p.nodes) \cup {None}
      /\ Homely(home, steady, p)
  BY <1>2 DEF Tidy, Sound, Shape
<1>4. Tidy(ahead, home, steady, r)
  <2>1. From(ahead, p, r)
    BY <1>3, BookkeepingKeeps DEF Sched, Same
  <2>2. /\ r.active = p.active /\ r.next = p.next /\ r.standby = p.standby
        /\ r.current = p.current /\ r.nodes = p.nodes /\ r.assigned = p.assigned
        /\ r.completed = p.completed /\ r.collected = p.collected /\ r.torun = p.torun
    BY <1>3 DEF Sched
  <2> HIDE DEF r
  <2>3. \A w \in Worker : Sent(r, w) = Sent(p, w)
    BY <2>2 DEF Sent
  <2>4. Homely(home, steady, r)
    BY <1>3, <2>2, <2>3, PlacesKept
  <2>5. QED
    BY <2>1, <2>4 DEF From, Tidy
<1> HIDE DEF r
<1>5. Tidy(ahead, home, steady, ShutdownUnneeded(p))
  BY <1>2, ShutdownUnneededTidy
<1>6. p.active # None /\ p.active \notin p.current /\ p.queue # <<>> =>
        Tidy(ahead, home, steady, StartActive(p))
  BY <1>2, StartActiveTidy
<1>7. QED
  BY <1>1, <1>2, <1>4, <1>5, <1>6

(* The worker that is added has neither begun nor been sent a test. *)
Joined(s, w) ==
  IF s.active = None THEN [NodeAdded(s, w) EXCEPT !.active = w, !.waiting = None]
  ELSE IF s.next = None THEN [NodeAdded(s, w) EXCEPT !.next = w]
  ELSE [NodeAdded(s, w) EXCEPT !.standby = Append(@, w)]

LEMMA AddNodeMeans ==
  ASSUME NEW s, NEW w
  PROVE  AddNode(s, w) = IF s.active = None THEN MaybeStart(Joined(s, w))
                         ELSE UpdateClone(FillNext(Joined(s, w)))
BY DEF AddNode, NodeAdded, Joined, Then

LEMMA JoinedTidy ==
  ASSUME NEW ahead, NEW home, NEW steady, NEW s, Tidy(ahead, home, steady, s),
         NEW w \in Worker, w \notin ToSet(s.nodes), Work(home, s, w) = {}
  PROVE  LET r == Joined(s, w)
         IN  /\ Tidy(ahead, home, steady, r) /\ Idle(r) \subseteq Idle(s) \cup {w}
             /\ ToSet(r.nodes) = ToSet(s.nodes) \cup {w} /\ r.assigned = s.assigned
             /\ r.completed = s.completed /\ r.queue = s.queue /\ r.collected = s.collected
             /\ r.torun = s.torun /\ r.sent = s.sent /\ r.broken = s.broken
             /\ r.raised = s.raised
<1> DEFINE n == NodeAdded(s, w)
           r == Joined(s, w)
<1>1. /\ s \in Sched /\ Sound(ahead, s) /\ Homely(home, steady, s) /\ LineUp(s)
      /\ {s.active, s.next} \subseteq ToSet(s.nodes) \cup {None}
      /\ s.nodes \in Seq(Worker) /\ s.standby \in Seq(Worker)
  BY DEF Tidy, Sound, Shape, Sched, Homely
<1>2. w \notin {s.active, s.next} /\ w \notin ToSet(s.standby) /\ w # None
  BY <1>1, WorkerNumbers DEF LineUp
<1>3. /\ ToSet(Append(s.nodes, w)) = ToSet(s.nodes) \cup {w}
      /\ Append(s.standby, w) \in Seq(Worker) /\ Distinct(Append(s.standby, w))
      /\ ToSet(Append(s.standby, w)) = ToSet(s.standby) \cup {w}
  BY <1>1, <1>2, AppendFacts DEF LineUp
<1>4. /\ n \in Sched /\ Sound(ahead, n) /\ n.nodes = Append(s.nodes, w)
      /\ n.active = s.active /\ n.next = s.next /\ n.standby = s.standby /\ n.current = s.current
      /\ n.assigned = s.assigned /\ n.completed = s.completed /\ n.collected = s.collected
      /\ n.torun = s.torun /\ n.queue = s.queue
  BY <1>1, NodeAddedSound
<1>5. n.sent = s.sent /\ n.broken = s.broken /\ n.raised = s.raised
  BY <1>1 DEF NodeAdded, Sched
<1>6. r = IF s.active = None THEN [n EXCEPT !.active = w, !.waiting = None]
          ELSE IF s.next = None THEN [n EXCEPT !.next = w]
          ELSE [n EXCEPT !.standby = Append(s.standby, w)]
  BY <1>4 DEF Joined
<1> HIDE DEF n, r
<1>7. /\ \/ s.active = None /\ r.active = w /\ r.next = s.next /\ r.standby = s.standby
         \/ r.active = s.active /\ r.next = w /\ r.standby = s.standby
         \/ r.active = s.active /\ r.next = s.next /\ r.standby = Append(s.standby, w)
      /\ r.current = s.current /\ r.nodes = n.nodes /\ r.assigned = n.assigned
      /\ r.completed = n.completed /\ r.collected = n.collected /\ r.torun = n.torun
      /\ r.queue = n.queue /\ r.sent = n.sent /\ r.broken = n.broken /\ r.raised = n.raised
      /\ r.registered = n.registered /\ r.down = n.down /\ r.numnodes = n.numnodes
  <2>1. CASE s.active = None
    BY <1>4, <1>6, <2>1 DEF Sched
  <2>2. CASE s.active # None /\ s.next = None
    BY <1>4, <1>6, <2>2 DEF Sched
  <2>3. CASE s.active # None /\ s.next # None
    BY <1>4, <1>6, <2>3 DEF Sched
  <2>4. QED
    BY <2>1, <2>2, <2>3
<1>8. r \in Sched
  <2>1. CASE s.active = None
    BY <1>4, <1>6, <2>1 DEF Sched
  <2>2. CASE s.active # None /\ s.next = None
    BY <1>4, <1>6, <2>2 DEF Sched
  <2>3. CASE s.active # None /\ s.next # None
    BY <1>3, <1>4, <1>6, <2>3 DEF Sched
  <2>4. QED
    BY <2>1, <2>2, <2>3
<1>9. From(ahead, n, r)
  <2>1. {r.active, r.next} \subseteq ToSet(n.nodes) \cup {None}
    BY <1>1, <1>3, <1>4, <1>7
  <2>2. Same(n, r)
    BY <1>7 DEF Same
  <2>3. QED
    BY <1>4, <1>7, <1>8, <2>1, <2>2, BookkeepingKeeps
<1>10. LineUp(r)
  BY <1>1, <1>2, <1>3, <1>4, <1>7 DEF LineUp
<1>11. Idle(r) \subseteq Idle(s) \cup {w}
  BY <1>3, <1>7 DEF Idle
<1>12. /\ \A v \in Worker : Held(r, v) = Held(s, v) /\ Work(home, r, v) = Work(home, s, v)
       /\ \A f : Open(r, f) = Open(s, f)
  BY <1>4, <1>7 DEF Held, Work, Sent, Open
<1>13. OneAtATime(home, s) => OneAtATime(home, r)
  BY <1>7, <1>12, WorkerNumbers DEF OneAtATime
<1>14. Homely(home, steady, r)
  BY <1>1, <1>10, <1>11, <1>12, <1>13 DEF Homely, Idle
<1>15. QED
  BY <1>3, <1>4, <1>5, <1>7, <1>9, <1>11, <1>14 DEF Tidy, From, r

LEMMA AddNodeTidy ==
  ASSUME NEW ahead, NEW home, NEW steady, NEW s, Tidy(ahead, home, steady, s),
         NEW w \in Worker, w \notin ToSet(s.nodes), Work(home, s, w) = {}
  PROVE  Tidy(ahead, home, steady, AddNode(s, w))
<1>1. AddNode(s, w) = IF s.active = None THEN MaybeStart(Joined(s, w))
                      ELSE UpdateClone(FillNext(Joined(s, w)))
  BY AddNodeMeans
<1>2. Tidy(ahead, home, steady, Joined(s, w))
  BY JoinedTidy
<1>3. QED
  BY <1>1, <1>2, MaybeStartTidy, FillNextTidy, UpdateCloneTidy

LEMMA SamePlacesTidy ==
  ASSUME NEW ahead, NEW home, NEW steady, NEW s, Tidy(ahead, home, steady, s), NEW q \in Sched,
         q.active = s.active, q.next = s.next, q.standby = s.standby, q.current = s.current,
         q.nodes = s.nodes, q.assigned = s.assigned, q.completed = s.completed,
         q.collected = s.collected, q.torun = s.torun, q.queue = s.queue
  PROVE  Tidy(ahead, home, steady, q)
<1>1. s \in Sched /\ Sound(ahead, s) /\ Homely(home, steady, s)
  BY DEF Tidy, Sound, Shape
<1>2. Sound(ahead, q)
  <2>1. Shape(q)
    BY <1>1 DEF Sound, Shape
  <2>2. FilesPlaced(q)
    BY <1>1 DEF Sound, FilesPlaced, Held, Open
  <2>3. TestsSent(ahead, q)
    BY <1>1 DEF Sound, TestsSent, Held
  <2>4. QED
    BY <2>1, <2>2, <2>3 DEF Sound
<1>3. \A v \in Worker : Sent(q, v) = Sent(s, v)
  BY DEF Sent
<1>4. Homely(home, steady, q)
  BY <1>1, <1>3, PlacesKept
<1>5. QED
  BY <1>2, <1>4 DEF Tidy

LEMMA AddNodeCollectionTidy ==
  ASSUME NEW ahead, NEW home, NEW steady, NEW s, Tidy(ahead, home, steady, s), NEW w \in Worker
  PROVE  Tidy(ahead, home, steady, AddNodeCollection(s, w))
<1> DEFINE r == CollectionAdded(s, w)
           heard == [r EXCEPT !.waiting = None]
           failed == [s EXCEPT !.raised = "AssertionError"]
<1>1. AddNodeCollection(s, w) =
        IF Refused(s, w) THEN failed
        ELSE IF w = s.waiting THEN MaybeStart(heard)
        ELSE IF w = s.next THEN UpdateClone(r)
        ELSE r
  BY DEF AddNodeCollection, CollectionAdded, Then
<1>2. s \in Sched
  BY DEF Tidy, Sound, Shape
<1>3. Tidy(ahead, home, steady, failed)
  <2>1. /\ failed \in Sched /\ failed.active = s.active /\ failed.next = s.next
        /\ failed.standby = s.standby /\ failed.current = s.current /\ failed.nodes = s.nodes
        /\ failed.assigned = s.assigned /\ failed.completed = s.completed
        /\ failed.collected = s.collected /\ failed.torun = s.torun /\ failed.queue = s.queue
    BY <1>2 DEF Sched
  <2> HIDE DEF failed
  <2>2. QED
    BY <2>1, SamePlacesTidy
<1>4. /\ r \in Sched /\ r.active = s.active /\ r.next = s.next
      /\ r.standby = s.standby /\ r.current = s.current /\ r.nodes = s.nodes
      /\ r.assigned = s.assigned /\ r.completed = s.completed
      /\ r.collected = s.collected /\ r.torun = s.torun /\ r.queue = s.queue
  BY <1>2 DEF Sched, CollectionAdded
<1> HIDE DEF r, failed
<1>5. /\ heard \in Sched /\ heard.active = s.active /\ heard.next = s.next
      /\ heard.standby = s.standby /\ heard.current = s.current /\ heard.nodes = s.nodes
      /\ heard.assigned = s.assigned /\ heard.completed = s.completed
      /\ heard.collected = s.collected /\ heard.torun = s.torun /\ heard.queue = s.queue
  BY <1>4 DEF Sched
<1> HIDE DEF heard
<1>6. Tidy(ahead, home, steady, r) /\ Tidy(ahead, home, steady, heard)
  BY <1>4, <1>5, SamePlacesTidy
<1>7. QED
  BY <1>1, <1>3, <1>6, MaybeStartTidy, UpdateCloneTidy

(* When the tests are known, nobody has begun any. *)
LEMMA ScheduledTidy ==
  ASSUME NEW ahead, NEW home, NEW steady, NEW s, Tidy(ahead, home, steady, s),
         steady /\ ~s.collected => \A w \in Worker : home[w] = {}
  PROVE  Tidy(ahead, home, steady, Scheduled(s))
<1> DEFINE c == [s EXCEPT !.collected = TRUE, !.queue = FilesInOrder]
<1>1. s \in Sched /\ Sound(ahead, s) /\ Homely(home, steady, s)
  BY DEF Tidy, Sound, Shape
<1>2. CASE s.collected
  BY <1>2 DEF Scheduled
<1>3. CASE ~s.collected
  <2>1. /\ c \in Sched /\ c.active = s.active /\ c.next = s.next /\ c.standby = s.standby
        /\ c.current = s.current /\ c.nodes = s.nodes /\ c.assigned = s.assigned
        /\ c.torun = s.torun
    BY <1>1, FilesInOrderFacts DEF Sched
  <2>2. Scheduled(s) = c
    BY <1>3 DEF Scheduled
  <2>3. Sound(ahead, c)
    BY <1>1, <2>2, ScheduledSound
  <2> HIDE DEF c
  <2>4. LineUp(c) /\ Idle(c) \subseteq Idle(s)
    BY <1>1, <2>1 DEF Homely, LineUp, Idle
  <2>5. \A w \in Worker : Sent(c, w) = Sent(s, w) /\ Held(c, w) = Held(s, w)
    BY <2>1 DEF Sent, Held
  <2>6. steady => OneAtATime(home, c)
    BY <1>1, <1>3, <2>1, <2>5 DEF Homely, OneAtATime
  <2>7. Homely(home, steady, c)
    BY <1>1, <2>4, <2>5, <2>6, HomelyStays
  <2>8. QED
    BY <2>2, <2>3, <2>7 DEF Tidy
<1>4. QED
  BY <1>2, <1>3

LEMMA ScheduleMeans ==
  ASSUME NEW s
  PROVE  Schedule(s) = IF s.collected THEN MaybeStart(Scheduled(s))
                       ELSE IF Collection = <<>> THEN ShutdownUnneeded(Scheduled(s))
                       ELSE MaybeStart(Promote(Scheduled(s)))
BY DEF Schedule, Scheduled, Then

LEMMA ScheduleTidy ==
  ASSUME NEW ahead, NEW home, NEW steady, NEW s, Tidy(ahead, home, steady, s),
         steady /\ ~s.collected => \A w \in Worker : home[w] = {}
  PROVE  Tidy(ahead, home, steady, Schedule(s))
<1>1. Tidy(ahead, home, steady, Scheduled(s))
  BY ScheduledTidy
<1>2. /\ Tidy(ahead, home, steady, ShutdownUnneeded(Scheduled(s)))
      /\ Tidy(ahead, home, steady, Promote(Scheduled(s)))
      /\ Tidy(ahead, home, steady, MaybeStart(Scheduled(s)))
  BY <1>1, ShutdownUnneededTidy, PromoteTidy, MaybeStartTidy
<1>3. Tidy(ahead, home, steady, MaybeStart(Promote(Scheduled(s))))
  BY <1>2, MaybeStartTidy
<1>4. QED
  BY <1>2, <1>3, ScheduleMeans

(* Where nobody is left, there is nobody to reschedule for. *)
NoTurnMade(s, r, k) == k = 0 => r = s
Skipping == INSTANCE Folding WITH Method <- RescheduleTurn, Keeps <- NoTurnMade

LEMMA NobodyInTurn ==
  ASSUME NEW s
  PROVE  InTurn(Reschedule, s, <<>>) = s
<1>1. InTurn(Reschedule, s, <<>>) = Skipping!Loop(s, s, <<>>)
  BY DEF InTurn, Then, Skipping!Loop, RescheduleTurn, FoldLeft, Skipping!FoldLeft, MapThenFoldSet,
         Skipping!MapThenFoldSet, Max, Skipping!Max
<1>2. NoTurnMade(s, s, 0) /\ <<>> \in Seq({}) /\ Len(<<>>) = 0
  BY DEF NoTurnMade
<1>3. 0 .. (Len(<<>>) - 1) = {}
  BY <1>2
<1>4. NoTurnMade(s, Skipping!Loop(s, s, <<>>), Len(<<>>))
  BY <1>2, <1>3, Skipping!LoopKeeps
<1>5. QED
  BY <1>1, <1>2, <1>4 DEF NoTurnMade

(* A worker that leaves holds nothing, as long as no worker has died. *)
LEMMA WithoutTidy ==
  ASSUME NEW ahead, NEW home, NEW steady, NEW s, Tidy(ahead, home, steady, s), NEW w \in Worker,
         steady => Held(s, w) = {}
  PROVE  LET r == Without(s, w)
         IN  /\ Tidy(ahead, home, steady, r)
             /\ r.nodes = s.nodes /\ r.assigned = s.assigned /\ r.completed = s.completed
             /\ w \notin {r.active, r.next} /\ w \notin ToSet(r.standby) /\ r.torun = s.torun
<1> DEFINE r == Without(s, w)
<1>1. /\ s \in Sched /\ Sound(ahead, s) /\ Homely(home, steady, s) /\ LineUp(s)
      /\ s.standby \in Seq(Worker)
  BY DEF Tidy, Sound, Shape, Sched, Homely
<1>2. From(ahead, s, r) /\ w \notin {r.active, r.next} /\ r.assigned = s.assigned /\ r.torun = s.torun
  BY <1>1, WithoutKeeps
<1>3. /\ Distinct(RemoveFirst(s.standby, w))
      /\ ToSet(RemoveFirst(s.standby, w)) = ToSet(s.standby) \ {w}
  BY <1>1, RemoveFirstFacts DEF LineUp
<1>4. /\ r.active = Unless(w, s.active) /\ r.next = Unless(w, s.next)
      /\ r.standby = RemoveFirst(s.standby, w) /\ r.current = s.current \ {w}
      /\ r.nodes = s.nodes /\ r.completed = s.completed /\ r.collected = s.collected
  BY <1>1 DEF Sched, Without
<1> HIDE DEF r
<1>5. LineUp(r)
  <2>1. None \notin ToSet(s.standby)
    BY <1>1, NonEmptyFacts, WorkerNumbers
  <2>2. QED
    BY <1>1, <1>3, <1>4, <2>1 DEF LineUp, Unless
<1>6. Idle(r) \subseteq Idle(s)
  BY <1>3, <1>4, WorkerNumbers DEF Idle, Unless
<1>7. \A v \in Worker : Sent(r, v) = Sent(s, v) /\ Held(r, v) = Held(s, v)
  BY <1>2 DEF Sent, Held
<1>8. \A f : Open(r, f) = Open(s, f)
  BY <1>4 DEF Open
<1>9. steady => OneAtATime(home, r)
  <2> SUFFICES ASSUME steady PROVE OneAtATime(home, r)
    OBVIOUS
  <2>1. OneAtATime(home, s) /\ Held(s, w) = {}
    BY <1>1 DEF Homely
  <2>2. \A v \in Worker : Held(r, v) # {} => v = r.active /\ v \in r.current
    BY <1>4, <1>7, <2>1 DEF OneAtATime, Unless
  <2>3. QED
    BY <1>7, <1>8, <2>1, <2>2 DEF OneAtATime
<1>10. Homely(home, steady, r)
  BY <1>1, <1>5, <1>6, <1>7, <1>9, HomelyStays
<1>11. QED
  BY <1>2, <1>3, <1>4, <1>10 DEF Tidy, From, r

LEMMA LeaveNodesMeans ==
  ASSUME NEW ahead, NEW s, Sound(ahead, s), NEW w \in Worker,
         Pending(s, w) = {} \/ ToSet(s.nodes) \subseteq {w}
  PROVE  LeaveNodes(s, w) = WorkReturned(s, w)
<1> DEFINE gone == [s EXCEPT !.nodes = RemoveFirst(@, w), !.assigned[w] = <<>>]
           back == [gone EXCEPT !.queue = @ \o s.assigned[w]]
           b == WorkReturned(s, w)
<1>1. /\ s \in Sched /\ s.queue \in Seq(TestFile) /\ s.nodes \in Seq(Worker)
      /\ Distinct(s.nodes)
  BY DEF Sound, Shape, Sched
<1>2. LeaveNodes(s, w) = IF Pending(s, w) = {} THEN gone ELSE InTurn(Reschedule, back, back.nodes)
  BY DEF LeaveNodes
<1>3. back = b
  BY <1>1 DEF WorkReturned, Sched
<1>4. CASE Pending(s, w) = {}
  <2>1. s.assigned[w] = <<>>
    BY <1>4, NothingPending
  <2>2. s.queue \o <<>> = s.queue
    BY <1>1
  <2>3. gone = [s EXCEPT !.nodes = RemoveFirst(s.nodes, w),
                         !.assigned = [s.assigned EXCEPT ![w] = <<>>], !.queue = s.queue]
    BY <1>1 DEF Sched
  <2>4. QED
    BY <1>2, <1>4, <2>1, <2>2, <2>3 DEF WorkReturned
<1>5. CASE Pending(s, w) # {} /\ ToSet(s.nodes) \subseteq {w}
  <2>1. RemoveFirst(s.nodes, w) \in Seq(Worker) /\ ToSet(RemoveFirst(s.nodes, w)) = {}
    BY <1>1, <1>5, RemoveFirstFacts
  <2>2. RemoveFirst(s.nodes, w) = <<>>
    BY <2>1, NonEmptyFacts
  <2>3. b.nodes = <<>>
    BY <1>1, <2>2 DEF WorkReturned, Sched
  <2> HIDE DEF gone, back, b
  <2>4. InTurn(Reschedule, back, back.nodes) = b
    BY <1>3, <2>3, NobodyInTurn
  <2>5. QED
    BY <1>2, <1>5, <2>4 DEF b
<1>6. QED
  BY <1>4, <1>5

LEMMA ReturnTidy ==
  ASSUME NEW ahead, NEW home, NEW steady, NEW s, Tidy(ahead, home, steady, s), NEW w \in Worker,
         w \in ToSet(s.nodes), w \notin {s.active, s.next}, w \notin ToSet(s.standby),
         ahead[w] = {}, \A i \in DOMAIN s.torun[w] : s.torun[w][i] = SHUTDOWN,
         steady => Held(s, w) = {}
  PROVE  Tidy(ahead, home, steady, WorkReturned(s, w))
<1> DEFINE r == WorkReturned(s, w)
<1>1. /\ s \in Sched /\ Sound(ahead, s) /\ Homely(home, steady, s) /\ LineUp(s)
      /\ s.nodes \in Seq(Worker) /\ s.assigned \in [Worker -> Seq(TestFile)]
      /\ s.assigned[w] \in Seq(TestFile) /\ Distinct(s.nodes)
  BY DEF Tidy, Sound, Shape, Sched, Homely
<1>2. Sound(ahead, r)
  BY <1>1, ReturnKeeps
<1>3. ToSet(RemoveFirst(s.nodes, w)) = ToSet(s.nodes) \ {w}
  BY <1>1, RemoveFirstFacts
<1>4. /\ r.active = s.active /\ r.next = s.next /\ r.standby = s.standby
      /\ r.current = s.current /\ r.completed = s.completed /\ r.collected = s.collected
      /\ r.nodes = RemoveFirst(s.nodes, w) /\ r.torun = s.torun
      /\ r.assigned = [s.assigned EXCEPT ![w] = <<>>]
  BY <1>1 DEF Sched, WorkReturned
<1> HIDE DEF r
<1>5. LineUp(r) /\ Idle(r) \subseteq Idle(s)
  BY <1>1, <1>3, <1>4 DEF LineUp, Idle
<1>6. \A v \in Worker : Sent(r, v) = Sent(s, v)
  BY <1>4 DEF Sent
<1>7. \A v \in Worker : Held(r, v) = IF v = w THEN {} ELSE Held(s, v)
  BY <1>1, <1>4, EmptyFacts DEF Held
<1>8. \A f : Open(r, f) = Open(s, f)
  BY <1>4 DEF Open
<1>9. steady => OneAtATime(home, r)
  <2> SUFFICES ASSUME steady PROVE OneAtATime(home, r)
    OBVIOUS
  <2>1. OneAtATime(home, s) /\ \A v \in Worker : Held(r, v) = Held(s, v)
    BY <1>1, <1>7 DEF Homely
  <2>2. QED
    BY <1>4, <1>8, <2>1 DEF OneAtATime
<1>10. Homely(home, steady, r)
  BY <1>1, <1>5, <1>6, <1>9, HomelyStays
<1>11. QED
  BY <1>2, <1>10 DEF Tidy, r

(* A worker that is removed is through with its tests, or it was the only  *)
(* one there was.                                                          *)
LEMMA RemoveNodeTidy ==
  ASSUME NEW ahead, NEW home, NEW steady, NEW s, Tidy(ahead, home, steady, s), NEW w \in Worker,
         \/ Pending(s, w) = {}
         \/ /\ ~steady /\ ToSet(s.nodes) \subseteq {w} /\ ahead[w] = {}
            /\ \A i \in DOMAIN s.torun[w] : s.torun[w][i] = SHUTDOWN
  PROVE  Tidy(ahead, home, steady, RemoveNode(s, w))
<1> DEFINE s1 == Without(s, w)
           r == LeaveNodes(s1, w)
           replaced == Replaced(s, w, r)
           cloned == Cloned(s, w, r)
<1>1. /\ s \in Sched /\ Sound(ahead, s) /\ s.nodes \in Seq(Worker)
  BY DEF Tidy, Sound, Shape, Sched
<1>2. RemoveNode(s, w) = IF ~Contains(s.nodes, w) THEN s1
                         ELSE IF r.raised # None THEN r ELSE cloned
  BY <1>1, RemoveNodeMeans
<1>3. /\ ahead[w] = {} /\ \A i \in DOMAIN s.torun[w] : s.torun[w][i] = SHUTDOWN
      /\ steady => Held(s, w) = {}
  BY <1>1, NothingPending
<1>4. /\ Tidy(ahead, home, steady, s1)
      /\ s1.nodes = s.nodes /\ s1.assigned = s.assigned /\ s1.completed = s.completed
      /\ w \notin {s1.active, s1.next} /\ w \notin ToSet(s1.standby) /\ s1.torun = s.torun
  BY <1>3, WithoutTidy
<1> HIDE DEF s1
<1>5. CASE w \notin ToSet(s.nodes)
  BY <1>1, <1>2, <1>4, <1>5, ContainsMeans
<1>6. CASE w \in ToSet(s.nodes)
  <2>1. Pending(s1, w) = Pending(s, w) /\ Held(s1, w) = Held(s, w) /\ Sound(ahead, s1)
    BY <1>4 DEF Pending, Held, Tidy
  <2>2. r = WorkReturned(s1, w)
    BY <1>4, <2>1, LeaveNodesMeans
  <2> HIDE DEF r
  <2>3. Tidy(ahead, home, steady, r)
    BY <1>3, <1>4, <1>6, <2>1, <2>2, ReturnTidy
  <2>4. /\ Tidy(ahead, home, steady, MaybeStart(Promote(r)))
        /\ Tidy(ahead, home, steady, UpdateClone(FillNext(r)))
    BY <2>3, PromoteTidy, MaybeStartTidy, FillNextTidy, UpdateCloneTidy
  <2>5. Tidy(ahead, home, steady, replaced)
    BY <2>3, <2>4 DEF Replaced
  <2>6. Tidy(ahead, home, steady, cloned)
    <3>1. replaced \in Sched
      BY <2>5 DEF Tidy, Sound, Shape
    <3>2. replaced.clones \cup (s.clones \cap {w}) \in SUBSET Worker
      BY <1>1, <3>1 DEF Sched
    <3>3. cloned = [replaced EXCEPT !.clones = @ \cup (s.clones \cap {w})]
      BY DEF Cloned
    <3> HIDE DEF replaced, cloned
    <3>4. /\ cloned \in Sched /\ cloned.active = replaced.active /\ cloned.next = replaced.next
          /\ cloned.standby = replaced.standby /\ cloned.current = replaced.current
          /\ cloned.nodes = replaced.nodes /\ cloned.assigned = replaced.assigned
          /\ cloned.completed = replaced.completed /\ cloned.collected = replaced.collected
          /\ cloned.torun = replaced.torun /\ cloned.queue = replaced.queue
      BY <3>1, <3>2, <3>3 DEF Sched
    <3>5. QED
      BY <2>5, <3>4, SamePlacesTidy
  <2> HIDE DEF cloned, replaced
  <2>7. QED
    BY <1>1, <1>2, <1>6, <2>3, <2>6, ContainsMeans
<1>7. QED
  BY <1>5, <1>6

(* The active worker makes way as soon as its file is through. *)
Vacated(s, w, t) ==
  [Marked(s, w, t) EXCEPT !.current = @ \ {w}, !.active = Unless(w, @)]

Quitting(s, w, t) == ShutdownEach(Vacated(s, w, t), {w} \ Vacated(s, w, t).sent)

LEMMA CompletingMeans ==
  ASSUME NEW s \in Sched, NEW w, NEW t, Marked(s, w, t) \in Sched
  PROVE  LET r == MarkTestComplete(s, w, t)
         IN  /\ ~Through(s, t) => r = Marked(s, w, t)
             /\ Through(s, t) /\ w = s.active => r = MaybeStart(Promote(Quitting(s, w, t)))
             /\ Through(s, t) /\ w # s.active => r = Quitting(s, w, t)
<1> DEFINE b == Marked(s, w, t)
           d == [b EXCEPT !.current = @ \ {w}]
           v == Vacated(s, w, t)
           ws == {w} \ d.sent
           q == ShutdownEach(d, ws)
<1>1. MarkTestComplete(s, w, t) =
        IF ~Through(s, t) THEN b
        ELSE IF w = s.active THEN MaybeStart(Promote([q EXCEPT !.active = None]))
        ELSE q
  BY MarkTestCompleteMeans DEF Released, RequestShutdown
<1>2. b \in Sched /\ b.active = s.active
  BY DEF Marked, Sched
<1>3. v = [b EXCEPT !.current = b.current \ {w}, !.active = Unless(w, b.active)]
  BY <1>2 DEF Vacated, Sched
<1> HIDE DEF b, v
<1>4. d.down = b.down /\ d.broken = b.broken /\ d.sent = b.sent /\ d.torun = b.torun
      /\ v.down = b.down /\ v.broken = b.broken /\ v.sent = b.sent /\ v.torun = b.torun
  BY <1>2, <1>3 DEF Sched
<1> DEFINE up == ws \ b.down
           to == [x \in Worker |-> IF x \in up \ b.broken THEN Append(b.torun[x], SHUTDOWN)
                                   ELSE b.torun[x]]
<1>5. /\ q = [d EXCEPT !.sent = b.sent \cup up, !.torun = to]
      /\ ShutdownEach(v, ws) = [v EXCEPT !.sent = b.sent \cup up, !.torun = to]
  BY <1>4 DEF ShutdownEach
<1> HIDE DEF up, to, ws, q
<1>6. CASE w = s.active
  <2>1. v = [b EXCEPT !.current = b.current \ {w}, !.active = None]
    BY <1>2, <1>3, <1>6 DEF Unless
  <2>2. ShutdownEach(v, ws) = [q EXCEPT !.active = None]
    BY <1>2, <1>5, <2>1 DEF Sched
  <2>3. QED
    BY <1>1, <1>4, <1>6, <2>2 DEF ws, b, v, Quitting
<1>7. CASE w # s.active
  <2>1. v = d
    BY <1>2, <1>3, <1>7 DEF Unless, Sched
  <2>2. QED
    BY <1>1, <1>7, <2>1 DEF ws, q, b, v, Quitting
<1>8. QED
  BY <1>6, <1>7

LEMMA MarkedFrame ==
  ASSUME NEW s \in Sched, NEW w \in Worker, NEW t, Marked(s, w, t) \in Sched,
         Distinct(s.assigned[w])
  PROVE  LET b == Marked(s, w, t)
             r == Vacated(s, w, t)
         IN  /\ b.active = s.active /\ b.next = s.next /\ b.standby = s.standby
             /\ b.current = s.current /\ b.nodes = s.nodes /\ b.torun = s.torun
             /\ b.queue = s.queue /\ b.completed = s.completed \cup {t}
             /\ b.collected = s.collected /\ b.sent = s.sent /\ b.broken = s.broken
             /\ b.raised = s.raised
             /\ \A v \in Worker : Held(b, v) = IF v = w /\ Through(s, t)
                                               THEN Held(s, v) \ {FileOf[t]} ELSE Held(s, v)
             /\ r.active = Unless(w, b.active) /\ r.current = b.current \ {w}
             /\ r.next = b.next /\ r.standby = b.standby /\ r.nodes = b.nodes
             /\ r.assigned = b.assigned /\ r.completed = b.completed
             /\ r.collected = b.collected /\ r.torun = b.torun /\ r.queue = b.queue
             /\ r.sent = b.sent /\ r.broken = b.broken /\ r.raised = b.raised
             /\ r.registered = b.registered /\ r.down = b.down /\ r.numnodes = b.numnodes
             /\ r \in Sched
<1> DEFINE f == FileOf[t]
           b == Marked(s, w, t)
           r == Vacated(s, w, t)
<1>1. s.assigned \in [Worker -> Seq(TestFile)] /\ s.assigned[w] \in Seq(TestFile)
  BY DEF Sched
<1>2. /\ b.active = s.active /\ b.next = s.next /\ b.standby = s.standby
      /\ b.current = s.current /\ b.nodes = s.nodes /\ b.torun = s.torun /\ b.queue = s.queue
      /\ b.completed = s.completed \cup {t} /\ b.collected = s.collected
      /\ b.sent = s.sent /\ b.broken = s.broken /\ b.raised = s.raised
      /\ b.assigned = IF Through(s, t)
                      THEN [s.assigned EXCEPT ![w] = RemoveFirst(s.assigned[w], f)]
                      ELSE s.assigned
  BY DEF Sched, Marked
<1>3. ToSet(RemoveFirst(s.assigned[w], f)) = Held(s, w) \ {f}
  BY <1>1, RemoveFirstFacts DEF Held
<1>4. r = [b EXCEPT !.current = b.current \ {w}, !.active = Unless(w, b.active)]
  BY DEF Vacated, Sched
<1> HIDE DEF b, r
<1>5. \A v \in Worker :
        Held(b, v) = IF v = w /\ Through(s, t) THEN Held(s, v) \ {f} ELSE Held(s, v)
  <2> HIDE DEF f
  <2>1. QED
    BY <1>1, <1>2, <1>3 DEF Held
<1>6. b \in Sched
  BY DEF b
<1>7. /\ r.active = Unless(w, b.active) /\ r.next = b.next /\ r.standby = b.standby
      /\ r.current = b.current \ {w} /\ r.nodes = b.nodes /\ r.assigned = b.assigned
      /\ r.completed = b.completed /\ r.collected = b.collected /\ r.torun = b.torun
      /\ r.queue = b.queue /\ r.sent = b.sent /\ r.broken = b.broken /\ r.raised = b.raised
      /\ r.registered = b.registered /\ r.down = b.down /\ r.numnodes = b.numnodes
  BY <1>4, <1>6 DEF Sched
<1>8. r \in Sched
  BY <1>4, <1>6 DEF Sched, Unless
<1>9. QED
  BY <1>2, <1>5, <1>7, <1>8 DEF b, r

LEMMA MarkedTidy ==
  ASSUME NEW ahead, NEW left, NEW home, NEW steady, NEW s, Tidy(ahead, home, steady, s),
         NEW w \in Worker, NEW t \in ahead[w],
         \A v \in Worker : left[v] = IF v = w THEN ahead[w] \ {t} ELSE ahead[v]
  PROVE  /\ ~Through(s, t) => Tidy(left, home, steady, Marked(s, w, t))
         /\ Through(s, t) => Tidy(left, home, steady, Vacated(s, w, t))
         /\ Marked(s, w, t) \in Sched /\ Distinct(s.assigned[w])
         /\ FileOf[t] \in Held(s, w) /\ t \in Test
         /\ Idle(Marked(s, w, t)) = Idle(s) /\ Idle(Vacated(s, w, t)) \subseteq Idle(s)
<1> DEFINE f == FileOf[t]
           b == Marked(s, w, t)
           r == Vacated(s, w, t)
<1>1. /\ s \in Sched /\ Sound(ahead, s) /\ Homely(home, steady, s) /\ LineUp(s)
      /\ Distinct(s.assigned[w])
  BY DEF Tidy, Sound, Shape, Sched, FilesPlaced, Homely
<1>2. Sound(left, b) /\ b \in Sched
  <2>1. Sound(left, b)
    BY <1>1, MarkedKeeps
  <2>2. QED
    BY <2>1 DEF Sound, Shape
<1>3. f \in Held(s, w) /\ t \in Test
  BY <1>1 DEF Sound, TestsSent
<1>4. /\ b.active = s.active /\ b.next = s.next /\ b.standby = s.standby
      /\ b.current = s.current /\ b.nodes = s.nodes /\ b.torun = s.torun /\ b.queue = s.queue
      /\ b.completed = s.completed \cup {t} /\ b.collected = s.collected
      /\ \A v \in Worker :
           Held(b, v) = IF v = w /\ Through(s, t) THEN Held(s, v) \ {f} ELSE Held(s, v)
  BY <1>1, <1>2, MarkedFrame
<1>5. /\ r.active = Unless(w, b.active) /\ r.next = b.next /\ r.standby = b.standby
      /\ r.current = b.current \ {w} /\ r.nodes = b.nodes /\ r.assigned = b.assigned
      /\ r.completed = b.completed /\ r.collected = b.collected /\ r.torun = b.torun
      /\ r.queue = b.queue /\ r.broken = b.broken
      /\ r.registered = b.registered /\ r.down = b.down /\ r.numnodes = b.numnodes
      /\ r \in Sched
  BY <1>1, <1>2, MarkedFrame
<1> HIDE DEF b, r
<1>6. /\ \A g : Open(b, g) => Open(s, g)
      /\ Through(s, t) => ~Open(b, f)
  BY <1>4 DEF Open, Through
<1>7. From(left, b, r)
  <2>1. {r.active, r.next} \subseteq ToSet(b.nodes) \cup {None} /\ Same(b, r)
    BY <1>2, <1>5 DEF Sound, Shape, Same, Unless
  <2>2. QED
    BY <1>2, <1>5, <2>1, BookkeepingKeeps
<1>8. /\ \A v \in Worker : Sent(b, v) = Sent(s, v) /\ Sent(r, v) = Sent(s, v)
      /\ \A v \in Worker : Held(r, v) = Held(b, v)
      /\ \A g : Open(r, g) = Open(b, g)
  BY <1>4, <1>5 DEF Sent, Held, Open
<1>9. LineUp(b) /\ Idle(b) = Idle(s)
  BY <1>1, <1>4 DEF LineUp, Idle
<1>10. ~Through(s, t) => Tidy(left, home, steady, b)
  <2> SUFFICES ASSUME ~Through(s, t) PROVE Homely(home, steady, b)
    BY <1>2 DEF Tidy
  <2>1. steady => OneAtATime(home, b)
    BY <1>1, <1>4, <1>6 DEF Homely, OneAtATime
  <2>2. QED
    BY <1>1, <1>8, <1>9, <2>1, HomelyStays
<1>11. LineUp(r) /\ Idle(r) \subseteq Idle(s)
  <2>1. s.standby \in Seq(Worker) /\ None \notin ToSet(s.standby)
    BY <1>1, NonEmptyFacts, WorkerNumbers DEF Sched
  <2>2. QED
    BY <1>1, <1>4, <1>5, <2>1, WorkerNumbers DEF LineUp, Idle, Unless
<1>12. Through(s, t) => Tidy(left, home, steady, r)
  <2> SUFFICES ASSUME Through(s, t) PROVE Homely(home, steady, r)
    BY <1>7 DEF Tidy, From
  <2>1. ASSUME steady PROVE OneAtATime(home, r)
    <3>1. OneAtATime(home, s)
      BY <1>1, <2>1 DEF Homely
    <3>2. \A v \in Worker : Held(s, v) = IF v = w THEN {f} ELSE {}
      BY <1>3, <3>1 DEF OneAtATime
    <3>3. \A v \in Worker : Held(r, v) = {}
      BY <1>4, <1>8, <3>2
    <3>4. ASSUME NEW v \in Worker, NEW u \in home[v], Open(r, FileOf[u]) PROVE FALSE
      <4>1. Open(b, FileOf[u]) /\ FileOf[u] # f
        BY <1>6, <1>8, <3>4
      <4>2. FileOf[u] \in Held(s, v)
        BY <1>6, <3>1, <4>1 DEF OneAtATime
      <4>3. QED
        BY <3>2, <4>1, <4>2
    <3>5. QED
      BY <3>3, <3>4 DEF OneAtATime
  <2>2. QED
    BY <1>1, <1>8, <1>11, <2>1, HomelyStays
<1>13. QED
  BY <1>1, <1>2, <1>3, <1>9, <1>10, <1>11, <1>12 DEF b, r

LEMMA MarkTestCompleteTidy ==
  ASSUME NEW ahead, NEW left, NEW home, NEW steady, NEW s, Tidy(ahead, home, steady, s),
         NEW w \in Worker, NEW t \in ahead[w],
         \A v \in Worker : left[v] = IF v = w THEN ahead[w] \ {t} ELSE ahead[v]
  PROVE  Tidy(left, home, steady, MarkTestComplete(s, w, t))
<1> DEFINE v == Vacated(s, w, t)
           ws == {w} \ v.sent
           q == ShutdownEach(v, ws)
<1>1. /\ ~Through(s, t) => Tidy(left, home, steady, Marked(s, w, t))
      /\ Through(s, t) => Tidy(left, home, steady, v)
      /\ Marked(s, w, t) \in Sched
  BY MarkedTidy
<1>2. /\ ~Through(s, t) => MarkTestComplete(s, w, t) = Marked(s, w, t)
      /\ Through(s, t) /\ w = s.active => MarkTestComplete(s, w, t) = MaybeStart(Promote(q))
      /\ Through(s, t) /\ w # s.active => MarkTestComplete(s, w, t) = q
  <2>1. s \in Sched
    BY DEF Tidy, Sound, Shape
  <2>2. QED
    BY <1>1, <2>1, CompletingMeans DEF Quitting
<1> HIDE DEF v
<1>3. ws \in SUBSET Worker
  OBVIOUS
<1> HIDE DEF ws
<1>4. Through(s, t) => Tidy(left, home, steady, q)
  BY <1>1, <1>3, ShutdownTidy
<1>5. Through(s, t) => Tidy(left, home, steady, MaybeStart(Promote(q)))
  BY <1>4, PromoteTidy, MaybeStartTidy
<1>6. QED
  BY <1>1, <1>2, <1>4, <1>5

------------------------------------------------------------------------------
(***************************************************************************)
(* Replacements.  A worker marked for replacement that no longer runs a    *)
(* file is due to be replaced.  The scheduler pays for each replacement    *)
(* with a file that is through, except for a first one: as long as a file  *)
(* is queued, or is held by a worker that is not to be replaced, one file  *)
(* more will be through than replacements are due.                         *)
(***************************************************************************)
Orderly(s) ==
  \A w \in s.current : w = s.active /\ w \in s.sent \cup s.down /\ Held(s, w) # {}
Dues(s) == s.clones \ s.current
Unclaimed(s) ==
  s.queue # <<>> \/ \E w \in Worker : Held(s, w) # {} /\ ~(w \in s.clones /\ w \in s.current)

(* What every method of the scheduler does to these books.                  *)
Accounted(s, r) ==
  Orderly(r) /\ Dues(r) \subseteq Dues(s) /\ (Unclaimed(s) => Unclaimed(r))

LEMMA AccountedFollows ==
  ASSUME NEW s, NEW r, NEW q, Accounted(s, r), Accounted(r, q)
  PROVE  Accounted(s, q)
BY DEF Accounted

LEMMA AccountedStays ==
  ASSUME NEW s, NEW r, Orderly(s), r.current = s.current, r.clones = s.clones,
         r.assigned = s.assigned, r.queue = s.queue,
         r.active = s.active \/ s.current = {},
         s.sent \cup s.down \subseteq r.sent \cup r.down
  PROVE  Accounted(s, r)
<1>1. \A w \in Worker : Held(r, w) = Held(s, w)
  BY DEF Held
<1>2. Orderly(r)
  BY DEF Orderly, Held
<1>3. QED
  BY <1>1, <1>2 DEF Accounted, Dues, Unclaimed

LEMMA ShutdownAccounted ==
  ASSUME NEW s \in Sched, Orderly(s), NEW ws \in SUBSET Worker
  PROVE  /\ Accounted(s, ShutdownEach(s, ws))
         /\ s.sent \subseteq ShutdownEach(s, ws).sent /\ ws \subseteq ShutdownEach(s, ws).sent \cup s.down
         /\ ShutdownEach(s, ws).down = s.down
<1> DEFINE r == ShutdownEach(s, ws)
<1>1. /\ r.active = s.active /\ r.current = s.current /\ r.clones = s.clones
      /\ r.assigned = s.assigned /\ r.queue = s.queue
  BY ShutdownFrame
<1>2. r.sent = s.sent \cup (ws \ s.down) /\ r.down = s.down
  BY DEF ShutdownEach, Sched
<1> HIDE DEF r
<1>3. Accounted(s, r)
  BY <1>1, <1>2, AccountedStays
<1>4. QED
  BY <1>2, <1>3 DEF r

LEMMA FillNextAccounted ==
  ASSUME NEW s \in Sched, Orderly(s)
  PROVE  /\ Accounted(s, FillNext(s))
         /\ FillNext(s).active = s.active /\ FillNext(s).current = s.current
<1> DEFINE r == FillNext(s)
<1>1. /\ r.active = s.active /\ r.current = s.current /\ r.clones = s.clones
      /\ r.assigned = s.assigned /\ r.queue = s.queue /\ r.sent = s.sent /\ r.down = s.down
  <2>1. CASE r = s
    BY <2>1
  <2>2. CASE r = [s EXCEPT !.standby = <<>>]
    BY <2>2 DEF Sched
  <2>3. ASSUME NEW k \in DOMAIN s.standby,
               r = [s EXCEPT !.next = s.standby[k],
                             !.standby = SubSeq(s.standby, k + 1, Len(s.standby))]
        PROVE  /\ r.active = s.active /\ r.current = s.current /\ r.clones = s.clones
               /\ r.assigned = s.assigned /\ r.queue = s.queue /\ r.sent = s.sent
               /\ r.down = s.down
    BY <2>3 DEF Sched
  <2>4. QED
    BY <2>1, <2>2, <2>3, FillNextCases
<1> HIDE DEF r
<1>2. Accounted(s, r)
  BY <1>1, AccountedStays
<1>3. QED
  BY <1>1, <1>2 DEF r

LEMMA PromoteAccounted ==
  ASSUME NEW ahead, NEW s, Sound(ahead, s), Orderly(s)
  PROVE  Accounted(s, Promote(s))
<1> DEFINE f == FillNext(s)
           r == [f EXCEPT !.active = f.next, !.next = None, !.waiting = None]
<1>1. Promote(s) = IF s.active # None THEN s ELSE IF f.next = None THEN f ELSE r
  BY DEF Promote, Then
<1>2. s \in Sched /\ f \in Sched
  BY FillNextKeeps DEF Sound, Shape, From
<1>3. Accounted(s, f) /\ f.active = s.active /\ f.current = s.current
  BY <1>2, FillNextAccounted
<1>4. Accounted(s, s)
  BY AccountedStays
<1> HIDE DEF f
<1>5. CASE s.active = None /\ f.next # None
  <2>1. s.current = {}
    BY <1>2, <1>5, WorkerNumbers DEF Orderly, Sched
  <2>2. /\ r.current = f.current /\ r.clones = f.clones /\ r.assigned = f.assigned
        /\ r.queue = f.queue /\ r.sent = f.sent /\ r.down = f.down
    BY <1>2 DEF Sched
  <2> HIDE DEF r
  <2>3. Accounted(f, r)
    BY <1>3, <2>1, <2>2, AccountedStays DEF Accounted
  <2>4. QED
    BY <1>1, <1>3, <1>5, <2>3, AccountedFollows
<1>6. QED
  BY <1>1, <1>3, <1>4, <1>5

(* A worker at a file that is not to be replaced leaves the books open.     *)
LEMMA UpdateCloneAccounted ==
  ASSUME NEW s \in Sched, Orderly(s)
  PROVE  /\ Accounted(s, UpdateClone(s))
         /\ UpdateClone(s).active = s.active /\ UpdateClone(s).current = s.current
         /\ s.active \in s.current => Unclaimed(UpdateClone(s))
<1> DEFINE r == UpdateClone(s)
<1>1. /\ r.active = s.active /\ r.current = s.current /\ r.assigned = s.assigned
      /\ r.queue = s.queue /\ r.sent = s.sent /\ r.down = s.down
      /\ \A w \in Worker : Held(r, w) = Held(s, w)
  BY DEF UpdateClone, Sched, Held
<1>2. r = s \/ s.active \in s.current
  BY DEF UpdateClone
<1>3. ASSUME s.active \in s.current
      PROVE  \/ r.clones = s.clones \cup {s.active} /\ r.queue # <<>>
             \/ r.clones = s.clones \ {s.active}
  <2>1. s.active # None
    BY <1>3, WorkerNumbers DEF Sched
  <2>2. CASE Len(s.queue) > FutureWorkers(s)
    <3>1. r.clones = s.clones \cup {s.active}
      BY <1>3, <2>1, <2>2 DEF UpdateClone, Sched
    <3>2. FutureWorkers(s) \in Nat /\ s.queue \in Seq(TestFile)
      BY DEF FutureWorkers, Sched
    <3>3. s.queue # <<>>
      BY <2>2, <3>2
    <3>4. QED
      BY <1>1, <3>1, <3>3
  <2>3. CASE ~(Len(s.queue) > FutureWorkers(s))
    BY <1>3, <2>1, <2>3 DEF UpdateClone, Sched
  <2>4. QED
    BY <2>2, <2>3
<1> HIDE DEF r
<1>4. Orderly(r)
  BY <1>1 DEF Orderly, Held
<1>5. ASSUME s.active \in s.current
      PROVE  Unclaimed(r) /\ Dues(r) = Dues(s)
  <2>1. s.active \in Worker /\ Held(r, s.active) # {}
    BY <1>1, <1>5 DEF Orderly, Sched
  <2>2. Unclaimed(r)
    BY <1>3, <1>5, <2>1 DEF Unclaimed
  <2>3. Dues(r) = Dues(s)
    BY <1>1, <1>3, <1>5 DEF Dues
  <2>4. QED
    BY <2>2, <2>3
<1>6. Accounted(s, r)
  BY <1>2, <1>4, <1>5 DEF Accounted
<1>7. QED
  BY <1>1, <1>5, <1>6 DEF r

LEMMA ShutdownUnneededAccounted ==
  ASSUME NEW ahead, NEW s, Sound(ahead, s), Orderly(s)
  PROVE  /\ Accounted(s, ShutdownUnneeded(s))
         /\ ShutdownUnneeded(s).active = s.active /\ ShutdownUnneeded(s).current = s.current
<1> DEFINE idle == ({s.next, s.active} \cup ToSet(s.standby)) \ {None}
           down == RequestShutdown(s, idle)
           quiet == [down EXCEPT !.next = None, !.standby = <<>>]
<1>0. s \in Sched
  BY DEF Sound, Shape
<1>1. ShutdownUnneeded(s) = IF s.queue # <<>> THEN s ELSE UpdateClone(quiet)
  BY DEF ShutdownUnneeded, Then
<1>2. idle \in SUBSET Worker
  BY <1>0, NonEmptyFacts DEF Sched
<1>3. /\ Accounted(s, down) /\ down.active = s.active /\ down.current = s.current
      /\ down \in Sched
  <2>1. down = ShutdownEach(s, idle \ s.sent) /\ idle \ s.sent \in SUBSET Worker
    BY <1>2 DEF RequestShutdown
  <2> HIDE DEF idle, down
  <2>2. down \in Sched
    BY <2>1, ShutdownKeeps DEF From, Sound, Shape
  <2>3. QED
    BY <1>0, <2>1, <2>2, ShutdownAccounted, ShutdownFrame
<1> HIDE DEF idle, down
<1>4. /\ quiet.active = down.active /\ quiet.current = down.current
      /\ quiet.clones = down.clones /\ quiet.assigned = down.assigned /\ quiet.queue = down.queue
      /\ quiet.sent = down.sent /\ quiet.down = down.down /\ quiet \in Sched
  BY <1>3, <<>> \in Seq(Worker) DEF Sched
<1> HIDE DEF quiet
<1>5. Accounted(down, quiet)
  BY <1>3, <1>4, AccountedStays DEF Accounted
<1>6. Accounted(quiet, UpdateClone(quiet)) /\ UpdateClone(quiet).active = quiet.active
      /\ UpdateClone(quiet).current = quiet.current
  BY <1>4, <1>5, UpdateCloneAccounted DEF Accounted
<1>7. Accounted(s, UpdateClone(quiet)) /\ Accounted(s, s)
  BY <1>3, <1>5, <1>6, AccountedFollows, AccountedStays
<1>8. QED
  BY <1>1, <1>3, <1>4, <1>6, <1>7

LEMMA AssignBooks ==
  ASSUME NEW s \in Sched, NEW w \in Worker, s.queue # <<>>
  PROVE  LET r == Assign(s, w)
         IN  /\ r.active = s.active /\ r.current = s.current /\ r.clones = s.clones
             /\ r.sent = s.sent /\ r.down = s.down
             /\ \A v \in Worker : Held(s, v) \subseteq Held(r, v)
             /\ Held(r, w) # {}
<1> DEFINE r == Assign(s, w)
<1>1. /\ r.active = s.active /\ r.current = s.current
      /\ \A v \in Worker : Held(r, v) = IF v = w THEN Held(s, v) \cup {Head(s.queue)} ELSE Held(s, v)
  BY AssignFrame
<1>2. r.clones = s.clones /\ r.sent = s.sent /\ r.down = s.down
  BY DEF Assign, SendRuntest, Sched
<1> HIDE DEF r
<1>3. QED
  BY <1>1, <1>2 DEF r

(* A worker that has been told to finish is not given work, and one that   *)
(* has not is not at a file yet: what it is given is unclaimed.            *)
LEMMA RescheduleAccounted ==
  ASSUME NEW s \in Sched, Orderly(s), NEW w \in Worker
  PROVE  Accounted(s, Reschedule(s, w))
<1>1. Accounted(s, s)
  BY AccountedStays
<1>2. Accounted(s, Shutdown(s, w))
  BY ShutdownAccounted DEF Shutdown
<1>3. ASSUME w \notin s.down \cup s.sent, s.queue # <<>>
      PROVE  Accounted(s, Assign(s, w))
  <2> DEFINE r == Assign(s, w)
  <2>1. /\ r.active = s.active /\ r.current = s.current /\ r.clones = s.clones
        /\ r.sent = s.sent /\ r.down = s.down
        /\ \A v \in Worker : Held(s, v) \subseteq Held(r, v)
        /\ Held(r, w) # {}
    BY <1>3, AssignBooks
  <2> HIDE DEF r
  <2>2. w \notin s.current
    BY <1>3 DEF Orderly
  <2>3. Orderly(r)
    BY <2>1 DEF Orderly, Sched
  <2>4. Unclaimed(r)
    BY <2>1, <2>2 DEF Unclaimed
  <2>5. QED
    BY <2>1, <2>3, <2>4 DEF Accounted, Dues, r
<1>4. QED
  BY <1>1, <1>2, <1>3 DEF Reschedule

(* The active worker is told to finish as soon as it has its file.          *)
LEMMA StartActiveAccounted ==
  ASSUME NEW ahead, NEW s, Sound(ahead, s), Orderly(s),
         s.active # None, s.active \notin s.current, s.queue # <<>>
  PROVE  /\ Accounted(s, StartActive(s))
         /\ \E rest : /\ StartActive(s) = UpdateClone(rest) /\ Sound(ahead, rest)
                      /\ rest.active \in rest.current
<1> DEFINE w == s.active
           a == Assign(s, w)
           given == [a EXCEPT !.current = @ \cup {w}]
           told == RequestShutdown(given, {w})
           filled == FillNext(told)
           rest == ShutdownUnneeded(filled)
<1>1. StartActive(s) = UpdateClone(rest)
  BY DEF StartActive, Then
<1>2. s \in Sched /\ w \in Worker /\ w \in ToSet(s.nodes) /\ s.current = {}
  BY DEF Sound, Shape, Sched, Orderly
<1>3. From(ahead, s, a)
  BY <1>2, AssignKeeps
<1>4. /\ a.active = w /\ a.current = {} /\ a.clones = s.clones /\ a.sent = s.sent /\ a.down = s.down
      /\ \A v \in Worker : Held(s, v) \subseteq Held(a, v)
      /\ Held(a, w) # {}
  BY <1>2, AssignBooks
<1>5. a \in Sched /\ Sound(ahead, a) /\ {a.active, a.next} \subseteq ToSet(a.nodes) \cup {None}
  BY <1>3 DEF From, Sound, Shape
<1> HIDE DEF a
<1>6. From(ahead, a, given)
  BY <1>2, <1>5, BookkeepingKeeps DEF Sched, Same
<1>7. /\ given \in Sched /\ given.active = w /\ given.current = {w} /\ given.clones = s.clones
      /\ given.sent = s.sent /\ given.down = s.down /\ Held(given, w) # {} /\ given.queue = a.queue
  BY <1>2, <1>4, <1>5 DEF Sched, Held
<1> HIDE DEF given
<1>8. /\ From(ahead, given, told)
      /\ told.active = w /\ told.current = {w} /\ told.clones = s.clones
      /\ Held(told, w) # {} /\ w \in told.sent \cup told.down
  <2> DEFINE ws == {w} \ given.sent
  <2>1. ws \in SUBSET Worker /\ told = ShutdownEach(given, ws)
    BY <1>2 DEF RequestShutdown
  <2> HIDE DEF told, ws
  <2>2. /\ told.active = given.active /\ told.current = given.current /\ told.clones = given.clones
        /\ told.assigned = given.assigned
    BY <1>7, <2>1, ShutdownFrame
  <2>3. told.sent = given.sent \cup (ws \ given.down) /\ told.down = given.down
    BY <1>7, <2>1 DEF ShutdownEach, Sched
  <2>4. From(ahead, given, told)
    BY <1>6, <2>1, ShutdownKeeps DEF From
  <2>5. QED
    BY <1>7, <2>2, <2>3, <2>4 DEF Held, ws
<1> HIDE DEF told
<1>9. Orderly(told) /\ Sound(ahead, told) /\ Dues(told) \subseteq Dues(s)
  BY <1>2, <1>8 DEF Orderly, From, Dues
<1>10. /\ Accounted(told, filled) /\ filled.active = w /\ filled.current = {w}
       /\ Sound(ahead, filled)
  BY <1>8, <1>9, FillNextAccounted, FillNextKeeps DEF Sound, Shape, From
<1> HIDE DEF filled
<1>11. /\ Accounted(filled, rest) /\ rest.active = w /\ rest.current = {w} /\ Sound(ahead, rest)
  BY <1>10, ShutdownUnneededAccounted, ShutdownUnneededKeeps DEF From, Accounted
<1> HIDE DEF rest
<1>12. rest \in Sched /\ Orderly(rest)
  BY <1>11 DEF Sound, Shape, Accounted
<1>13. Accounted(rest, UpdateClone(rest)) /\ Unclaimed(UpdateClone(rest))
  BY <1>11, <1>12, UpdateCloneAccounted
<1>14. Accounted(s, UpdateClone(rest))
  BY <1>9, <1>10, <1>11, <1>13 DEF Accounted
<1>15. QED
  BY <1>1, <1>11, <1>14

LEMMA MaybeStartAccounted ==
  ASSUME NEW ahead, NEW s, Sound(ahead, s), Orderly(s)
  PROVE  Accounted(s, MaybeStart(s))
<1> DEFINE p == Promote(s)
           r == [p EXCEPT !.waiting = p.active]
<1>1. MaybeStart(s) =
        IF ~s.collected THEN s
        ELSE IF p.active = None THEN p
        ELSE IF p.active \notin p.registered THEN r
        ELSE IF p.active \in p.current THEN p
        ELSE IF p.queue = <<>> THEN ShutdownUnneeded(p)
        ELSE StartActive(p)
  BY DEF MaybeStart, Then
<1>2. Accounted(s, p) /\ Sound(ahead, p) /\ p \in Sched
  BY PromoteAccounted, PromoteKeeps DEF From, Sound, Shape
<1> HIDE DEF p
<1>3. Orderly(p) /\ Accounted(s, s)
  BY <1>2, AccountedStays DEF Accounted
<1>4. Accounted(p, r)
  <2>1. /\ r.active = p.active /\ r.current = p.current /\ r.clones = p.clones
        /\ r.assigned = p.assigned /\ r.queue = p.queue /\ r.sent = p.sent /\ r.down = p.down
    BY <1>2 DEF Sched
  <2> HIDE DEF r
  <2>2. QED
    BY <1>3, <2>1, AccountedStays
<1> HIDE DEF r
<1>5. Accounted(p, ShutdownUnneeded(p))
  BY <1>2, <1>3, ShutdownUnneededAccounted
<1>6. p.active # None /\ p.active \notin p.current /\ p.queue # <<>> => Accounted(p, StartActive(p))
  BY <1>2, <1>3, StartActiveAccounted
<1>7. QED
  BY <1>1, <1>2, <1>3, <1>4, <1>5, <1>6, AccountedFollows

LEMMA AddNodeAccounted ==
  ASSUME NEW ahead, NEW s, Sound(ahead, s), Orderly(s), NEW w \in Worker, w \notin ToSet(s.nodes)
  PROVE  Accounted(s, AddNode(s, w))
<1> DEFINE n == NodeAdded(s, w)
           spare == IF s.next = None THEN [n EXCEPT !.next = w]
                    ELSE [n EXCEPT !.standby = Append(@, w)]
           act == [n EXCEPT !.active = w, !.waiting = None]
<1>1. AddNode(s, w) = IF s.active = None THEN MaybeStart(act) ELSE UpdateClone(FillNext(spare))
  BY DEF AddNode, NodeAdded, Then
<1>2. /\ s \in Sched /\ s.nodes \in Seq(Worker) /\ s.standby \in Seq(Worker)
      /\ {s.active, s.next} \subseteq ToSet(s.nodes) \cup {None}
  BY DEF Sound, Shape, Sched
<1>3. /\ ToSet(Append(s.nodes, w)) = ToSet(s.nodes) \cup {w}
      /\ Append(s.standby, w) \in Seq(Worker)
  BY <1>2, AppendFacts
<1>4. /\ n \in Sched /\ Sound(ahead, n) /\ n.nodes = Append(s.nodes, w)
      /\ n.active = s.active /\ n.next = s.next /\ n.standby = s.standby /\ n.current = s.current
      /\ n.assigned = s.assigned /\ n.queue = s.queue
  BY NodeAddedSound
<1>5. n.clones = s.clones /\ n.sent = s.sent /\ n.down = s.down
  BY <1>2 DEF NodeAdded, Sched
<1> HIDE DEF n
<1>6. CASE s.active = None
  <2>1. From(ahead, n, act)
    BY <1>3, <1>4, BookkeepingKeeps DEF Sched, Same, Sound, Shape
  <2>2. /\ act.current = n.current /\ act.clones = n.clones /\ act.assigned = n.assigned
        /\ act.queue = n.queue /\ act.sent = n.sent /\ act.down = n.down
    BY <1>4 DEF Sched
  <2> HIDE DEF act
  <2>3. s.current = {}
    BY <1>2, <1>6, WorkerNumbers DEF Orderly, Sched
  <2>4. Accounted(s, act)
    BY <1>4, <1>5, <2>2, <2>3, AccountedStays
  <2>5. Accounted(act, MaybeStart(act))
    BY <2>1, <2>4, MaybeStartAccounted DEF From, Accounted
  <2>6. QED
    BY <1>1, <1>6, <2>4, <2>5, AccountedFollows
<1>7. CASE s.active # None
  <2>1. From(ahead, n, spare)
    BY <1>3, <1>4, BookkeepingKeeps DEF Sched, Same, Sound, Shape
  <2>2. /\ spare.active = n.active /\ spare.current = n.current /\ spare.clones = n.clones
        /\ spare.assigned = n.assigned /\ spare.queue = n.queue /\ spare.sent = n.sent
        /\ spare.down = n.down
    BY <1>4 DEF Sched
  <2> HIDE DEF spare
  <2>3. Accounted(s, spare)
    BY <1>4, <1>5, <2>2, AccountedStays
  <2>4. spare \in Sched /\ FillNext(spare) \in Sched
    BY <2>1, FillNextKeeps DEF From, Sound, Shape
  <2>5. Accounted(spare, FillNext(spare))
    BY <2>3, <2>4, FillNextAccounted DEF Accounted
  <2>6. Accounted(FillNext(spare), UpdateClone(FillNext(spare)))
    BY <2>4, <2>5, UpdateCloneAccounted DEF Accounted
  <2>7. QED
    BY <1>1, <1>7, <2>3, <2>5, <2>6, AccountedFollows
<1>8. QED
  BY <1>6, <1>7

LEMMA AddNodeCollectionAccounted ==
  ASSUME NEW ahead, NEW s, Sound(ahead, s), Orderly(s), NEW w \in Worker
  PROVE  Accounted(s, AddNodeCollection(s, w))
<1> DEFINE r == CollectionAdded(s, w)
           heard == [r EXCEPT !.waiting = None]
           failed == [s EXCEPT !.raised = "AssertionError"]
<1>1. AddNodeCollection(s, w) =
        IF Refused(s, w) THEN failed
        ELSE IF w = s.waiting THEN MaybeStart(heard)
        ELSE IF w = s.next THEN UpdateClone(r)
        ELSE r
  BY DEF AddNodeCollection, CollectionAdded, Then
<1>2. s \in Sched /\ {s.active, s.next} \subseteq ToSet(s.nodes) \cup {None}
  BY DEF Sound, Shape
<1>3. /\ failed.active = s.active /\ failed.current = s.current /\ failed.clones = s.clones
      /\ failed.assigned = s.assigned /\ failed.queue = s.queue /\ failed.sent = s.sent
      /\ failed.down = s.down
  BY <1>2 DEF Sched
<1>4. /\ r \in Sched /\ r.active = s.active /\ r.current = s.current /\ r.clones = s.clones
      /\ r.assigned = s.assigned /\ r.queue = s.queue /\ r.sent = s.sent /\ r.down = s.down
      /\ r.next = s.next /\ r.nodes = s.nodes /\ r.torun = s.torun /\ r.completed = s.completed
      /\ r.collected = s.collected
  BY <1>2 DEF Sched, CollectionAdded
<1> HIDE DEF r, failed
<1>5. /\ heard \in Sched /\ heard.active = s.active /\ heard.current = s.current
      /\ heard.clones = s.clones /\ heard.assigned = s.assigned /\ heard.queue = s.queue
      /\ heard.sent = s.sent /\ heard.down = s.down
      /\ heard.next = s.next /\ heard.nodes = s.nodes /\ heard.torun = s.torun
      /\ heard.completed = s.completed /\ heard.collected = s.collected
  BY <1>4 DEF Sched
<1> HIDE DEF heard
<1>6. Accounted(s, failed) /\ Accounted(s, r) /\ Accounted(s, heard)
  BY <1>3, <1>4, <1>5, AccountedStays
<1>7. Sound(ahead, heard)
  <2>1. Shape(heard)
    BY <1>2, <1>5 DEF Sound, Shape
  <2>2. FilesPlaced(heard)
    BY <1>5 DEF Sound, FilesPlaced, Held, Open
  <2>3. TestsSent(ahead, heard)
    BY <1>5 DEF Sound, TestsSent, Held
  <2>4. QED
    BY <2>1, <2>2, <2>3 DEF Sound
<1>8. Accounted(heard, MaybeStart(heard)) /\ Accounted(r, UpdateClone(r))
  BY <1>4, <1>6, <1>7, MaybeStartAccounted, UpdateCloneAccounted DEF Accounted
<1>9. QED
  BY <1>1, <1>6, <1>8, AccountedFollows

(* With the collection every file is queued.                                *)
LEMMA ScheduleAccounted ==
  ASSUME NEW ahead, NEW s, Sound(ahead, s), Orderly(s)
  PROVE  LET r == Schedule(s)
         IN  /\ Orderly(r) /\ Dues(r) \subseteq Dues(s)
             /\ TestFile # {} /\ (Unclaimed(s) \/ ~s.collected) => Unclaimed(r)
<1> DEFINE c == [s EXCEPT !.collected = TRUE, !.queue = FilesInOrder]
<1>1. Schedule(s) = IF s.collected THEN MaybeStart(s)
                    ELSE IF Collection = <<>> THEN ShutdownUnneeded(c)
                    ELSE MaybeStart(Promote(c))
  BY DEF Schedule, Then
<1>2. s \in Sched
  BY DEF Sound, Shape
<1>3. CASE s.collected
  BY <1>1, <1>3, MaybeStartAccounted DEF Accounted
<1>4. CASE ~s.collected
  <2>1. Sound(ahead, c)
    BY <1>2, <1>4, ScheduledSound DEF Scheduled
  <2>2. /\ c.active = s.active /\ c.current = s.current /\ c.clones = s.clones
        /\ c.assigned = s.assigned /\ c.sent = s.sent /\ c.down = s.down
        /\ c.queue = FilesInOrder
    BY <1>2 DEF Sched
  <2> HIDE DEF c
  <2>3. Orderly(c) /\ Dues(c) = Dues(s)
    BY <2>2 DEF Orderly, Dues, Held
  <2>4. TestFile # {} => c.queue # <<>>
    BY <2>2, FilesInOrderFacts, EmptyFacts
  <2>5. Accounted(c, ShutdownUnneeded(c)) /\ Accounted(c, Promote(c)) /\ Sound(ahead, Promote(c))
    BY <2>1, <2>3, ShutdownUnneededAccounted, PromoteAccounted, PromoteKeeps DEF From
  <2>6. Accounted(Promote(c), MaybeStart(Promote(c)))
    BY <2>5, MaybeStartAccounted DEF Accounted
  <2>7. Accounted(c, Schedule(s))
    BY <1>1, <1>4, <2>5, <2>6, AccountedFollows DEF c
  <2>8. QED
    BY <2>3, <2>4, <2>7 DEF Accounted, Unclaimed
<1>5. QED
  BY <1>3, <1>4

RescheduleAccounts(c, r, k) == From(c.ahead, c.s, r) /\ Accounted(c.s, r)
Accounting == INSTANCE Folding WITH Method <- RescheduleTurn, Keeps <- RescheduleAccounts

LEMMA RescheduleAllAccounted ==
  ASSUME NEW ahead, NEW s, Sound(ahead, s), Orderly(s)
  PROVE  Accounted(s, InTurn(Reschedule, s, s.nodes))
<1> DEFINE c == [ahead |-> ahead, s |-> s]
<1>1. InTurn(Reschedule, s, s.nodes) = Accounting!Loop(c, s, s.nodes)
  BY DEF InTurn, Then, Accounting!Loop, RescheduleTurn, FoldLeft, Accounting!FoldLeft,
         MapThenFoldSet, Accounting!MapThenFoldSet, Max, Accounting!Max
<1>2. s.nodes \in Seq(Worker)
  BY DEF Sound, Shape, Sched
<1>3. RescheduleAccounts(c, s, 0)
  BY FromItself, AccountedStays DEF RescheduleAccounts
<1>4. ASSUME NEW k \in 0 .. (Len(s.nodes) - 1), NEW r, RescheduleAccounts(c, r, k)
      PROVE  RescheduleAccounts(c, RescheduleTurn(c, r, s.nodes[k + 1]), k + 1)
  <2> DEFINE w == s.nodes[k + 1]
  <2>1. From(ahead, s, r) /\ Accounted(s, r)
    BY <1>4 DEF RescheduleAccounts
  <2>2. w \in Worker /\ w \in ToSet(r.nodes)
    <3>1. k + 1 \in DOMAIN s.nodes
      BY <1>2
    <3>2. QED
      BY <1>2, <2>1, <3>1 DEF From, Same, ToSet
  <2>3. From(ahead, r, Reschedule(r, w))
    BY <2>1, <2>2, RescheduleKeeps DEF From
  <2>4. Accounted(r, Reschedule(r, w))
    BY <2>1, <2>2, RescheduleAccounted DEF From, Sound, Shape, Accounted
  <2>5. RescheduleTurn(c, r, w) = Reschedule(r, w)
    BY DEF RescheduleTurn, Then
  <2>6. QED
    BY <2>1, <2>3, <2>4, <2>5, FromFollows, AccountedFollows DEF RescheduleAccounts
<1>5. RescheduleAccounts(c, Accounting!Loop(c, s, s.nodes), Len(s.nodes))
  BY <1>2, <1>3, <1>4, Accounting!LoopKeeps
<1>6. QED
  BY <1>1, <1>5 DEF RescheduleAccounts

LEMMA LeaveNodesAccounted ==
  ASSUME NEW ahead, NEW s, Sound(ahead, s), Orderly(s), NEW w \in Worker, w \in ToSet(s.nodes),
         w \notin {s.active, s.next}, ahead[w] = {},
         \A i \in DOMAIN s.torun[w] : s.torun[w][i] = SHUTDOWN
  PROVE  Accounted(s, LeaveNodes(s, w))
<1> DEFINE b == WorkReturned(s, w)
           gone == [s EXCEPT !.nodes = RemoveFirst(@, w), !.assigned[w] = <<>>]
           back == [gone EXCEPT !.queue = @ \o s.assigned[w]]
<1>1. s \in Sched /\ s.queue \in Seq(TestFile) /\ s.assigned \in [Worker -> Seq(TestFile)]
  BY DEF Sound, Shape, Sched
<1>2. Sound(ahead, b)
  BY ReturnKeeps
<1>3. LeaveNodes(s, w) = IF Pending(s, w) = {} THEN gone ELSE InTurn(Reschedule, back, back.nodes)
  BY DEF LeaveNodes
<1>4. back = b
  BY <1>1 DEF WorkReturned, Sched
<1>5. Pending(s, w) = {} => gone = b
  <2>1. Pending(s, w) = {} => s.assigned[w] = <<>>
    BY NothingPending
  <2>2. s.queue \o <<>> = s.queue
    BY <1>1
  <2>3. gone = [s EXCEPT !.nodes = RemoveFirst(s.nodes, w),
                         !.assigned = [s.assigned EXCEPT ![w] = <<>>], !.queue = s.queue]
    BY <1>1 DEF Sched
  <2>4. QED
    BY <2>1, <2>2, <2>3 DEF WorkReturned
<1>6. /\ b.active = s.active /\ b.current = s.current /\ b.clones = s.clones
      /\ b.sent = s.sent /\ b.down = s.down
      /\ b.assigned = [s.assigned EXCEPT ![w] = <<>>] /\ b.queue = s.queue \o s.assigned[w]
  BY <1>1 DEF WorkReturned, Sched
<1> HIDE DEF b, gone, back
<1>7. \A v \in Worker : v # w => Held(b, v) = Held(s, v)
  BY <1>1, <1>6 DEF Held
<1>8. w \notin s.current
  BY DEF Orderly
<1>9. Orderly(b)
  BY <1>1, <1>6, <1>7, <1>8 DEF Orderly, Sched
<1>10. Held(s, w) # {} \/ s.queue # <<>> => b.queue # <<>>
  <2>1. s.assigned[w] \in Seq(TestFile)
    BY <1>1
  <2>2. ToSet(b.queue) = ToSet(s.queue) \cup Held(s, w)
    BY <1>1, <1>6, <2>1, ConcatFacts DEF Held
  <2>3. s.queue # <<>> => ToSet(s.queue) # {}
    BY <1>1, NonEmptyFacts
  <2>4. QED
    BY <2>2, <2>3, EmptyFacts
<1>11. Unclaimed(s) => Unclaimed(b)
  BY <1>6, <1>7, <1>10 DEF Unclaimed
<1>12. Accounted(s, b)
  BY <1>6, <1>9, <1>11 DEF Accounted, Dues
<1>13. Accounted(b, InTurn(Reschedule, b, b.nodes))
  BY <1>2, <1>9, RescheduleAllAccounted
<1>14. QED
  BY <1>3, <1>4, <1>5, <1>12, <1>13, AccountedFollows

(* A worker that is removed at its file becomes due, if it was to be       *)
(* replaced; it holds nothing any more.                                    *)
LEMMA RemoveNodeAccounted ==
  ASSUME NEW ahead, NEW s, Sound(ahead, s), Orderly(s), NEW w \in Worker,
         \/ Pending(s, w) = {}
         \/ ahead[w] = {} /\ \A i \in DOMAIN s.torun[w] : s.torun[w][i] = SHUTDOWN
  PROVE  LET r == RemoveNode(s, w)
         IN  /\ Orderly(r) /\ (Unclaimed(s) => Unclaimed(r))
             /\ Dues(r) \subseteq Dues(s) \cup (s.clones \cap {w})
             /\ Held(r, w) = {}
<1> DEFINE s1 == Without(s, w)
           r == LeaveNodes(s1, w)
           replaced == Replaced(s, w, r)
           cloned == Cloned(s, w, r)
<1>1. s \in Sched /\ s.nodes \in Seq(Worker)
  BY DEF Sound, Shape, Sched
<1>2. RemoveNode(s, w) = IF ~Contains(s.nodes, w) THEN s1
                         ELSE IF r.raised # None THEN r ELSE cloned
  BY <1>1, RemoveNodeMeans
<1>3. ahead[w] = {} /\ \A i \in DOMAIN s.torun[w] : s.torun[w][i] = SHUTDOWN
  BY NothingPending
<1>4. /\ From(ahead, s, s1) /\ w \notin {s1.active, s1.next}
      /\ s1.assigned = s.assigned /\ s1.torun = s.torun /\ s1.queue = s.queue
  BY WithoutKeeps
<1>5. s1 \in Sched /\ Sound(ahead, s1) /\ s1.nodes = s.nodes
  BY <1>4 DEF From, Sound, Shape, Same
<1>6. /\ s1.active = Unless(w, s.active) /\ s1.current = s.current \ {w} /\ s1.clones = s.clones
      /\ s1.sent = s.sent /\ s1.down = s.down
  BY <1>1 DEF Without, Sched
<1>7. From(ahead, Left(s, w), RemoveNode(s, w))
  BY RemoveNodeKeeps
<1>8. Held(RemoveNode(s, w), w) = {}
  <2>1. w \notin ToSet(Left(s, w).nodes)
    BY <1>1, RemoveFirstFacts DEF Left, WorkReturned, Sched, Sound, Shape
  <2>2. Sound(ahead, RemoveNode(s, w)) /\ w \notin ToSet(RemoveNode(s, w).nodes)
    BY <1>7, <2>1 DEF From, Same
  <2>3. QED
    BY <2>2 DEF Sound, FilesPlaced
<1> HIDE DEF s1
<1>9. Orderly(s1) /\ Dues(s1) \subseteq Dues(s) \cup (s.clones \cap {w})
  BY <1>4, <1>6 DEF Orderly, Dues, Unless, Held
<1>10. Unclaimed(s) => Unclaimed(s1)
  BY <1>4, <1>6 DEF Unclaimed, Held
<1>11. CASE w \notin ToSet(s.nodes)
  BY <1>1, <1>2, <1>8, <1>9, <1>10, <1>11, ContainsMeans
<1>12. CASE w \in ToSet(s.nodes)
  <2>1. Accounted(s1, r) /\ Sound(ahead, r)
    BY <1>3, <1>4, <1>5, <1>9, <1>12, LeaveNodesAccounted, LeaveNodesKeeps DEF From
  <2> HIDE DEF r
  <2>2. r \in Sched /\ Orderly(r)
    BY <2>1 DEF Sound, Shape, Accounted
  <2>3. Accounted(r, Promote(r)) /\ Sound(ahead, Promote(r))
    BY <2>1, <2>2, PromoteAccounted, PromoteKeeps DEF From
  <2>4. Accounted(Promote(r), MaybeStart(Promote(r)))
    BY <2>3, MaybeStartAccounted DEF Accounted
  <2>5. Accounted(r, FillNext(r)) /\ FillNext(r) \in Sched
    BY <2>1, <2>2, FillNextAccounted, FillNextKeeps DEF From, Sound, Shape
  <2>6. Accounted(FillNext(r), UpdateClone(FillNext(r)))
    BY <2>5, UpdateCloneAccounted DEF Accounted
  <2>7. Accounted(r, replaced)
    <3>1. Accounted(r, r)
      BY <2>2, AccountedStays
    <3>2. QED
      BY <2>3, <2>4, <2>5, <2>6, <3>1, AccountedFollows DEF Replaced
  <2>8. replaced \in Sched
    <3>1. From(ahead, Promote(r), MaybeStart(Promote(r)))
      BY <2>3, MaybeStartKeeps
    <3>2. From(ahead, r, FillNext(r))
      BY <2>1, FillNextKeeps
    <3>3. From(ahead, FillNext(r), UpdateClone(FillNext(r)))
      BY <3>2, UpdateCloneKeeps DEF From
    <3>4. QED
      BY <2>2, <3>1, <3>3 DEF Replaced, From, Sound, Shape
  <2>9. RemoveNode(s, w) = IF r.raised # None THEN r ELSE cloned
    BY <1>1, <1>2, <1>12, ContainsMeans
  <2>10. cloned = [replaced EXCEPT !.clones = @ \cup (s.clones \cap {w})]
    BY DEF Cloned
  <2> HIDE DEF replaced, cloned
  <2>11. /\ cloned.active = replaced.active /\ cloned.current = replaced.current
         /\ cloned.clones = replaced.clones \cup (s.clones \cap {w})
         /\ cloned.sent = replaced.sent /\ cloned.down = replaced.down
         /\ cloned.queue = replaced.queue /\ cloned.assigned = replaced.assigned
    BY <2>8, <2>10 DEF Sched
  <2>12. Orderly(cloned) /\ Dues(cloned) \subseteq Dues(replaced) \cup (s.clones \cap {w})
    BY <2>7, <2>11 DEF Orderly, Accounted, Dues, Held
  <2>13. Held(cloned, w) = {} => (Unclaimed(replaced) => Unclaimed(cloned))
    BY <2>11 DEF Unclaimed, Held
  <2>14. CASE r.raised # None
    BY <1>8, <1>9, <1>10, <2>1, <2>9, <2>14 DEF Accounted
  <2>15. CASE r.raised = None
    BY <1>8, <1>9, <1>10, <2>1, <2>7, <2>9, <2>12, <2>13, <2>15 DEF Accounted
  <2>16. QED
    BY <2>14, <2>15
<1>13. QED
  BY <1>11, <1>12

(* A worker that is through with its file becomes due, if it was to be      *)
(* replaced; then somebody else held the books open, if anybody did.        *)
LEMMA MarkTestCompleteAccounted ==
  ASSUME NEW ahead, NEW left, NEW s, Sound(ahead, s), Orderly(s), NEW w \in Worker, NEW t \in ahead[w],
         \A v \in Worker : left[v] = IF v = w THEN ahead[w] \ {t} ELSE ahead[v]
  PROVE  LET r == MarkTestComplete(s, w, t)
         IN  IF ~Through(s, t) THEN Accounted(s, r)
             ELSE /\ Orderly(r)
                  /\ Dues(r) \subseteq Dues(s) \cup (s.clones \cap s.current \cap {w})
                  /\ w \in s.clones \cap s.current /\ Unclaimed(s) => Unclaimed(r)
<1> DEFINE f == FileOf[t]
           b == Marked(s, w, t)
           d == [b EXCEPT !.current = @ \ {w}]
           q == Released(s, w, t)
           idle == [q EXCEPT !.active = None]
<1>1. /\ s \in Sched /\ s.assigned \in [Worker -> Seq(TestFile)]
      /\ s.queue \in Seq(TestFile) /\ s.torun \in [Worker -> Seq(Test \cup {SHUTDOWN})]
  BY DEF Sound, Shape, Sched
<1>2. Sound(left, b) /\ b \in Sched
  BY MarkedKeeps DEF Sound, Shape
<1>3. From(left, b, q) /\ From(left, q, idle)
  BY <1>2, ReleasedKeeps
<1>4. MarkTestComplete(s, w, t) =
        IF ~Through(s, t) THEN b ELSE IF w = s.active THEN MaybeStart(Promote(idle)) ELSE q
  BY <1>1, MarkTestCompleteMeans
<1>5. /\ b.active = s.active /\ b.current = s.current /\ b.clones = s.clones
      /\ b.queue = s.queue /\ b.sent = s.sent /\ b.down = s.down
      /\ \A v \in Worker : v # w => b.assigned[v] = s.assigned[v]
      /\ ~Through(s, t) => b.assigned = s.assigned
  BY <1>1 DEF Sched, Marked
<1> HIDE DEF b
<1>6. CASE ~Through(s, t)
  BY <1>4, <1>5, <1>6, AccountedStays
<1>7. /\ q.active = s.active /\ q.current = s.current \ {w} /\ q.clones = s.clones
      /\ q.queue = s.queue /\ q.assigned = b.assigned /\ q.down = s.down
      /\ s.sent \subseteq q.sent
  <2>1. /\ d \in Sched /\ d.active = b.active /\ d.current = b.current \ {w}
        /\ d.clones = b.clones /\ d.queue = b.queue /\ d.assigned = b.assigned
        /\ d.sent = b.sent /\ d.down = b.down
    BY <1>2 DEF Sched
  <2> DEFINE ws == {w} \ d.sent
  <2>2. q = ShutdownEach(d, ws) /\ ws \in SUBSET Worker
    BY DEF Released, RequestShutdown, b
  <2> HIDE DEF d, q, ws
  <2>3. d.sent \subseteq q.sent /\ q.down = d.down
    BY <2>1, <2>2 DEF ShutdownEach, Sched
  <2>4. /\ q.active = d.active /\ q.current = d.current /\ q.assigned = d.assigned
        /\ q.clones = d.clones /\ q.queue = d.queue
    BY <2>1, <2>2, ShutdownFrame
  <2>5. QED
    BY <1>5, <2>1, <2>3, <2>4
<1> HIDE DEF q
<1>8. \A v \in Worker : v # w => Held(q, v) = Held(s, v)
  BY <1>5, <1>7 DEF Held
<1>9. Orderly(q)
  BY <1>1, <1>7, <1>8 DEF Orderly, Sched
<1>10. Dues(q) \subseteq Dues(s) \cup (s.clones \cap s.current \cap {w})
  BY <1>7 DEF Dues
<1>11. w \in s.clones \cap s.current /\ Unclaimed(s) => Unclaimed(q)
  BY <1>7, <1>8 DEF Unclaimed
<1>12. CASE Through(s, t) /\ w # s.active
  BY <1>4, <1>9, <1>10, <1>11, <1>12
<1>13. CASE Through(s, t) /\ w = s.active
  <2>1. /\ idle.current = q.current /\ idle.clones = q.clones /\ idle.queue = q.queue
        /\ idle.assigned = q.assigned /\ idle.sent = q.sent /\ idle.down = q.down
    BY <1>3 DEF From, Sound, Shape, Sched
  <2>2. q.current = {}
    BY <1>1, <1>7, <1>13 DEF Orderly, Sched
  <2> HIDE DEF idle
  <2>3. Accounted(q, idle)
    BY <1>9, <2>1, <2>2, AccountedStays
  <2>4. Accounted(idle, Promote(idle)) /\ Sound(left, Promote(idle))
    BY <1>3, <2>3, PromoteAccounted, PromoteKeeps DEF From, Accounted
  <2>5. Accounted(Promote(idle), MaybeStart(Promote(idle)))
    BY <2>4, MaybeStartAccounted DEF Accounted
  <2>6. Accounted(q, MaybeStart(Promote(idle)))
    BY <2>3, <2>4, <2>5, AccountedFollows
  <2>7. MarkTestComplete(s, w, t) = MaybeStart(Promote(idle))
    BY <1>4, <1>13
  <2>8. QED
    BY <1>10, <1>11, <1>13, <2>6, <2>7 DEF Accounted
<1>14. QED
  BY <1>6, <1>12, <1>13

------------------------------------------------------------------------------
(***************************************************************************)
(* Why no exception is raised.  p.ahead and p.home stand for what they did *)
(* above, p.ended for the workers that have taken the marker from their    *)
(* queue, p.dead for those that have died, and p.unheard for those that    *)
(* have not reported to be ready.                                          *)
(***************************************************************************)
LastWord(p, s, w) ==
  /\ \A i, j \in DOMAIN s.torun[w] :
       i < j /\ s.torun[w][i] = SHUTDOWN => s.torun[w][j] = SHUTDOWN
  /\ w \in p.ended => Sent(s, w) = {}
  /\ w \in p.ended \/ SHUTDOWN \in ToSet(s.torun[w]) => w \in s.sent

(* A spare takes sends as long as there may be a file for it, what is      *)
(* pending has been sent, and a worker is not done before.                 *)
Serene(p, s) ==
  /\ s.raised = None
  /\ \A w \in Idle(s) : Held(s, w) = {}
  /\ s.queue # <<>> \/ ~s.collected => Idle(s) \cap (s.sent \cup s.broken) = {}
  /\ p.unheard \cap (s.sent \cup s.broken \cup ToSet(s.nodes)) = {}
  /\ \A w \in Worker : LastWord(p, s, w)
  /\ \A w \in Worker \ p.dead : Pending(s, w) \subseteq p.ahead[w] \cup Sent(s, w)

Untroubled(p, s) == Tidy(p.ahead, p.home, FALSE, s) /\ Serene(p, s)

LEMMA PendingMeans ==
  ASSUME NEW s \in Sched, NEW w \in Worker
  PROVE  Pending(s, w) = {t \in Test : FileOf[t] \in Held(s, w)} \ s.completed
<1>1. s.assigned[w] \in Seq(TestFile)
  BY DEF Sched
<1>2. \A t \in Test : Contains(s.assigned[w], FileOf[t]) <=> FileOf[t] \in Held(s, w)
  BY <1>1, ContainsMeans DEF Held
<1>3. QED
  BY <1>2 DEF Pending

(* Nobody joins the line, and neither a file nor a command changes hands.  *)
LEMMA UntroubledStays ==
  ASSUME NEW p, NEW s, Untroubled(p, s), NEW r, Tidy(p.ahead, p.home, FALSE, r),
         Idle(r) \subseteq Idle(s), r.raised = s.raised,
         r.nodes = s.nodes, r.assigned = s.assigned, r.completed = s.completed,
         r.queue = s.queue, r.collected = s.collected, r.torun = s.torun,
         r.sent = s.sent, r.broken = s.broken
  PROVE  Untroubled(p, r)
<1>1. \A w \in Worker : /\ Held(r, w) = Held(s, w) /\ Pending(r, w) = Pending(s, w)
                        /\ Sent(r, w) = Sent(s, w)
  BY DEF Held, Pending, Sent
<1>2. \A w \in Worker : LastWord(p, s, w) => LastWord(p, r, w)
  BY <1>1 DEF LastWord
<1>3. Idle(r) \subseteq Worker
  BY DEF Idle
<1>4. Serene(p, r)
  BY <1>1, <1>2, <1>3 DEF Untroubled, Serene
<1>5. QED
  BY <1>4 DEF Untroubled

(* A worker that may get a file is not told to stop before the queue is    *)
(* empty.                                                                  *)
LEMMA DismissUntroubled ==
  ASSUME NEW p, NEW s, Untroubled(p, s), NEW ws \in SUBSET Worker, ws \cap p.unheard = {},
         (s.queue = <<>> /\ s.collected) \/ ws \cap Idle(s) = {}
  PROVE  Untroubled(p, ShutdownEach(s, ws))
<1> DEFINE r == ShutdownEach(s, ws)
           up == ws \ s.down
           q == [w \in Worker |-> IF w \in up \ s.broken THEN Append(s.torun[w], SHUTDOWN)
                                  ELSE s.torun[w]]
<1>1. s \in Sched /\ s.nodes \in Seq(Worker) /\ Serene(p, s)
  BY DEF Untroubled, Tidy, Sound, Shape, Sched
<1>2. /\ r.active = s.active /\ r.next = s.next /\ r.standby = s.standby
      /\ r.current = s.current /\ r.nodes = s.nodes /\ r.assigned = s.assigned
      /\ r.completed = s.completed /\ r.collected = s.collected /\ r.queue = s.queue
      /\ r.raised = s.raised
  BY <1>1, ShutdownFrame
<1>3. r = [s EXCEPT !.sent = s.sent \cup up, !.torun = q]
  BY DEF ShutdownEach
<1> HIDE DEF up, q
<1>4. r.sent = s.sent \cup up /\ r.torun = q /\ r.broken = s.broken
  BY <1>1, <1>3 DEF Sched
<1>5. Tidy(p.ahead, p.home, FALSE, r)
  BY ShutdownTidy DEF Untroubled
<1> HIDE DEF r
<1>6. ASSUME NEW w \in Worker
      PROVE  Sent(r, w) = Sent(s, w) /\ LastWord(p, r, w)
  <2> DEFINE old == s.torun[w]
  <2>1. old \in Seq(Test \cup {SHUTDOWN}) /\ SHUTDOWN \notin Test
    BY <1>1, NoTestTwice DEF Sched
  <2>2. \/ q[w] = old
        \/ w \in up /\ q[w] = Append(old, SHUTDOWN)
    BY DEF q
  <2>3. LastWord(p, s, w)
    BY <1>1 DEF Serene
  <2>4. CASE q[w] = old
    BY <1>4, <2>3, <2>4 DEF LastWord, Sent
  <2>5. CASE w \in up /\ q[w] = Append(old, SHUTDOWN)
    <3>1. /\ Len(q[w]) = Len(old) + 1 /\ Len(old) \in Nat
          /\ DOMAIN old = 1 .. Len(old) /\ DOMAIN q[w] = 1 .. Len(q[w])
          /\ q[w][Len(q[w])] = SHUTDOWN
          /\ \A i \in DOMAIN old : i \in DOMAIN q[w] /\ q[w][i] = old[i]
      BY <2>1, <2>5
    <3> HIDE DEF old
    <3>2. \A i \in DOMAIN q[w] : i \in DOMAIN old \/ (i = Len(q[w]) /\ i \notin DOMAIN old)
      BY <3>1
    <3>3. Sent(r, w) = Sent(s, w)
      BY <1>4, <2>1, <3>1, <3>2 DEF Sent, old
    <3>4. \A i, j \in DOMAIN q[w] : i < j /\ q[w][i] = SHUTDOWN => q[w][j] = SHUTDOWN
      <4> TAKE i, j \in DOMAIN q[w]
      <4>1. CASE j = Len(q[w])
        BY <3>1, <4>1
      <4>2. CASE j \in DOMAIN old
        <5>1. i < j => i \in DOMAIN old
          BY <3>1, <4>2
        <5>2. QED
          BY <2>3, <3>1, <4>2, <5>1 DEF LastWord, old
      <4>3. QED
        BY <3>2, <4>1, <4>2
    <3>5. QED
      BY <1>4, <2>3, <2>5, <3>3, <3>4 DEF LastWord
  <2>6. QED
    BY <2>2, <2>4, <2>5
<1>7. Idle(r) = Idle(s)
  BY <1>2 DEF Idle
<1>8. \A w \in Worker : Held(r, w) = Held(s, w) /\ Pending(r, w) = Pending(s, w)
  BY <1>2 DEF Held, Pending
<1>9. up \subseteq ws /\ Idle(s) \subseteq Worker
  BY DEF up, Idle
<1>10. Serene(p, r)
  <2>1. r.queue # <<>> \/ ~r.collected => Idle(r) \cap (r.sent \cup r.broken) = {}
    BY <1>1, <1>2, <1>4, <1>7, <1>9 DEF Serene
  <2>2. p.unheard \cap (r.sent \cup r.broken \cup ToSet(r.nodes)) = {}
    BY <1>1, <1>2, <1>4, <1>9 DEF Serene
  <2>3. QED
    BY <1>1, <1>2, <1>6, <1>7, <1>8, <1>9, <2>1, <2>2 DEF Serene
<1>11. QED
  BY <1>5, <1>10 DEF Untroubled, r

LEMMA ShutdownUntroubled ==
  ASSUME NEW p, NEW s, Untroubled(p, s), NEW ws \in SUBSET ToSet(s.nodes),
         (s.queue = <<>> /\ s.collected) \/ ws \cap Idle(s) = {}
  PROVE  Untroubled(p, ShutdownEach(s, ws))
<1>1. s.nodes \in Seq(Worker) /\ Serene(p, s)
  BY DEF Untroubled, Tidy, Sound, Shape, Sched
<1>2. ws \in SUBSET Worker /\ ws \cap p.unheard = {}
  BY <1>1, NonEmptyFacts DEF Serene
<1>3. QED
  BY <1>2, DismissUntroubled

LEMMA FillNextUntroubled ==
  ASSUME NEW p, NEW s, Untroubled(p, s)
  PROVE  /\ Untroubled(p, FillNext(s)) /\ FillNext(s).active = s.active
         /\ FillNext(s).current = s.current /\ FillNext(s).queue = s.queue
         /\ FillNext(s).collected = s.collected /\ FillNext(s).registered = s.registered
         /\ FillNext(s).nodes = s.nodes
<1> DEFINE r == FillNext(s)
<1>1. s \in Sched /\ s.standby \in Seq(Worker)
  BY DEF Untroubled, Tidy, Sound, Shape, Sched
<1>2. Tidy(p.ahead, p.home, FALSE, r)
  BY FillNextTidy DEF Untroubled
<1>3. /\ Idle(r) \subseteq Idle(s) /\ r.active = s.active /\ r.current = s.current
      /\ r.raised = s.raised /\ r.registered = s.registered
      /\ r.nodes = s.nodes /\ r.assigned = s.assigned /\ r.completed = s.completed
      /\ r.queue = s.queue /\ r.collected = s.collected /\ r.torun = s.torun
      /\ r.sent = s.sent /\ r.broken = s.broken
  <2>1. CASE r = s
    BY <2>1
  <2>2. CASE r = [s EXCEPT !.standby = <<>>]
    <3>1. /\ r.active = s.active /\ r.next = s.next /\ r.standby = <<>> /\ r.current = s.current
          /\ r.raised = s.raised /\ r.registered = s.registered
          /\ r.nodes = s.nodes /\ r.assigned = s.assigned /\ r.completed = s.completed
          /\ r.queue = s.queue /\ r.collected = s.collected /\ r.torun = s.torun
          /\ r.sent = s.sent /\ r.broken = s.broken
      BY <1>1, <2>2 DEF Sched
    <3> HIDE DEF r
    <3>2. QED
      BY <3>1, EmptyFacts DEF Idle
  <2>3. ASSUME NEW k \in DOMAIN s.standby,
               r = [s EXCEPT !.next = s.standby[k],
                             !.standby = SubSeq(s.standby, k + 1, Len(s.standby))]
        PROVE  /\ Idle(r) \subseteq Idle(s) /\ r.active = s.active /\ r.current = s.current
               /\ r.raised = s.raised /\ r.registered = s.registered
               /\ r.nodes = s.nodes /\ r.assigned = s.assigned /\ r.completed = s.completed
               /\ r.queue = s.queue /\ r.collected = s.collected /\ r.torun = s.torun
               /\ r.sent = s.sent /\ r.broken = s.broken
    <3> DEFINE rest == SubSeq(s.standby, k + 1, Len(s.standby))
               x == s.standby[k]
    <3>1. x \in ToSet(s.standby) /\ ToSet(rest) \subseteq ToSet(s.standby)
      BY <1>1, SuffixFacts DEF ToSet
    <3> HIDE DEF rest, x
    <3>2. r = [s EXCEPT !.next = x, !.standby = rest]
      BY <2>3 DEF x, rest
    <3>3. /\ r.active = s.active /\ r.next = x /\ r.standby = rest /\ r.current = s.current
          /\ r.raised = s.raised /\ r.registered = s.registered
          /\ r.nodes = s.nodes /\ r.assigned = s.assigned /\ r.completed = s.completed
          /\ r.queue = s.queue /\ r.collected = s.collected /\ r.torun = s.torun
          /\ r.sent = s.sent /\ r.broken = s.broken
      BY <1>1, <3>2 DEF Sched
    <3> HIDE DEF r
    <3>4. QED
      BY <3>1, <3>3 DEF Idle
  <2> HIDE DEF r
  <2>4. QED
    <3>1. \/ r = s \/ r = [s EXCEPT !.standby = <<>>]
          \/ \E k \in DOMAIN s.standby :
               r = [s EXCEPT !.next = s.standby[k],
                             !.standby = SubSeq(s.standby, k + 1, Len(s.standby))]
      BY <1>1, FillNextCases, Zenon DEF r
    <3>2. QED
      BY <2>1, <2>2, <2>3, <3>1, Zenon
<1> HIDE DEF r
<1>4. Untroubled(p, r)
  BY <1>2, <1>3, UntroubledStays
<1>5. QED
  BY <1>3, <1>4 DEF r

LEMMA PromoteUntroubled ==
  ASSUME NEW p, NEW s, Untroubled(p, s)
  PROVE  /\ Untroubled(p, Promote(s))
         /\ Promote(s).collected = s.collected
<1> DEFINE f == FillNext(s)
           r == [f EXCEPT !.active = f.next, !.next = None, !.waiting = None]
<1>1. Promote(s) = IF s.active # None THEN s ELSE IF f.next = None THEN f ELSE r
  BY DEF Promote, Then
<1>2. Untroubled(p, f) /\ f.active = s.active /\ f.collected = s.collected
  BY FillNextUntroubled
<1>3. Tidy(p.ahead, p.home, FALSE, Promote(s))
  BY PromoteTidy DEF Untroubled
<1> HIDE DEF f
<1>4. CASE s.active # None \/ f.next = None
  BY <1>1, <1>2, <1>4
<1>5. CASE s.active = None /\ f.next # None
  <2>1. f \in Sched
    BY <1>2 DEF Untroubled, Tidy, Sound, Shape
  <2>2. Promote(s) = r
    BY <1>1, <1>5
  <2>3. /\ r.active = f.next /\ r.next = None /\ r.standby = f.standby
        /\ r.raised = f.raised
        /\ r.nodes = f.nodes /\ r.assigned = f.assigned /\ r.completed = f.completed
        /\ r.queue = f.queue /\ r.collected = f.collected /\ r.torun = f.torun
        /\ r.sent = f.sent /\ r.broken = f.broken
    BY <2>1 DEF Sched
  <2> HIDE DEF r
  <2>4. Idle(r) \subseteq Idle(f)
    BY <2>3, WorkerNumbers DEF Idle
  <2>5. Untroubled(p, r)
    BY <1>2, <1>3, <2>2, <2>3, <2>4, UntroubledStays
  <2>6. QED
    BY <1>2, <2>2, <2>3, <2>5
<1>6. QED
  BY <1>4, <1>5

LEMMA UpdateCloneUntroubled ==
  ASSUME NEW p, NEW s, Untroubled(p, s)
  PROVE  Untroubled(p, UpdateClone(s))
<1> DEFINE r == UpdateClone(s)
<1>1. s \in Sched
  BY DEF Untroubled, Tidy, Sound, Shape
<1>2. Tidy(p.ahead, p.home, FALSE, r)
  BY UpdateCloneTidy DEF Untroubled
<1>3. /\ r.active = s.active /\ r.next = s.next /\ r.standby = s.standby /\ r.current = s.current
      /\ r.raised = s.raised
      /\ r.nodes = s.nodes /\ r.assigned = s.assigned /\ r.completed = s.completed
      /\ r.queue = s.queue /\ r.collected = s.collected /\ r.torun = s.torun
      /\ r.sent = s.sent /\ r.broken = s.broken
  BY <1>1 DEF Sched, UpdateClone
<1> HIDE DEF r
<1>4. Idle(r) = Idle(s)
  BY <1>3 DEF Idle
<1>5. QED
  BY <1>2, <1>3, <1>4, UntroubledStays DEF r

(* The spares are dismissed when nothing is queued.                        *)
LEMMA ShutdownUnneededUntroubled ==
  ASSUME NEW p, NEW s, Untroubled(p, s), s.collected
  PROVE  Untroubled(p, ShutdownUnneeded(s))
<1> DEFINE idle == ({s.next, s.active} \cup ToSet(s.standby)) \ {None}
           ws == idle \ s.sent
           down == ShutdownEach(s, ws)
           quiet == [down EXCEPT !.next = None, !.standby = <<>>]
<1>1. ShutdownUnneeded(s) = IF s.queue # <<>> THEN s ELSE UpdateClone(quiet)
  BY DEF ShutdownUnneeded, RequestShutdown, Then
<1>2. CASE s.queue # <<>>
  BY <1>1, <1>2
<1>3. CASE s.queue = <<>>
  <2>1. ws \in SUBSET ToSet(s.nodes)
    BY DEF Untroubled, Tidy, Sound, Shape, Homely, LineUp
  <2> HIDE DEF ws
  <2>2. Untroubled(p, down)
    BY <1>3, <2>1, ShutdownUntroubled
  <2> HIDE DEF down
  <2>3. down \in Sched /\ Sound(p.ahead, down) /\ Homely(p.home, FALSE, down) /\ LineUp(down)
        /\ {down.active, down.next} \subseteq ToSet(down.nodes) \cup {None}
    BY <2>2 DEF Untroubled, Tidy, Sound, Shape, Homely
  <2>4. From(p.ahead, down, quiet)
    BY <2>3, BookkeepingKeeps, <<>> \in Seq(Worker) DEF Sched, Same
  <2>5. /\ quiet.active = down.active /\ quiet.next = None /\ quiet.standby = <<>>
        /\ quiet.current = down.current /\ quiet.raised = down.raised
        /\ quiet.nodes = down.nodes /\ quiet.assigned = down.assigned
        /\ quiet.completed = down.completed /\ quiet.queue = down.queue
        /\ quiet.collected = down.collected /\ quiet.torun = down.torun
        /\ quiet.sent = down.sent /\ quiet.broken = down.broken
    BY <2>3 DEF Sched
  <2> HIDE DEF quiet
  <2>6. LineUp(quiet) /\ Idle(quiet) \subseteq Idle(down)
    BY <2>3, <2>5, EmptyFacts, WorkerNumbers DEF LineUp, Idle
  <2>7. \A w \in Worker : Sent(quiet, w) = Sent(down, w)
    BY <2>5 DEF Sent
  <2>8. Homely(p.home, FALSE, quiet)
    BY <2>3, <2>5, <2>6, <2>7, HomelyFollows
  <2>9. Tidy(p.ahead, p.home, FALSE, quiet)
    BY <2>4, <2>8 DEF From, Tidy
  <2>10. Untroubled(p, quiet)
    BY <2>2, <2>5, <2>6, <2>9, UntroubledStays
  <2>11. Untroubled(p, UpdateClone(quiet))
    BY <2>10, UpdateCloneUntroubled
  <2>12. QED
    BY <1>1, <1>3, <2>11 DEF quiet, down, ws
<1>4. QED
  BY <1>2, <1>3

(* A file is sent to a worker whose channel is open and that has collected. *)
LEMMA AssignSends ==
  ASSUME NEW s \in Sched, NEW w \in Worker, s.queue # <<>>, w \in s.registered, w \notin s.broken
  PROVE  LET r == Assign(s, w)
             new == TestsOf(Head(s.queue)) \ s.completed
         IN  /\ r.torun = [s.torun EXCEPT ![w] = @ \o InOrder(new)]
             /\ r.raised = s.raised /\ r.sent = s.sent /\ r.broken = s.broken
             /\ \A v \in Worker : Sent(r, v) = IF v = w THEN Sent(s, v) \cup new ELSE Sent(s, v)
             /\ SHUTDOWN \in ToSet(r.torun[w]) => SHUTDOWN \in ToSet(s.torun[w])
             /\ r.registered = s.registered
<1> DEFINE new == TestsOf(Head(s.queue)) \ s.completed
           sent == InOrder(new)
           old == s.torun[w]
           g == Given(s, w)
           r == Assign(s, w)
<1>1. /\ s.queue \in Seq(TestFile) /\ s.assigned \in [Worker -> Seq(TestFile)]
      /\ s.torun \in [Worker -> Seq(Test \cup {SHUTDOWN})] /\ old \in Seq(Test \cup {SHUTDOWN})
  BY DEF Sched
<1>2. new \in SUBSET Test
  BY DEF TestsOf
<1>3. sent \in Seq(Test) /\ ToSet(sent) = new
  BY <1>2, InOrderFacts
<1>4. g.torun = s.torun /\ g.raised = s.raised /\ g.sent = s.sent /\ g.broken = s.broken
      /\ g.completed = s.completed /\ g.registered = s.registered /\ g \in Sched
  <2>1. Tail(s.queue) \in Seq(TestFile) /\ Head(s.queue) \in TestFile
    BY <1>1, TailFacts
  <2>2. Append(s.assigned[w], Head(s.queue)) \in Seq(TestFile)
    BY <1>1, <2>1
  <2>3. QED
    BY <2>1, <2>2 DEF Given, Sched
<1>5. r = [g EXCEPT !.torun = [s.torun EXCEPT ![w] = old \o sent]]
  <2>1. r = SendRuntest(g, w, sent)
    BY DEF Assign, Given
  <2>2. QED
    BY <1>4, <2>1 DEF SendRuntest
<1> HIDE DEF g, sent, new, r
<1>6. /\ r.torun = [s.torun EXCEPT ![w] = old \o sent]
      /\ r.raised = s.raised /\ r.sent = s.sent /\ r.broken = s.broken /\ r.registered = s.registered
  BY <1>4, <1>5 DEF Sched
<1>7. ToSet(old \o sent) = ToSet(old) \cup ToSet(sent)
  <2>1. sent \in Seq(Test \cup {SHUTDOWN})
    BY <1>3, SeqMonotonic, Test \subseteq Test \cup {SHUTDOWN}
  <2>2. QED
    BY <1>1, <2>1, ConcatFacts
<1>8. \A v \in Worker : Sent(r, v) = IF v = w THEN Sent(s, v) \cup new ELSE Sent(s, v)
  <2>1. \A v \in Worker : Sent(r, v) = Test \cap ToSet(r.torun[v]) /\ Sent(s, v) = Test \cap ToSet(s.torun[v])
    BY DEF Sent, ToSet
  <2>2. \A v \in Worker : r.torun[v] = IF v = w THEN old \o sent ELSE s.torun[v]
    BY <1>1, <1>6
  <2>3. QED
    BY <1>2, <1>3, <1>7, <2>1, <2>2
<1>9. SHUTDOWN \in ToSet(r.torun[w]) => SHUTDOWN \in ToSet(old)
  BY <1>1, <1>2, <1>3, <1>6, <1>7, NoTestTwice
<1>10. QED
  BY <1>6, <1>8, <1>9 DEF r, new, sent

LEMMA StartActiveUntroubled ==
  ASSUME NEW p, NEW s, Untroubled(p, s), s.collected,
         s.active # None, s.active \notin s.current, s.active \in s.registered, s.queue # <<>>
  PROVE  Untroubled(p, StartActive(s))
<1> DEFINE w == s.active
           f == Head(s.queue)
           new == TestsOf(f) \ s.completed
           a == Assign(s, w)
           given == [a EXCEPT !.current = @ \cup {w}]
           ws == {w} \ given.sent
           told == ShutdownEach(given, ws)
           filled == FillNext(told)
<1>1. StartActive(s) = UpdateClone(ShutdownUnneeded(filled))
  BY DEF StartActive, RequestShutdown, Then
<1>2. /\ s \in Sched /\ Sound(p.ahead, s) /\ Homely(p.home, FALSE, s) /\ LineUp(s)
      /\ w \in Worker /\ w \in ToSet(s.nodes) /\ w \notin s.current /\ Serene(p, s)
  BY DEF Untroubled, Tidy, Sound, Shape, Sched, Homely
<1>3. w \in Idle(s)
  BY <1>2 DEF Idle
<1>4. w \notin s.sent /\ w \notin s.broken
  BY <1>2, <1>3 DEF Serene
<1>5. From(p.ahead, s, a)
  BY <1>2, AssignKeeps
<1>6. a \in Sched /\ Sound(p.ahead, a) /\ {a.active, a.next} \subseteq ToSet(a.nodes) \cup {None}
  BY <1>5 DEF From, Sound, Shape
<1>7. /\ a.active = w /\ a.next = s.next /\ a.standby = s.standby
      /\ a.current = s.current /\ a.nodes = s.nodes
      /\ a.completed = s.completed /\ a.collected = s.collected
      /\ \A v \in Worker : Held(a, v) = IF v = w THEN Held(s, v) \cup {f} ELSE Held(s, v)
  BY <1>2, AssignFrame
<1>8. /\ a.torun = [s.torun EXCEPT ![w] = @ \o InOrder(new)]
      /\ a.raised = s.raised /\ a.sent = s.sent /\ a.broken = s.broken
      /\ \A v \in Worker : Sent(a, v) = IF v = w THEN Sent(s, v) \cup new ELSE Sent(s, v)
      /\ SHUTDOWN \in ToSet(a.torun[w]) => SHUTDOWN \in ToSet(s.torun[w])
  BY <1>2, <1>4, AssignSends
<1>9. new = {t \in Test : FileOf[t] = f} \ s.completed
  BY DEF TestsOf
<1> HIDE DEF a, f, new
<1>10. From(p.ahead, a, given)
  BY <1>2, <1>6, BookkeepingKeeps DEF Sched, Same
<1>11. /\ given.active = w /\ given.next = s.next /\ given.standby = s.standby
       /\ given.current = s.current \cup {w} /\ given.nodes = s.nodes
       /\ given.completed = s.completed /\ given.collected = s.collected
       /\ given.torun = a.torun /\ given.raised = s.raised /\ given.sent = s.sent
       /\ given.broken = s.broken /\ given \in Sched
       /\ \A v \in Worker : Held(given, v) = Held(a, v) /\ Sent(given, v) = Sent(a, v)
  <2>1. /\ given.active = a.active /\ given.next = a.next /\ given.standby = a.standby
        /\ given.current = a.current \cup {w} /\ given.nodes = a.nodes
        /\ given.completed = a.completed /\ given.collected = a.collected
        /\ given.torun = a.torun /\ given.raised = a.raised /\ given.sent = a.sent
        /\ given.broken = a.broken /\ given.assigned = a.assigned
    BY <1>6 DEF Sched
  <2>2. given \in Sched
    BY <1>2, <1>6 DEF Sched
  <2> HIDE DEF given, w
  <2>3. QED
    BY <1>7, <1>8, <2>1, <2>2 DEF Held, Sent
<1> HIDE DEF given, w
<1>12. w = s.active
  BY DEF w
<1>13. LineUp(given)
  BY <1>2, <1>11, <1>12 DEF LineUp
<1>14. w \notin Idle(given) /\ Idle(given) \subseteq Idle(s)
  BY <1>2, <1>11, <1>12, <1>13, WorkerNumbers DEF Idle, LineUp
<1>15. Tidy(p.ahead, p.home, FALSE, given)
  <2>1. Work(p.home, s, w) = {}
    BY <1>2, <1>3 DEF Homely
  <2>2. \A v \in Worker : Work(p.home, given, v) \subseteq
          IF v = w THEN TestsOf(f) ELSE Work(p.home, s, v)
    BY <1>8, <1>9, <1>11, <2>1 DEF Work, TestsOf
  <2>3. \A v \in Idle(given) : Work(p.home, given, v) = {}
    <3> TAKE v \in Idle(given)
    <3>1. v \in Worker /\ v # w /\ Work(p.home, s, v) = {}
      BY <1>2, <1>14 DEF Homely, Idle
    <3>2. QED
      BY <2>2, <3>1
  <2>4. \A v \in Worker : OneFile(Work(p.home, given, v))
    <3> TAKE v \in Worker
    <3>1. CASE v = w
      BY <2>2, <3>1 DEF OneFile, TestsOf
    <3>2. CASE v # w
      BY <1>2, <2>2, <3>2 DEF OneFile, Homely
    <3>3. QED
      BY <3>1, <3>2
  <2>5. QED
    BY <1>10, <1>13, <2>3, <2>4 DEF Tidy, From, Homely
<1>16. Serene(p, given)
  <2>1. \A v \in Idle(given) : v \in Worker /\ v # w /\ v \in Idle(s)
    BY <1>14 DEF Idle
  <2>2. \A v \in Idle(given) : Held(given, v) = {}
    BY <1>2, <1>7, <1>11, <2>1 DEF Serene
  <2>3. Idle(given) \cap (given.sent \cup given.broken) = {}
    BY <1>2, <1>11, <1>14 DEF Serene
  <2>4. ASSUME NEW v \in Worker PROVE LastWord(p, given, v)
    <3>1. LastWord(p, s, v)
      BY <1>2 DEF Serene
    <3>2. CASE v = w
      <4>1. w \notin p.ended /\ SHUTDOWN \notin ToSet(given.torun[w])
        BY <1>4, <1>8, <1>11, <3>1, <3>2 DEF LastWord
      <4>2. QED
        BY <3>2, <4>1 DEF LastWord, ToSet
    <3>3. CASE v # w
      <4>1. given.torun[v] = s.torun[v]
        BY <1>2, <1>8, <1>11, <3>3 DEF Sched
      <4>2. QED
        BY <1>11, <3>1, <4>1 DEF LastWord, Sent
    <3>4. QED
      BY <3>2, <3>3
  <2>5. ASSUME NEW v \in Worker \ p.dead
        PROVE  Pending(given, v) \subseteq p.ahead[v] \cup Sent(given, v)
    <3>1. /\ Pending(given, v) = {t \in Test : FileOf[t] \in Held(given, v)} \ given.completed
          /\ Pending(s, v) = {t \in Test : FileOf[t] \in Held(s, v)} \ s.completed
      BY <1>2, <1>11, PendingMeans
    <3>2. Pending(s, v) \subseteq p.ahead[v] \cup Sent(s, v)
      BY <1>2 DEF Serene
    <3>3. QED
      BY <1>7, <1>8, <1>9, <1>11, <3>1, <3>2
  <2>6. QED
    BY <1>2, <1>11, <2>2, <2>3, <2>4, <2>5 DEF Serene
<1>17. Untroubled(p, told)
  <2>1. ws \in SUBSET ToSet(given.nodes) /\ ws \cap Idle(given) = {}
    BY <1>2, <1>11, <1>12, <1>14
  <2> HIDE DEF ws
  <2>2. QED
    BY <1>15, <1>16, <2>1, ShutdownUntroubled DEF Untroubled
<1>18. told.collected
  <2>1. ws \in SUBSET Worker
    BY <1>2, <1>12
  <2> HIDE DEF ws
  <2>2. QED
    BY <1>11, <2>1, ShutdownFrame
<1> HIDE DEF told
<1>19. Untroubled(p, filled) /\ filled.collected
  BY <1>17, <1>18, FillNextUntroubled
<1> HIDE DEF filled
<1>20. Untroubled(p, ShutdownUnneeded(filled))
  BY <1>19, ShutdownUnneededUntroubled
<1>21. QED
  BY <1>1, <1>20, UpdateCloneUntroubled DEF filled, told, ws, given, a, w

LEMMA MaybeStartUntroubled ==
  ASSUME NEW p, NEW s, Untroubled(p, s)
  PROVE  Untroubled(p, MaybeStart(s))
<1> DEFINE f == Promote(s)
           r == [f EXCEPT !.waiting = f.active]
<1>1. MaybeStart(s) =
        IF ~s.collected THEN s
        ELSE IF f.active = None THEN f
        ELSE IF f.active \notin f.registered THEN r
        ELSE IF f.active \in f.current THEN f
        ELSE IF f.queue = <<>> THEN ShutdownUnneeded(f)
        ELSE StartActive(f)
  BY DEF MaybeStart, Then
<1>2. Untroubled(p, f) /\ f.collected = s.collected
  BY PromoteUntroubled
<1>3. Tidy(p.ahead, p.home, FALSE, MaybeStart(s))
  BY MaybeStartTidy DEF Untroubled
<1> HIDE DEF f
<1>4. ASSUME MaybeStart(s) = r PROVE Untroubled(p, r)
  <2>1. f \in Sched
    BY <1>2 DEF Untroubled, Tidy, Sound, Shape
  <2>2. /\ r.active = f.active /\ r.next = f.next /\ r.standby = f.standby
        /\ r.current = f.current /\ r.raised = f.raised
        /\ r.nodes = f.nodes /\ r.assigned = f.assigned /\ r.completed = f.completed
        /\ r.queue = f.queue /\ r.collected = f.collected /\ r.torun = f.torun
        /\ r.sent = f.sent /\ r.broken = f.broken
    BY <2>1 DEF Sched
  <2> HIDE DEF r
  <2>3. Idle(r) = Idle(f)
    BY <2>2 DEF Idle
  <2>4. QED
    BY <1>2, <1>3, <1>4, <2>2, <2>3, UntroubledStays
<1> HIDE DEF r
<1>5. s.collected => Untroubled(p, ShutdownUnneeded(f))
  BY <1>2, ShutdownUnneededUntroubled
<1>6. /\ s.collected /\ f.active # None /\ f.active \in f.registered
      /\ f.active \notin f.current /\ f.queue # <<>>
      => Untroubled(p, StartActive(f))
  BY <1>2, StartActiveUntroubled
<1>7. QED
  BY <1>1, <1>2, <1>4, <1>5, <1>6

(* The worker that is added has been told nothing and has been sent nothing. *)
LEMMA AddNodeUntroubled ==
  ASSUME NEW p, NEW s, Untroubled(p, s), NEW w \in Worker, w \notin ToSet(s.nodes),
         Work(p.home, s, w) = {}, w \notin p.unheard, w \notin s.sent, w \notin s.broken
  PROVE  Untroubled(p, AddNode(s, w))
<1> DEFINE r == Joined(s, w)
<1>1. AddNode(s, w) = IF s.active = None THEN MaybeStart(r) ELSE UpdateClone(FillNext(r))
  BY AddNodeMeans
<1>2. Serene(p, s) /\ Held(s, w) = {}
  BY DEF Untroubled, Tidy, Sound, FilesPlaced
<1>3. /\ Tidy(p.ahead, p.home, FALSE, r) /\ Idle(r) \subseteq Idle(s) \cup {w}
      /\ ToSet(r.nodes) = ToSet(s.nodes) \cup {w} /\ r.assigned = s.assigned
      /\ r.completed = s.completed /\ r.queue = s.queue /\ r.collected = s.collected
      /\ r.torun = s.torun /\ r.sent = s.sent /\ r.broken = s.broken
      /\ r.raised = s.raised
  <2> DEFINE steady == FALSE
  <2>1. Tidy(p.ahead, p.home, steady, s)
    BY DEF Untroubled
  <2> HIDE DEF steady
  <2>2. Tidy(p.ahead, p.home, steady, r) /\ Idle(r) \subseteq Idle(s) \cup {w}
    BY <2>1, JoinedTidy
  <2>3. /\ ToSet(r.nodes) = ToSet(s.nodes) \cup {w} /\ r.assigned = s.assigned
        /\ r.completed = s.completed /\ r.queue = s.queue /\ r.collected = s.collected
        /\ r.torun = s.torun /\ r.sent = s.sent /\ r.broken = s.broken
        /\ r.raised = s.raised
    BY <2>1, JoinedTidy
  <2>4. QED
    BY <2>2, <2>3 DEF steady
<1> HIDE DEF r
<1>4. \A v \in Worker : /\ Held(r, v) = Held(s, v) /\ Pending(r, v) = Pending(s, v)
                        /\ Sent(r, v) = Sent(s, v)
  BY <1>3 DEF Held, Pending, Sent
<1>5. \A v \in Worker : LastWord(p, r, v)
  BY <1>2, <1>3, <1>4 DEF LastWord, Serene
<1>6. Serene(p, r)
  <2>1. \A v \in Idle(r) : Held(r, v) = {}
    BY <1>2, <1>3, <1>4 DEF Serene, Idle
  <2>2. r.queue # <<>> \/ ~r.collected => Idle(r) \cap (r.sent \cup r.broken) = {}
    BY <1>2, <1>3 DEF Serene
  <2>3. p.unheard \cap (r.sent \cup r.broken \cup ToSet(r.nodes)) = {}
    BY <1>2, <1>3 DEF Serene
  <2>4. QED
    BY <1>2, <1>3, <1>4, <1>5, <2>1, <2>2, <2>3 DEF Serene
<1>7. Untroubled(p, r)
  BY <1>3, <1>6 DEF Untroubled
<1>8. Untroubled(p, MaybeStart(r)) /\ Untroubled(p, UpdateClone(FillNext(r)))
  BY <1>7, MaybeStartUntroubled, FillNextUntroubled, UpdateCloneUntroubled
<1>9. QED
  BY <1>1, <1>8

(* A collection beyond those that are awaited arrives when the tests are   *)
(* known.                                                                  *)
LEMMA AddNodeCollectionUntroubled ==
  ASSUME NEW p, NEW s, Untroubled(p, s), NEW w \in Worker,
         ~Refused(s, w)
  PROVE  Untroubled(p, AddNodeCollection(s, w))
<1> DEFINE r == CollectionAdded(s, w)
           heard == [r EXCEPT !.waiting = None]
<1>1. AddNodeCollection(s, w) =
        IF w = s.waiting THEN MaybeStart(heard) ELSE IF w = s.next THEN UpdateClone(r) ELSE r
  BY DEF AddNodeCollection, CollectionAdded, Then
<1>2. s \in Sched
  BY DEF Untroubled, Tidy, Sound, Shape
<1>3. /\ r \in Sched /\ r.active = s.active /\ r.next = s.next
      /\ r.standby = s.standby /\ r.current = s.current /\ r.nodes = s.nodes
      /\ r.assigned = s.assigned /\ r.completed = s.completed
      /\ r.collected = s.collected /\ r.torun = s.torun /\ r.queue = s.queue
      /\ r.sent = s.sent /\ r.broken = s.broken /\ r.raised = s.raised
  BY <1>2 DEF Sched, CollectionAdded
<1> HIDE DEF r
<1>4. /\ heard \in Sched /\ heard.active = s.active /\ heard.next = s.next
      /\ heard.standby = s.standby /\ heard.current = s.current /\ heard.nodes = s.nodes
      /\ heard.assigned = s.assigned /\ heard.completed = s.completed
      /\ heard.collected = s.collected /\ heard.torun = s.torun /\ heard.queue = s.queue
      /\ heard.sent = s.sent /\ heard.broken = s.broken /\ heard.raised = s.raised
  BY <1>3 DEF Sched
<1> HIDE DEF heard
<1>5. Tidy(p.ahead, p.home, FALSE, r) /\ Tidy(p.ahead, p.home, FALSE, heard)
  BY <1>3, <1>4, SamePlacesTidy DEF Untroubled
<1>6. Idle(r) = Idle(s) /\ Idle(heard) = Idle(s)
  BY <1>3, <1>4 DEF Idle
<1>7. Untroubled(p, r) /\ Untroubled(p, heard)
  BY <1>3, <1>4, <1>5, <1>6, UntroubledStays
<1>8. QED
  BY <1>1, <1>7, MaybeStartUntroubled, UpdateCloneUntroubled

(* Until the tests are known the spares are not told to stop.               *)
LEMMA ScheduleUntroubled ==
  ASSUME NEW p, NEW s, Untroubled(p, s)
  PROVE  Untroubled(p, Schedule(s)) /\ Scheduled(s).collected
<1> DEFINE r == Scheduled(s)
<1>1. s \in Sched /\ Serene(p, s)
  BY DEF Untroubled, Tidy, Sound, Shape
<1>2. Tidy(p.ahead, p.home, FALSE, r)
  BY ScheduledTidy DEF Untroubled
<1>3. /\ r.active = s.active /\ r.next = s.next /\ r.standby = s.standby
      /\ r.current = s.current /\ r.raised = s.raised /\ r.nodes = s.nodes
      /\ r.assigned = s.assigned /\ r.completed = s.completed /\ r.torun = s.torun
      /\ r.sent = s.sent /\ r.broken = s.broken /\ r.collected
      /\ s.collected => r = s
  BY <1>1 DEF Scheduled, Sched
<1> HIDE DEF r
<1>4. Idle(r) = Idle(s)
  BY <1>3 DEF Idle
<1>5. \A w \in Worker : /\ Held(r, w) = Held(s, w) /\ Pending(r, w) = Pending(s, w)
                        /\ Sent(r, w) = Sent(s, w)
  BY <1>3 DEF Held, Pending, Sent
<1>6. \A w \in Worker : LastWord(p, r, w)
  BY <1>1, <1>3, <1>5 DEF LastWord, Serene
<1>7. r.queue # <<>> \/ ~r.collected => Idle(r) \cap (r.sent \cup r.broken) = {}
  BY <1>1, <1>3, <1>4 DEF Serene
<1>8. Serene(p, r)
  <2>1. Idle(r) \subseteq Worker
    BY DEF Idle
  <2>2. QED
    BY <1>1, <1>3, <1>4, <1>5, <1>6, <1>7, <2>1 DEF Serene
<1>9. Untroubled(p, r)
  BY <1>2, <1>8 DEF Untroubled
<1>10. /\ Untroubled(p, MaybeStart(r)) /\ Untroubled(p, ShutdownUnneeded(r))
       /\ Untroubled(p, MaybeStart(Promote(r)))
  BY <1>3, <1>9, MaybeStartUntroubled, ShutdownUnneededUntroubled, PromoteUntroubled
<1>11. QED
  BY <1>3, <1>10, ScheduleMeans DEF r

(* What a worker leaves behind waits for one that is still to come.         *)
LEMMA ReturnUntroubled ==
  ASSUME NEW p, NEW s, Untroubled(p, s), NEW w \in Worker, w \in ToSet(s.nodes),
         w \notin {s.active, s.next}, w \notin ToSet(s.standby), p.ahead[w] = {},
         \A i \in DOMAIN s.torun[w] : s.torun[w][i] = SHUTDOWN,
         Pending(s, w) = {} \/ ToSet(s.nodes) \subseteq {w}
  PROVE  Untroubled(p, WorkReturned(s, w))
<1> DEFINE r == WorkReturned(s, w)
<1>1. /\ s \in Sched /\ Serene(p, s) /\ Sound(p.ahead, s) /\ LineUp(s) /\ s.nodes \in Seq(Worker)
      /\ s.queue \in Seq(TestFile) /\ Distinct(s.nodes)
      /\ {s.active, s.next} \subseteq ToSet(s.nodes) \cup {None}
  BY DEF Untroubled, Tidy, Sound, Shape, Sched, Homely
<1>2. Tidy(p.ahead, p.home, FALSE, r)
  <2> DEFINE steady == FALSE
  <2>1. Tidy(p.ahead, p.home, steady, s) /\ ~steady
    BY DEF Untroubled
  <2> HIDE DEF steady
  <2>2. Tidy(p.ahead, p.home, steady, r)
    BY <2>1, ReturnTidy
  <2>3. QED
    BY <2>2 DEF steady
<1>3. ToSet(RemoveFirst(s.nodes, w)) = ToSet(s.nodes) \ {w}
  BY <1>1, RemoveFirstFacts
<1>4. /\ r.active = s.active /\ r.next = s.next /\ r.standby = s.standby
      /\ r.current = s.current /\ r.completed = s.completed /\ r.collected = s.collected
      /\ r.nodes = RemoveFirst(s.nodes, w) /\ r.torun = s.torun
      /\ r.assigned = [s.assigned EXCEPT ![w] = <<>>] /\ r.queue = s.queue \o s.assigned[w]
      /\ r.sent = s.sent /\ r.broken = s.broken /\ r.raised = s.raised
  BY <1>1 DEF Sched, WorkReturned
<1> HIDE DEF r
<1>5. \A v \in Worker : Held(r, v) = IF v = w THEN {} ELSE Held(s, v)
  BY <1>1, <1>4, EmptyFacts DEF Held, Sched
<1>6. \A v \in Worker : Sent(r, v) = Sent(s, v)
  BY <1>4 DEF Sent
<1>7. Idle(r) = Idle(s) /\ Idle(s) \subseteq Worker
  BY <1>4 DEF Idle
<1>8. \A v \in Worker : LastWord(p, r, v)
  BY <1>1, <1>4, <1>6 DEF LastWord, Serene
<1>9. r.queue # <<>> \/ ~r.collected => Idle(r) \cap (r.sent \cup r.broken) = {}
  <2>1. CASE Pending(s, w) = {}
    <3>1. s.assigned[w] = <<>>
      BY <1>1, <2>1, NothingPending
    <3>2. s.queue \o <<>> = s.queue
      BY <1>1
    <3>3. QED
      BY <1>1, <1>4, <1>7, <3>1, <3>2 DEF Serene
  <2>2. CASE ToSet(s.nodes) \subseteq {w}
    <3>1. Idle(s) = {}
      BY <1>1, <2>2, WorkerNumbers DEF LineUp, Idle
    <3>2. QED
      BY <1>7, <3>1
  <2>3. QED
    BY <2>1, <2>2
<1>10. \A v \in Worker \ p.dead : Pending(r, v) \subseteq p.ahead[v] \cup Sent(r, v)
  <2>1. r \in Sched
    BY <1>2 DEF Tidy, Sound, Shape
  <2>2. \A v \in Worker : /\ Pending(r, v) = {t \in Test : FileOf[t] \in Held(r, v)} \ r.completed
                          /\ Pending(s, v) = {t \in Test : FileOf[t] \in Held(s, v)} \ s.completed
    BY <1>1, <2>1, PendingMeans
  <2>3. \A v \in Worker : Pending(r, v) \subseteq Pending(s, v)
    BY <1>4, <1>5, <2>2
  <2>4. QED
    BY <1>1, <1>6, <2>3 DEF Serene
<1>11. Serene(p, r)
  <2>1. \A v \in Idle(r) : Held(r, v) = {}
    BY <1>1, <1>5, <1>7 DEF Serene
  <2>2. p.unheard \cap (r.sent \cup r.broken \cup ToSet(r.nodes)) = {}
    BY <1>1, <1>3, <1>4 DEF Serene
  <2>3. QED
    BY <1>1, <1>4, <1>8, <1>9, <1>10, <2>1, <2>2 DEF Serene
<1>12. QED
  BY <1>2, <1>11 DEF Untroubled, r

(* A worker that is removed has nothing pending, or it was the only one     *)
(* there was.                                                               *)
LEMMA RemoveNodeUntroubled ==
  ASSUME NEW p, NEW s, Untroubled(p, s), NEW w \in Worker,
         \/ Pending(s, w) = {}
         \/ /\ ToSet(s.nodes) \subseteq {w} /\ p.ahead[w] = {}
            /\ \A i \in DOMAIN s.torun[w] : s.torun[w][i] = SHUTDOWN
  PROVE  Untroubled(p, RemoveNode(s, w))
<1> DEFINE s1 == Without(s, w)
           r == LeaveNodes(s1, w)
           replaced == Replaced(s, w, r)
           cloned == Cloned(s, w, r)
<1>1. s \in Sched /\ Sound(p.ahead, s) /\ s.nodes \in Seq(Worker) /\ s.raised = None
  BY DEF Untroubled, Tidy, Sound, Shape, Sched, Serene
<1>2. RemoveNode(s, w) = IF ~Contains(s.nodes, w) THEN s1
                         ELSE IF r.raised # None THEN r ELSE cloned
  BY <1>1, RemoveNodeMeans
<1>3. p.ahead[w] = {} /\ \A i \in DOMAIN s.torun[w] : s.torun[w][i] = SHUTDOWN
  BY <1>1, NothingPending
<1>4. /\ Tidy(p.ahead, p.home, FALSE, s1)
      /\ w \notin {s1.active, s1.next} /\ w \notin ToSet(s1.standby)
  <2> DEFINE steady == FALSE
  <2>1. Tidy(p.ahead, p.home, steady, s) /\ ~steady
    BY DEF Untroubled
  <2> HIDE DEF steady
  <2>2. /\ Tidy(p.ahead, p.home, steady, s1)
        /\ w \notin {s1.active, s1.next} /\ w \notin ToSet(s1.standby)
    BY <2>1, WithoutTidy
  <2>3. QED
    BY <2>2 DEF steady
<1>5. /\ s1.active = Unless(w, s.active) /\ s1.next = Unless(w, s.next)
      /\ s1.standby = RemoveFirst(s.standby, w) /\ s1.current = s.current \ {w}
      /\ s1.nodes = s.nodes /\ s1.assigned = s.assigned /\ s1.completed = s.completed
      /\ s1.collected = s.collected /\ s1.torun = s.torun /\ s1.queue = s.queue
      /\ s1.sent = s.sent /\ s1.broken = s.broken /\ s1.raised = s.raised
  BY <1>1 DEF Sched, Without
<1> HIDE DEF s1
<1>6. Idle(s1) \subseteq Idle(s)
  <2>1. s.standby \in Seq(Worker)
    BY <1>1 DEF Sched
  <2>2. ToSet(RemoveFirst(s.standby, w)) \subseteq ToSet(s.standby)
    BY <2>1, RemoveFirstFacts
  <2>3. QED
    BY <1>4, <1>5, <2>2, WorkerNumbers DEF Idle, Unless
<1>7. Untroubled(p, s1)
  BY <1>4, <1>5, <1>6, UntroubledStays
<1>8. CASE w \notin ToSet(s.nodes)
  BY <1>1, <1>2, <1>7, <1>8, ContainsMeans
<1>9. CASE w \in ToSet(s.nodes)
  <2>1. Pending(s1, w) = Pending(s, w) /\ Sound(p.ahead, s1)
    BY <1>4, <1>5 DEF Pending, Tidy
  <2>2. r = WorkReturned(s1, w)
    BY <1>5, <2>1, LeaveNodesMeans
  <2> HIDE DEF r
  <2>3. Untroubled(p, r)
    BY <1>3, <1>4, <1>5, <1>7, <1>9, <2>1, <2>2, ReturnUntroubled
  <2>4. Untroubled(p, MaybeStart(Promote(r))) /\ Untroubled(p, UpdateClone(FillNext(r)))
    BY <2>3, PromoteUntroubled, MaybeStartUntroubled, FillNextUntroubled, UpdateCloneUntroubled
  <2>5. Untroubled(p, replaced)
    BY <2>3, <2>4 DEF Replaced
  <2>6. Untroubled(p, cloned)
    <3>1. replaced \in Sched
      BY <2>5 DEF Untroubled, Tidy, Sound, Shape
    <3>2. replaced.clones \cup (s.clones \cap {w}) \in SUBSET Worker
      BY <1>1, <3>1 DEF Sched
    <3>3. cloned = [replaced EXCEPT !.clones = @ \cup (s.clones \cap {w})]
      BY DEF Cloned
    <3> HIDE DEF replaced, cloned
    <3>4. /\ cloned \in Sched /\ cloned.active = replaced.active /\ cloned.next = replaced.next
          /\ cloned.standby = replaced.standby /\ cloned.current = replaced.current
          /\ cloned.nodes = replaced.nodes /\ cloned.assigned = replaced.assigned
          /\ cloned.completed = replaced.completed /\ cloned.collected = replaced.collected
          /\ cloned.torun = replaced.torun /\ cloned.queue = replaced.queue
          /\ cloned.sent = replaced.sent /\ cloned.broken = replaced.broken
          /\ cloned.raised = replaced.raised
      BY <3>1, <3>2, <3>3 DEF Sched
    <3>5. Idle(cloned) = Idle(replaced)
      BY <3>4 DEF Idle
    <3>6. Tidy(p.ahead, p.home, FALSE, cloned)
      BY <2>5, <3>4, SamePlacesTidy DEF Untroubled
    <3>7. QED
      BY <2>5, <3>4, <3>5, <3>6, UntroubledStays
  <2>7. r.raised = None
    BY <2>3 DEF Untroubled, Serene
  <2> HIDE DEF cloned, replaced
  <2>8. QED
    BY <1>1, <1>2, <1>9, <2>6, <2>7, ContainsMeans
<1>10. QED
  BY <1>8, <1>9

(* The worker that has run its file was no spare, so it may be told to stop. *)
LEMMA MarkTestCompleteUntroubled ==
  ASSUME NEW p, NEW q, NEW s, Untroubled(p, s), NEW w \in Worker, NEW t \in p.ahead[w],
         \A v \in Worker : q.ahead[v] = IF v = w THEN p.ahead[w] \ {t} ELSE p.ahead[v],
         q.home = p.home, q.ended = p.ended, q.dead = p.dead, q.unheard = p.unheard
  PROVE  Untroubled(q, MarkTestComplete(s, w, t))
<1> DEFINE b == Marked(s, w, t)
           m == Vacated(s, w, t)
           ws == {w} \ m.sent
           told == ShutdownEach(m, ws)
<1>1. s \in Sched /\ Serene(p, s) /\ FilesPlaced(s)
  BY DEF Untroubled, Tidy, Sound, Shape
<1>2. /\ ~Through(s, t) => Tidy(q.ahead, q.home, FALSE, b)
      /\ Through(s, t) => Tidy(q.ahead, q.home, FALSE, m)
      /\ b \in Sched /\ Distinct(s.assigned[w])
      /\ FileOf[t] \in Held(s, w) /\ t \in Test
      /\ Idle(b) = Idle(s) /\ Idle(m) \subseteq Idle(s)
  <2> DEFINE steady == FALSE
             ahead == p.ahead
             left == q.ahead
             home == p.home
  <2>1. /\ Tidy(ahead, home, steady, s) /\ t \in ahead[w]
        /\ \A v \in Worker : left[v] = IF v = w THEN ahead[w] \ {t} ELSE ahead[v]
    BY DEF Untroubled
  <2> HIDE DEF steady, ahead, left, home
  <2>2. /\ ~Through(s, t) => Tidy(left, home, steady, b)
        /\ Through(s, t) => Tidy(left, home, steady, m)
        /\ b \in Sched /\ Distinct(s.assigned[w])
        /\ FileOf[t] \in Held(s, w) /\ t \in Test
        /\ Idle(b) = Idle(s) /\ Idle(m) \subseteq Idle(s)
    BY <2>1, MarkedTidy
  <2> HIDE DEF b, m
  <2>3. QED
    BY <2>2 DEF steady, left, home
<1>3. /\ b.nodes = s.nodes /\ b.completed = s.completed \cup {t} /\ b.queue = s.queue
      /\ b.collected = s.collected /\ b.torun = s.torun /\ b.sent = s.sent
      /\ b.broken = s.broken /\ b.raised = s.raised
      /\ \A v \in Worker : Held(b, v) = IF v = w /\ Through(s, t) THEN Held(s, v) \ {FileOf[t]}
                                        ELSE Held(s, v)
  BY <1>1, <1>2, MarkedFrame
<1>4. /\ m.nodes = b.nodes
      /\ m.assigned = b.assigned /\ m.completed = b.completed /\ m.queue = b.queue
      /\ m.collected = b.collected /\ m.torun = b.torun /\ m.sent = b.sent
      /\ m.broken = b.broken /\ m.raised = b.raised /\ m \in Sched
  BY <1>1, <1>2, MarkedFrame
<1>5. /\ ~Through(s, t) => MarkTestComplete(s, w, t) = b
      /\ Through(s, t) /\ w = s.active => MarkTestComplete(s, w, t) = MaybeStart(Promote(told))
      /\ Through(s, t) /\ w # s.active => MarkTestComplete(s, w, t) = told
  <2>1. s \in Sched /\ b \in Sched
    BY <1>1, <1>2
  <2>2. QED
    BY <2>1, CompletingMeans DEF Quitting
<1> HIDE DEF b, m
<1>6. ASSUME NEW r \in Sched, Idle(r) \subseteq Idle(s), r.nodes = s.nodes,
             r.completed = s.completed \cup {t}, r.queue = s.queue, r.collected = s.collected,
             r.torun = s.torun, r.sent = s.sent, r.broken = s.broken, r.raised = s.raised,
             \A v \in Worker : Held(r, v) \subseteq Held(s, v)
      PROVE  Serene(q, r)
  <2>1. \A v \in Worker : Sent(r, v) = Sent(s, v)
    BY <1>6 DEF Sent
  <2>2. \A v \in Worker : LastWord(q, r, v)
    BY <1>1, <1>6, <2>1 DEF LastWord, Serene
  <2>3. \A v \in Idle(r) : Held(r, v) = {}
    BY <1>1, <1>6 DEF Serene, Idle
  <2>4. r.queue # <<>> \/ ~r.collected => Idle(r) \cap (r.sent \cup r.broken) = {}
    BY <1>1, <1>6 DEF Serene
  <2>5. \A v \in Worker \ q.dead : Pending(r, v) \subseteq q.ahead[v] \cup Sent(r, v)
    <3>1. \A v \in Worker : /\ Pending(r, v) = {u \in Test : FileOf[u] \in Held(r, v)} \ r.completed
                            /\ Pending(s, v) = {u \in Test : FileOf[u] \in Held(s, v)} \ s.completed
      BY <1>1, <1>6, PendingMeans
    <3>2. \A v \in Worker : Pending(r, v) \subseteq Pending(s, v) \ {t}
      BY <1>6, <3>1
    <3>3. \A v \in Worker \ p.dead : Pending(s, v) \subseteq p.ahead[v] \cup Sent(s, v)
      BY <1>1 DEF Serene
    <3>4. QED
      BY <2>1, <3>2, <3>3
  <2>6. QED
    BY <1>1, <1>6, <2>2, <2>3, <2>4, <2>5 DEF Serene
<1>7. CASE ~Through(s, t)
  <2>1. Serene(q, b)
    BY <1>2, <1>3, <1>6
  <2>2. QED
    BY <1>2, <1>5, <1>7, <2>1 DEF Untroubled
<1>8. CASE Through(s, t)
  <2>1. \A v \in Worker : Held(m, v) = Held(b, v)
    BY <1>4 DEF Held
  <2>2. \A v \in Worker : Held(m, v) \subseteq Held(s, v)
    BY <1>3, <2>1
  <2>3. Serene(q, m)
    BY <1>2, <1>3, <1>4, <1>6, <2>2
  <2>4. Untroubled(q, m)
    BY <1>2, <1>8, <2>3 DEF Untroubled
  <2>5. w \in ToSet(s.nodes) /\ w \notin Idle(s)
    BY <1>1, <1>2 DEF FilesPlaced, Serene
  <2>6. ws \in SUBSET ToSet(m.nodes) /\ ws \cap Idle(m) = {}
    BY <1>2, <1>3, <1>4, <2>5
  <2> HIDE DEF ws
  <2>7. Untroubled(q, told)
    BY <2>4, <2>6, ShutdownUntroubled
  <2> HIDE DEF told
  <2>8. Untroubled(q, MaybeStart(Promote(told)))
    BY <2>7, PromoteUntroubled, MaybeStartUntroubled
  <2>9. QED
    BY <1>5, <1>8, <2>7, <2>8
<1>9. QED
  BY <1>7, <1>8

------------------------------------------------------------------------------
(***************************************************************************)
(* As long as files are queued somebody is there for them, or will be:     *)
(* a spare, or a worker among those alive that is to be replaced when it   *)
(* finishes.                                                               *)
(***************************************************************************)
Relief(alive, s) == Idle(s) \cup (s.clones \cap alive)
Covered(alive, s) == s.queue # <<>> => Relief(alive, s) # {}
Guarded(ahead, home, steady, alive, s) ==
  Tidy(ahead, home, steady, s) /\ Orderly(s) /\ ToSet(s.nodes) \subseteq alive
Manned(ahead, home, steady, alive, s) ==
  Guarded(ahead, home, steady, alive, s) /\ Covered(alive, s)

LEMMA QueueShrinks ==
  ASSUME NEW ahead, NEW s, NEW r, Sound(ahead, s), From(ahead, s, r)
  PROVE  ToSet(r.nodes) = ToSet(s.nodes) /\ (s.queue = <<>> => r.queue = <<>>)
<1>1. s.queue \in Seq(TestFile) /\ r.queue \in Seq(TestFile) /\ r.nodes = s.nodes
      /\ ToSet(r.queue) \subseteq ToSet(s.queue)
  BY DEF From, Same, Sound, Shape, Sched
<1>2. ToSet(s.queue) = {} <=> s.queue = <<>>
  BY <1>1, NonEmptyFacts
<1>3. ToSet(r.queue) = {} <=> r.queue = <<>>
  BY <1>1, NonEmptyFacts
<1>4. QED
  BY <1>1, <1>2, <1>3

(* Whoever leads the line is somebody. *)
LEMMA FillNextManned ==
  ASSUME NEW ahead, NEW home, NEW steady, NEW alive, NEW s, Manned(ahead, home, steady, alive, s)
  PROVE  Manned(ahead, home, steady, alive, FillNext(s))
<1> DEFINE r == FillNext(s)
<1>1. /\ s \in Sched /\ s.standby \in Seq(Worker) /\ Sound(ahead, s) /\ LineUp(s)
      /\ Tidy(ahead, home, steady, s) /\ Orderly(s)
  BY DEF Manned, Guarded, Tidy, Homely, Sound, Shape, Sched
<1>2. Tidy(ahead, home, steady, r) /\ Orderly(r) /\ From(ahead, s, r)
  BY <1>1, FillNextTidy, FillNextAccounted, FillNextKeeps DEF Accounted
<1>3. ToSet(r.nodes) \subseteq alive /\ (s.queue = <<>> => r.queue = <<>>)
  BY <1>1, <1>2, QueueShrinks DEF Manned, Guarded
<1>4. r = s => Covered(alive, r)
  BY DEF Manned
<1>5. ASSUME r = [s EXCEPT !.standby = <<>>],
             ToSet(s.standby) \cap ToSet(s.nodes) \subseteq {s.active}
      PROVE  Covered(alive, r)
  <2>1. ToSet(s.standby) = {}
    BY <1>1, <1>5 DEF LineUp
  <2>2. /\ r.active = s.active /\ r.next = s.next /\ ToSet(r.standby) = {}
        /\ r.current = s.current /\ r.clones = s.clones /\ r.queue = s.queue
    BY <1>1, <1>5, EmptyFacts DEF Sched
  <2> HIDE DEF r
  <2>3. Idle(r) = Idle(s)
    BY <2>1, <2>2 DEF Idle
  <2>4. QED
    BY <1>3, <1>5, <2>2, <2>3 DEF Manned, Covered, Relief
<1>6. ASSUME NEW k \in DOMAIN s.standby,
             r = [s EXCEPT !.next = s.standby[k],
                           !.standby = SubSeq(s.standby, k + 1, Len(s.standby))]
      PROVE  Covered(alive, r)
  <2>1. s.standby[k] \in Worker
    BY <1>1
  <2>2. r.next = s.standby[k]
    BY <1>1, <1>6 DEF Sched
  <2> HIDE DEF r
  <2>3. s.standby[k] \in Idle(r)
    BY <2>1, <2>2 DEF Idle
  <2>4. QED
    BY <2>3 DEF Covered, Relief
<1>7. \/ r = s
      \/ r = [s EXCEPT !.standby = <<>>] /\ ToSet(s.standby) \cap ToSet(s.nodes) \subseteq {s.active}
      \/ \E k \in DOMAIN s.standby :
           r = [s EXCEPT !.next = s.standby[k],
                         !.standby = SubSeq(s.standby, k + 1, Len(s.standby))]
  BY <1>1, FillNextCases, Zenon DEF r
<1> HIDE DEF r
<1>8. Covered(alive, r)
  BY <1>4, <1>5, <1>6, <1>7, Zenon
<1>9. QED
  BY <1>2, <1>3, <1>8 DEF Manned, Guarded, r

(* The worker that becomes active has no file yet. *)
LEMMA PromoteManned ==
  ASSUME NEW ahead, NEW home, NEW steady, NEW alive, NEW s, Manned(ahead, home, steady, alive, s)
  PROVE  Manned(ahead, home, steady, alive, Promote(s))
<1> DEFINE f == FillNext(s)
           r == [f EXCEPT !.active = f.next, !.next = None, !.waiting = None]
<1>1. Promote(s) = IF s.active # None THEN s ELSE IF f.next = None THEN f ELSE r
  BY DEF Promote, Then
<1>2. /\ Sound(ahead, s) /\ Tidy(ahead, home, steady, s) /\ Orderly(s) /\ s \in Sched
      /\ ToSet(s.nodes) \subseteq alive
  BY DEF Manned, Guarded, Tidy, Sound, Shape
<1>3. /\ Tidy(ahead, home, steady, Promote(s)) /\ Orderly(Promote(s))
      /\ From(ahead, s, Promote(s))
  BY <1>2, PromoteTidy, PromoteAccounted, PromoteKeeps DEF Accounted
<1>4. ToSet(Promote(s).nodes) \subseteq alive
  BY <1>2, <1>3, QueueShrinks
<1>5. Manned(ahead, home, steady, alive, f) /\ f.active = s.active
  BY <1>2, FillNextManned, FillNextAccounted
<1> HIDE DEF f
<1>6. CASE s.active = None /\ f.next # None
  <2>1. f \in Sched /\ Orderly(f)
    BY <1>5 DEF Manned, Guarded, Tidy, Sound, Shape
  <2>2. f.current = {} /\ f.next \in Worker
    BY <1>5, <1>6, <2>1, WorkerNumbers DEF Orderly, Sched
  <2>3. r.active = f.next /\ r.current = f.current
    BY <2>1 DEF Sched
  <2> HIDE DEF r
  <2>4. f.next \in Idle(r)
    BY <2>2, <2>3 DEF Idle
  <2>5. Covered(alive, Promote(s))
    BY <1>1, <1>6, <2>4 DEF Covered, Relief
  <2>6. QED
    BY <1>3, <1>4, <2>5 DEF Manned, Guarded
<1>7. QED
  BY <1>1, <1>5, <1>6

(* A worker at its file is to be replaced, unless there are spares enough.  *)
LEMMA UpdateCloneCovers ==
  ASSUME NEW ahead, NEW alive, NEW s, Sound(ahead, s), ToSet(s.nodes) \subseteq alive,
         Covered(alive, s) \/ s.active \in s.current
  PROVE  /\ Covered(alive, UpdateClone(s)) /\ Idle(UpdateClone(s)) = Idle(s)
<1> DEFINE r == UpdateClone(s)
<1>1. /\ s \in Sched /\ s.standby \in Seq(Worker) /\ s.queue \in Seq(TestFile)
      /\ {s.active, s.next} \subseteq ToSet(s.nodes) \cup {None}
  BY DEF Sound, Shape, Sched
<1>2. /\ r.active = s.active /\ r.next = s.next /\ r.standby = s.standby
      /\ r.current = s.current /\ r.queue = s.queue
  BY <1>1 DEF UpdateClone, Sched
<1>3. /\ s.active = None \/ s.active \notin s.current => r = s
      /\ s.active # None /\ s.active \in s.current /\ Len(s.queue) > FutureWorkers(s)
           => r.clones = s.clones \cup {s.active}
  BY <1>1 DEF UpdateClone, Sched
<1> HIDE DEF r
<1>4. Idle(r) = Idle(s)
  BY <1>2 DEF Idle
<1>5. s.active \in s.current => s.active # None /\ s.active \in alive
  BY <1>1, WorkerNumbers DEF Sched
<1>6. CASE s.active \notin s.current
  BY <1>3, <1>4, <1>6 DEF r
<1>7. CASE s.active \in s.current /\ Len(s.queue) > FutureWorkers(s)
  <2>1. s.active \in Relief(alive, r)
    BY <1>3, <1>5, <1>7 DEF Relief
  <2>2. QED
    BY <1>4, <2>1 DEF Covered, r
<1>8. CASE s.queue # <<>> /\ ~(Len(s.queue) > FutureWorkers(s))
  <2>1. Len(s.queue) \in Nat /\ Len(s.queue) # 0 /\ Len(s.standby) \in Nat
    BY <1>1, <1>8
  <2>2. s.next # None \/ Len(s.standby) # 0
    <3>1. s.next = None /\ Len(s.standby) = 0 => FutureWorkers(s) = 0
      BY DEF FutureWorkers
    <3>2. QED
      BY <1>8, <2>1, <3>1
  <2>3. s.next # None => s.next \in Idle(s)
    BY <1>1 DEF Idle, Sched
  <2>4. Len(s.standby) # 0 => s.standby[1] \in Worker /\ s.standby[1] \in ToSet(s.standby)
    BY <1>1 DEF ToSet
  <2>5. Idle(s) # {}
    BY <2>2, <2>3, <2>4 DEF Idle
  <2>6. QED
    BY <1>4, <2>5 DEF Covered, Relief, r
<1>9. CASE s.queue = <<>>
  BY <1>2, <1>4, <1>9 DEF Covered, r
<1>10. QED
  BY <1>6, <1>7, <1>8, <1>9

LEMMA UpdateCloneManned ==
  ASSUME NEW ahead, NEW home, NEW steady, NEW alive, NEW s, Manned(ahead, home, steady, alive, s)
  PROVE  Manned(ahead, home, steady, alive, UpdateClone(s))
<1>1. /\ Sound(ahead, s) /\ Tidy(ahead, home, steady, s) /\ Orderly(s) /\ s \in Sched
      /\ ToSet(s.nodes) \subseteq alive /\ Covered(alive, s)
  BY DEF Manned, Guarded, Tidy, Sound, Shape
<1>2. Tidy(ahead, home, steady, UpdateClone(s)) /\ From(ahead, s, UpdateClone(s))
  BY <1>1, UpdateCloneTidy, UpdateCloneKeeps
<1>3. Orderly(UpdateClone(s))
  BY <1>1, UpdateCloneAccounted DEF Accounted
<1>4. ToSet(UpdateClone(s).nodes) \subseteq alive
  BY <1>1, <1>2, QueueShrinks
<1>5. Covered(alive, UpdateClone(s))
  BY <1>1, UpdateCloneCovers
<1>6. QED
  BY <1>2, <1>3, <1>4, <1>5 DEF Manned, Guarded

LEMMA MaybeStartManned ==
  ASSUME NEW ahead, NEW home, NEW steady, NEW alive, NEW s, Manned(ahead, home, steady, alive, s)
  PROVE  Manned(ahead, home, steady, alive, MaybeStart(s))
<1> DEFINE p == Promote(s)
           r == [p EXCEPT !.waiting = p.active]
           m == MaybeStart(s)
<1>1. m =
        IF ~s.collected THEN s
        ELSE IF p.active = None THEN p
        ELSE IF p.active \notin p.registered THEN r
        ELSE IF p.active \in p.current THEN p
        ELSE IF p.queue = <<>> THEN ShutdownUnneeded(p)
        ELSE StartActive(p)
  BY DEF MaybeStart, Then
<1>2. Tidy(ahead, home, steady, s) /\ Sound(ahead, s) /\ Orderly(s) /\ ToSet(s.nodes) \subseteq alive
  BY DEF Manned, Guarded, Tidy
<1>3. Tidy(ahead, home, steady, m)
  BY <1>2, MaybeStartTidy
<1>4. Orderly(m) /\ From(ahead, s, m)
  BY <1>2, MaybeStartAccounted, MaybeStartKeeps DEF Accounted
<1>5. ToSet(m.nodes) \subseteq alive
  BY <1>2, <1>4, QueueShrinks
<1> HIDE DEF m
<1>6. Manned(ahead, home, steady, alive, p)
  BY PromoteManned
<1> HIDE DEF p
<1>7. /\ p \in Sched /\ Sound(ahead, p) /\ Orderly(p) /\ Covered(alive, p)
      /\ ToSet(p.nodes) \subseteq alive
  BY <1>6 DEF Manned, Guarded, Tidy, Sound, Shape
<1>8. Covered(alive, s)
  BY DEF Manned
<1>9. Covered(alive, r)
  <2>1. /\ r.active = p.active /\ r.next = p.next /\ r.standby = p.standby
        /\ r.current = p.current /\ r.queue = p.queue /\ r.clones = p.clones
    BY <1>7 DEF Sched
  <2> HIDE DEF r
  <2>2. Idle(r) = Idle(p)
    BY <2>1 DEF Idle
  <2>3. QED
    BY <1>7, <2>1, <2>2 DEF Covered, Relief
<1> HIDE DEF r
<1>10. p.queue = <<>> => Covered(alive, ShutdownUnneeded(p))
  BY <1>7, ShutdownUnneededKeeps, QueueShrinks DEF Covered
<1>11. ASSUME p.active # None, p.active \notin p.current, p.queue # <<>>
       PROVE  Covered(alive, StartActive(p))
  <2>1. PICK rest : /\ StartActive(p) = UpdateClone(rest) /\ Sound(ahead, rest)
                    /\ rest.active \in rest.current
    BY <1>7, <1>11, StartActiveAccounted
  <2>2. From(ahead, p, StartActive(p)) /\ From(ahead, rest, UpdateClone(rest))
    BY <1>7, <1>11, <2>1, StartActiveKeeps, UpdateCloneKeeps
  <2>3. rest.nodes = p.nodes
    BY <2>1, <2>2 DEF From, Same
  <2>4. Covered(alive, UpdateClone(rest))
    BY <1>7, <2>1, <2>3, UpdateCloneCovers
  <2>5. QED
    BY <2>1, <2>4
<1>12. Covered(alive, m)
  BY <1>1, <1>7, <1>8, <1>9, <1>10, <1>11
<1>13. QED
  BY <1>3, <1>4, <1>5, <1>12 DEF Manned, Guarded, m

(* The worker that is added is a spare, or the next to get a file.          *)
LEMMA AddNodeManned ==
  ASSUME NEW ahead, NEW home, NEW steady, NEW alive, NEW s, Guarded(ahead, home, steady, alive, s),
         NEW w \in Worker, w \notin ToSet(s.nodes), Work(home, s, w) = {}, w \in alive
  PROVE  /\ Manned(ahead, home, steady, alive, AddNode(s, w))
         /\ ~s.collected => /\ Idle(s) \cup {w} \subseteq Idle(AddNode(s, w))
                            /\ AddNode(s, w).sent = s.sent
<1> DEFINE j == Joined(s, w)
           n == NodeAdded(s, w)
<1>1. /\ s \in Sched /\ s.nodes \in Seq(Worker) /\ s.standby \in Seq(Worker) /\ Orderly(s)
      /\ Tidy(ahead, home, steady, s) /\ ToSet(s.nodes) \subseteq alive
  BY DEF Guarded, Tidy, Sound, Shape, Sched
<1>2. /\ Tidy(ahead, home, steady, j) /\ ToSet(j.nodes) = ToSet(s.nodes) \cup {w}
      /\ j.assigned = s.assigned /\ j.collected = s.collected /\ j.sent = s.sent
  BY <1>1, JoinedTidy
<1>3. /\ n \in Sched /\ n.active = s.active /\ n.next = s.next /\ n.standby = s.standby
      /\ n.current = s.current /\ n.clones = s.clones /\ n.down = s.down
  BY <1>1, AppendFacts, <<>> \in Seq(TestFile) DEF NodeAdded, Sched
<1>4. ToSet(Append(s.standby, w)) = ToSet(s.standby) \cup {w}
  BY <1>1, AppendFacts
<1>5. j = IF s.active = None THEN [n EXCEPT !.active = w, !.waiting = None]
          ELSE IF s.next = None THEN [n EXCEPT !.next = w]
          ELSE [n EXCEPT !.standby = Append(@, w)]
  BY DEF Joined
<1> HIDE DEF n, j
<1>6. /\ j.current = s.current /\ j.clones = s.clones /\ j.down = s.down
      /\ s.active = None => j.active = w /\ j.next = s.next /\ j.standby = s.standby
      /\ s.active # None /\ s.next = None =>
           j.active = s.active /\ j.next = w /\ j.standby = s.standby
      /\ s.active # None /\ s.next # None =>
           j.active = s.active /\ j.next = s.next /\ j.standby = Append(s.standby, w)
  BY <1>3, <1>5 DEF Sched
<1>7. s.active = None => s.current = {}
  <2>1. s.current \subseteq Worker /\ \A v \in s.current : v = s.active
    BY <1>1 DEF Orderly, Sched
  <2>2. QED
    BY <2>1, WorkerNumbers
<1>8. Idle(s) \cup {w} \subseteq Idle(j)
  BY <1>4, <1>6, <1>7, WorkerNumbers DEF Idle
<1>9. Orderly(j)
  <2>1. \A v \in Worker : Held(j, v) = Held(s, v)
    BY <1>2 DEF Held
  <2>2. \A v \in s.current : v \in Worker /\ j.active = s.active
    BY <1>1, <1>6, <1>7 DEF Sched
  <2>3. QED
    BY <1>1, <1>2, <1>6, <2>1, <2>2 DEF Orderly
<1>10. Manned(ahead, home, steady, alive, j)
  BY <1>1, <1>2, <1>8, <1>9 DEF Manned, Guarded, Covered, Relief
<1>11. s.active # None => FillNext(j) = j
  BY <1>6, WorkerNumbers DEF FillNext
<1>12. AddNode(s, w) = IF s.active = None THEN MaybeStart(j) ELSE UpdateClone(FillNext(j))
  BY AddNodeMeans DEF j
<1>13. Manned(ahead, home, steady, alive, AddNode(s, w))
  BY <1>10, <1>11, <1>12, MaybeStartManned, UpdateCloneManned
<1>14. ASSUME ~s.collected
       PROVE  Idle(j) \subseteq Idle(AddNode(s, w)) /\ AddNode(s, w).sent = s.sent
  <2>1. MaybeStart(j) = j
    BY <1>2, <1>14 DEF MaybeStart
  <2>2. /\ Sound(ahead, j) /\ j \in Sched /\ ToSet(j.nodes) \subseteq alive /\ Covered(alive, j)
    BY <1>10 DEF Manned, Guarded, Tidy, Sound, Shape
  <2>3. Idle(UpdateClone(j)) = Idle(j)
    BY <2>2, UpdateCloneCovers
  <2>4. UpdateClone(j).sent = j.sent
    BY <2>2 DEF UpdateClone, Sched
  <2>5. QED
    BY <1>2, <1>11, <1>12, <2>1, <2>3, <2>4
<1>15. QED
  BY <1>8, <1>13, <1>14

(* Before the tests are known nothing is queued.                            *)
LEMMA NothingQueued ==
  ASSUME NEW ahead, NEW s, Sound(ahead, s), ~s.collected
  PROVE  s.queue = <<>> /\ \A w \in Worker : Held(s, w) = {}
<1>1. s.queue \in Seq(TestFile) /\ \A w \in Worker : Held(s, w) \subseteq TestFile
  BY NonEmptyFacts DEF Sound, Shape, Sched, Held
<1>2. \A f \in TestFile : ~(f \in ToSet(s.queue) \/ \E w \in Worker : f \in Held(s, w))
  BY DEF Sound, FilesPlaced, Open
<1>3. ToSet(s.queue) = {}
  BY <1>1, <1>2, NonEmptyFacts
<1>4. QED
  BY <1>1, <1>2, <1>3, NonEmptyFacts

LEMMA AddNodeCollectionManned ==
  ASSUME NEW ahead, NEW home, NEW steady, NEW alive, NEW s, Manned(ahead, home, steady, alive, s),
         NEW w \in Worker, ~Refused(s, w)
  PROVE  /\ Manned(ahead, home, steady, alive, AddNodeCollection(s, w))
         /\ ~s.collected => /\ Idle(AddNodeCollection(s, w)) = Idle(s)
                            /\ AddNodeCollection(s, w).sent = s.sent
<1> DEFINE c == [s EXCEPT !.registered = @ \cup {w}]
           d == [c EXCEPT !.waiting = None]
<1>1. AddNodeCollection(s, w) = IF w = s.waiting THEN MaybeStart(d)
                                ELSE IF w = s.next THEN UpdateClone(c) ELSE c
  BY DEF AddNodeCollection, Then
<1>2. /\ s \in Sched /\ Tidy(ahead, home, steady, s) /\ Orderly(s) /\ Covered(alive, s)
      /\ ToSet(s.nodes) \subseteq alive
  BY DEF Manned, Guarded, Tidy, Sound, Shape
<1>3. ASSUME NEW r \in Sched,
             r.active = s.active, r.next = s.next, r.standby = s.standby,
             r.current = s.current, r.nodes = s.nodes, r.assigned = s.assigned,
             r.completed = s.completed, r.collected = s.collected, r.torun = s.torun,
             r.queue = s.queue, r.clones = s.clones, r.sent = s.sent, r.down = s.down
      PROVE  Manned(ahead, home, steady, alive, r)
  <2>1. Tidy(ahead, home, steady, r)
    BY <1>2, <1>3, SamePlacesTidy
  <2>2. Orderly(r)
    BY <1>2, <1>3 DEF Orderly, Held
  <2>3. Idle(r) = Idle(s)
    BY <1>3 DEF Idle
  <2>4. QED
    BY <1>2, <1>3, <2>1, <2>2, <2>3 DEF Manned, Guarded, Covered, Relief
<1>4. Manned(ahead, home, steady, alive, c) /\ Manned(ahead, home, steady, alive, d)
  <2>1. /\ c \in Sched /\ c.active = s.active /\ c.next = s.next /\ c.standby = s.standby
        /\ c.current = s.current /\ c.nodes = s.nodes /\ c.assigned = s.assigned
        /\ c.completed = s.completed /\ c.collected = s.collected /\ c.torun = s.torun
        /\ c.queue = s.queue /\ c.clones = s.clones /\ c.sent = s.sent /\ c.down = s.down
    BY <1>2 DEF Sched
  <2> HIDE DEF c
  <2>2. /\ d \in Sched /\ d.active = c.active /\ d.next = c.next /\ d.standby = c.standby
        /\ d.current = c.current /\ d.nodes = c.nodes /\ d.assigned = c.assigned
        /\ d.completed = c.completed /\ d.collected = c.collected /\ d.torun = c.torun
        /\ d.queue = c.queue /\ d.clones = c.clones /\ d.sent = c.sent /\ d.down = c.down
    BY <2>1 DEF Sched
  <2> HIDE DEF d
  <2>3. QED
    BY <1>3, <2>1, <2>2
<1>5. /\ c.active = s.active /\ c.next = s.next /\ c.standby = s.standby
      /\ c.current = s.current /\ c.sent = s.sent
      /\ d.active = s.active /\ d.next = s.next /\ d.standby = s.standby
      /\ d.current = s.current /\ d.sent = s.sent /\ d.collected = s.collected
  BY <1>2 DEF Sched
<1> HIDE DEF c, d
<1>6. Manned(ahead, home, steady, alive, AddNodeCollection(s, w))
  BY <1>1, <1>4, MaybeStartManned, UpdateCloneManned
<1>7. ASSUME ~s.collected
      PROVE  Idle(AddNodeCollection(s, w)) = Idle(s) /\ AddNodeCollection(s, w).sent = s.sent
  <2>1. Idle(c) = Idle(s) /\ Idle(d) = Idle(s)
    BY <1>5 DEF Idle
  <2>2. MaybeStart(d) = d
    BY <1>5, <1>7 DEF MaybeStart
  <2>3. /\ Sound(ahead, c) /\ c \in Sched /\ ToSet(c.nodes) \subseteq alive /\ Covered(alive, c)
    BY <1>4 DEF Manned, Guarded, Tidy, Sound, Shape
  <2>4. Idle(UpdateClone(c)) = Idle(c)
    BY <2>3, UpdateCloneCovers
  <2>5. UpdateClone(c).sent = c.sent
    BY <2>3 DEF UpdateClone, Sched
  <2>6. QED
    BY <1>1, <1>5, <2>1, <2>2, <2>4, <2>5
<1>8. QED
  BY <1>6, <1>7

LEMMA ScheduleManned ==
  ASSUME NEW ahead, NEW home, NEW steady, NEW alive, NEW s,
         Guarded(ahead, home, steady, alive, s), Covered(alive, Scheduled(s)),
         steady /\ ~s.collected => \A w \in Worker : home[w] = {}
  PROVE  Manned(ahead, home, steady, alive, Schedule(s))
<1> DEFINE c == Scheduled(s)
<1>1. /\ s \in Sched /\ Tidy(ahead, home, steady, s) /\ Orderly(s) /\ Sound(ahead, s)
      /\ ToSet(s.nodes) \subseteq alive
  BY DEF Guarded, Tidy, Sound, Shape
<1>2. Tidy(ahead, home, steady, c)
  BY <1>1, ScheduledTidy
<1>3. Tidy(ahead, home, steady, Schedule(s)) /\ Orderly(Schedule(s))
  BY <1>1, ScheduleTidy, ScheduleAccounted
<1>4. /\ c.current = s.current /\ c.active = s.active /\ c.sent = s.sent /\ c.down = s.down
      /\ c.assigned = s.assigned /\ c.nodes = s.nodes
  BY <1>1 DEF Scheduled, Sched
<1>5. Schedule(s) = IF s.collected THEN MaybeStart(c)
                    ELSE IF Collection = <<>> THEN ShutdownUnneeded(c)
                    ELSE MaybeStart(Promote(c))
  BY ScheduleMeans
<1>6. Covered(alive, c)
  OBVIOUS
<1> HIDE DEF c
<1>7. Orderly(c)
  BY <1>1, <1>4 DEF Orderly, Held
<1>8. Manned(ahead, home, steady, alive, c)
  BY <1>1, <1>2, <1>4, <1>6, <1>7 DEF Manned, Guarded
<1>9. From(ahead, c, Schedule(s))
  BY <1>1, ScheduleKeeps DEF c
<1>10. /\ Sound(ahead, c)
  BY <1>2 DEF Tidy
<1>11. ToSet(Schedule(s).nodes) \subseteq alive /\ (c.queue = <<>> => Schedule(s).queue = <<>>)
  BY <1>1, <1>4, <1>9, <1>10, QueueShrinks
<1>12. CASE c.queue = <<>>
  BY <1>3, <1>11, <1>12 DEF Manned, Guarded, Covered
<1>13. CASE c.queue # <<>>
  <2>1. ShutdownUnneeded(c) = c
    BY <1>13 DEF ShutdownUnneeded
  <2>2. QED
    BY <1>5, <1>8, <2>1, MaybeStartManned, PromoteManned
<1>14. QED
  BY <1>12, <1>13

(* The worker that has run its file was no spare: those remain.             *)
LEMMA MarkTestCompleteManned ==
  ASSUME NEW ahead, NEW left, NEW home, NEW steady, NEW alive, NEW s,
         Manned(ahead, home, steady, alive, s), NEW w \in Worker, NEW t \in ahead[w],
         \A v \in Worker : left[v] = IF v = w THEN ahead[w] \ {t} ELSE ahead[v],
         w \notin Idle(s)
  PROVE  Manned(left, home, steady, alive, MarkTestComplete(s, w, t))
<1> DEFINE b == Marked(s, w, t)
           m == Vacated(s, w, t)
           ws == {w} \ m.sent
           told == ShutdownEach(m, ws)
<1>1. /\ s \in Sched /\ Tidy(ahead, home, steady, s) /\ Orderly(s) /\ Covered(alive, s)
      /\ ToSet(s.nodes) \subseteq alive
  BY DEF Manned, Guarded, Tidy, Sound, Shape
<1>2. /\ ~Through(s, t) => Tidy(left, home, steady, b)
      /\ Through(s, t) => Tidy(left, home, steady, m)
      /\ b \in Sched /\ Distinct(s.assigned[w])
      /\ Idle(b) = Idle(s)
  BY <1>1, MarkedTidy
<1>3. /\ b.active = s.active /\ b.next = s.next /\ b.standby = s.standby
      /\ b.current = s.current /\ b.nodes = s.nodes /\ b.queue = s.queue /\ b.sent = s.sent
      /\ \A v \in Worker : Held(b, v) = IF v = w /\ Through(s, t) THEN Held(s, v) \ {FileOf[t]}
                                        ELSE Held(s, v)
  BY <1>1, <1>2, MarkedFrame
<1>4. /\ m.active = Unless(w, b.active) /\ m.current = b.current \ {w}
      /\ m.next = b.next /\ m.standby = b.standby /\ m.nodes = b.nodes
      /\ m.assigned = b.assigned /\ m.queue = b.queue /\ m.sent = b.sent /\ m.down = b.down
      /\ m \in Sched
  BY <1>1, <1>2, MarkedFrame
<1>5. b.clones = s.clones /\ m.clones = s.clones /\ b.down = s.down
  BY <1>1 DEF Marked, Vacated, Sched
<1>6. /\ ~Through(s, t) => MarkTestComplete(s, w, t) = b
      /\ Through(s, t) /\ w = s.active => MarkTestComplete(s, w, t) = MaybeStart(Promote(told))
      /\ Through(s, t) /\ w # s.active => MarkTestComplete(s, w, t) = told
  BY <1>1, <1>2, CompletingMeans DEF Quitting
<1> HIDE DEF b, m
<1>7. CASE ~Through(s, t)
  <2>1. Orderly(b)
    BY <1>1, <1>3, <1>5, <1>7 DEF Orderly, Sched
  <2>2. QED
    BY <1>1, <1>2, <1>3, <1>5, <1>6, <1>7, <2>1 DEF Manned, Guarded, Covered, Relief
<1>8. CASE Through(s, t)
  <2>1. \A v \in Worker : v # w => Held(m, v) = Held(s, v)
    BY <1>3, <1>4 DEF Held
  <2>2. Orderly(m)
    <3>1. s.current \subseteq Worker
      BY <1>1 DEF Sched
    <3>2. QED
      BY <1>1, <1>3, <1>4, <1>5, <2>1, <3>1 DEF Orderly, Unless
  <2>3. Idle(m) = Idle(s)
    BY <1>3, <1>4, WorkerNumbers DEF Idle, Unless
  <2>4. ws \in SUBSET Worker
    OBVIOUS
  <2> HIDE DEF ws
  <2>5. /\ told.active = m.active /\ told.next = m.next /\ told.standby = m.standby
        /\ told.current = m.current /\ told.nodes = m.nodes /\ told.queue = m.queue
        /\ told.clones = m.clones
    BY <1>4, <2>4, ShutdownFrame
  <2>6. Tidy(left, home, steady, told)
    BY <1>2, <1>8, <2>4, ShutdownTidy
  <2>7. Orderly(told)
    BY <1>4, <2>2, <2>4, ShutdownAccounted DEF Accounted
  <2> HIDE DEF told
  <2>8. Idle(told) = Idle(s)
    BY <2>3, <2>5 DEF Idle
  <2>9. Manned(left, home, steady, alive, told)
    BY <1>1, <1>3, <1>4, <1>5, <2>5, <2>6, <2>7, <2>8 DEF Manned, Guarded, Covered, Relief
  <2>10. Manned(left, home, steady, alive, MaybeStart(Promote(told)))
    BY <2>9, PromoteManned, MaybeStartManned
  <2>11. QED
    BY <1>6, <1>8, <2>9, <2>10
<1>9. QED
  BY <1>7, <1>8

(* A worker that is through and no spare is missed nowhere.                 *)
LEMMA RemoveNodeCovers ==
  ASSUME NEW ahead, NEW home, NEW steady, NEW alive, NEW s, Manned(ahead, home, steady, alive, s),
         NEW w \in Worker, Pending(s, w) = {}, s.queue # <<>> => w \notin Idle(s)
  PROVE  LET r == RemoveNode(s, w)
         IN  /\ Covered(alive, r) /\ (r.queue # <<>> => w \notin Idle(r))
             /\ r.registered = s.registered /\ r.numnodes = s.numnodes
             /\ r.collected = s.collected
             /\ r.queue = <<>> \/ (r.clones = s.clones /\ Idle(r) = Idle(s))
<1> DEFINE r == RemoveNode(s, w)
           o == Without(s, w)
           b == WorkReturned(o, w)
           k == [b EXCEPT !.clones = @ \cup (s.clones \cap {w})]
<1>1. /\ s \in Sched /\ Tidy(ahead, home, steady, s) /\ Orderly(s) /\ Covered(alive, s)
      /\ Sound(ahead, s) /\ s.standby \in Seq(Worker) /\ Distinct(s.standby)
      /\ s.queue \in Seq(TestFile)
  BY DEF Manned, Guarded, Tidy, Sound, Shape, Homely, LineUp, Sched
<1>2. /\ Held(s, w) = {} /\ s.assigned[w] = <<>>
  BY <1>1, NothingPending
<1>3. w \notin s.current
  BY <1>1, <1>2 DEF Orderly
<1>4. From(ahead, Left(s, w), r) /\ r = RemoveNode(s, w)
  BY <1>1, RemoveNodeKeeps
<1>5. /\ Left(s, w).registered = s.registered /\ Left(s, w).numnodes = s.numnodes
      /\ Left(s, w).collected = s.collected /\ Left(s, w).queue = s.queue
  <2>1. s.queue \o <<>> = s.queue
    BY <1>1
  <2>2. QED
    BY <1>1, <1>2, <2>1 DEF Left, WorkReturned, Sched
<1>6. /\ r.registered = s.registered /\ r.numnodes = s.numnodes /\ r.collected = s.collected
      /\ ToSet(r.queue) \subseteq ToSet(s.queue) /\ r.queue \in Seq(TestFile)
  BY <1>4, <1>5 DEF From, Same, Sound, Shape, Sched
<1>7. CASE s.queue = <<>>
  <2>1. ToSet(r.queue) = {}
    BY <1>6, <1>7, EmptyFacts
  <2>2. r.queue = <<>>
    BY <1>6, <2>1, NonEmptyFacts
  <2>3. QED
    BY <1>6, <2>2 DEF Covered
<1>8. CASE s.queue # <<>>
  <2>1. w \notin {s.active, s.next} /\ w \notin ToSet(s.standby)
    BY <1>3, <1>8 DEF Idle
  <2> DEFINE line == RemoveFirst(s.standby, w)
  <2>2. line \in Seq(Worker) /\ ToSet(line) = ToSet(s.standby) \ {w}
    BY <1>1, RemoveFirstFacts
  <2> HIDE DEF line
  <2>3. /\ Unless(w, s.active) = s.active /\ Unless(w, s.next) = s.next
        /\ Unless(w, s.waiting) \in Worker \cup {None} /\ s.current \ {w} = s.current
    BY <1>1, <1>3, <2>1 DEF Unless, Sched
  <2>4. /\ o \in Sched /\ o.active = s.active /\ o.next = s.next /\ o.current = s.current
        /\ ToSet(o.standby) = ToSet(s.standby) /\ o.clones = s.clones /\ o.queue = s.queue
        /\ o.assigned = s.assigned /\ o.completed = s.completed /\ o.raised = s.raised
    <3>1. o = [s EXCEPT !.active = s.active, !.next = s.next, !.waiting = Unless(w, s.waiting),
                        !.current = s.current, !.standby = line]
      BY <2>3 DEF Without, line
    <3> HIDE DEF o
    <3>2. o \in Sched /\ o.standby = line
      BY <1>1, <2>2, <2>3, <3>1 DEF Sched
    <3>3. ToSet(o.standby) = ToSet(s.standby)
      BY <2>1, <2>2, <3>2
    <3>4. QED
      BY <1>1, <3>1, <3>2, <3>3 DEF Sched
  <2>5. From(ahead, s, o)
    BY <1>1, WithoutKeeps
  <2>6. RemoveNode(s, w) = IF ~Contains(s.nodes, w) THEN o
                           ELSE IF LeaveNodes(o, w).raised # None THEN LeaveNodes(o, w)
                           ELSE Cloned(s, w, LeaveNodes(o, w))
    BY <1>1, RemoveNodeMeans
  <2> HIDE DEF o
  <2>7. Sound(ahead, o) /\ Pending(o, w) = {}
    BY <2>4, <2>5 DEF From, Pending
  <2>8. LeaveNodes(o, w) = b
    BY <2>7, LeaveNodesMeans
  <2>9. o.queue \o <<>> = o.queue /\ o.assigned[w] = <<>>
    BY <1>1, <1>2, <2>4
  <2>10. /\ b.active = o.active /\ b.next = o.next /\ b.standby = o.standby
         /\ b.current = o.current /\ b.clones = o.clones /\ b.queue = o.queue
         /\ k.active = o.active /\ k.next = o.next /\ k.standby = o.standby
         /\ k.current = o.current /\ k.clones = o.clones \cup (s.clones \cap {w})
         /\ k.queue = o.queue
    BY <2>4, <2>9 DEF WorkReturned, Sched
  <2>11. Cloned(s, w, b) = k
    BY <2>1 DEF Cloned, Replaced
  <2> HIDE DEF b, k, r
  <2>12. r \in {o, b, k}
    BY <2>6, <2>8, <2>11 DEF r
  <2>13. /\ r.active = s.active /\ r.next = s.next /\ ToSet(r.standby) = ToSet(s.standby)
         /\ r.current = s.current /\ r.clones = s.clones /\ r.queue = s.queue
    BY <2>4, <2>10, <2>12
  <2>14. Idle(r) = Idle(s)
    BY <2>13 DEF Idle
  <2>15. Covered(alive, r) /\ (r.queue # <<>> => w \notin Idle(r))
    BY <1>1, <1>8, <2>13, <2>14 DEF Covered, Relief
  <2>16. QED
    BY <1>6, <2>13, <2>14, <2>15 DEF r
<1>9. QED
  BY <1>7, <1>8
=============================================================================
