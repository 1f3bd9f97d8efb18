------------------------ MODULE NamePropagation_proofs ------------------------
(***************************************************************************)
(* Proofs about the name propagation, for every project (every value of    *)
(* the constants of NameWorld).                                            *)
(***************************************************************************)
EXTENDS NamePropagation, FiniteSetTheorems, TLAPS

(* What the prover needs of the static world: the operators stay in range. *)
LEMMA WorldRange ==
  ASSUME NEW t \in Test, NEW b \in BOOLEAN
  PROVE  /\ Seeds(t, b) \subseteq Item
         /\ \A e \in Element : Uses(e) \subseteq Item /\ ChecksumsOf({e}) \subseteq Checksum
         /\ \A i \in Item : Matches(t, b, i) \subseteq Element
         /\ \A i \in Item : \A names : Live(t, b, i, names) \subseteq Matches(t, b, i)
<1>1. Seeds(t, b) \subseteq Item
  <2>1. Seeds(t, b) \subseteq AllSeeds
    BY DEF AllSeeds
  <2>2. QED
    BY <2>1 DEF Item
<1>2. ASSUME NEW e \in Element PROVE Uses(e) \subseteq Item
  <2>1. Uses(e) \subseteq AllUses
    BY DEF AllUses
  <2>2. QED
    BY <2>1 DEF Item
<1>3. \A e \in Element : ChecksumsOf({e}) \subseteq Checksum
  BY DEF ChecksumsOf, Checksum
<1>4. \A i \in Item : Matches(t, b, i) \subseteq Element
  BY DEF Matches, World
<1>5. \A i \in Item : \A names : Live(t, b, i, names) \subseteq Matches(t, b, i)
  BY DEF Live
<1>6. QED
  BY <1>1, <1>2, <1>3, <1>4, <1>5

(* Sets of items are finite, so their sizes are natural numbers. *)
LEMMA ItemsFinite ==
  ASSUME NEW S \in SUBSET Item
  PROVE  IsFiniteSet(S) /\ Cardinality(S) \in Nat
BY WorldFinite, FS_Subset, FS_CardinalityType

(* The list starts with every seed on it. *)
LEMMA OccurrencesOfSeeds ==
  ASSUME NEW t \in Test, NEW b \in BOOLEAN, NEW i \in Item
  PROVE  /\ Occurrences(t, b, i) \in Nat
         /\ i \in Seeds(t, b) <=> Occurrences(t, b, i) > 0
<1> DEFINE L == {l \in SeedLists(t, b) : i \in l[3]}
<1>1. IsFiniteSet(L)
  BY WorldFinite, FS_Subset
<1>2. Cardinality(L) \in Nat
  BY <1>1, FS_CardinalityType
<1>3. i \in Seeds(t, b) <=> L # {}
  BY DEF Seeds
<1>4. L = {} <=> Cardinality(L) = 0
  BY <1>1, FS_EmptySet
<1>5. Occurrences(t, b, i) = Cardinality(L)
  BY DEF Occurrences
<1>6. QED
  BY <1>2, <1>3, <1>4, <1>5

(* Every step leaves the variables in their types. *)
THEOREM TypeCorrect == Spec => []TypeOK
<1>1. Init => TypeOK
  <2> SUFFICES ASSUME Init PROVE TypeOK
    OBVIOUS
  <2>1. test \in Test /\ init \in BOOLEAN
    BY DEF Init
  <2>2. work_stack \in [Item -> Nat]
    BY <2>1, OccurrencesOfSeeds DEF Init
  <2>3. prev_name_count \in Nat
    BY <2>1, WorldRange, ItemsFinite DEF Init
  <2>4. relevant_items \subseteq Item
    BY <2>1, WorldRange DEF Init
  <2>5. pending \subseteq Element
    BY <2>1, DecoratedElements DEF Init
  <2>6. different \subseteq Checksum
    BY DEF Init
  <2>7. QED
    BY <2>1, <2>2, <2>3, <2>4, <2>5, <2>6 DEF Init, TypeOK
<1>2. TypeOK /\ [Next]_vars => TypeOK'
  <2> SUFFICES ASSUME TypeOK, [Next]_vars PROVE TypeOK'
    OBVIOUS
  <2> USE DEF TypeOK
  <2>1. ASSUME NEW e \in pending, HandleElement(e)
        PROVE  /\ pending' \subseteq Element
               /\ work_stack' \in [Item -> Nat]
               /\ relevant_items' \subseteq Item
               /\ dependent_elements' \subseteq Checksum
               /\ NewItems(e) \subseteq Item
    <3>1. Uses(e) \subseteq Item /\ ChecksumsOf({e}) \subseteq Checksum
      BY WorldRange
    <3>2. NewItems(e) \subseteq Item
      BY <3>1 DEF NewItems
    <3>3. \A i \in Item : Once(NewItems(e))[i] \in Nat
      BY DEF Once
    <3>4. work_stack' \in [Item -> Nat]
      BY <2>1, <3>3 DEF HandleElement
    <3>5. QED
      BY <2>1, <3>1, <3>2, <3>4 DEF HandleElement
  <2>2. ASSUME NEW e \in pending, HandleDecorator(e) PROVE TypeOK'
    BY <2>2, <2>1 DEF HandleDecorator, HandleElement
  <2>3. ASSUME NEW e \in pending, HandleMatch(e) PROVE TypeOK'
    BY <2>3, <2>1 DEF HandleMatch, HandleElement
  <2>4. CASE ReturnEarly
    BY <2>4 DEF ReturnEarly
  <2>5. CASE StartRound
    BY <2>5 DEF StartRound
  <2>6. ASSUME NEW i \in Item, PopItem(i) PROVE TypeOK'
    <3>1. pending' \subseteq Element
      BY <2>6, WorldRange DEF PopItem
    <3>2. QED
      BY <2>6, <3>1 DEF PopItem
  <2>7. CASE Return
    BY <2>7 DEF Return
  <2>8. CASE NextRound
    <3>1. Cardinality(relevant_items) \in Nat
      BY ItemsFinite
    <3>2. QED
      BY <2>8, <3>1 DEF NextRound, Once
  <2>9. CASE UNCHANGED vars
    BY <2>9 DEF vars
  <2>10. QED
    BY <2>2, <2>3, <2>4, <2>5, <2>6, <2>7, <2>8, <2>9 DEF Next
<1>3. QED
  BY <1>1, <1>2, PTL DEF Spec

-----------------------------------------------------------------------------
(* More relevant items make more elements live, never fewer. *)
LEMMA LiveMonotone ==
  ASSUME NEW t, NEW b, NEW i, NEW S, NEW T, S \subseteq T
  PROVE  Live(t, b, i, NamesOf(S)) \subseteq Live(t, b, i, NamesOf(T))
BY DEF Live, NamesOf

(* More elements have more checksums. *)
LEMMA ChecksumsMonotone ==
  ASSUME NEW X, NEW Y, X \subseteq Y
  PROVE  ChecksumsOf(X) \subseteq ChecksumsOf(Y)
BY DEF ChecksumsOf

(* The elements reached from the needed items use needed items only. *)
LEMMA NeededUses ==
  ASSUME NEW t \in Test, NEW b \in BOOLEAN, NEW e \in Reached(t, b, Needed[t][b])
  PROVE  /\ Uses(e) \subseteq Needed[t][b]
         /\ ChecksumsOf({e}) \subseteq NeededChecksums(t, b)
<1>1. Closed(t, b, Needed[t][b])
  BY NeededIsLeast
<1>2. Uses(e) \subseteq Needed[t][b]
  BY <1>1 DEF Closed, Reached
<1>3. ChecksumsOf({e}) \subseteq NeededChecksums(t, b)
  BY ChecksumsMonotone DEF NeededChecksums
<1>4. QED
  BY <1>2, <1>3

StackRelevant == \A i \in Item : work_stack[i] > 0 => i \in relevant_items

(* What waits on the stack is relevant. *)
LEMMA StackRelevantInv == Spec => []StackRelevant
<1>1. Init => StackRelevant
  BY OccurrencesOfSeeds DEF Init, StackRelevant
<1>2. TypeOK /\ StackRelevant /\ [Next]_vars => StackRelevant'
  <2> SUFFICES ASSUME TypeOK, StackRelevant, [Next]_vars PROVE StackRelevant'
    OBVIOUS
  <2> USE DEF StackRelevant
  <2>1. ASSUME NEW e \in pending, HandleElement(e) PROVE StackRelevant'
    <3>1. SUFFICES ASSUME NEW i \in Item, work_stack'[i] > 0 PROVE i \in relevant_items'
      OBVIOUS
    <3>2. work_stack'[i] = work_stack[i] + (IF i \in NewItems(e) THEN 1 ELSE 0)
      BY <2>1 DEF HandleElement, Once
    <3>3. CASE i \in NewItems(e)
      BY <2>1, <3>3 DEF HandleElement
    <3>4. CASE i \notin NewItems(e)
      BY <2>1, <3>1, <3>2, <3>4 DEF HandleElement, TypeOK
    <3>5. QED
      BY <3>3, <3>4
  <2>2. ASSUME NEW e \in pending, HandleDecorator(e) \/ HandleMatch(e) PROVE StackRelevant'
    BY <2>1, <2>2 DEF HandleDecorator, HandleMatch
  <2>3. ASSUME NEW i \in Item, PopItem(i) PROVE StackRelevant'
    BY <2>3 DEF PopItem, TypeOK
  <2>4. CASE NextRound
    BY <2>4 DEF NextRound, Once
  <2>5. CASE ReturnEarly \/ StartRound \/ Return \/ UNCHANGED vars
    BY <2>5 DEF ReturnEarly, StartRound, Return, vars
  <2>6. QED
    BY <2>2, <2>3, <2>4, <2>5 DEF Next
<1>3. QED
  BY <1>1, <1>2, TypeCorrect, PTL DEF Spec

(* The invariant behind OnlyNeeded: also what is in hand is needed. *)
OnlyNeededInv == OnlyNeeded /\ pending \subseteq Reached(test, init, Needed[test][init])

(* Whatever the propagation holds at any moment belongs to the least       *)
(* closed set: no test is selected for an element it does not need.  No    *)
(* assumption about checksums is needed for this direction.                *)
THEOREM NothingUnneeded == Spec => []OnlyNeeded
<1>1. Init => OnlyNeededInv
  <2> SUFFICES ASSUME Init PROVE OnlyNeededInv
    OBVIOUS
  <2>1. test \in Test /\ init \in BOOLEAN
    BY DEF Init
  <2>2. Seeds(test, init) \subseteq Needed[test][init]
    BY <2>1, NeededIsLeast DEF Closed
  <2>3. Decorated[test] \subseteq Reached(test, init, Needed[test][init])
    BY DEF Reached
  <2>4. QED
    BY <2>2, <2>3 DEF Init, OnlyNeededInv, OnlyNeeded
<1>2. TypeOK /\ StackRelevant /\ OnlyNeededInv /\ [Next]_vars => OnlyNeededInv'
  <2> SUFFICES ASSUME TypeOK, StackRelevant, OnlyNeededInv, [Next]_vars PROVE OnlyNeededInv'
    OBVIOUS
  <2>0. test \in Test /\ init \in BOOLEAN
    BY DEF TypeOK
  <2> USE DEF OnlyNeededInv, OnlyNeeded
  <2>1. ASSUME NEW e \in pending, HandleElement(e) PROVE OnlyNeededInv'
    <3>1. Uses(e) \subseteq Needed[test][init] /\ ChecksumsOf({e}) \subseteq NeededChecksums(test, init)
      BY <2>0, NeededUses
    <3>2. NewItems(e) \subseteq Needed[test][init]
      BY <3>1 DEF NewItems
    <3>3. QED
      BY <2>1, <3>1, <3>2 DEF HandleElement
  <2>2. ASSUME NEW e \in pending, HandleDecorator(e) PROVE OnlyNeededInv'
    BY <2>1, <2>2 DEF HandleDecorator
  <2>3. ASSUME NEW e \in pending, HandleMatch(e) PROVE OnlyNeededInv'
    BY <2>1, <2>3 DEF HandleMatch
  <2>4. CASE ReturnEarly
    BY <2>4 DEF ReturnEarly
  <2>5. CASE StartRound
    BY <2>5 DEF StartRound
  <2>6. ASSUME NEW i \in Item, PopItem(i) PROVE OnlyNeededInv'
    <3>0. i \in relevant_items
      BY <2>6 DEF PopItem, StackRelevant
    <3>1. Live(test, init, i, RelevantNames) \subseteq Live(test, init, i, NamesOf(Needed[test][init]))
      BY LiveMonotone DEF RelevantNames
    <3>2. Live(test, init, i, NamesOf(Needed[test][init])) \subseteq Reached(test, init, Needed[test][init])
      BY <3>0 DEF Reached
    <3>3. QED
      BY <2>6, <3>1, <3>2 DEF PopItem
  <2>7. CASE Return
    BY <2>7 DEF Return
  <2>8. CASE NextRound
    BY <2>8 DEF NextRound
  <2>9. CASE UNCHANGED vars
    BY <2>9 DEF vars
  <2>10. QED
    BY <2>2, <2>3, <2>4, <2>5, <2>6, <2>7, <2>8, <2>9 DEF Next
<1>3. QED
  BY <1>1, <1>2, TypeCorrect, StackRelevantInv, PTL DEF Spec, OnlyNeededInv

-----------------------------------------------------------------------------
(* Handling an element covers it, and uncovers nothing, provided equal     *)
(* checksums mean equal uses.                                              *)
LEMMA HandlingCovers ==
  ASSUME ChecksumsIdentify, TypeOK, ChecksumCovered,
         NEW e \in pending, HandleElement(e)
  PROVE  /\ relevant_items \subseteq relevant_items'
         /\ dependent_elements \subseteq dependent_elements'
         /\ Uses(e) \subseteq relevant_items'
         /\ \A d : Covered(d) => Covered(d)'
         /\ ChecksumCovered'
<1>1. relevant_items \subseteq relevant_items' /\ dependent_elements \subseteq dependent_elements'
  BY DEF HandleElement
<1>2. e \in Element
  BY DEF TypeOK
<1>3. Uses(e) \subseteq relevant_items'
  <2>1. CASE Seen(e)
    <3>1. PICK d \in Element : d.checksum = e.checksum /\ Uses(d) \subseteq relevant_items
      BY <2>1 DEF Seen, ChecksumCovered
    <3>2. e.checksum # None
      BY <2>1 DEF Seen, TypeOK, Checksum
    <3>3. Uses(e) = Uses(d)
      BY <1>2, <2>1, <3>1, <3>2 DEF ChecksumsIdentify, Seen
    <3>4. QED
      BY <1>1, <3>1, <3>3
  <2>2. CASE ~Seen(e)
    BY <2>2 DEF HandleElement, NewItems
  <2>3. QED
    BY <2>1, <2>2
<1>4. ChecksumsOf({e}) \subseteq dependent_elements'
  BY DEF HandleElement
<1>5. ASSUME NEW d, Covered(d) PROVE Covered(d)'
  <2>1. CASE d = e
    BY <1>3, <1>4, <2>1 DEF Covered
  <2>2. CASE d # e /\ d \in pending
    BY <2>2 DEF Covered, HandleElement
  <2>3. CASE d \notin pending
    BY <1>1, <1>5, <2>3 DEF Covered
  <2>4. QED
    BY <2>1, <2>2, <2>3
<1>6. ChecksumCovered'
  <2> SUFFICES ASSUME NEW c \in dependent_elements'
               PROVE  \E d \in Element : d.checksum = c /\ Uses(d) \subseteq relevant_items'
    BY DEF ChecksumCovered
  <2>1. CASE c \in dependent_elements
    BY <1>1, <2>1 DEF ChecksumCovered
  <2>2. CASE c \in ChecksumsOf({e})
    BY <1>2, <1>3, <2>2 DEF ChecksumsOf
  <2>3. QED
    BY <2>1, <2>2 DEF HandleElement
<1>7. QED
  BY <1>1, <1>3, <1>5, <1>6

(* Sizes of disjoint sets of items add up. *)
LEMMA DisjointUnionSize ==
  ASSUME NEW S \in SUBSET Item, NEW T \in SUBSET Item, S \cap T = {}
  PROVE  Cardinality(S \cup T) = Cardinality(S) + Cardinality(T)
<1>1. IsFiniteSet(S) /\ IsFiniteSet(T)
  BY ItemsFinite
<1>2. Cardinality(S \cup T) = Cardinality(S) + Cardinality(T) - Cardinality(S \cap T)
  BY <1>1, FS_Union
<1>3. Cardinality(S \cap T) = 0
  BY FS_EmptySet
<1>4. Cardinality(S) \in Nat /\ Cardinality(T) \in Nat
  BY ItemsFinite
<1>5. QED
  BY <1>2, <1>3, <1>4

(* Adding new items keeps the size test honest. *)
LEMMA HandlingCounts ==
  ASSUME TypeOK, Counted, NEW e \in pending, HandleDecorator(e) \/ HandleMatch(e)
  PROVE  Counted'
<1> DEFINE new == NewItems(e)
<1>0. HandleElement(e)
  BY DEF HandleDecorator, HandleMatch
<1>1. new \subseteq Item /\ new \cap relevant_items = {}
  BY WorldRange DEF NewItems, TypeOK
<1>2. relevant_items' = relevant_items \cup new /\ prev_name_count' = prev_name_count
  BY <1>0 DEF HandleElement
<1> HIDE DEF new
<1>3. Cardinality(relevant_items \cup new) = Cardinality(relevant_items) + Cardinality(new)
  BY <1>1, DisjointUnionSize DEF TypeOK
<1>4. Cardinality(relevant_items) \in Nat /\ Cardinality(new) \in Nat
      /\ prev_name_count \in Nat
  BY <1>1, ItemsFinite DEF TypeOK
<1>5. CASE HandleDecorator(e)
  BY <1>2, <1>3, <1>4, <1>5 DEF HandleDecorator, HandleElement, Counted
<1>6. CASE HandleMatch(e)
  <2>1. iter_new_items' = iter_new_items \cup new
    BY <1>6 DEF HandleMatch, new
  <2>2. iter_new_items \subseteq relevant_items /\ pc = "drain"
    BY <1>6 DEF HandleMatch, Counted
  <2>5. Cardinality(iter_new_items) \in Nat
    BY ItemsFinite DEF TypeOK
  <2>6. Cardinality(iter_new_items \cup new) = Cardinality(iter_new_items) + Cardinality(new)
    <3>1. iter_new_items \cap new = {}
      BY <1>1, <2>2
    <3>2. QED
      BY <1>1, <3>1, DisjointUnionSize DEF TypeOK
  <2>7. iter_new_items' \subseteq relevant_items'
    BY <1>2, <2>1, <2>2
  <2>8. Cardinality(relevant_items) >= prev_name_count + Cardinality(iter_new_items)
    BY <2>2 DEF Counted
  <2>9. QED
    BY <1>2, <1>3, <1>4, <2>1, <2>5, <2>6, <2>7, <2>8 DEF Counted
<1>7. QED
  BY <1>5, <1>6

-----------------------------------------------------------------------------
(* The invariant holds of the call: all seeds are still on the stack. *)
LEMMA ClosureInit == Init => ClosureInv
<1> SUFFICES ASSUME Init PROVE ClosureInv
  OBVIOUS
<1>1. test \in Test /\ init \in BOOLEAN
  BY DEF Init
<1>2. \A e \in Decorated[test] : Covered(e)
  BY DEF Init, Covered
<1>3. LookedUp
  <2>1. \A i \in relevant_items : i \in Item /\ work_stack[i] # 0
    BY <1>1, OccurrencesOfSeeds, WorldRange DEF Init
  <2>2. QED
    BY <2>1 DEF LookedUp
<1>4. Counted
  BY <1>1, ItemsFinite, WorldRange DEF Init, Counted
<1>5. OkCovered /\ ChecksumCovered /\ CompleteWhenDone
  BY DEF Init, OkCovered, ChecksumCovered, CompleteWhenDone
<1>6. QED
  BY <1>2, <1>3, <1>4, <1>5 DEF ClosureInv, Init

(* When a round ends without news, every live element of a relevant item   *)
(* has been covered.                                                       *)
LEMMA SettledIsComplete ==
  ASSUME TypeOK, ClosureInv, Return
  PROVE  /\ Closed(test, init, relevant_items)
         /\ ChecksumsOf(Reached(test, init, relevant_items)) \subseteq dependent_elements
<1>1. pc = "drain" /\ pending = {} /\ Settled
  BY DEF Return, RoundOver
<1>2. \A i \in relevant_items : work_stack[i] = 0
  BY DEF Return, RoundOver, Queued, TypeOK
<1>3. ASSUME NEW i \in relevant_items,
             NEW e \in Live(test, init, i, NamesOf(relevant_items))
      PROVE  Uses(e) \subseteq relevant_items /\ ChecksumsOf({e}) \subseteq dependent_elements
  <2>1. e \in Matches(test, init, i) /\ e \in Element /\ (IsAttribute(e) => e.cls \in RelevantNames)
    BY WorldRange DEF Live, TypeOK, RelevantNames
  <2>2. Covered(e) \/ Postponed(e)
    BY <1>1, <1>2, <2>1 DEF ClosureInv, LookedUp
  <2>3. ~Postponed(e)
    <3>1. SUFFICES ASSUME Postponed(e) PROVE FALSE
      OBVIOUS
    <3>2. e.cls \in NamesOf(iter_new_items) /\ e.cls \in Class
      BY <2>1, <3>1, ElementShape DEF Postponed
    <3>3. CASE NamesOf(iter_new_items) \cap Class = {}
      BY <3>2, <3>3
    <3>4. CASE Cardinality(relevant_items) = prev_name_count
      <4>1. Cardinality(iter_new_items) \in Nat /\ prev_name_count \in Nat
        BY ItemsFinite DEF TypeOK
      <4>2. Cardinality(iter_new_items) = 0
        BY <1>1, <3>4, <4>1 DEF ClosureInv, Counted
      <4>3. iter_new_items = {}
        BY <4>2, ItemsFinite, FS_EmptySet DEF TypeOK
      <4>4. QED
        BY <3>2, <4>3 DEF NamesOf
    <3>5. QED
      BY <1>1, <3>3, <3>4 DEF Settled
  <2>4. QED
    BY <1>1, <2>2, <2>3 DEF Covered
<1>4. \A e \in Decorated[test] : Uses(e) \subseteq relevant_items
                             /\ ChecksumsOf({e}) \subseteq dependent_elements
  BY <1>1 DEF ClosureInv, Covered
<1>5. Closed(test, init, relevant_items)
  BY <1>3, <1>4 DEF Closed, ClosureInv
<1>6. ASSUME NEW e \in Reached(test, init, relevant_items)
      PROVE  ChecksumsOf({e}) \subseteq dependent_elements
  BY <1>3, <1>4 DEF Reached
<1>7. ChecksumsOf(Reached(test, init, relevant_items)) \subseteq dependent_elements
  BY <1>6 DEF ChecksumsOf
<1>8. QED
  BY <1>5, <1>7

(* Every step keeps it; only handling an element needs ChecksumsIdentify. *)
LEMMA ClosureStep ==
  ASSUME ChecksumsIdentify, TypeOK, ClosureInv, [Next]_vars
  PROVE  ClosureInv'
<1>0. test \in Test /\ init \in BOOLEAN
  BY DEF TypeOK
<1>1. ASSUME NEW e \in pending, HandleDecorator(e) \/ HandleMatch(e) PROVE ClosureInv'
  <2>1. HandleElement(e) /\ pc # "done" /\ pc' = pc /\ ok_names' = ok_names
        /\ test' = test /\ init' = init
    BY <1>1 DEF HandleDecorator, HandleMatch, HandleElement
  <2>2. /\ relevant_items \subseteq relevant_items'
        /\ \A d : Covered(d) => Covered(d)'
        /\ ChecksumCovered'
    BY <2>1, HandlingCovers DEF ClosureInv
  <2>3. Counted'
    BY <1>1, HandlingCounts DEF ClosureInv
  <2>4. LookedUp'
    <3> SUFFICES ASSUME NEW i \in relevant_items', work_stack'[i] = 0,
                        NEW d \in Matches(test, init, i)
                 PROVE  Covered(d)' \/ Postponed(d)'
      BY <2>1 DEF LookedUp
    <3>1. i \in Item
      BY <2>1, WorldRange DEF HandleElement, NewItems, TypeOK
    <3>2. i \notin NewItems(e) /\ work_stack[i] = 0
      BY <2>1, <3>1 DEF HandleElement, Once, TypeOK
    <3>3. i \in relevant_items
      BY <2>1, <3>2 DEF HandleElement
    <3>4. Covered(d) \/ Postponed(d)
      BY <2>1, <3>2, <3>3 DEF ClosureInv, LookedUp
    <3>5. ASSUME Postponed(d) PROVE Postponed(d)'
      <4>1. pc = "drain" /\ HandleMatch(e)
        BY <1>1, <3>5 DEF Postponed, HandleDecorator, HandleMatch
      <4>2. relevant_items' = relevant_items \cup NewItems(e)
            /\ iter_new_items' = iter_new_items \cup NewItems(e)
        BY <4>1 DEF HandleMatch, HandleElement
      <4>3. QED
        BY <2>1, <3>5, <4>2 DEF Postponed, RelevantNames, NamesOf
    <3>6. QED
      BY <2>2, <3>4, <3>5
  <2>5. OkCovered'
    BY <2>1, <2>2 DEF OkCovered, ClosureInv
  <2>6. (\A d \in Decorated[test] : Covered(d))'
    BY <2>1, <2>2 DEF ClosureInv
  <2>7. CompleteWhenDone'
    BY <2>1 DEF CompleteWhenDone
  <2>8. Seeds(test', init') \subseteq relevant_items'
    BY <2>1, <2>2 DEF ClosureInv
  <2>9. QED
    BY <2>2, <2>3, <2>4, <2>5, <2>6, <2>7, <2>8 DEF ClosureInv
<1>2. CASE ReturnEarly
  <2>1. \A d : Covered(d) => Covered(d)'
    BY <1>2 DEF ReturnEarly, Covered
  <2>2. QED
    BY <1>2, <2>1 DEF ReturnEarly, ClosureInv, OkCovered, ChecksumCovered, Counted, CompleteWhenDone
<1>3. CASE StartRound
  <2>1. \A d : Covered(d) => Covered(d)'
    BY <1>3 DEF StartRound, Covered
  <2>2. LookedUp'
    BY <1>3, <2>1 DEF StartRound, ClosureInv, LookedUp, Postponed
  <2>3. Counted'
    <3>1. Cardinality({}) = 0
      BY FS_EmptySet
    <3>2. Cardinality(relevant_items) \in Nat /\ prev_name_count \in Nat
      BY ItemsFinite DEF TypeOK
    <3>3. QED
      BY <1>3, <3>1, <3>2 DEF StartRound, ClosureInv, Counted
  <2>4. QED
    BY <1>3, <2>1, <2>2, <2>3 DEF StartRound, ClosureInv, OkCovered, ChecksumCovered, CompleteWhenDone
<1>4. ASSUME NEW i \in Item, PopItem(i) PROVE ClosureInv'
  <2>1. pc = "drain" /\ pending = {} /\ pc' = pc /\ relevant_items' = relevant_items
        /\ dependent_elements' = dependent_elements /\ iter_new_items' = iter_new_items
        /\ test' = test /\ init' = init
        /\ pending' = Live(test, init, i, RelevantNames)
        /\ ok_names' = ok_names \cup IF pending' = Matches(test, init, i) THEN {i} ELSE {}
    BY <1>4 DEF PopItem
  <2>2. \A d : Covered(d) => Covered(d)'
    BY <2>1 DEF Covered
  <2>3. ASSUME NEW d \in Matches(test, init, i) PROVE Covered(d)' \/ Postponed(d)'
    <3>1. CASE d \in Live(test, init, i, RelevantNames)
      BY <2>1, <3>1 DEF Covered
    <3>2. CASE d \notin Live(test, init, i, RelevantNames)
      BY <2>1, <2>3, <3>2 DEF Live, Postponed, RelevantNames
    <3>3. QED
      BY <3>1, <3>2
  <2>4. LookedUp'
    <3> SUFFICES ASSUME NEW j \in relevant_items, work_stack'[j] = 0,
                        NEW d \in Matches(test, init, j)
                 PROVE  Covered(d)' \/ Postponed(d)'
      BY <2>1 DEF LookedUp
    <3>1. CASE j = i
      BY <2>3, <3>1
    <3>2. CASE j # i
      <4>1. work_stack[j] = 0
        BY <1>4, <3>2 DEF PopItem, TypeOK
      <4>2. Covered(d) \/ Postponed(d)
        BY <2>1, <4>1 DEF ClosureInv, LookedUp
      <4>3. QED
        BY <2>1, <2>2, <4>2 DEF Postponed, RelevantNames
    <3>3. QED
      BY <3>1, <3>2
  <2>5. OkCovered'
    <3> SUFFICES ASSUME NEW j \in ok_names', NEW d \in Matches(test, init, j) PROVE Covered(d)'
      BY <2>1 DEF OkCovered
    <3>1. CASE j \in ok_names
      BY <2>2, <3>1 DEF ClosureInv, OkCovered
    <3>2. CASE j \notin ok_names
      BY <2>1, <3>2 DEF Covered
    <3>3. QED
      BY <3>1, <3>2
  <2>6. Counted'
    BY <1>4, <2>1 DEF PopItem, ClosureInv, Counted
  <2>7. QED
    BY <2>1, <2>2, <2>4, <2>5, <2>6 DEF ClosureInv, ChecksumCovered, CompleteWhenDone
<1>5. CASE Return
  <2>1. CompleteWhenDone'
    BY <1>5, SettledIsComplete DEF Return, CompleteWhenDone
  <2>2. \A d : Covered(d) => Covered(d)'
    BY <1>5 DEF Return, Covered
  <2>3. QED
    BY <1>5, <2>1, <2>2 DEF Return, RoundOver, ClosureInv, OkCovered, ChecksumCovered, Counted
<1>6. CASE NextRound
  <2>1. \A d : Covered(d) => Covered(d)'
    BY <1>6 DEF NextRound, Covered
  <2>2. LookedUp'
    <3> SUFFICES ASSUME NEW i \in relevant_items, work_stack'[i] = 0,
                        NEW d \in Matches(test, init, i)
                 PROVE  Covered(d)'
      BY <1>6 DEF NextRound, LookedUp
    <3>1. i \in ok_names
      BY <1>6 DEF NextRound, Once, TypeOK
    <3>2. QED
      BY <2>1, <3>1 DEF ClosureInv, OkCovered
  <2>3. Counted'
    BY <1>6, ItemsFinite DEF NextRound, Counted, TypeOK
  <2>4. QED
    BY <1>6, <2>1, <2>2, <2>3 DEF NextRound, RoundOver, ClosureInv, OkCovered, ChecksumCovered, CompleteWhenDone
<1>7. CASE UNCHANGED vars
  BY <1>7 DEF vars, ClosureInv, LookedUp, OkCovered, ChecksumCovered, Counted, CompleteWhenDone,
              Covered, Postponed, RelevantNames
<1>8. QED
  BY <1>1, <1>2, <1>3, <1>4, <1>5, <1>6, <1>7 DEF Next

(* The inductive invariant, for projects whose checksums tell uses apart. *)
LEMMA ClosureAlways == ChecksumsIdentify => (Spec => []ClosureInv)
<1> SUFFICES ASSUME ChecksumsIdentify PROVE Spec => []ClosureInv
  OBVIOUS
<1>1. TypeOK /\ ClosureInv /\ [Next]_vars => ClosureInv'
  BY ClosureStep
<1>2. QED
  BY <1>1, ClosureInit, TypeCorrect, PTL DEF Spec

(* Where equal checksums mean equal uses, a test reported as unaffected    *)
(* has had its whole dependency closure searched.                          *)
THEOREM NothingMissed == ChecksumsIdentify => (Spec => []ClosedWhenDone)
<1>1. ClosureInv => ClosedWhenDone
  BY DEF ClosureInv, CompleteWhenDone, ClosedWhenDone
<1>2. QED
  BY <1>1, ClosureAlways, PTL

(* What the comment on ok_names says of every item on that list, at every   *)
(* moment: whatever the elements it stands for use is relevant, although    *)
(* elements are skipped by checksum and attributes are postponed.           *)
THEOREM OkNamesMean == ChecksumsIdentify => (Spec => []OkNamesHandled)
<1>1. ClosureInv => OkNamesHandled
  BY DEF ClosureInv, OkCovered, Covered, OkNamesHandled
<1>2. QED
  BY <1>1, ClosureAlways, PTL

-----------------------------------------------------------------------------
RightWhenDone ==
  pc = "done" => (dependent_elements \cap different # {}
                    <=> NeededChecksums(test, init) \cap different # {})

(* Once the loop has ended, what it collected meets the changes exactly    *)
(* when what the test needs does: the early return included.               *)
LEMMA VerdictIsRight == TypeOK /\ OnlyNeeded /\ CompleteWhenDone => RightWhenDone
<1> SUFFICES ASSUME TypeOK, OnlyNeeded, CompleteWhenDone, pc = "done"
             PROVE  dependent_elements \cap different # {}
                      <=> NeededChecksums(test, init) \cap different # {}
  BY DEF RightWhenDone
<1>1. CASE dependent_elements \cap different # {}
  BY <1>1 DEF OnlyNeeded
<1>2. CASE dependent_elements \cap different = {}
  <2>1. Closed(test, init, relevant_items)
        /\ ChecksumsOf(Reached(test, init, relevant_items)) \subseteq dependent_elements
    BY <1>2 DEF CompleteWhenDone
  <2>2. Needed[test][init] \subseteq relevant_items
    BY <2>1, NeededIsLeast DEF TypeOK
  <2>3. relevant_items = Needed[test][init]
    BY <2>2 DEF OnlyNeeded
  <2>4. NeededChecksums(test, init) \subseteq dependent_elements
    BY <2>1, <2>3 DEF NeededChecksums
  <2>5. QED
    BY <1>2, <2>4
<1>3. QED
  BY <1>1, <1>2

(* The instance of the abstract module speaks of the same world. *)
LEMMA SameWorld ==
  /\ Abstract!Checksum = Checksum
  /\ \A t, b : Abstract!NeededChecksums(t, b) = NeededChecksums(t, b)
<1>1. Abstract!Checksum = Checksum
  BY DEF Abstract!Checksum, Checksum
<1>2. ASSUME NEW t, NEW b PROVE Abstract!NeededChecksums(t, b) = NeededChecksums(t, b)
  BY DEF Abstract!NeededChecksums, NeededChecksums, Abstract!ChecksumsOf, ChecksumsOf,
         Abstract!Reached, Reached, Abstract!Live, Live, Abstract!NamesOf, NamesOf,
         Abstract!Matches, Matches, Abstract!World, World, Abstract!IsAttribute, IsAttribute,
         Abstract!Resolves, Resolves, Abstract!SeenRunning, SeenRunning,
         Abstract!Get, Get, Abstract!AnySource, AnySource
<1>3. QED
  BY <1>1, <1>2

(* The worklist, with its rounds, postponed attributes, checksum-based     *)
(* skipping and early return, implements the one-step declarative          *)
(* selection, for every project whose checksums tell uses apart.           *)
THEOREM SelectionImplemented == ChecksumsIdentify => (Spec => ImplementsSelection)
<1> SUFFICES ASSUME ChecksumsIdentify PROVE Spec => ImplementsSelection
  OBVIOUS
<1>1. Init => Abstract!SelectionInit
  BY SameWorld DEF Init, Abstract!SelectionInit, Verdict
<1>2. TypeOK /\ TypeOK' /\ OnlyNeeded' /\ ClosureInv' /\ [Next]_vars
        => [Abstract!Decide]_Abstract!selectionVars
  <2> SUFFICES ASSUME TypeOK, TypeOK', OnlyNeeded', ClosureInv', [Next]_vars
               PROVE  [Abstract!Decide]_Abstract!selectionVars
    OBVIOUS
  <2>0. UNCHANGED <<test, init, different>>
    BY DEF Next, vars, HandleDecorator, HandleMatch, HandleElement, ReturnEarly, StartRound,
           PopItem, Return, NextRound
  <2>1. CASE pc' # "done"
    <3>1. pc # "done"
      BY <2>1 DEF Next, vars, HandleDecorator, HandleMatch, HandleElement, ReturnEarly,
                  StartRound, PopItem, Return, RoundOver, NextRound
    <3>2. Verdict = "pending" /\ Verdict' = "pending"
      BY <2>1, <3>1 DEF Verdict
    <3>3. QED
      BY <2>0, <3>2 DEF Abstract!selectionVars
  <2>2. CASE pc = "done"
    <3>1. UNCHANGED vars
      BY <2>2 DEF Next, vars, HandleDecorator, HandleMatch, HandleElement, ReturnEarly,
                  StartRound, PopItem, Return, RoundOver, NextRound
    <3>2. QED
      BY <3>1 DEF vars, Verdict, Abstract!selectionVars
  <2>3. CASE pc # "done" /\ pc' = "done"
    <3>1. Verdict = "pending"
      BY <2>3 DEF Verdict
    <3>2. Verdict' = IF dependent_elements' \cap different' # {} THEN "run" ELSE "skip"
      BY <2>3 DEF Verdict
    <3>3. RightWhenDone'
      <4>1. CompleteWhenDone'
        BY DEF ClosureInv
      <4>2. QED
        BY <4>1, VerdictIsRight, PTL
    <3>4. NeededChecksums(test', init') = NeededChecksums(test, init)
      BY <2>0
    <3>5. Abstract!Decide
      BY <2>0, <2>3, <3>1, <3>2, <3>3, <3>4, SameWorld DEF Abstract!Decide, RightWhenDone
    <3>6. QED
      BY <3>5
  <2>4. QED
    BY <2>1, <2>2, <2>3
<1>3. QED
  BY <1>1, <1>2, TypeCorrect, NothingUnneeded, ClosureAlways, PTL
     DEF Spec, ImplementsSelection, Abstract!SelectionSpec
=============================================================================
