--------------------------- MODULE NamePropagation ---------------------------
(***************************************************************************)
(* NameBDP.algorithm (namebdp.py): the worklist that decides which code    *)
(* elements a test module depends on.  One step per loop body: handling a  *)
(* decorator's element, opening a round, popping an item, handling one of  *)
(* its elements, closing a round.                                          *)
(*                                                                         *)
(* work_stack is a bag: how often the Python list holds each item.  Its    *)
(* order is left open, because most of it comes from listing Python sets,  *)
(* whose order is not fixed: every item may be the next one popped.        *)
(***************************************************************************)
EXTENDS NameWorld

VARIABLES
  test,               \* test_file, the entry the call is for
  init,               \* the parameter init
  different,          \* the parameter different_checksums
  pc,                 \* "top": head of while True; "drain": inner loop; "done"
  work_stack,         \* items still to be looked up
  pending,            \* elements of the current item not yet handled
  relevant_items,
  iter_new_items,     \* items first seen in this round
  ok_names,           \* items all of whose elements were handled
  prev_name_count,
  dependent_elements  \* checksums found so far: the result

call == <<test, init, different>>
vars == <<test, init, different, pc, work_stack, pending, relevant_items,
          iter_new_items, ok_names, prev_name_count, dependent_elements>>

Once(S) == [i \in Item |-> IF i \in S THEN 1 ELSE 0]

Queued == {i \in Item : work_stack[i] > 0}

TypeOK ==
  /\ test \in Test
  /\ init \in BOOLEAN
  /\ different \subseteq Checksum
  /\ pc \in {"top", "drain", "done"}
  /\ work_stack \in [Item -> Nat]
  /\ pending \subseteq Element
  /\ relevant_items \subseteq Item
  /\ iter_new_items \subseteq Item
  /\ ok_names \subseteq Item
  /\ prev_name_count \in Nat
  /\ dependent_elements \subseteq Checksum

-----------------------------------------------------------------------------
(* The call: the seeds on the stack, the decorators' elements to be handled. *)
Init ==
  /\ test \in Test
  /\ init \in BOOLEAN
  /\ different \in IF init THEN {{}} ELSE SUBSET Checksum
  /\ pc = "top"
  /\ work_stack = [i \in Item |-> Occurrences(test, init, i)]
  /\ pending = Decorated[test]
  /\ relevant_items = Seeds(test, init)
  /\ iter_new_items = {}
  /\ ok_names = {}
  /\ prev_name_count = Cardinality(Seeds(test, init))
  /\ dependent_elements = {}

RelevantNames == NamesOf(relevant_items)

(* handle_element skips what it believes it has seen: by checksum. *)
Seen(e) == e.checksum \in dependent_elements /\ e.kind # "variable"

NewItems(e) == IF Seen(e) THEN {} ELSE Uses(e) \ relevant_items

HandleElement(e) ==
  /\ e \in pending
  /\ pending' = pending \ {e}
  /\ dependent_elements' = dependent_elements \cup ChecksumsOf({e})
  /\ relevant_items' = relevant_items \cup NewItems(e)
  /\ work_stack' = [i \in Item |-> work_stack[i] + Once(NewItems(e))[i]]
  /\ UNCHANGED <<test, init, different, pc, ok_names, prev_name_count>>

(* Before the loop: its new items are not news of any round. *)
HandleDecorator(e) ==
  /\ pc = "top"
  /\ HandleElement(e)
  /\ UNCHANGED iter_new_items

(* Mutant: news of the round are not recorded. *)
HandleMatchUnrecorded(e) ==
  /\ pc = "drain"
  /\ HandleElement(e)
  /\ UNCHANGED iter_new_items

HandleMatch(e) ==
  /\ pc = "drain"
  /\ HandleElement(e)
  /\ iter_new_items' = iter_new_items \cup NewItems(e)

(* Mutant: return as soon as anything was collected. *)
ReturnAfterRound ==
  /\ pc = "top" /\ pending = {}
  /\ ~init
  /\ dependent_elements # {}
  /\ pc' = "done"
  /\ UNCHANGED <<test, init, different, work_stack, pending, relevant_items,
                 iter_new_items, ok_names, prev_name_count, dependent_elements>>

(* A changed element was found: nothing more can change the verdict. *)
ReturnEarly ==
  /\ pc = "top" /\ pending = {}
  /\ ~init
  /\ dependent_elements \cap different # {}
  /\ pc' = "done"
  /\ UNCHANGED <<test, init, different, work_stack, pending, relevant_items,
                 iter_new_items, ok_names, prev_name_count, dependent_elements>>

StartRound ==
  /\ pc = "top" /\ pending = {}
  /\ init \/ dependent_elements \cap different = {}
  /\ pc' = "drain"
  /\ iter_new_items' = {}
  /\ UNCHANGED <<test, init, different, work_stack, pending, relevant_items,
                 ok_names, prev_name_count, dependent_elements>>

(* Mutant: an item is done with although elements of it were postponed. *)
PopOkAlways(i) ==
  /\ pc = "drain" /\ pending = {}
  /\ work_stack[i] > 0
  /\ work_stack' = [work_stack EXCEPT ![i] = @ - 1]
  /\ pending' = Live(test, init, i, RelevantNames)
  /\ ok_names' = ok_names \cup {i}
  /\ UNCHANGED <<test, init, different, pc, relevant_items, iter_new_items,
                 prev_name_count, dependent_elements>>

(* Mutant: attributes are followed whether or not their class is relevant. *)
PopAnyClass(i) ==
  /\ pc = "drain" /\ pending = {}
  /\ work_stack[i] > 0
  /\ work_stack' = [work_stack EXCEPT ![i] = @ - 1]
  /\ pending' = Matches(test, init, i)
  /\ ok_names' = ok_names \cup IF pending' = Matches(test, init, i) THEN {i} ELSE {}
  /\ UNCHANGED <<test, init, different, pc, relevant_items, iter_new_items,
                 prev_name_count, dependent_elements>>

(* Mutant: an item is taken that is not on the stack. *)
PopUnqueued(i) ==
  /\ pc = "drain" /\ pending = {}
  /\ work_stack' = [work_stack EXCEPT ![i] = @ - 1]
  /\ pending' = Live(test, init, i, RelevantNames)
  /\ ok_names' = ok_names \cup IF pending' = Matches(test, init, i) THEN {i} ELSE {}
  /\ UNCHANGED <<test, init, different, pc, relevant_items, iter_new_items,
                 prev_name_count, dependent_elements>>

PopItem(i) ==
  /\ pc = "drain" /\ pending = {}
  /\ work_stack[i] > 0
  /\ work_stack' = [work_stack EXCEPT ![i] = @ - 1]
  /\ pending' = Live(test, init, i, RelevantNames)
  /\ ok_names' = ok_names \cup IF pending' = Matches(test, init, i) THEN {i} ELSE {}
  /\ UNCHANGED <<test, init, different, pc, relevant_items, iter_new_items,
                 prev_name_count, dependent_elements>>

(* Mutant: stop only when every relevant item is done with. *)
SettledWhenAllOk == relevant_items \subseteq ok_names

(* The two reasons to stop: nothing new, or no new class name. *)
Settled ==
  \/ Cardinality(relevant_items) = prev_name_count
  \/ NamesOf(iter_new_items) \cap Class = {}

RoundOver == pc = "drain" /\ pending = {} /\ Queued = {}

Return ==
  /\ RoundOver
  /\ Settled
  /\ pc' = "done"
  /\ UNCHANGED <<test, init, different, work_stack, pending, relevant_items,
                 iter_new_items, ok_names, prev_name_count, dependent_elements>>

NextRound ==
  /\ RoundOver
  /\ ~Settled
  /\ pc' = "top"
  /\ prev_name_count' = Cardinality(relevant_items)
  /\ work_stack' = Once(relevant_items \ ok_names)
  /\ UNCHANGED <<test, init, different, pending, relevant_items,
                 iter_new_items, ok_names, dependent_elements>>

Next ==
  \/ \E e \in pending : HandleDecorator(e)
  \/ \E e \in pending : HandleMatch(e)
  \/ ReturnEarly
  \/ StartRound
  \/ \E i \in Item : PopItem(i)
  \/ Return
  \/ NextRound

Spec == Init /\ [][Next]_vars
FairSpec == Spec /\ WF_vars(Next)

-----------------------------------------------------------------------------
(* get_tests_to_run keeps the test when the result meets the changes. *)
Verdict ==
  IF pc # "done" THEN "pending"
  ELSE IF dependent_elements \cap different # {} THEN "run" ELSE "skip"

Abstract == INSTANCE NameSelection WITH verdict <- Verdict

(* The propagation implements the declarative selection, early return and  *)
(* rounds included: a changed element the test needs is never missed and   *)
(* no test is run for an element it does not need.  (namebdp.py 217-403    *)
(* and the test selection of get_tests_to_run.)                            *)
ImplementsSelection == Abstract!SelectionSpec

(* The comment on ok_names: "the implementations these names stand for     *)
(* have all been handled", so whatever such an element uses is relevant    *)
(* (or its element is the one in hand).                                    *)
OkNamesHandled ==
  \A i \in ok_names : \A e \in Matches(test, init, i) :
     e \in pending \/ Uses(e) \subseteq relevant_items

(* Stopping on "no new class name" loses nothing: when the loop breaks the *)
(* relevant items are a closed set although the last round may have added  *)
(* items, and only then may the result say "not affected".                 *)
ClosedWhenDone ==
  (pc = "done" /\ dependent_elements \cap different = {})
     => Closed(test, init, relevant_items)

(* Nothing is collected that the test does not need, at any moment. *)
OnlyNeeded ==
  /\ relevant_items \subseteq Needed[test][init]
  /\ dependent_elements \subseteq NeededChecksums(test, init)

(***************************************************************************)
(* Why it is closed: the inductive invariant of the proofs.  An item off   *)
(* the stack has had each of its elements covered, except those whose      *)
(* class was not relevant when it was popped; if the class has become      *)
(* relevant since, it is news of this round and the loop goes on.          *)
(***************************************************************************)
Covered(e) ==
  \/ e \in pending
  \/ Uses(e) \subseteq relevant_items /\ ChecksumsOf({e}) \subseteq dependent_elements

Postponed(e) ==
  /\ pc # "top"
  /\ IsAttribute(e)
  /\ e.cls \in RelevantNames => e.cls \in NamesOf(iter_new_items)

LookedUp ==
  \A i \in relevant_items : work_stack[i] = 0 =>
     \A e \in Matches(test, init, i) : Covered(e) \/ Postponed(e)

OkCovered == \A i \in ok_names : \A e \in Matches(test, init, i) : Covered(e)

(* A checksum is only collected with the uses of some element that has it. *)
ChecksumCovered ==
  \A c \in dependent_elements :
     \E d \in Element : d.checksum = c /\ Uses(d) \subseteq relevant_items

(* The size test can only succeed in a round that found nothing. *)
Counted ==
  /\ Cardinality(relevant_items) >= prev_name_count
  /\ pc = "drain" =>
       /\ iter_new_items \subseteq relevant_items
       /\ Cardinality(relevant_items) >= prev_name_count + Cardinality(iter_new_items)

CompleteWhenDone ==
  (pc = "done" /\ dependent_elements \cap different = {})
     => /\ Closed(test, init, relevant_items)
        /\ ChecksumsOf(Reached(test, init, relevant_items)) \subseteq dependent_elements

ClosureInv ==
  /\ Seeds(test, init) \subseteq relevant_items
  /\ \A e \in Decorated[test] : Covered(e)
  /\ pc # "done" => LookedUp
  /\ OkCovered
  /\ ChecksumCovered
  /\ Counted
  /\ CompleteWhenDone

(* The loop ends although it keeps re-queueing items whose class is not    *)
(* relevant yet.                                                           *)
Terminates == <>(pc = "done")
=============================================================================
