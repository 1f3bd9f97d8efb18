---------------------------- MODULE DistSchedulers ----------------------------
(***************************************************************************)
(* The schedulers of --dist=load, worksteal, each and loadscope (with      *)
(* loadfile and loadgroup, which only split scopes differently), as        *)
(* operators on a scheduler state s with the fields                        *)
(*   dist                   the mode                                       *)
(*   nodes, work            the keys of node2pending (assigned_work) in    *)
(*                          order, and the tests (scopes) of each          *)
(*   pending                the tests (scopes: workqueue) of nobody yet    *)
(*   completed              loadscope: the tests flagged in their unit     *)
(*   registered, odd        the workers whose collection is known; those   *)
(*                          among them that collected something else       *)
(*   collected              collection is set (each: _is_completed)        *)
(*   steal                  steal_requested_from_node                      *)
(*   started, removed       each: _started, values of _removed2pending     *)
(*   wire                   commands on the way to each worker             *)
(*   sent, down, broken     workers with _shutdown_sent, with _down, and   *)
(*                          those whose channel no longer takes sends      *)
(*   crashitem              what the last remove_node returned             *)
(*   raised                 the exception in flight, None if there is none *)
(* A test stands for its index: every worker numbers the same collection.  *)
(***************************************************************************)
EXTENDS Naturals, Sequences, FiniteSets, SequencesExt

CONSTANTS
  Worker,       \* worker ids, gw0, gw1, ... in the order they are created
  N,            \* the number of workers asked for
  Collection,   \* the sequence of tests collected
  ScopeOf,      \* [test -> scope]: _split_scope
  MaxSchedChunk,\* --maxschedchunk; by default all tests
  Slow,         \* the tests that take 0.1 s or more
  None

Test == ToSet(Collection)

ASSUME WorkersNumbered == N \in Nat \ {0} /\ Worker \subseteq Nat /\ None \notin Worker

Least(a, b) == IF a < b THEN a ELSE b
Most(a, b) == IF a < b THEN b ELSE a

InitSched(dist) ==
  [dist |-> dist, nodes |-> <<>>, work |-> [w \in Worker |-> <<>>], pending |-> <<>>,
   completed |-> {}, registered |-> {}, odd |-> {}, collected |-> FALSE,
   steal |-> None, started |-> {}, removed |-> <<>>,
   wire |-> [w \in Worker |-> <<>>], sent |-> {}, down |-> {}, broken |-> {},
   crashitem |-> None, raised |-> None]

(* One step after another, until one raises. *)
Then(s, Step(_)) ==
  CHOOSE r \in {IF t.raised = None THEN Step(t) ELSE t : t \in {s}} : TRUE

InTurn(Step(_, _), s, ws) ==
  FoldLeft(LAMBDA r, w : Then(r, LAMBDA t : Step(t, w)), s, ws)

Raise(s, exception) == [s EXCEPT !.raised = exception]

-----------------------------------------------------------------------------
(* WorkerController: a shutdown swallows a failing send, the others do not. *)
SendCommand(s, w, command) ==
  IF w \in s.broken THEN Raise(s, "OSError")
  ELSE [s EXCEPT !.wire[w] = Append(@, command)]

Shutdown(s, w) ==
  IF w \in s.down THEN s
  ELSE [s EXCEPT !.sent = @ \cup {w},
                 !.wire[w] = IF w \in s.broken THEN @ ELSE Append(@, <<"shutdown", <<>>>>)]

ShutdownAll(s) == InTurn(Shutdown, s, s.nodes)

ShuttingDown(s, w) == w \in s.down \cup s.sent

(* Mutant: new tests are booked ahead of the old ones. *)
SendTestsAhead(s, w, num) ==
  LET k == Least(num, Len(s.pending))
      tests == SubSeq(s.pending, 1, k)
      given == [s EXCEPT !.pending = SubSeq(@, k + 1, Len(@)), !.work[w] = tests \o @]
  IN  IF k = 0 THEN s ELSE SendCommand(given, w, <<"runtests", tests>>)

(* _send_tests *)
SendTests(s, w, num) ==
  LET k == Least(num, Len(s.pending))
      tests == SubSeq(s.pending, 1, k)
      given == [s EXCEPT !.pending = SubSeq(@, k + 1, Len(@)), !.work[w] = @ \o tests]
  IN  IF k = 0 THEN s ELSE SendCommand(given, w, <<"runtests", tests>>)

-----------------------------------------------------------------------------
(* load: a node with few tests is filled up from the global list, unless it *)
(* still has two and is slow, and told to shut down when that is empty.     *)
LoadCheckAfter(s, w, slow) ==
  LET share == Len(s.pending) \div Len(s.nodes)
      has == Len(s.work[w])
      num == Most(2, share \div 2) - has
  IN  IF ShuttingDown(s, w) THEN s
      ELSE IF s.pending = <<>> THEN Shutdown(s, w)
      ELSE IF has < Most(2, share \div 4) /\ ~(slow /\ has >= 2)
           THEN SendTests(s, w, Least(num, IF has = 0 THEN Most(2, MaxSchedChunk)
                                           ELSE Most(1, MaxSchedChunk)))
      ELSE s

LoadCheck(s, w) == LoadCheckAfter(s, w, FALSE)

ShutdownIfDealt(s) == IF s.pending = <<>> THEN ShutdownAll(s) ELSE s

(* load: the first distribution, one test each in turn or a chunk each. *)
LoadFirst(s) ==
  LET k == Len(s.nodes)
      turns == [i \in 1..Len(s.pending) |-> s.nodes[((i - 1) % k) + 1]]
      chunk == Most(Least((Len(Collection) \div k) \div 4, MaxSchedChunk), 2)
      dealt == IF Len(s.pending) < 2 * k
               THEN InTurn(LAMBDA r, w : SendTests(r, w, 1), s, turns)
               ELSE InTurn(LAMBDA r, w : SendTests(r, w, chunk), s, s.nodes)
  IN  Then(dealt, ShutdownIfDealt)

LoadSchedule(s) ==
  IF s.collected THEN InTurn(LoadCheck, s, s.nodes)
  ELSE LoadFirst([s EXCEPT !.collected = TRUE, !.pending = Collection])

LoadComplete(s, w, t) ==
  IF ~Contains(s.work[w], t) THEN Raise(s, "ValueError")
  ELSE LoadCheckAfter([s EXCEPT !.work[w] = Remove(@, t)], w, t \in Slow)

(* What a node leaves, but for the test it died in, is for the others. *)
Leave(s, w) ==
  IF s.work[w] = <<>> THEN s
  ELSE [s EXCEPT !.crashitem = Head(s.work[w]), !.pending = @ \o Tail(s.work[w])]

LoadRemove(s, w) ==
  IF s.work[w] = <<>> THEN s ELSE InTurn(LoadCheck, Leave(s, w), s.nodes)

-----------------------------------------------------------------------------
(* worksteal: the nodes with less than two tests, of those that go on. *)
Up(s) == SelectSeq(s.nodes, LAMBDA w : ~ShuttingDown(s, w))
Idle(s) == SelectSeq(Up(s), LAMBDA w : Len(s.work[w]) < 2)

(* They share the global list. *)
StealDeal(s) ==
  LET idle == Idle(s)
      rank(w) == SelectInSeq(idle, LAMBDA v : v = w)
      share(r, w) == Len(r.pending) \div (Len(idle) + 1 - rank(w))
  IN  InTurn(LAMBDA r, w : SendTests(r, w, share(r, w)), s, idle)

(* Mutant: another request is sent while one is under way. *)
StealAskTwice(s) ==
  LET longest(w) == \A v \in ToSet(Up(s)) : Len(s.work[v]) <= Len(s.work[w])
      victim == Up(s)[SelectInSeq(Up(s), longest)]
      num == Len(s.work[victim]) \div 2
      tests == SubSeq(s.work[victim], Len(s.work[victim]) - num + 1, Len(s.work[victim]))
  IN  IF Idle(s) = <<>> THEN s
      ELSE IF num = 0 THEN InTurn(Shutdown, s, Idle(s))
      ELSE Then(SendCommand(s, victim, <<"steal", tests>>),
                LAMBDA asked : [asked EXCEPT !.steal = victim])

(* When that is not enough, half of the longest queue is asked back, one   *)
(* request at a time; when nothing can be had, the idle are shut down.     *)
StealAsk(s) ==
  LET longest(w) == \A v \in ToSet(Up(s)) : Len(s.work[v]) <= Len(s.work[w])
      victim == Up(s)[SelectInSeq(Up(s), longest)]
      queue == s.work[victim]
      num == Least(Len(queue) \div 2, Most(2, Len(queue)) - 2)
      tests == SubSeq(queue, Len(queue) - num + 1, Len(queue))
  IN  IF Idle(s) = <<>> \/ s.steal # None THEN s
      ELSE IF num = 0 THEN InTurn(Shutdown, s, Idle(s))
      ELSE Then(SendCommand(s, victim, <<"steal", tests>>),
                LAMBDA asked : [asked EXCEPT !.steal = victim])

StealCheck(s) == Then(Then(s, StealDeal), StealAsk)

StealSchedule(s) ==
  StealCheck(IF s.collected THEN s
             ELSE [s EXCEPT !.collected = TRUE, !.pending = Collection])

StealComplete(s, w, t) ==
  IF ~Contains(s.work[w], t) THEN Raise(s, "ValueError")
  ELSE StealCheck([s EXCEPT !.work[w] = Remove(@, t)])

(* remove_pending_tests_from_node: the answer to the one request under way. *)
ReturnStolen(s, w, tests) ==
  IF s.steal # w THEN Raise(s, "AssertionError")
  ELSE StealCheck([s EXCEPT !.steal = None,
                            !.work[w] = SelectSeq(@, LAMBDA t : ~Contains(tests, t)),
                            !.pending = @ \o tests])

(* Mutant: a dead node is still expected to answer. *)
StealRemoveAsked(s, w) == StealCheck(Leave(s, w))

StealRemove(s, w) ==
  StealCheck([Leave(s, w) EXCEPT !.steal = IF @ = w THEN None ELSE @])

-----------------------------------------------------------------------------
(* loadscope: units of work, the tests of one scope, in one piece. *)
TestsIn(scope) == {t \in Test : ScopeOf[t] = scope}

Scopes ==
  FoldLeft(LAMBDA seen, t : IF Contains(seen, ScopeOf[t]) THEN seen ELSE Append(seen, ScopeOf[t]),
           <<>>, Collection)

(* The larger scopes come first. *)
ScopesBySize ==
  LET sized(n) == SelectSeq(Scopes, LAMBDA f : Cardinality(TestsIn(f)) = n)
      most == Len(Collection)
  IN  FlattenSeq([i \in 1..most |-> sized(most + 1 - i)])

OpenTests(s, w) ==
  {t \in Test : Contains(s.work[w], ScopeOf[t])} \ s.completed

(* The unit is the node's before its collection is looked up. *)
AssignUnit(s, w) ==
  LET unit == Head(s.pending)
      given == [s EXCEPT !.pending = Tail(@), !.work[w] = Append(@, unit)]
      open(t) == ScopeOf[t] = unit /\ t \notin s.completed
  IN  IF w \notin s.registered THEN Raise(given, "KeyError")
      ELSE SendCommand(given, w, <<"runtests", SelectSeq(Collection, open)>>)

Reschedule(s, w) ==
  IF ShuttingDown(s, w) THEN s
  ELSE IF s.pending = <<>> THEN Shutdown(s, w)
  ELSE IF Cardinality(OpenTests(s, w)) > 2 THEN s
  ELSE AssignUnit(s, w)

(* More workers than scopes: the last ones are dropped and shut down. *)
DropExtra(s) ==
  LET kept == Least(Len(s.nodes), Len(s.pending))
  IN  [InTurn(Shutdown, s, Reverse(SubSeq(s.nodes, kept + 1, Len(s.nodes))))
       EXCEPT !.nodes = SubSeq(@, 1, kept)]

ScopeFirst(s) ==
  LET nodes == DropExtra(s).nodes
      dealt == InTurn(AssignUnit, DropExtra(s), nodes)
  IN  Then(InTurn(Reschedule, dealt, nodes), ShutdownIfDealt)

ScopeSchedule(s) ==
  IF s.collected THEN InTurn(Reschedule, s, s.nodes)
  ELSE ScopeFirst([s EXCEPT !.collected = TRUE, !.pending = ScopesBySize])

ScopeComplete(s, w, t) ==
  IF w \in s.registered /\ Contains(s.work[w], ScopeOf[t])
  THEN Reschedule([s EXCEPT !.completed = @ \cup {t}], w)
  ELSE Raise(s, "KeyError")

(* All units of a dead node are queued again, the test it died in too. *)
ScopeRemove(s, w) ==
  LET openIn(unit) == SelectSeq(Collection, LAMBDA t : ScopeOf[t] = unit /\ t \in OpenTests(s, w))
      inOrder == FlattenSeq([i \in DOMAIN s.work[w] |-> openIn(s.work[w][i])])
      back == [s EXCEPT !.crashitem = Head(inOrder), !.pending = @ \o s.work[w]]
  IN  IF OpenTests(s, w) = {} THEN s ELSE InTurn(Reschedule, back, s.nodes)

-----------------------------------------------------------------------------
(* each: a node that has not started runs everything and is shut down; one *)
(* that replaces a dead node runs what that one left.                      *)
StartNode(s, w) ==
  LET all == SendCommand([s EXCEPT !.work[w] = Collection], w, <<"runtests", Collection>>)
      sent == IF s.work[w] # <<>> THEN SendCommand(s, w, <<"runtests", s.work[w]>>)
              ELSE IF w \notin s.registered THEN Raise(s, "KeyError")
              ELSE Then(all, LAMBDA r : Shutdown(r, w))
  IN  IF w \in s.started THEN s
      ELSE Then(sent, LAMBDA r : [r EXCEPT !.started = @ \cup {w}])

EachSchedule(s) == InTurn(StartNode, s, s.nodes)

EachComplete(s, w, t) ==
  IF ~Contains(s.work[w], t) THEN Raise(s, "ValueError")
  ELSE [s EXCEPT !.work[w] = Remove(@, t)]

(* A replacement is given what the first dead node left, if its collection *)
(* is the same; its own collection is not kept.                            *)
TakeOver(s, w, other) ==
  IF s.removed = <<>> \/ other # (s.removed[1].node \in s.odd) THEN s
  ELSE [s EXCEPT !.work[w] = s.removed[1].rest, !.removed = Tail(@)]

EachCollection(s, w, other) ==
  IF s.collected THEN TakeOver(s, w, other)
  ELSE [s EXCEPT !.registered = @ \cup {w},
                 !.odd = IF other THEN @ \cup {w} ELSE @,
                 !.collected = Cardinality(s.registered \cup {w}) >= N]

EachRemove(s, w) ==
  IF s.work[w] = <<>> THEN s
  ELSE IF w \notin s.registered THEN Raise(s, "KeyError")
  ELSE LET rest == Tail(s.work[w])
       IN  [s EXCEPT !.crashitem = Head(s.work[w]),
                     !.removed = IF rest = <<>> THEN @
                                 ELSE Append(@, [node |-> w, rest |-> rest])]

EachFinished(s) ==
  /\ s.collected
  /\ s.removed = <<>>
  /\ \A w \in ToSet(s.nodes) : Len(s.work[w]) < 2

-----------------------------------------------------------------------------
(* What all modes share, and the choice between them. *)
CollectionCompleted(s) ==
  IF s.dist = "each" THEN s.collected ELSE Cardinality(s.registered) >= N

(* How many tests a node is known to have in front of it. *)
Waiting(s, w) ==
  IF s.dist = "loadscope" THEN Cardinality(OpenTests(s, w)) ELSE Len(s.work[w])

(* Mutant: tests that a dead worker left behind are overlooked. *)
FinishedButLeft(s) ==
  /\ CollectionCompleted(s)
  /\ s.steal = None
  /\ \A w \in ToSet(s.nodes) : Waiting(s, w) < 2

(* A node with one test left runs it as soon as it is told to shut down. *)
TestsFinished(s) ==
  IF s.dist = "each" THEN EachFinished(s)
  ELSE /\ CollectionCompleted(s)
       /\ s.pending = <<>>
       /\ s.steal = None
       /\ \A w \in ToSet(s.nodes) : Waiting(s, w) < 2

AddNode(s, w) ==
  IF Contains(s.nodes, w) THEN Raise(s, "AssertionError")
  ELSE [s EXCEPT !.nodes = Append(@, w), !.work[w] = <<>>]

(* A late worker with another collection stays in the scheduler unknown. *)
AddNodeCollection(s, w, other) ==
  IF ~Contains(s.nodes, w) THEN Raise(s, "AssertionError")
  ELSE IF s.dist = "each" THEN EachCollection(s, w, other)
  ELSE IF ~CollectionCompleted(s)
  THEN [s EXCEPT !.registered = @ \cup {w}, !.odd = IF other THEN @ \cup {w} ELSE @]
  ELSE IF ~s.collected THEN Raise(s, "AssertionError")
  ELSE IF other THEN s ELSE [s EXCEPT !.registered = @ \cup {w}]

(* Workers that collected different tests are given none. *)
Schedule(s) ==
  CASE s.dist = "each" -> EachSchedule(s)
    [] s.dist # "each" /\ ~s.collected /\ s.odd # {} -> s
    [] s.dist = "load" /\ (s.collected \/ s.odd = {}) -> LoadSchedule(s)
    [] s.dist = "worksteal" /\ (s.collected \/ s.odd = {}) -> StealSchedule(s)
    [] s.dist = "loadscope" /\ (s.collected \/ s.odd = {}) -> ScopeSchedule(s)

MarkTestComplete(s, w, t) ==
  CASE ~Contains(s.nodes, w) -> Raise(s, "KeyError")
    [] Contains(s.nodes, w) /\ s.dist = "load" -> LoadComplete(s, w, t)
    [] Contains(s.nodes, w) /\ s.dist = "worksteal" -> StealComplete(s, w, t)
    [] Contains(s.nodes, w) /\ s.dist = "loadscope" -> ScopeComplete(s, w, t)
    [] Contains(s.nodes, w) /\ s.dist = "each" -> EachComplete(s, w, t)

RemoveNode(s, w) ==
  LET Left(r) == CASE r.dist = "load" -> LoadRemove(r, w)
                   [] r.dist = "worksteal" -> StealRemove(r, w)
                   [] r.dist = "loadscope" -> ScopeRemove(r, w)
                   [] r.dist = "each" -> EachRemove(r, w)
      Forget(r) == [r EXCEPT !.work[w] = <<>>]
      gone == [s EXCEPT !.nodes = Remove(@, w), !.crashitem = None]
  IN  IF Contains(s.nodes, w) THEN Forget(Left(gone))
      ELSE Raise([s EXCEPT !.crashitem = None], "KeyError")
=============================================================================
