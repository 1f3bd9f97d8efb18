--------------------------- MODULE IsolatedScheduler ---------------------------
(***************************************************************************)
(* The scheduler of --dist=isolation (xdist/scheduler/isolation.py) on top *)
(* of the LoadScope scheduler it inherits from, as operators on its state: *)
(* a method that may return early at several places and calls others is an *)
(* operator from the state before to the state after.                      *)
(*                                                                         *)
(* A scheduler state s has the fields                                      *)
(*   numnodes                how many collections are awaited              *)
(*   active, next, waiting   active_worker, next_worker,                   *)
(*                           _active_waiting_for_collection                *)
(*   standby                 _standby_workers                              *)
(*   current, clones         keys of _current_scope,                       *)
(*                           _nodes_to_clone_after_finish                  *)
(*   nodes, assigned         keys of assigned_work in order, and the files *)
(*                           (work units) of each                          *)
(*   queue                   workqueue, a queue of files                   *)
(*   completed               the tests flagged in some work unit: a unit   *)
(*                           is one object, moved between queue and node   *)
(*   registered, collected   keys of registered_collections; whether       *)
(*                           collection is set                             *)
(*   torun                   the commands sent to each worker and not yet  *)
(*                           taken from its TestQueue                      *)
(*   sent, down              workers with _shutdown_sent, with _down       *)
(*   broken                  workers whose channel no longer takes sends   *)
(*   raised                  the exception in flight, None if there is none*)
(***************************************************************************)
EXTENDS Naturals, Sequences, FiniteSets, SequencesExt

CONSTANTS
  Worker,      \* worker ids, gw0, gw1, ... in the order they are created
  Collection,  \* the sequence of tests every worker collects
  FileOf,      \* [test -> file]: _split_scope of loadfile
  SHUTDOWN,    \* the marker that ends a worker's queue
  None

Test == ToSet(Collection)
TestFile == {FileOf[t] : t \in Test}
TestsOf(f) == {t \in Test : FileOf[t] = f}

ASSUME WorkerNumbers == Worker \subseteq Nat /\ None \notin Worker

(* Node ids are unique: the code looks a test up by its id.                *)
ASSUME NoTestTwice ==
  /\ Collection \in Seq(Test)
  /\ \A i, j \in DOMAIN Collection : Collection[i] = Collection[j] => i = j
  /\ SHUTDOWN \notin Test \cup {None}
  /\ None \notin Test \cup {"OSError", "KeyError", "AssertionError"}

(* Files in the order of their first test. *)
FilesInOrder ==
  FoldLeft(LAMBDA files, t : IF Contains(files, FileOf[t]) THEN files
                             ELSE Append(files, FileOf[t]),
           <<>>, Collection)

(* Only two collections are awaited, however many workers (-n) there are. *)
InitSched(n) ==
  [numnodes |-> IF n < 2 THEN n ELSE 2,
   active |-> None, next |-> None, waiting |-> None, standby |-> <<>>,
   current |-> {}, clones |-> {},
   nodes |-> <<>>, assigned |-> [w \in Worker |-> <<>>],
   queue |-> <<>>, completed |-> {}, registered |-> {}, collected |-> FALSE,
   torun |-> [w \in Worker |-> <<>>],
   sent |-> {}, down |-> {}, broken |-> {}, raised |-> None]

CollectionCompleted(s) == Cardinality(s.registered) >= s.numnodes

Pending(s, w) == {t \in Test : Contains(s.assigned[w], FileOf[t])} \ s.completed

(* Mutant: files still queued are overlooked. *)
FinishedButQueued(s) ==
  /\ CollectionCompleted(s)
  /\ \A w \in ToSet(s.nodes) : Cardinality(Pending(s, w)) < 2

TestsFinished(s) ==
  /\ CollectionCompleted(s)
  /\ s.queue = <<>>
  /\ \A w \in ToSet(s.nodes) : Cardinality(Pending(s, w)) < 2

-----------------------------------------------------------------------------
(* WorkerController: a shutdown swallows a failing send, runtests does not. *)
ShutdownEach(s, ws) ==
  LET up == ws \ s.down
  IN  [s EXCEPT !.sent = @ \cup up,
                !.torun = [w \in Worker |-> IF w \in up \ s.broken THEN Append(@[w], SHUTDOWN)
                                            ELSE @[w]]]

Shutdown(s, w) == ShutdownEach(s, {w})

SendRuntest(s, w, tests) ==
  IF w \in s.broken THEN [s EXCEPT !.raised = "OSError"]
  ELSE [s EXCEPT !.torun[w] = @ \o tests]

(* One call after another: the state one returns is that of the next.       *)
Then(s, Method(_)) == CHOOSE r \in {Method(t) : t \in {s}} : TRUE
InTurn(Method(_, _), s, ws) ==
  FoldLeft(LAMBDA r, w : Then(r, LAMBDA t : Method(t, w)), s, ws)

RequestShutdown(s, ws) == ShutdownEach(s, ws \ s.sent)

ShutdownAll(s) == ShutdownEach(s, ToSet(s.nodes))

(* Tests in the order in which they were collected. *)
InOrder(tests) ==
  FoldLeft(LAMBDA q, t : IF t \in tests THEN Append(q, t) ELSE q, <<>>, Collection)

(* Mutant: completed tests of the file are sent again. *)
AssignAllTests(s, w) ==
  LET f == Head(s.queue)
  IN  SendRuntest([s EXCEPT !.queue = Tail(@), !.assigned[w] = Append(@, f)], w,
                  InOrder(TestsOf(f)))

(* Mutant: every open test is sent, whatever its file. *)
AssignEverything(s, w) ==
  LET f == Head(s.queue)
  IN  SendRuntest([s EXCEPT !.queue = Tail(@), !.assigned[w] = Append(@, f)], w,
                  InOrder(Test \ s.completed))

(* LoadScope._assign_work_unit: the unit is the node's before its collection *)
(* is looked up, which fails for a node that has not collected.              *)
Assign(s, w) ==
  LET f == Head(s.queue)
      given == [s EXCEPT !.queue = Tail(@), !.assigned[w] = Append(@, f)]
  IN  IF w \notin s.registered THEN [given EXCEPT !.raised = "KeyError"]
      ELSE SendRuntest(given, w, InOrder(TestsOf(f) \ s.completed))

(* LoadScope._reschedule, called only when a worker has left work behind. *)
Reschedule(s, w) ==
  IF s.raised # None \/ w \in s.down \cup s.sent THEN s
  ELSE IF s.queue = <<>> THEN Shutdown(s, w)
  ELSE IF Cardinality(Pending(s, w)) > 2 THEN s
  ELSE Assign(s, w)

-----------------------------------------------------------------------------
FillNext(s) ==
  LET fit(w) == w # s.active /\ Contains(s.nodes, w)
      k == SelectInSeq(s.standby, fit)
  IN  IF s.next # None THEN s
      ELSE IF k = 0 THEN [s EXCEPT !.standby = <<>>]
      ELSE [s EXCEPT !.next = s.standby[k],
                     !.standby = SubSeq(@, k + 1, Len(@))]

Promote(s) ==
  IF s.active # None THEN s
  ELSE Then(FillNext(s), LAMBDA f :
         IF f.next = None THEN f
         ELSE [f EXCEPT !.active = f.next, !.next = None, !.waiting = None])

FutureWorkers(s) == (IF s.next # None THEN 1 ELSE 0) + Len(s.standby)

(* Mutant: the active worker is never to be replaced. *)
NeverClone(s) == s

(* The active worker is replaced on finishing when files outnumber spares. *)
UpdateClone(s) ==
  IF s.active = None \/ s.active \notin s.current THEN s
  ELSE IF Len(s.queue) > FutureWorkers(s)
       THEN [s EXCEPT !.clones = @ \cup {s.active}]
       ELSE [s EXCEPT !.clones = @ \ {s.active}]

ShutdownUnneeded(s) ==
  LET idle == ({s.next, s.active} \cup ToSet(s.standby)) \ {None}
      quiet == [RequestShutdown(s, idle) EXCEPT !.next = None, !.standby = <<>>]
  IN  IF s.queue # <<>> THEN s ELSE Then(quiet, UpdateClone)

(* Mutant: the shutdown goes out ahead of the tests. *)
StartActiveTooLate(s) ==
  LET given(r) == [Assign(r, r.active) EXCEPT !.current = @ \cup {r.active}]
      filled == Then(Then(RequestShutdown(s, {s.active}), given), FillNext)
  IN  Then(Then(filled, ShutdownUnneeded), UpdateClone)

StartActive(s) ==
  LET given == [Assign(s, s.active) EXCEPT !.current = @ \cup {s.active}]
      filled == Then(Then(given, LAMBDA r : RequestShutdown(r, {s.active})), FillNext)
  IN  Then(Then(filled, ShutdownUnneeded), UpdateClone)

MaybeStart(s) ==
  IF ~s.collected THEN s
  ELSE Then(Promote(s), LAMBDA p :
         IF p.active = None THEN p
         ELSE IF p.active \notin p.registered THEN [p EXCEPT !.waiting = p.active]
         ELSE IF p.active \in p.current THEN p
         ELSE IF p.queue = <<>> THEN ShutdownUnneeded(p)
         ELSE StartActive(p))

-----------------------------------------------------------------------------
AddNode(s, w) ==
  LET n == [s EXCEPT !.nodes = Append(@, w), !.assigned[w] = <<>>]
      spare == IF s.next = None THEN [n EXCEPT !.next = w]
               ELSE [n EXCEPT !.standby = Append(@, w)]
  IN  IF s.active = None THEN Then([n EXCEPT !.active = w, !.waiting = None], MaybeStart)
      ELSE Then(Then(spare, FillNext), UpdateClone)

(* A collection is refused from whoever is not a node, and from everybody   *)
(* when there are no tests; a late one finds the tests scheduled.           *)
Refused(s, w) ==
  \/ ~Contains(s.nodes, w)
  \/ CollectionCompleted(s) /\ (~s.collected \/ Collection = <<>>)

AddNodeCollection(s, w) ==
  LET r == [s EXCEPT !.registered = @ \cup {w}]
  IN  IF Refused(s, w)
      THEN [s EXCEPT !.raised = "AssertionError"]
      ELSE IF w = s.waiting THEN Then([r EXCEPT !.waiting = None], MaybeStart)
      ELSE IF w = s.next THEN Then(r, UpdateClone)
      ELSE r

Schedule(s) ==
  LET c == [s EXCEPT !.collected = TRUE, !.queue = FilesInOrder]
  IN  IF s.collected THEN MaybeStart(s)
      ELSE IF Collection = <<>> THEN Then(c, ShutdownUnneeded)
      ELSE Then(Then(c, Promote), MaybeStart)

(* Mutant: the work of a dead worker is dropped. *)
LeaveNodesDropping(s, w) ==
  [s EXCEPT !.nodes = RemoveFirst(@, w), !.assigned[w] = <<>>]

(* What a worker leaves behind goes to the end of the queue, and then      *)
(* _reschedule of the inherited scheduler hands it to every node in turn.  *)
LeaveNodes(s, w) ==
  LET gone == [s EXCEPT !.nodes = RemoveFirst(@, w), !.assigned[w] = <<>>]
      back == [gone EXCEPT !.queue = @ \o s.assigned[w]]
  IN  IF Pending(s, w) = {} THEN gone
      ELSE InTurn(Reschedule, back, back.nodes)

RemoveNode(s, w) ==
  LET un(x) == IF x = w THEN None ELSE x
      s1 == [s EXCEPT !.active = un(@), !.next = un(@), !.waiting = un(@),
                      !.current = @ \ {w}, !.standby = RemoveFirst(@, w)]
      replaced(r) == IF w = s.active THEN Then(Promote(r), MaybeStart)
                     ELSE IF w = s.next THEN Then(FillNext(r), UpdateClone)
                     ELSE r
      after(r) == IF r.raised # None THEN r
                  ELSE [replaced(r) EXCEPT !.clones = @ \cup (s.clones \cap {w})]
  IN  IF ~Contains(s.nodes, w) THEN s1
      ELSE Then(Then(s1, LAMBDA r : LeaveNodes(r, w)), after)

(* Mutant: the file counts as through after its first test. *)
MarkAnyComplete(s, w, t) ==
  LET m == [s EXCEPT !.completed = @ \cup {t}]
      d == [m EXCEPT !.assigned[w] = RemoveFirst(@, FileOf[t]), !.current = @ \ {w}]
      q == RequestShutdown(d, {w})
  IN  IF w = s.active THEN Then(Then([q EXCEPT !.active = None], Promote), MaybeStart) ELSE q

MarkTestComplete(s, w, t) ==
  LET f == FileOf[t]
      m == [s EXCEPT !.completed = @ \cup {t}]
      d == [m EXCEPT !.assigned[w] = RemoveFirst(@, f), !.current = @ \ {w}]
      q == RequestShutdown(d, {w})
  IN  IF ~(TestsOf(f) \subseteq m.completed) THEN m
      ELSE IF w = s.active THEN Then(Then([q EXCEPT !.active = None], Promote), MaybeStart)
      ELSE q

(* Mutant: every worker that finishes is replaced. *)
AlwaysCloneWorker(s, w) == w \in Worker

ShouldCloneWorker(s, w) ==
  w \in s.clones /\ (s.queue # <<>> \/ FutureWorkers(s) > 0)
=============================================================================
