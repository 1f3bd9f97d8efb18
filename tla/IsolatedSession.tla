---------------------------- MODULE IsolatedSession ----------------------------
(***************************************************************************)
(* A test session under --dist=isolation: the controller's event loop      *)
(* (dsession.py), the controller's side of each worker (workermanage.py),  *)
(* the worker processes (remote.py), and the scheduler between them.       *)
(*                                                                         *)
(* Each worker's events reach the controller in order; the single queue of *)
(* the controller may interleave those of different workers in any way.    *)
(* Every worker collects the same tests, and no test fails the session     *)
(* (-x, keyboard interrupts and internal errors are left out).             *)
(***************************************************************************)
EXTENDS IsolatedScheduler

CONSTANT
  Configs  \* the sessions considered: records of
           \*   n         the number of workers asked for (-n)
           \*   restarts  --max-worker-restart
           \*   deaths    bound on the number of workers that die
           \*   anywhere  may a worker also die outside of its tests?

ASSUME ConfigsShape ==
  \A c \in Configs : c.n \in Nat \ {0} /\ 0 .. c.n - 1 \subseteq Worker /\ c.restarts \in Nat

VARIABLES
  config,        \* the session's member of Configs
  sched,         \* the scheduler
  shuttingdown,
  active_nodes,  \* _active_nodes
  failed_nodes,  \* _failed_nodes_count
  aborted,       \* an exception has left pytest_runtestloop
  events,        \* [Worker -> events sent and not yet handled]
  phase,         \* [Worker -> how far its process is]
  nextitem,      \* [Worker -> nextitem_index]
  running,       \* [Worker -> the test it executes]
  began          \* history: [Worker -> tests it has begun]

controller == <<sched, shuttingdown, active_nodes, failed_nodes, aborted>>
vars == <<config, controller, events, phase, nextitem, running, began>>

Over == aborted \/ (shuttingdown /\ active_nodes = {})
Crashed == {w \in Worker : phase[w] = "crashed"}
Born == {w \in Worker : phase[w] # "unborn"}

Init ==
  /\ config \in Configs
  /\ sched = InitSched(config.n)
  /\ shuttingdown = FALSE
  /\ active_nodes = {w \in Worker : w < config.n}
  /\ failed_nodes = 0
  /\ aborted = FALSE
  /\ events = [w \in Worker |-> <<>>]
  /\ phase = [w \in Worker |-> IF w < config.n THEN "starting" ELSE "unborn"]
  /\ nextitem = [w \in Worker |-> None]
  /\ running = [w \in Worker |-> None]
  /\ began = [w \in Worker |-> {}]

-----------------------------------------------------------------------------
(* The worker process. *)
Emit(w, event) == events' = [events EXCEPT ![w] = Append(@, event)]
Become(w, p) == phase' = [phase EXCEPT ![w] = p]

SessionStart(w) ==
  /\ ~Over /\ phase[w] = "starting"
  /\ Become(w, "collecting")
  /\ Emit(w, <<"workerready", None>>)
  /\ UNCHANGED <<config, controller, nextitem, running, began>>

CollectionFinish(w) ==
  /\ ~Over /\ phase[w] = "collecting"
  /\ Become(w, "waiting")
  /\ Emit(w, <<"collectionfinish", None>>)
  /\ UNCHANGED <<config, controller, nextitem, running, began>>

(* torun.get(): the next command, waiting for one. *)
Get(w) ==
  /\ sched.torun[w] # <<>>
  /\ nextitem' = [nextitem EXCEPT ![w] = Head(sched.torun[w])]
  /\ sched' = [sched EXCEPT !.torun[w] = Tail(@)]

EnterLoop(w) ==
  /\ ~Over /\ phase[w] = "waiting"
  /\ Get(w)
  /\ Become(w, "loop")
  /\ UNCHANGED <<config, shuttingdown, active_nodes, failed_nodes, aborted, events, running, began>>

(* run_one_test: a test only begins when what comes after it is known. *)
BeginTest(w) ==
  /\ ~Over /\ phase[w] = "loop"
  /\ running[w] = None
  /\ nextitem[w] # SHUTDOWN
  /\ Get(w)
  /\ running' = [running EXCEPT ![w] = nextitem[w]]
  /\ began' = [began EXCEPT ![w] = @ \cup {nextitem[w]}]
  /\ UNCHANGED <<config, shuttingdown, active_nodes, failed_nodes, aborted, events, phase>>

EndTest(w) ==
  /\ ~Over /\ running[w] # None
  /\ running' = [running EXCEPT ![w] = None]
  /\ Emit(w, <<"runtest_protocol_complete", running[w]>>)
  /\ UNCHANGED <<config, controller, phase, nextitem, began>>

SessionFinish(w) ==
  /\ ~Over /\ phase[w] = "loop"
  /\ running[w] = None
  /\ nextitem[w] = SHUTDOWN
  /\ Become(w, "done")
  /\ Emit(w, <<"workerfinished", None>>)
  /\ UNCHANGED <<config, controller, nextitem, running, began>>

(* A process dies: what it sent still arrives, then its channel ends. *)
Crash(w) ==
  /\ ~Over
  /\ Cardinality(Crashed) < config.deaths
  /\ phase[w] \in {"starting", "collecting", "waiting", "loop"}
  /\ config.anywhere \/ running[w] # None
  /\ Become(w, "crashed")
  /\ Emit(w, <<"errordown", None>>)
  /\ running' = [running EXCEPT ![w] = None]
  /\ sched' = [sched EXCEPT !.broken = @ \cup {w}, !.torun[w] = <<>>]
  /\ UNCHANGED <<config, shuttingdown, active_nodes, failed_nodes, aborted, nextitem, began>>

(* process_from_remote sees the end of a worker ahead of the loop. *)
ReceiveEnd(w) ==
  /\ ~Over /\ phase[w] \in {"done", "crashed"}
  /\ w \notin sched.down
  /\ events[w] # <<>>
  /\ sched' = [sched EXCEPT !.down = @ \cup {w}, !.broken = @ \cup {w}]
  /\ UNCHANGED <<config, shuttingdown, active_nodes, failed_nodes, aborted, events, phase,
                 nextitem, running, began>>

-----------------------------------------------------------------------------
(* The controller: loop_once takes one event, calls its handler, and then  *)
(* asks the scheduler whether the tests are finished.                      *)
Take(w, name) ==
  /\ ~Over
  /\ active_nodes # {}
  /\ events[w] # <<>>
  /\ Head(events[w])[1] = name
  /\ events' = [events EXCEPT ![w] = Tail(@)]

Return(after, stopping) ==
  \E s \in {after} :
     /\ sched' = IF TestsFinished(s) /\ ~stopping THEN ShutdownAll(s) ELSE s
     /\ shuttingdown' = (stopping \/ TestsFinished(s))
     /\ aborted' = (s.raised # None)

(* _clone_node: a new worker, with the next free id. *)
NewWorker(w) == w \notin Born /\ \A v \in Worker \ Born : w <= v

WorkerReady(w) ==
  /\ Take(w, "workerready")
  /\ Return(IF shuttingdown THEN Shutdown(sched, w) ELSE AddNode(sched, w), shuttingdown)
  /\ UNCHANGED <<config, active_nodes, failed_nodes, phase, nextitem, running, began>>

WorkerCollectionFinish(w) ==
  /\ Take(w, "collectionfinish")
  /\ LET s == AddNodeCollection(sched, w)
         s2 == IF CollectionCompleted(s) /\ s.raised = None THEN Schedule(s) ELSE s
     IN  Return(IF shuttingdown THEN sched ELSE s2, shuttingdown)
  /\ UNCHANGED <<config, active_nodes, failed_nodes, phase, nextitem, running, began>>

WorkerTestComplete(w) ==
  /\ Take(w, "runtest_protocol_complete")
  /\ Return(MarkTestComplete(sched, w, Head(events[w])[2]), shuttingdown)
  /\ UNCHANGED <<config, active_nodes, failed_nodes, phase, nextitem, running, began>>

(* A worker that finishes with tests pending is an AssertionError. *)
WorkerFinished(w) ==
  /\ Take(w, "workerfinished")
  /\ w \in sched.down
  /\ LET known == Contains(sched.nodes, w)
         lost == known /\ Pending(sched, w) # {}
         s == IF lost THEN [sched EXCEPT !.raised = "AssertionError"]
              ELSE IF known THEN RemoveNode(sched, w) ELSE sched
         s2 == [s EXCEPT !.clones = @ \ {w}]
     IN  IF s.raised # None \/ ~ShouldCloneWorker(s, w)
         THEN /\ Return(s2, shuttingdown)
              /\ active_nodes' = active_nodes \ {w}
              /\ UNCHANGED phase
         ELSE \E clone \in Worker :
              /\ NewWorker(clone)
              /\ Return(s2, shuttingdown)
              /\ active_nodes' = (active_nodes \ {w}) \cup {clone}
              /\ Become(clone, "starting")
  /\ UNCHANGED <<config, failed_nodes, nextitem, running, began>>

(* A KeyError of remove_node is taken for "node not in the scheduler". *)
Forgiven(s) == IF s.raised = "KeyError" THEN [s EXCEPT !.raised = None] ELSE s

WorkerErrorDown(w) ==
  /\ Take(w, "errordown")
  /\ w \in sched.down
  /\ failed_nodes' = failed_nodes + 1
  /\ LET s == Forgiven(RemoveNode(sched, w))
     IN  IF failed_nodes' > config.restarts
         THEN /\ Return(IF shuttingdown THEN s ELSE ShutdownAll(s), TRUE)
              /\ active_nodes' = active_nodes \ {w}
              /\ UNCHANGED phase
         ELSE \E clone \in Worker :
              /\ NewWorker(clone)
              /\ Return(s, FALSE)
              /\ active_nodes' = (active_nodes \ {w}) \cup {clone}
              /\ Become(clone, "starting")
  /\ UNCHANGED <<config, nextitem, running, began>>

SessionOver == Over /\ UNCHANGED vars

WorkerStep(w) ==
  \/ SessionStart(w) \/ CollectionFinish(w) \/ EnterLoop(w)
  \/ BeginTest(w) \/ EndTest(w) \/ SessionFinish(w)

HandleEvent(w) ==
  \/ WorkerReady(w) \/ WorkerCollectionFinish(w) \/ WorkerTestComplete(w)
  \/ WorkerFinished(w) \/ WorkerErrorDown(w)

Next ==
  \/ \E w \in Worker : WorkerStep(w) \/ Crash(w) \/ ReceiveEnd(w) \/ HandleEvent(w)
  \/ SessionOver

Spec == Init /\ [][Next]_vars

(* As long as a process, the receiver thread or the loop can go on, one of *)
(* them does; a test ends, and nobody has to die.                          *)
Progress == \E w \in Worker : WorkerStep(w) \/ ReceiveEnd(w) \/ HandleEvent(w)

FairSpec == Spec /\ WF_vars(Progress)

-----------------------------------------------------------------------------
(* No file is dropped between the queue and the workers, nor held twice:   *)
(* until it is through, a file is queued or it is one worker's.            *)
Places(f) ==
  {<<"queue", i>> : i \in {j \in DOMAIN sched.queue : sched.queue[j] = f}}
  \cup {<<"node", w>> : w \in {v \in ToSet(sched.nodes) : Contains(sched.assigned[v], f)}}

WorkPlaced ==
  sched.collected /\ ~aborted =>
    \A f \in TestFile :
       Cardinality(Places(f)) = IF TestsOf(f) \subseteq sched.completed THEN 0 ELSE 1

(* "Every test file is executed in its own worker process." *)
Isolated ==
  \A w \in Worker : \A t, u \in began[w] : FileOf[t] = FileOf[u]

(* Where the scheduler gets by without a spare worker, or nobody dies, no  *)
(* hand-over goes wrong: every file has its own process ...                *)
Undisturbed == config.n = 1 \/ Crashed = {}
IsolatedUndisturbed == Undisturbed => Isolated

(* A test that has been reported is not executed again after a crash. *)
NoRerun == \A w \in Worker : running[w] \notin sched.completed

(* A session that ends by itself has run every test, unless workers have   *)
(* died more often than --max-worker-restart allows.                       *)
NoTestLost ==
  Over /\ ~aborted /\ failed_nodes <= config.restarts => sched.completed = Test

(* ... and the controller's own assertions hold: no exception escapes a    *)
(* handler, although replacements take over files half done.               *)
NeverAborts == Undisturbed => ~aborted

(* "Unexpectedly no active workers available" is never reached. *)
NeverStranded == active_nodes = {} => shuttingdown

(* However workers are replaced, no more than -n of them count as alive at  *)
(* a time, and over the session (test_isolation.py) unique_workers <=      *)
(* num_files + (parameter_n - 1).                                          *)
SpawnBounded ==
  /\ Cardinality(active_nodes) <= config.n
  /\ Collection # <<>> => Cardinality(Born) <= Cardinality(TestFile) + (config.n - 1) + failed_nodes

(* The session implements its promise: each file once, on a fresh worker,  *)
(* one after the other.                                                    *)
HomesOf(f) == {w \in Worker : began[w] \cap TestsOf(f) # {}}

Promise ==
  INSTANCE SerialFiles WITH
    Files <- TestFile, Workers <- Worker, Nobody <- None,
    home <- [f \in TestFile |-> IF HomesOf(f) = {} THEN None
                                ELSE CHOOSE w \in HomesOf(f) : TRUE],
    finished <- {f \in TestFile : /\ TestsOf(f) \subseteq UNION {began[w] : w \in Worker}
                                  /\ \A w \in Worker : running[w] \notin TestsOf(f)}

ImplementsSerialFiles == Promise!SerialSpec

(* The session ends. *)
Ends == <>Over
=============================================================================
