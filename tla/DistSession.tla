------------------------------ MODULE DistSession ------------------------------
(***************************************************************************)
(* A test session under --dist=load, worksteal, each or loadscope: the     *)
(* controller's event loop (dsession.py), its side of each worker          *)
(* (workermanage.py) and the worker processes (remote.py). A worker has    *)
(* two threads: one runs the tests in its queue, the other handles the     *)
(* commands of the controller, which may take tests out of that queue.     *)
(*                                                                         *)
(* Each worker's events reach the controller in order; its single queue    *)
(* may interleave those of different workers in any way. A worker may      *)
(* collect different tests, die, or (-x) stop at a failing test; keyboard  *)
(* interrupts and internal errors are left out.                            *)
(***************************************************************************)
EXTENDS DistSchedulers

CONSTANTS
  Dists,        \* the modes examined
  Failing,      \* the sets of tests that fail under -x, one set per case
  MayDiffer,    \* workers that may collect different tests
  MaxRestart,   \* --max-worker-restart
  MaxCrashes,   \* bound on the number of workers that die
  Dies          \* [mode -> when they do: "never", "testing", "ever"]

VARIABLES
  sched,         \* the scheduler
  shuttingdown,
  shouldstop,
  active_nodes,  \* _active_nodes
  failed_nodes,  \* _failed_nodes_count
  aborted,       \* an exception other than Interrupted has left the loop
  failing,       \* the tests that fail
  events,        \* [Worker -> events sent and not yet handled]
  phase,         \* [Worker -> how far its process is]
  torun,         \* [Worker -> its TestQueue]
  nextitem,      \* [Worker -> nextitem_index]
  running,       \* [Worker -> the test it executes]
  began,         \* history: [Worker -> tests it has begun]
  reported,      \* history: [Worker -> its tests handled as complete]
  blamed,        \* history: [Worker -> the test handle_crashitem named]
  diedIn         \* history: [Worker -> the test it died in]

controller == <<sched, shuttingdown, shouldstop, active_nodes, failed_nodes, aborted>>
process == <<phase, torun, nextitem, running>>
history == <<began, reported, blamed, diedIn>>
vars == <<controller, failing, events, process, history>>

SHUTDOWN == "SHUTDOWN"
(* session_finished, or an exception: also loop_once's own, "Unexpectedly   *)
(* no active workers available", when nobody asked for the end.            *)
Over == aborted \/ active_nodes = {}
Crashed == {w \in Worker : phase[w] = "crashed"}
Born == {w \in Worker : phase[w] # "unborn"}

Init ==
  /\ \E dist \in Dists : sched = InitSched(dist)
  /\ shuttingdown = FALSE /\ shouldstop = FALSE /\ aborted = FALSE
  /\ active_nodes = {w \in Worker : w < N}
  /\ failed_nodes = 0
  /\ failing \in Failing
  /\ events = [w \in Worker |-> <<>>]
  /\ phase = [w \in Worker |-> IF w < N THEN "starting" ELSE "unborn"]
  /\ torun = [w \in Worker |-> <<>>]
  /\ nextitem = [w \in Worker |-> None]
  /\ running = [w \in Worker |-> None]
  /\ began = [w \in Worker |-> {}]
  /\ reported = [w \in Worker |-> {}]
  /\ blamed = [w \in Worker |-> None]
  /\ diedIn = [w \in Worker |-> None]

-----------------------------------------------------------------------------
(* The worker process. *)
Emit(w, some) == events' = [events EXCEPT ![w] = @ \o some]
Become(w, p) == phase' = [phase EXCEPT ![w] = p]

SessionStart(w) ==
  /\ ~Over /\ phase[w] = "starting"
  /\ Become(w, "collecting")
  /\ Emit(w, <<<<"workerready", None>>>>)
  /\ UNCHANGED <<controller, failing, torun, nextitem, running, history>>

CollectionFinish(w) ==
  /\ ~Over /\ phase[w] = "collecting"
  /\ Become(w, "loop")
  /\ \E other \in {FALSE, (w \in MayDiffer)} : Emit(w, <<<<"collectionfinish", other>>>>)
  /\ UNCHANGED <<controller, failing, torun, nextitem, running, history>>

(* Mutant: what is stolen stays in the queue. *)
StealCopied(queue, tests) ==
  LET stolen == SelectSeq(queue, LAMBDA t : Contains(tests, t))
  IN  [left |-> queue, stolen |-> IF Len(stolen) = Len(tests) THEN stolen ELSE <<>>]

(* All the tests asked for are taken out of the queue, or none. *)
Steal(queue, tests) ==
  LET stolen == SelectSeq(queue, LAMBDA t : Contains(tests, t))
  IN  IF Len(stolen) = Len(tests)
      THEN [left |-> SelectSeq(queue, LAMBDA t : ~Contains(tests, t)), stolen |-> stolen]
      ELSE [left |-> queue, stolen |-> <<>>]

(* handle_command, in the receiver thread, once the loop has been entered. *)
HandleCommand(w) ==
  /\ ~Over /\ phase[w] = "loop"
  /\ sched.wire[w] # <<>>
  /\ LET command == Head(sched.wire[w])
         after == Steal(torun[w], command[2])
     IN  CASE command[1] = "runtests" ->
                torun' = [torun EXCEPT ![w] = @ \o command[2]] /\ UNCHANGED events
           [] command[1] = "shutdown" ->
                torun' = [torun EXCEPT ![w] = Append(@, SHUTDOWN)] /\ UNCHANGED events
           [] command[1] = "steal" ->
                /\ torun' = [torun EXCEPT ![w] = after.left]
                /\ Emit(w, <<<<"unscheduled", after.stolen>>>>)
  /\ sched' = [sched EXCEPT !.wire[w] = Tail(@)]
  /\ UNCHANGED <<shuttingdown, shouldstop, active_nodes, failed_nodes, aborted, failing,
                 phase, nextitem, running, history>>

(* torun.get(): waits for something to be there. *)
Get(w) ==
  /\ torun[w] # <<>>
  /\ nextitem' = [nextitem EXCEPT ![w] = Head(torun[w])]
  /\ torun' = [torun EXCEPT ![w] = Tail(@)]

EnterLoop(w) ==
  /\ ~Over /\ phase[w] = "loop"
  /\ nextitem[w] = None
  /\ Get(w)
  /\ UNCHANGED <<controller, failing, events, phase, running, history>>

(* run_one_test: a test only begins when what comes after it is known. *)
BeginTest(w) ==
  /\ ~Over /\ phase[w] = "loop"
  /\ running[w] = None
  /\ nextitem[w] \notin {None, SHUTDOWN}
  /\ Get(w)
  /\ running' = [running EXCEPT ![w] = nextitem[w]]
  /\ began' = [began EXCEPT ![w] = @ \cup {nextitem[w]}]
  /\ UNCHANGED <<controller, failing, events, phase, reported, blamed, diedIn>>

(* A test ends; under -x a failing one ends the worker's session with it. *)
EndTest(w) ==
  /\ ~Over /\ running[w] # None
  /\ LET t == running[w]
     IN  IF t \in failing
         THEN /\ Emit(w, <<<<"testreport", t>>, <<"runtest_protocol_complete", t>>,
                           <<"workerfinished", TRUE>>>>)
              /\ Become(w, "done")
         ELSE /\ Emit(w, <<<<"runtest_protocol_complete", t>>>>)
              /\ UNCHANGED phase
  /\ running' = [running EXCEPT ![w] = None]
  /\ UNCHANGED <<controller, failing, torun, nextitem, history>>

SessionFinish(w) ==
  /\ ~Over /\ phase[w] = "loop"
  /\ running[w] = None
  /\ nextitem[w] = SHUTDOWN
  /\ Become(w, "done")
  /\ Emit(w, <<<<"workerfinished", FALSE>>>>)
  /\ UNCHANGED <<controller, failing, torun, nextitem, running, history>>

(* A process dies: what it sent still arrives, then its channel ends. *)
Crash(w) ==
  /\ ~Over
  /\ Cardinality(Crashed) < MaxCrashes
  /\ phase[w] \in {"starting", "collecting", "loop"}
  /\ Dies[sched.dist] = "ever" \/ (Dies[sched.dist] = "testing" /\ running[w] # None)
  /\ Become(w, "crashed")
  /\ Emit(w, <<<<"errordown", None>>>>)
  /\ torun' = [torun EXCEPT ![w] = <<>>]
  /\ nextitem' = [nextitem EXCEPT ![w] = None]
  /\ running' = [running EXCEPT ![w] = None]
  /\ diedIn' = [diedIn EXCEPT ![w] = running[w]]
  /\ sched' = [sched EXCEPT !.broken = @ \cup {w}, !.wire[w] = <<>>]
  /\ UNCHANGED <<shuttingdown, shouldstop, active_nodes, failed_nodes, aborted, failing,
                 began, reported, blamed>>

(* process_from_remote, in the controller's receiver thread, sees the end  *)
(* of a worker ahead of the loop.                                          *)
ReceiveEnd(w) ==
  /\ ~Over /\ phase[w] \in {"done", "crashed"}
  /\ w \notin sched.down
  /\ sched' = [sched EXCEPT !.down = @ \cup {w}, !.broken = @ \cup {w}, !.wire[w] = <<>>]
  /\ UNCHANGED <<shuttingdown, shouldstop, active_nodes, failed_nodes, aborted, failing,
                 events, process, history>>

-----------------------------------------------------------------------------
(* The controller: loop_once takes one event and calls its handler; then   *)
(* it shuts down if the tests are finished or somebody wants to stop.      *)
Take(w, name) ==
  /\ ~Over
  /\ events[w] # <<>>
  /\ Head(events[w])[1] = name
  /\ events' = [events EXCEPT ![w] = Tail(@)]

Payload(w) == Head(events[w])[2]

Return(after, stopping, stop) ==
  \E s \in {after} :
     LET ends == s.raised = None /\ (TestsFinished(s) \/ stop)
     IN  /\ sched' = IF ends /\ ~stopping THEN ShutdownAll(s) ELSE s
         /\ shuttingdown' = (stopping \/ ends)
         /\ shouldstop' = stop
         /\ aborted' = (s.raised # None)

WorkerReady(w) ==
  /\ Take(w, "workerready")
  /\ Return(IF shuttingdown THEN Shutdown(sched, w) ELSE AddNode(sched, w),
            shuttingdown, shouldstop)
  /\ UNCHANGED <<active_nodes, failed_nodes, failing, process, history>>

WorkerCollectionFinish(w) ==
  /\ Take(w, "collectionfinish")
  /\ LET known == AddNodeCollection(sched, w, Payload(w))
         Distribute(s) == IF CollectionCompleted(s) THEN Schedule(s) ELSE s
     IN  Return(IF shuttingdown THEN sched ELSE Then(known, Distribute),
                shuttingdown, shouldstop)
  /\ UNCHANGED <<active_nodes, failed_nodes, failing, process, history>>

(* -x: the first failure that is reported stops the session. *)
WorkerTestReport(w) ==
  /\ Take(w, "testreport")
  /\ Return(sched, shuttingdown, TRUE)
  /\ UNCHANGED <<active_nodes, failed_nodes, failing, process, history>>

WorkerTestComplete(w) ==
  /\ Take(w, "runtest_protocol_complete")
  /\ Return(MarkTestComplete(sched, w, Payload(w)), shuttingdown, shouldstop)
  /\ reported' = [reported EXCEPT ![w] = @ \cup {Payload(w)}]
  /\ UNCHANGED <<active_nodes, failed_nodes, failing, process, began, blamed, diedIn>>

WorkerUnscheduled(w) ==
  /\ Take(w, "unscheduled")
  /\ Return(ReturnStolen(sched, w, Payload(w)), shuttingdown, shouldstop)
  /\ UNCHANGED <<active_nodes, failed_nodes, failing, process, history>>

(* A worker that stopped early is left in the scheduler; one that finishes *)
(* with tests pending is an AssertionError.                                *)
WorkerFinished(w) ==
  /\ Take(w, "workerfinished")
  /\ w \in sched.down
  /\ LET known == ~Payload(w) /\ Contains(sched.nodes, w)
         s == IF known THEN RemoveNode(sched, w) ELSE sched
         lost == known /\ s.crashitem # None
     IN  Return(IF lost THEN Raise(s, "AssertionError") ELSE s,
                shuttingdown, shouldstop \/ Payload(w))
  /\ active_nodes' = active_nodes \ {w}
  /\ UNCHANGED <<failed_nodes, failing, process, history>>

(* _clone_node: a new worker, with the next free id. *)
NewWorker(w) == w \notin Born /\ \A v \in Worker \ Born : w <= v

(* A KeyError of remove_node is taken for "node not in the scheduler". *)
Forgiven(s) == IF s.raised = "KeyError" THEN [s EXCEPT !.raised = None] ELSE s

WorkerErrorDown(w) ==
  /\ Take(w, "errordown")
  /\ w \in sched.down
  /\ LET s == Forgiven(RemoveNode(sched, w))
         maximum_reached == failed_nodes + 1 > MaxRestart
         clones == IF maximum_reached THEN {} ELSE {v \in Worker : NewWorker(v)}
     IN  /\ Return(IF maximum_reached /\ ~shuttingdown THEN ShutdownAll(s) ELSE s,
                   maximum_reached, shouldstop)
         /\ active_nodes' = (active_nodes \ {w}) \cup clones
         /\ phase' = [v \in Worker |-> IF v \in clones THEN "starting" ELSE phase[v]]
         /\ blamed' = [blamed EXCEPT ![w] = s.crashitem]
  /\ failed_nodes' = failed_nodes + 1
  /\ UNCHANGED <<failing, torun, nextitem, running, began, reported, diedIn>>

SessionOver == Over /\ UNCHANGED vars

WorkerStep(w) ==
  \/ SessionStart(w) \/ CollectionFinish(w) \/ EnterLoop(w)
  \/ BeginTest(w) \/ EndTest(w) \/ SessionFinish(w)

HandleEvent(w) ==
  \/ WorkerReady(w) \/ WorkerCollectionFinish(w) \/ WorkerTestReport(w)
  \/ WorkerTestComplete(w) \/ WorkerUnscheduled(w)
  \/ WorkerFinished(w) \/ WorkerErrorDown(w)

Next ==
  \/ \E w \in Worker :
       WorkerStep(w) \/ HandleCommand(w) \/ Crash(w) \/ ReceiveEnd(w) \/ HandleEvent(w)
  \/ SessionOver

Spec == Init /\ [][Next]_vars

(* As long as a thread, a process or the loop can go on, one of them does; *)
(* a test ends, and nobody has to die.                                     *)
Progress ==
  \E w \in Worker : WorkerStep(w) \/ HandleCommand(w) \/ ReceiveEnd(w) \/ HandleEvent(w)

Fairness == WF_vars(Progress)

FairSpec == Spec /\ Fairness

-----------------------------------------------------------------------------
Outcomes(t) ==
  Cardinality({w \in Worker : t \in reported[w]}) + Cardinality({w \in Worker : blamed[w] = t})

(* A session that ends by itself has exactly one outcome for every test,   *)
(* its completion or the death of its worker (under each: one per worker   *)
(* asked for; under loadscope: its completion, after whatever deaths), and *)
(* none at all when the workers collected different tests.                 *)
OneOutcome ==
  Over /\ ~aborted /\ ~shouldstop /\ failed_nodes <= MaxRestart =>
    \A t \in Test :
      CASE sched.dist = "each" -> Outcomes(t) = N
        [] sched.odd # {} /\ sched.dist # "each" -> Outcomes(t) = 0
        [] sched.odd = {} /\ sched.dist = "loadscope" -> \E w \in Worker : t \in reported[w]
        [] sched.odd = {} /\ sched.dist \in {"load", "worksteal"} -> Outcomes(t) = 1

(* No test is executed by two workers, except once by each (each) or again *)
(* after the death of its worker (loadscope).                              *)
RunOnce ==
  \A t \in Test :
    Cardinality({w \in Worker : t \in began[w]})
      <= IF sched.dist = "each" THEN N
         ELSE 1 + (IF sched.dist = "loadscope" THEN Cardinality({w \in Worker : blamed[w] = t}) ELSE 0)

(* The assertions and look-ups of the controller never fail: what it has   *)
(* on its books is what the workers have in front of them. (A send to a    *)
(* worker that has just died raises OSError; under each, a replacement     *)
(* raises KeyError.) Nor does the controller run out of workers by itself. *)
BooksAgree ==
  /\ sched.raised \in {None, "OSError"} \cup (IF sched.dist = "each" THEN {"KeyError"} ELSE {})
  /\ active_nodes = {} => shuttingdown \/ aborted

(* handle_crashitem: "worker crashed while running" names the test the     *)
(* worker did run, whatever was stolen from it or sent to it meanwhile.    *)
BlamesRunning ==
  \A w \in Worker : diedIn[w] # None /\ blamed[w] # None => blamed[w] = diedIn[w]

(* The session ends. *)
DistEnds == <>Over
=============================================================================
