------------------------ MODULE IsolatedSession_proofs ------------------------
(***************************************************************************)
(* Proofs about --dist=isolation, for every collection, every number of    *)
(* workers, any number of deaths and every order of events.                *)
(***************************************************************************)
EXTENDS IsolatedSession, IsolatedScheduler_proofs, FiniteSetTheorems

------------------------------------------------------------------------------
(***************************************************************************)
(* The session: what a worker has in front of it are the tests it has      *)
(* reported and the controller has yet to hear of, the one it runs and the *)
(* one that comes next.                                                    *)
(***************************************************************************)
Complete == "runtest_protocol_complete"
EventName == {"workerready", "collectionfinish", Complete, "workerfinished", "errordown"}
Phase == {"unborn", "starting", "collecting", "waiting", "loop", "done", "crashed"}

SessionTypes ==
  /\ config \in Configs
  /\ shuttingdown \in BOOLEAN /\ aborted \in BOOLEAN
  /\ active_nodes \subseteq Worker
  /\ failed_nodes \in Nat
  /\ events \in [Worker -> Seq(EventName \X (Test \cup {None}))]
  /\ phase \in [Worker -> Phase]
  /\ nextitem \in [Worker -> Test \cup {SHUTDOWN, None}]
  /\ running \in [Worker -> Test \cup {None}]
  /\ began \in [Worker -> SUBSET Test]

Reported(w) == {t \in Test : \E i \in DOMAIN events[w] : events[w][i] = <<Complete, t>>}
Upcoming(w) == IF phase[w] = "loop" THEN {nextitem[w]} \ {SHUTDOWN} ELSE {}
Ahead == [w \in Worker |-> Reported(w) \cup ({running[w]} \ {None}) \cup Upcoming(w)]

SchedulerSound == Sound(Ahead, sched)

ProcessShape ==
  \A w \in Worker :
    /\ phase[w] \in {"unborn", "starting"} => events[w] = <<>> /\ w \notin ToSet(sched.nodes)
    /\ running[w] # None => phase[w] = "loop"
    /\ phase[w] = "loop" => nextitem[w] # None
    /\ phase[w] = "crashed" => w \in sched.broken /\ sched.torun[w] = <<>>

(* No test is reported twice; the end of a worker is its last event.       *)
EventsInOrder ==
  \A w \in Worker :
    /\ \A i \in DOMAIN events[w] :
         /\ events[w][i][1] = "workerready" => i = 1 /\ w \notin ToSet(sched.nodes)
         /\ events[w][i][1] \in {"workerfinished", "errordown"} =>
              i = Len(events[w]) /\ phase[w] \in {"done", "crashed"}
         /\ events[w][i][1] = "errordown" => phase[w] = "crashed"
         /\ events[w][i][1] = Complete =>
              /\ events[w][i][2] \in Test \ ({running[w]} \cup Upcoming(w))
              /\ \A j \in DOMAIN events[w] : events[w][i] = events[w][j] => i = j
    /\ running[w] \notin Upcoming(w)

(* Whoever may still be heard of is among the active nodes. *)
EveryoneCounted ==
  ~aborted =>
    \A w \in Worker :
      \/ phase[w] = "unborn" \/ w \in active_nodes
      \/ phase[w] \in {"done", "crashed"} /\ events[w] = <<>> /\ w \notin ToSet(sched.nodes)

CollectionNoticed == ~aborted /\ CollectionCompleted(sched) => sched.collected

(* The controller only stops by itself when no file is left to hand out. *)
NothingLeft ==
  ~aborted /\ shuttingdown /\ failed_nodes <= config.restarts =>
    sched.collected /\ sched.queue = <<>>

SessionInv ==
  /\ SessionTypes /\ SchedulerSound /\ ProcessShape /\ EventsInOrder
  /\ EveryoneCounted /\ CollectionNoticed /\ NothingLeft

LEMMA SessionInit == Init => SessionInv
<1> SUFFICES ASSUME Init PROVE SessionInv
  OBVIOUS
<1> USE DEF Init
<1>1. config.n \in Nat \ {0}
  BY ConfigsShape
<1>2. SessionTypes
  <2> DEFINE Events == Seq(EventName \X (Test \cup {None}))
  <2>1. <<>> \in Events
    OBVIOUS
  <2> HIDE DEF Events
  <2>2. events \in [Worker -> Events]
    BY <2>1
  <2>3. phase \in [Worker -> Phase]
    BY DEF Phase
  <2>4. nextitem \in [Worker -> Test \cup {SHUTDOWN, None}] /\ running \in [Worker -> Test \cup {None}]
    OBVIOUS
  <2>5. began \in [Worker -> SUBSET Test]
    OBVIOUS
  <2>6. QED
    BY <2>2, <2>3, <2>4, <2>5 DEF SessionTypes, Events
<1>3. /\ sched \in Sched /\ sched.nodes = <<>> /\ sched.queue = <<>> /\ sched.completed = {}
      /\ sched.assigned = [w \in Worker |-> <<>>] /\ sched.torun = [w \in Worker |-> <<>>]
      /\ ~sched.collected /\ sched.active = None /\ sched.next = None
      /\ sched.registered = {} /\ sched.numnodes \in Nat \ {0}
  BY <1>1 DEF InitSched, Sched
<1>4. SchedulerSound
  <2>1. Ahead = [w \in Worker |-> {}]
    BY DEF Ahead, Reported, Upcoming
  <2>2. Shape(sched)
    BY <1>3, EmptyFacts DEF Shape
  <2>3. FilesPlaced(sched)
    BY <1>3, EmptyFacts DEF FilesPlaced, Held, Open
  <2>4. TestsSent(Ahead, sched)
    BY <1>3, <2>1 DEF TestsSent
  <2>5. QED
    BY <2>2, <2>3, <2>4 DEF Sound, SchedulerSound
<1>5. ProcessShape
  BY <1>3, EmptyFacts DEF ProcessShape
<1>6. EventsInOrder
  BY DEF EventsInOrder, Upcoming
<1>7. EveryoneCounted
  BY DEF EveryoneCounted
<1>8. CollectionNoticed /\ NothingLeft
  <2>1. ~CollectionCompleted(sched)
    BY <1>3, FS_EmptySet DEF CollectionCompleted
  <2>2. QED
    BY <2>1 DEF CollectionNoticed, NothingLeft
<1>9. QED
  BY <1>2, <1>4, <1>5, <1>6, <1>7, <1>8 DEF SessionInv

(* An event is added at the end, and taken from the front. *)
LEMMA EmitFacts ==
  ASSUME SessionTypes, NEW w \in Worker, NEW e \in EventName \X (Test \cup {None}), Emit(w, e)
  PROVE  /\ events' \in [Worker -> Seq(EventName \X (Test \cup {None}))]
         /\ \A v \in Worker : v # w => events'[v] = events[v]
         /\ Len(events'[w]) = Len(events[w]) + 1 /\ Len(events[w]) \in Nat
         /\ DOMAIN events[w] = 1 .. Len(events[w]) /\ DOMAIN events'[w] = 1 .. Len(events'[w])
         /\ \A i \in DOMAIN events[w] : events'[w][i] = events[w][i]
         /\ events'[w][Len(events'[w])] = e
<1>1. events[w] \in Seq(EventName \X (Test \cup {None}))
  BY DEF SessionTypes
<1>2. events' = [events EXCEPT ![w] = Append(events[w], e)]
  BY DEF Emit
<1> HIDE DEF EventName
<1>3. QED
  BY <1>1, <1>2 DEF SessionTypes

LEMMA TakeFacts ==
  ASSUME SessionTypes, NEW w \in Worker, NEW name, Take(w, name)
  PROVE  /\ events' \in [Worker -> Seq(EventName \X (Test \cup {None}))]
         /\ \A v \in Worker : v # w => events'[v] = events[v]
         /\ Len(events[w]) = Len(events'[w]) + 1 /\ Len(events'[w]) \in Nat
         /\ DOMAIN events[w] = 1 .. Len(events[w]) /\ DOMAIN events'[w] = 1 .. Len(events'[w])
         /\ \A i \in DOMAIN events'[w] : events'[w][i] = events[w][i + 1]
         /\ events[w][1] = Head(events[w]) /\ Head(events[w])[1] = name
         /\ Head(events[w]) \in EventName \X (Test \cup {None})
<1>1. events[w] \in Seq(EventName \X (Test \cup {None})) /\ events[w] # <<>>
  BY DEF SessionTypes, Take
<1>2. events' = [events EXCEPT ![w] = Tail(events[w])] /\ Head(events[w])[1] = name
  BY DEF Take
<1>3. QED
  BY <1>1, <1>2 DEF SessionTypes

LEMMA EmitKeepsOrder ==
  ASSUME SessionTypes, ProcessShape, EventsInOrder,
         NEW w \in Worker, NEW e \in EventName \X (Test \cup {None}), Emit(w, e),
         phase[w] \notin {"done", "crashed"}, sched'.nodes = sched.nodes,
         \A v \in Worker : v # w => /\ phase'[v] = phase[v] /\ running'[v] = running[v]
                                    /\ Upcoming(v)' = Upcoming(v),
         Upcoming(w)' \subseteq Upcoming(w),
         \/ running'[w] = running[w] /\ e[1] # Complete
         \/ running'[w] = None,
         e[1] = "workerready" => events[w] = <<>> /\ w \notin ToSet(sched.nodes),
         e[1] \in {"workerfinished", "errordown"} => phase'[w] \in {"done", "crashed"},
         e[1] = "errordown" => phase'[w] = "crashed",
         e[1] = Complete => e[2] = running[w] /\ running[w] # None
  PROVE  EventsInOrder'
<1> DEFINE n == Len(events[w])
           q == events'[w]
<1>1. /\ \A v \in Worker : v # w => events'[v] = events[v]
      /\ Len(q) = n + 1 /\ n \in Nat /\ DOMAIN events[w] = 1 .. n /\ DOMAIN q = 1 .. (n + 1)
      /\ \A i \in 1 .. n : q[i] = events[w][i]
      /\ q[n + 1] = e
  BY EmitFacts
<1>2. None \notin Test /\ None \notin Upcoming(w)
  BY NoTestTwice DEF Upcoming, ProcessShape
<1>3. \A i \in 1 .. n : /\ q[i][1] = "workerready" => i = 1 /\ w \notin ToSet(sched.nodes)
                        /\ q[i][1] \notin {"workerfinished", "errordown"}
                        /\ q[i][1] = Complete =>
                             /\ q[i][2] \in Test \ ({running[w]} \cup Upcoming(w))
                             /\ \A j \in 1 .. n : q[i] = q[j] => i = j
  BY <1>1 DEF EventsInOrder
<1>4. e[1] = "workerready" => n = 0
  BY <1>1 DEF SessionTypes
<1>5. e[1] = Complete => \A i \in 1 .. n : q[i][1] = Complete => q[i] # e
  BY <1>3
<1>6. running[w] \notin Upcoming(w) /\ running[w] \in Test \cup {None}
  BY DEF EventsInOrder, SessionTypes
<1> HIDE DEF n, Complete
<1>7. running'[w] \notin Upcoming(w)'
  BY <1>2, <1>6
<1>8. ASSUME NEW i \in DOMAIN q
      PROVE  /\ q[i][1] = "workerready" => i = 1 /\ w \notin ToSet(sched.nodes)
             /\ q[i][1] \in {"workerfinished", "errordown"} =>
                  i = Len(q) /\ phase'[w] \in {"done", "crashed"}
             /\ q[i][1] = "errordown" => phase'[w] = "crashed"
             /\ q[i][1] = Complete =>
                  /\ q[i][2] \in Test \ ({running'[w]} \cup Upcoming(w)')
                  /\ \A j \in DOMAIN q : q[i] = q[j] => i = j
  <2>1. CASE i = n + 1
    <3>1. q[i] = e
      BY <1>1, <2>1
    <3>2. e[1] = Complete => \A j \in DOMAIN q : q[i] = q[j] => i = j
      BY <1>1, <1>5, <2>1, <3>1
    <3>3. e[1] = Complete => e[2] \in Test \ ({running'[w]} \cup Upcoming(w)')
      BY <1>2, <1>6
    <3>4. QED
      BY <1>1, <1>4, <2>1, <3>1, <3>2, <3>3
  <2>2. CASE i \in 1 .. n
    <3>1. q[i][1] = Complete => \A j \in DOMAIN q : q[i] = q[j] => i = j
      <4>1. ASSUME q[i][1] = Complete, NEW j \in DOMAIN q, q[i] = q[j] PROVE i = j
        <5>1. CASE j \in 1 .. n
          BY <1>3, <2>2, <4>1, <5>1
        <5>2. CASE j = n + 1
          BY <1>1, <1>5, <2>2, <4>1, <5>2
        <5>3. QED
          BY <1>1, <5>1, <5>2
      <4>2. QED
        BY <4>1
    <3>2. q[i][1] = Complete => q[i][2] \in Test \ ({running'[w]} \cup Upcoming(w)')
      BY <1>2, <1>3, <2>2
    <3>3. QED
      BY <1>3, <2>2, <3>1, <3>2 DEF Complete
  <2>3. QED
    BY <1>1, <2>1, <2>2
<1>9. ASSUME NEW v \in Worker, v # w
      PROVE  /\ \A i \in DOMAIN events'[v] :
                  /\ events'[v][i][1] = "workerready" => i = 1 /\ v \notin ToSet(sched'.nodes)
                  /\ events'[v][i][1] \in {"workerfinished", "errordown"} =>
                       i = Len(events'[v]) /\ phase'[v] \in {"done", "crashed"}
                  /\ events'[v][i][1] = "errordown" => phase'[v] = "crashed"
                  /\ events'[v][i][1] = Complete =>
                       /\ events'[v][i][2] \in Test \ ({running'[v]} \cup Upcoming(v)')
                       /\ \A j \in DOMAIN events'[v] : events'[v][i] = events'[v][j] => i = j
             /\ running'[v] \notin Upcoming(v)'
  BY <1>1, <1>9 DEF EventsInOrder
<1> HIDE DEF q
<1>10. QED
  BY <1>7, <1>8, <1>9 DEF EventsInOrder, q

LEMMA BooksKept ==
  ASSUME NEW s, NEW r \in Sched, Shape(s), FilesPlaced(s),
         r.completed = s.completed, r.assigned = s.assigned, r.nodes = s.nodes,
         r.queue = s.queue, r.collected = s.collected, r.active = s.active, r.next = s.next
  PROVE  Shape(r) /\ FilesPlaced(r)
<1>1. Shape(r)
  BY DEF Shape
<1>2. FilesPlaced(r)
  BY DEF FilesPlaced, Held, Open
<1>3. QED
  BY <1>1, <1>2

(* A worker takes the next command from its queue. *)
LEMMA GetKeeps ==
  ASSUME NEW ahead, NEW more, NEW s, Sound(ahead, s), NEW w \in Worker, s.torun[w] # <<>>,
         \A v \in Worker : more[v] = IF v = w THEN ahead[w] \cup ({Head(s.torun[w])} \ {SHUTDOWN})
                                     ELSE ahead[v]
  PROVE  /\ Sound(more, [s EXCEPT !.torun[w] = Tail(@)])
         /\ Head(s.torun[w]) \in (Test \cup {SHUTDOWN}) \ ahead[w]
<1> DEFINE q == s.torun[w]
           r == [s EXCEPT !.torun[w] = Tail(q)]
<1>1. /\ s \in Sched /\ s.torun \in [Worker -> Seq(Test \cup {SHUTDOWN})]
      /\ q \in Seq(Test \cup {SHUTDOWN}) /\ q # <<>>
  BY DEF Sound, Shape, Sched
<1> HIDE DEF q
<1>2. /\ Tail(q) \in Seq(Test \cup {SHUTDOWN}) /\ Head(q) \in Test \cup {SHUTDOWN} /\ Head(q) = q[1]
      /\ 1 \in DOMAIN q
      /\ \A i \in DOMAIN Tail(q) : i + 1 \in DOMAIN q /\ Tail(q)[i] = q[i + 1] /\ i \in Nat \ {0}
  BY <1>1
<1>3. /\ r \in Sched /\ r.torun = [s.torun EXCEPT ![w] = Tail(q)]
      /\ r.completed = s.completed /\ r.assigned = s.assigned /\ r.nodes = s.nodes
      /\ r.queue = s.queue /\ r.collected = s.collected /\ r.active = s.active /\ r.next = s.next
  <2>1. [s.torun EXCEPT ![w] = Tail(q)] \in [Worker -> Seq(Test \cup {SHUTDOWN})]
    BY <1>1, <1>2
  <2>2. QED
    BY <1>1, <2>1 DEF Sched
<1>4. TestsSent(ahead, s)
  BY DEF Sound
<1>5. \A i \in DOMAIN q : q[i] # SHUTDOWN =>
        /\ q[i] \notin s.completed \cup ahead[w] /\ FileOf[q[i]] \in Held(s, w)
        /\ \A j \in DOMAIN q : q[i] = q[j] => i = j
  BY <1>4 DEF TestsSent, q
<1> HIDE DEF r
<1>6. TestsSent(more, r)
  <2>1. \A t \in more[w] : t \in Test \ r.completed /\ FileOf[t] \in Held(r, w)
    BY <1>2, <1>3, <1>4, <1>5 DEF TestsSent, Held, q
  <2>2. ASSUME NEW i \in DOMAIN Tail(q), Tail(q)[i] # SHUTDOWN
        PROVE  /\ Tail(q)[i] \notin r.completed \cup more[w]
               /\ FileOf[Tail(q)[i]] \in Held(r, w)
               /\ \A j \in DOMAIN Tail(q) : Tail(q)[i] = Tail(q)[j] => i = j
    <3>1. q[i + 1] # Head(q)
      BY <1>2, <1>5, <2>2
    <3>2. more[w] \subseteq ahead[w] \cup {Head(q)}
      BY DEF q
    <3>3. \A j \in DOMAIN Tail(q) : Tail(q)[i] = Tail(q)[j] => i = j
      <4> TAKE j \in DOMAIN Tail(q)
      <4>1. Tail(q)[i] = Tail(q)[j] => i + 1 = j + 1
        BY <1>2, <1>5, <2>2
      <4>2. QED
        BY <1>2, <4>1
    <3>4. QED
      BY <1>2, <1>3, <1>5, <2>2, <3>1, <3>2, <3>3 DEF Held
  <2>3. \A v \in Worker : v # w => more[v] = ahead[v] /\ r.torun[v] = s.torun[v]
    BY <1>1, <1>3
  <2>4. r.torun[w] = Tail(q)
    BY <1>1, <1>3
  <2>5. ASSUME NEW v \in Worker, v # w
        PROVE  /\ \A t \in more[v] : t \in Test \ r.completed /\ FileOf[t] \in Held(r, v)
               /\ \A i \in DOMAIN r.torun[v] : r.torun[v][i] # SHUTDOWN =>
                    /\ r.torun[v][i] \notin r.completed \cup more[v]
                    /\ FileOf[r.torun[v][i]] \in Held(r, v)
                    /\ \A j \in DOMAIN r.torun[v] : r.torun[v][i] = r.torun[v][j] => i = j
    <3>1. more[v] = ahead[v] /\ r.torun[v] = s.torun[v]
      BY <2>3, <2>5
    <3>2. Held(r, v) = Held(s, v) /\ r.completed = s.completed
      BY <1>3 DEF Held
    <3>3. /\ \A t \in ahead[v] : t \in Test \ s.completed /\ FileOf[t] \in Held(s, v)
          /\ \A i \in DOMAIN s.torun[v] : s.torun[v][i] # SHUTDOWN =>
               /\ s.torun[v][i] \notin s.completed \cup ahead[v]
               /\ FileOf[s.torun[v][i]] \in Held(s, v)
               /\ \A j \in DOMAIN s.torun[v] : s.torun[v][i] = s.torun[v][j] => i = j
      BY <1>4 DEF TestsSent
    <3>4. QED
      BY <3>1, <3>2, <3>3
  <2>6. QED
    BY <2>1, <2>2, <2>4, <2>5 DEF TestsSent
<1>7. Shape(r) /\ FilesPlaced(r)
  BY <1>3, BooksKept DEF Sound
<1>8. Head(q) \in (Test \cup {SHUTDOWN}) \ ahead[w]
  <2>1. SHUTDOWN \notin ahead[w]
    BY <1>4, NoTestTwice DEF TestsSent
  <2>2. QED
    BY <1>2, <1>5, <2>1
<1>9. QED
  BY <1>6, <1>7, <1>8 DEF Sound, q, r

(* A process that dies takes what it had in front of it along. *)
LEMMA BreakKeeps ==
  ASSUME NEW ahead, NEW less, NEW s, Sound(ahead, s), NEW D \in SUBSET Worker,
         NEW B \in SUBSET Worker, NEW sent \in [Worker -> Seq(Test \cup {SHUTDOWN})],
         \A v \in Worker : less[v] \subseteq ahead[v] /\ sent[v] \in {s.torun[v], <<>>}
  PROVE  Sound(less, [s EXCEPT !.down = D, !.broken = B, !.torun = sent])
<1> DEFINE r == [s EXCEPT !.down = D, !.broken = B, !.torun = sent]
<1>1. s \in Sched
  BY DEF Sound, Shape
<1>2. /\ r \in Sched /\ r.torun = sent
      /\ r.completed = s.completed /\ r.assigned = s.assigned /\ r.nodes = s.nodes
      /\ r.queue = s.queue /\ r.collected = s.collected /\ r.active = s.active /\ r.next = s.next
  BY <1>1 DEF Sched
<1> HIDE DEF r
<1>3. TestsSent(less, r)
  <2>1. TestsSent(ahead, s) /\ \A v \in Worker : Held(r, v) = Held(s, v)
    BY <1>2 DEF Sound, Held
  <2>2. \A v \in Worker : r.torun[v] = s.torun[v] \/ DOMAIN r.torun[v] = {}
    BY <1>2
  <2>3. QED
    BY <1>2, <2>1, <2>2 DEF TestsSent
<1>4. Shape(r) /\ FilesPlaced(r)
  BY <1>2, BooksKept DEF Sound
<1>5. QED
  BY <1>3, <1>4 DEF Sound, r

LEMMA OtherReports ==
  ASSUME SessionTypes, NEW w \in Worker, NEW e \in EventName \X (Test \cup {None}), Emit(w, e),
         e[1] # Complete
  PROVE  Reported(w)' = Reported(w)
<1>1. /\ DOMAIN events'[w] = DOMAIN events[w] \cup {Len(events'[w])}
      /\ \A i \in DOMAIN events[w] : events'[w][i] = events[w][i]
      /\ events'[w][Len(events'[w])] = e
  BY EmitFacts
<1> HIDE DEF Complete
<1>2. \A t \in Test : e # <<Complete, t>>
  OBVIOUS
<1>3. QED
  BY <1>1, <1>2 DEF Reported

LEMMA AheadMeans ==
  ASSUME NEW w \in Worker
  PROVE  /\ Ahead[w] = Reported(w) \cup ({running[w]} \ {None}) \cup Upcoming(w)
         /\ Ahead'[w] = Reported(w)' \cup ({running'[w]} \ {None}) \cup Upcoming(w)'
BY DEF Ahead

LEMMA EmitStepKeeps ==
  ASSUME SessionInv, NEW w \in Worker, NEW e \in EventName \X (Test \cup {None}), Emit(w, e),
         UNCHANGED <<config, controller, nextitem, began>>,
         phase' \in [Worker -> Phase], running' \in [Worker -> Test \cup {None}],
         phase[w] \in {"starting", "collecting", "loop"},
         phase'[w] \notin {"unborn", "starting", "crashed"},
         \A v \in Worker : v # w => phase'[v] = phase[v] /\ running'[v] = running[v],
         phase'[w] = "loop" => phase[w] = "loop",
         running'[w] # None => phase'[w] = "loop",
         Upcoming(w)' = Upcoming(w), Ahead'[w] = Ahead[w],
         \/ running'[w] = running[w] /\ e[1] # Complete
         \/ running'[w] = None,
         e[1] = "workerready" => phase[w] = "starting",
         e[1] = "workerfinished" => phase'[w] = "done",
         e[1] # "errordown",
         e[1] = Complete => e[2] = running[w] /\ running[w] # None
  PROVE  SessionInv'
<1> USE DEF SessionInv
<1>1. \A v \in Worker : v # w => Upcoming(v)' = Upcoming(v) /\ events'[v] = events[v]
  BY EmitFacts DEF Upcoming
<1>2. SessionTypes'
  BY EmitFacts DEF SessionTypes, controller
<1>3. SchedulerSound'
  <2>1. ASSUME NEW v \in Worker, v # w PROVE Reported(v)' = Reported(v)
    BY <1>1, <2>1 DEF Reported
  <2>2. Ahead' = Ahead
    <3>1. \A v \in Worker : v # w => Ahead'[v] = Ahead[v]
      BY <1>1, <2>1 DEF Ahead
    <3>2. QED
      BY <3>1 DEF Ahead
  <2>3. QED
    BY <2>2 DEF SchedulerSound, controller
<1>4. ProcessShape'
  BY <1>1 DEF ProcessShape, controller, SessionTypes
<1>5. EventsInOrder'
  <2>1. sched' = sched
    BY DEF controller
  <2>2. e[1] = "workerready" => events[w] = <<>> /\ w \notin ToSet(sched.nodes)
    BY DEF ProcessShape
  <2>3. QED
    BY <1>1, <2>1, <2>2, EmitKeepsOrder
<1>6. EveryoneCounted'
  BY <1>1 DEF EveryoneCounted, controller
<1>7. CollectionNoticed' /\ NothingLeft'
  BY DEF CollectionNoticed, NothingLeft, controller, CollectionCompleted
<1>8. QED
  BY <1>2, <1>3, <1>4, <1>5, <1>6, <1>7

LEMMA WorkerEventsKeep ==
  ASSUME SessionInv, NEW w \in Worker,
         SessionStart(w) \/ CollectionFinish(w) \/ EndTest(w) \/ SessionFinish(w)
  PROVE  SessionInv'
<1>0. /\ phase \in [Worker -> Phase] /\ running \in [Worker -> Test \cup {None}]
      /\ None \notin Test
  BY NoTestTwice DEF SessionInv, SessionTypes
<1>1. ASSUME UNCHANGED running, phase'[w] # "loop", phase[w] # "loop",
             NEW name \in EventName \ {Complete}, Emit(w, <<name, None>>)
      PROVE  Upcoming(w)' = Upcoming(w) /\ Ahead'[w] = Ahead[w]
  <2>1. Reported(w)' = Reported(w)
    <3> DEFINE e == <<name, None>>
    <3>1. e \in EventName \X (Test \cup {None}) /\ e[1] # Complete /\ Emit(w, e)
      BY <1>1
    <3> HIDE DEF e
    <3>2. QED
      BY <3>1, OtherReports DEF SessionInv
  <2>2. Upcoming(w)' = Upcoming(w)
    BY <1>1 DEF Upcoming
  <2>3. QED
    BY <1>1, <2>1, <2>2 DEF Ahead
<1>2. CASE SessionStart(w)
  <2>1. /\ phase' = [phase EXCEPT ![w] = "collecting"] /\ Emit(w, <<"workerready", None>>)
        /\ phase[w] = "starting" /\ UNCHANGED <<config, controller, nextitem, running, began>>
    BY <1>2 DEF SessionStart, Become
  <2>2. <<"workerready", None>> \in EventName \X (Test \cup {None})
    BY DEF EventName
  <2>3. phase' \in [Worker -> Phase] /\ phase'[w] = "collecting"
    BY <1>0, <2>1 DEF Phase
  <2>4. running[w] = None
    BY <1>0, <2>1 DEF SessionInv, ProcessShape
  <2>5. Upcoming(w)' = Upcoming(w) /\ Ahead'[w] = Ahead[w]
    BY <1>1, <2>1, <2>3 DEF EventName, Complete
  <2>6. QED
    BY <1>0, <2>1, <2>2, <2>3, <2>4, <2>5, EmitStepKeeps DEF Complete
<1>3. CASE CollectionFinish(w)
  <2>1. /\ phase' = [phase EXCEPT ![w] = "waiting"] /\ Emit(w, <<"collectionfinish", None>>)
        /\ phase[w] = "collecting" /\ UNCHANGED <<config, controller, nextitem, running, began>>
    BY <1>3 DEF CollectionFinish, Become
  <2>2. <<"collectionfinish", None>> \in EventName \X (Test \cup {None})
    BY DEF EventName
  <2>3. phase' \in [Worker -> Phase] /\ phase'[w] = "waiting"
    BY <1>0, <2>1 DEF Phase
  <2>4. running[w] = None
    BY <1>0, <2>1 DEF SessionInv, ProcessShape
  <2>5. Upcoming(w)' = Upcoming(w) /\ Ahead'[w] = Ahead[w]
    BY <1>1, <2>1, <2>3 DEF EventName, Complete
  <2>6. QED
    BY <1>0, <2>1, <2>2, <2>3, <2>4, <2>5, EmitStepKeeps DEF Complete
<1>4. CASE EndTest(w)
  <2> DEFINE t == running[w]
  <2>1. /\ running' = [running EXCEPT ![w] = None] /\ Emit(w, <<Complete, t>>)
        /\ t # None /\ UNCHANGED <<config, controller, phase, nextitem, began>>
    BY <1>4 DEF EndTest, Complete
  <2>2. t \in Test /\ <<Complete, t>> \in EventName \X (Test \cup {None})
    BY <1>0, <2>1 DEF EventName
  <2>3. /\ phase' = phase /\ phase[w] = "loop"
        /\ running' \in [Worker -> Test \cup {None}] /\ running'[w] = None
    BY <1>0, <2>1 DEF SessionInv, ProcessShape
  <2>4. Upcoming(w)' = Upcoming(w)
    BY <2>1, <2>3 DEF Upcoming
  <2>5. Reported(w)' = Reported(w) \cup {t}
    <3>0. /\ DOMAIN events'[w] = DOMAIN events[w] \cup {Len(events'[w])}
          /\ \A i \in DOMAIN events[w] : events'[w][i] = events[w][i]
          /\ events'[w][Len(events'[w])] = <<Complete, t>>
      BY <2>1, <2>2, EmitFacts DEF SessionInv
    <3> HIDE DEF t, Complete
    <3>1. QED
      BY <2>2, <3>0 DEF Reported
  <2>6. Ahead'[w] = Ahead[w]
    <3>1. /\ Ahead[w] = Reported(w) \cup ({running[w]} \ {None}) \cup Upcoming(w)
          /\ Ahead'[w] = Reported(w)' \cup ({running'[w]} \ {None}) \cup Upcoming(w)'
      BY AheadMeans
    <3>2. ({running[w]} \ {None}) = {t} /\ ({running'[w]} \ {None}) = {}
      BY <1>0, <2>2, <2>3
    <3> HIDE DEF t
    <3>3. Ahead[w] = Reported(w) \cup {t} \cup Upcoming(w)
      BY <3>1, <3>2
    <3>4. Ahead'[w] = Reported(w)' \cup {} \cup Upcoming(w)'
      BY <3>1, <3>2
    <3>5. QED
      BY <2>4, <2>5, <3>3, <3>4
  <2>7. QED
    BY <1>0, <2>1, <2>2, <2>3, <2>4, <2>6, EmitStepKeeps DEF Complete
<1>5. CASE SessionFinish(w)
  <2>1. /\ phase' = [phase EXCEPT ![w] = "done"] /\ Emit(w, <<"workerfinished", None>>)
        /\ phase[w] = "loop" /\ running[w] = None /\ nextitem[w] = SHUTDOWN
        /\ UNCHANGED <<config, controller, nextitem, running, began>>
    BY <1>5 DEF SessionFinish, Become
  <2>2. <<"workerfinished", None>> \in EventName \X (Test \cup {None})
    BY DEF EventName
  <2>3. phase' \in [Worker -> Phase] /\ phase'[w] = "done"
    BY <1>0, <2>1 DEF Phase
  <2>4. Upcoming(w)' = Upcoming(w)
    BY <2>1, <2>3 DEF Upcoming
  <2>5. Reported(w)' = Reported(w)
    BY <2>1, <2>2, OtherReports DEF SessionInv, Complete
  <2>6. Ahead'[w] = Ahead[w]
    BY <2>1, <2>4, <2>5, AheadMeans
  <2>7. QED
    BY <1>0, <2>1, <2>2, <2>3, <2>4, <2>6, EmitStepKeeps DEF Complete
<1>6. QED
  BY <1>2, <1>3, <1>4, <1>5

(* A worker begins on what its queue holds. *)
LEMMA WorkerGetsKeep ==
  ASSUME SessionInv, NEW w \in Worker, EnterLoop(w) \/ BeginTest(w)
  PROVE  SessionInv'
<1> DEFINE next == Head(sched.torun[w])
<1> USE DEF SessionInv
<1>0. /\ phase \in [Worker -> Phase] /\ running \in [Worker -> Test \cup {None}]
      /\ nextitem \in [Worker -> Test \cup {SHUTDOWN, None}]
      /\ None \notin Test \cup {SHUTDOWN} /\ sched \in Sched
  BY NoTestTwice DEF SessionTypes, SchedulerSound, Sound, Shape
<1>1. /\ sched.torun[w] # <<>> /\ nextitem' = [nextitem EXCEPT ![w] = next]
      /\ sched' = [sched EXCEPT !.torun[w] = Tail(@)]
      /\ UNCHANGED <<config, shuttingdown, active_nodes, failed_nodes, aborted, events>>
  BY DEF EnterLoop, BeginTest, Get
<1>2. \/ /\ phase[w] = "waiting" /\ phase' = [phase EXCEPT ![w] = "loop"]
         /\ UNCHANGED <<running, began>>
      \/ /\ phase[w] = "loop" /\ running[w] = None /\ nextitem[w] # SHUTDOWN /\ UNCHANGED phase
         /\ running' = [running EXCEPT ![w] = nextitem[w]]
         /\ began' = [began EXCEPT ![w] = @ \cup {nextitem[w]}]
  BY DEF EnterLoop, BeginTest, Become
<1>3. \A v \in Worker : v # w => /\ phase'[v] = phase[v] /\ running'[v] = running[v]
                                 /\ nextitem'[v] = nextitem[v] /\ Upcoming(v)' = Upcoming(v)
  BY <1>0, <1>1, <1>2 DEF Upcoming
<1>4. /\ sched'.nodes = sched.nodes /\ sched'.broken = sched.broken
      /\ sched'.registered = sched.registered /\ sched'.numnodes = sched.numnodes
      /\ sched'.collected = sched.collected /\ sched'.queue = sched.queue
      /\ \A v \in Worker : v # w => sched'.torun[v] = sched.torun[v]
  BY <1>0, <1>1 DEF Sched
<1>5. phase' \in [Worker -> Phase] /\ phase'[w] = "loop"
  BY <1>0, <1>2 DEF Phase
<1>6. nextitem'[w] = next
  BY <1>0, <1>1
<1> DEFINE more == [v \in Worker |-> IF v = w THEN Ahead[w] \cup ({next} \ {SHUTDOWN}) ELSE Ahead[v]]
<1>7. Sound(more, sched') /\ next \in (Test \cup {SHUTDOWN}) \ Ahead[w]
  <2>1. \A v \in Worker : more[v] = IF v = w THEN Ahead[w] \cup ({next} \ {SHUTDOWN}) ELSE Ahead[v]
    OBVIOUS
  <2>2. Sound(Ahead, sched)
    BY DEF SchedulerSound
  <2> HIDE DEF more
  <2>3. QED
    BY <1>1, <2>1, <2>2, GetKeeps
<1> HIDE DEF next
<1>8. /\ running'[w] \in Test \cup {None}
      /\ running'[w] \in {running[w]} \cup Upcoming(w)
  BY <1>0, <1>2 DEF Upcoming, ProcessShape
<1>9. Upcoming(w)' = {next} \ {SHUTDOWN}
  BY <1>5, <1>6 DEF Upcoming
<1>10. \A v \in Worker : Reported(v)' = Reported(v)
  BY <1>1 DEF Reported
<1>11. SchedulerSound'
  <2>1. Ahead'[w] = more[w]
    BY <1>0, <1>2, <1>9, <1>10 DEF Ahead, Upcoming, ProcessShape
  <2>2. \A v \in Worker : v # w => Ahead'[v] = more[v]
    BY <1>3, <1>10 DEF Ahead
  <2>3. Ahead' = more
    BY <2>1, <2>2 DEF Ahead
  <2>4. QED
    BY <1>7, <2>3 DEF SchedulerSound
<1>12. SessionTypes'
  <2>1. nextitem' \in [Worker -> Test \cup {SHUTDOWN, None}]
    BY <1>0, <1>1, <1>7
  <2>2. running' \in [Worker -> Test \cup {None}]
    BY <1>0, <1>2, <1>8
  <2>3. began' \in [Worker -> SUBSET Test]
    <3>1. phase[w] = "loop" /\ nextitem[w] # SHUTDOWN => nextitem[w] \in Test
      BY <1>0 DEF ProcessShape
    <3>2. began \in [Worker -> SUBSET Test]
      BY DEF SessionTypes
    <3>3. QED
      BY <1>2, <3>1, <3>2
  <2>4. QED
    BY <1>1, <1>5, <2>1, <2>2, <2>3 DEF SessionTypes
<1>13. ProcessShape'
  <2>1. next # None /\ phase'[w] = "loop" /\ nextitem'[w] = next
    BY <1>0, <1>5, <1>6, <1>7
  <2>2. QED
    BY <1>1, <1>3, <1>4, <2>1 DEF ProcessShape
<1>14. EventsInOrder'
  <2>1. \A i \in DOMAIN events[w] :
          /\ events[w][i][1] \notin {"workerfinished", "errordown"}
          /\ events[w][i][1] = Complete => events[w][i][2] \in Reported(w) \ ({running[w]} \cup Upcoming(w))
    <3> TAKE i \in DOMAIN events[w]
    <3>1. events[w][i][1] \notin {"workerfinished", "errordown"}
      BY <1>2 DEF EventsInOrder
    <3>2. events[w][i] = <<events[w][i][1], events[w][i][2]>>
      BY DEF SessionTypes
    <3>3. QED
      BY <3>1, <3>2 DEF EventsInOrder, Reported
  <2>2. Reported(w) \subseteq Ahead[w] /\ Upcoming(w) \subseteq Ahead[w]
        /\ (running[w] # None => running[w] \in Ahead[w])
    BY DEF Ahead
  <2>3. \A i \in DOMAIN events[w] : events[w][i][1] = Complete =>
          events[w][i][2] \in Test \ ({running'[w]} \cup Upcoming(w)')
    BY <1>0, <1>7, <1>8, <1>9, <2>1, <2>2 DEF Reported
  <2>4. running'[w] \notin Upcoming(w)'
    BY <1>0, <1>7, <1>8, <1>9, <2>2
  <2>5. QED
    BY <1>1, <1>3, <1>4, <2>1, <2>3, <2>4 DEF EventsInOrder
<1>15. EveryoneCounted'
  BY <1>1, <1>2, <1>3, <1>4 DEF EveryoneCounted
<1>16. CollectionNoticed' /\ NothingLeft'
  BY <1>1, <1>4 DEF CollectionNoticed, NothingLeft, CollectionCompleted
<1>17. QED
  BY <1>11, <1>12, <1>13, <1>14, <1>15, <1>16

LEMMA CrashKeeps ==
  ASSUME SessionInv, NEW w \in Worker, Crash(w)
  PROVE  SessionInv'
<1> USE DEF SessionInv
<1>0. /\ phase \in [Worker -> Phase] /\ running \in [Worker -> Test \cup {None}]
      /\ sched \in Sched /\ sched.torun \in [Worker -> Seq(Test \cup {SHUTDOWN})]
  BY DEF SessionTypes, SchedulerSound, Sound, Shape, Sched
<1>1. /\ phase[w] \in {"starting", "collecting", "waiting", "loop"}
      /\ phase' = [phase EXCEPT ![w] = "crashed"] /\ Emit(w, <<"errordown", None>>)
      /\ running' = [running EXCEPT ![w] = None]
      /\ sched' = [sched EXCEPT !.broken = @ \cup {w}, !.torun[w] = <<>>]
      /\ UNCHANGED <<config, shuttingdown, active_nodes, failed_nodes, aborted, nextitem, began>>
  BY DEF Crash, Become
<1>2. <<"errordown", None>> \in EventName \X (Test \cup {None})
  BY DEF EventName
<1>3. /\ phase' \in [Worker -> Phase] /\ phase'[w] = "crashed"
      /\ running' \in [Worker -> Test \cup {None}] /\ running'[w] = None
      /\ \A v \in Worker : v # w => phase'[v] = phase[v] /\ running'[v] = running[v]
  BY <1>0, <1>1 DEF Phase
<1>4. Upcoming(w)' = {} /\ \A v \in Worker : v # w => Upcoming(v)' = Upcoming(v)
  BY <1>1, <1>3 DEF Upcoming
<1>5. /\ events' \in [Worker -> Seq(EventName \X (Test \cup {None}))]
      /\ \A v \in Worker : v # w => events'[v] = events[v]
  BY <1>1, <1>2, EmitFacts
<1> DEFINE sent == [sched.torun EXCEPT ![w] = <<>>]
           B == sched.broken \cup {w}
<1>6. sched' = [sched EXCEPT !.down = sched.down, !.broken = B, !.torun = sent]
  BY <1>0, <1>1 DEF Sched
<1>7. sent \in [Worker -> Seq(Test \cup {SHUTDOWN})] /\ B \in SUBSET Worker
      /\ sched.down \in SUBSET Worker
  BY <1>0 DEF Sched
<1>8. /\ sched'.nodes = sched.nodes /\ sched'.broken = B /\ sched'.torun = sent
      /\ sched'.registered = sched.registered /\ sched'.numnodes = sched.numnodes
      /\ sched'.collected = sched.collected /\ sched'.queue = sched.queue
  BY <1>0, <1>6 DEF Sched
<1>9. \A v \in Worker : sent[v] = IF v = w THEN <<>> ELSE sched.torun[v]
  BY <1>0
<1> HIDE DEF sent, B
<1>10. SessionTypes'
  BY <1>1, <1>3, <1>5 DEF SessionTypes
<1>11. SchedulerSound'
  <2>1. Reported(w)' = Reported(w)
    BY <1>1, <1>2, OtherReports DEF Complete
  <2>2. \A v \in Worker : v # w => Reported(v)' = Reported(v)
    BY <1>5 DEF Reported
  <2>3. \A v \in Worker : Ahead'[v] \subseteq Ahead[v]
    <3> TAKE v \in Worker
    <3>1. CASE v = w
      BY <1>3, <1>4, <2>1, <3>1, AheadMeans
    <3>2. CASE v # w
      BY <1>3, <1>4, <2>2, <3>2, AheadMeans
    <3>3. QED
      BY <3>1, <3>2
  <2>4. Sound(Ahead', [sched EXCEPT !.down = sched.down, !.broken = B, !.torun = sent])
    BY <1>7, <1>9, <2>3, BreakKeeps DEF SchedulerSound
  <2>5. QED
    BY <1>6, <2>4 DEF SchedulerSound
<1>12. ProcessShape'
  <2> SUFFICES ASSUME NEW v \in Worker
               PROVE  /\ phase'[v] \in {"unborn", "starting"} =>
                           events'[v] = <<>> /\ v \notin ToSet(sched'.nodes)
                      /\ running'[v] # None => phase'[v] = "loop"
                      /\ phase'[v] = "loop" => nextitem'[v] # None
                      /\ phase'[v] = "crashed" => v \in sched'.broken /\ sched'.torun[v] = <<>>
    BY DEF ProcessShape
  <2>1. CASE v = w
    BY <1>3, <1>8, <1>9, <2>1 DEF B
  <2>2. CASE v # w
    <3>1. /\ phase'[v] = phase[v] /\ running'[v] = running[v] /\ events'[v] = events[v]
          /\ nextitem'[v] = nextitem[v] /\ sched'.torun[v] = sched.torun[v]
          /\ sched'.nodes = sched.nodes /\ (v \in sched.broken => v \in sched'.broken)
      BY <1>1, <1>3, <1>5, <1>8, <1>9, <2>2 DEF B
    <3>2. QED
      BY <3>1 DEF ProcessShape
  <2>3. QED
    BY <2>1, <2>2
<1>13. EventsInOrder'
  BY <1>1, <1>2, <1>3, <1>4, <1>8, EmitKeepsOrder DEF Complete
<1>14. EveryoneCounted'
  BY <1>1, <1>3, <1>5, <1>8 DEF EveryoneCounted
<1>15. CollectionNoticed' /\ NothingLeft'
  BY <1>1, <1>8 DEF CollectionNoticed, NothingLeft, CollectionCompleted
<1>16. QED
  BY <1>10, <1>11, <1>12, <1>13, <1>14, <1>15

LEMMA ReceiveEndKeeps ==
  ASSUME SessionInv, NEW w \in Worker, ReceiveEnd(w)
  PROVE  SessionInv'
<1> USE DEF SessionInv
<1> DEFINE D == sched.down \cup {w}
           B == sched.broken \cup {w}
<1>0. /\ sched \in Sched /\ sched.torun \in [Worker -> Seq(Test \cup {SHUTDOWN})]
  BY DEF SchedulerSound, Sound, Shape, Sched
<1>1. /\ sched' = [sched EXCEPT !.down = D, !.broken = B, !.torun = sched.torun]
      /\ UNCHANGED <<config, shuttingdown, active_nodes, failed_nodes, aborted, events, phase,
                     nextitem, running, began>>
  BY <1>0 DEF ReceiveEnd, Sched
<1>2. D \in SUBSET Worker /\ B \in SUBSET Worker
  BY <1>0 DEF Sched
<1>3. /\ sched'.nodes = sched.nodes /\ sched'.broken = B /\ sched'.torun = sched.torun
      /\ sched'.registered = sched.registered /\ sched'.numnodes = sched.numnodes
      /\ sched'.collected = sched.collected /\ sched'.queue = sched.queue
  BY <1>0, <1>1 DEF Sched
<1> HIDE DEF D
<1>4. \A v \in Worker : Upcoming(v)' = Upcoming(v) /\ Reported(v)' = Reported(v)
  BY <1>1 DEF Upcoming, Reported
<1>5. Ahead' = Ahead
  BY <1>1, <1>4 DEF Ahead
<1>6. SchedulerSound'
  <2>1. Sound(Ahead, [sched EXCEPT !.down = D, !.broken = B, !.torun = sched.torun])
    BY <1>0, <1>2, BreakKeeps DEF SchedulerSound
  <2>2. QED
    BY <1>1, <1>5, <2>1 DEF SchedulerSound
<1>7. SessionTypes' /\ ProcessShape'
  BY <1>1, <1>3 DEF SessionTypes, ProcessShape
<1>8. EventsInOrder'
  BY <1>1, <1>3, <1>4 DEF EventsInOrder
<1>9. EveryoneCounted'
  BY <1>1, <1>3 DEF EveryoneCounted
<1>10. CollectionNoticed' /\ NothingLeft'
  BY <1>1, <1>3 DEF CollectionNoticed, NothingLeft, CollectionCompleted
<1>11. QED
  BY <1>6, <1>7, <1>8, <1>9, <1>10
------------------------------------------------------------------------------
(* What a handler leaves to the loop: whether the tests are finished. *)
LEMMA LoopReturns ==
  ASSUME NEW ahead, NEW base, NEW after, From(ahead, base, after),
         NEW stopping \in BOOLEAN, Return(after, stopping)
  PROVE  /\ From(ahead, base, sched')
         /\ shuttingdown' \in BOOLEAN /\ aborted' = (after.raised # None)
         /\ stopping => shuttingdown'
         /\ shuttingdown' /\ ~stopping => CollectionCompleted(base) /\ sched'.queue = <<>>
<1>1. /\ sched' = IF TestsFinished(after) /\ ~stopping THEN ShutdownAll(after) ELSE after
      /\ shuttingdown' = (stopping \/ TestsFinished(after))
      /\ aborted' = (after.raised # None)
  BY DEF Return
<1>2. Sound(ahead, after) /\ after \in Sched /\ Same(base, after)
  BY DEF From, Sound, Shape
<1>3. From(ahead, after, ShutdownAll(after))
  <2>1. after.nodes \in Seq(Worker)
    BY <1>2 DEF Sched
  <2>2. ToSet(after.nodes) \in SUBSET Worker
    BY <2>1, NonEmptyFacts
  <2>3. QED
    BY <1>2, <2>2, ShutdownKeeps DEF ShutdownAll
<1>4. From(ahead, base, sched')
  BY <1>1, <1>3, FromFollows
<1>5. ASSUME TestsFinished(after)
      PROVE  CollectionCompleted(base) /\ sched'.queue = <<>>
  <2>1. CollectionCompleted(base) /\ after.queue = <<>>
    BY <1>2, <1>5 DEF TestsFinished, CollectionCompleted, Same
  <2>2. ToSet(sched'.queue) \subseteq ToSet(after.queue) /\ sched'.queue \in Seq(TestFile)
    <3>1. From(ahead, after, sched')
      BY <1>1, <1>2, <1>3 DEF From, Same
    <3>2. QED
      BY <3>1 DEF From, Same, Sound, Shape, Sched
  <2>3. QED
    BY <2>1, <2>2, EmptyFacts, NonEmptyFacts
<1>6. shuttingdown' \in BOOLEAN /\ (stopping => shuttingdown')
  BY <1>1 DEF TestsFinished
<1>7. shuttingdown' /\ ~stopping => TestsFinished(after)
  BY <1>1
<1>8. QED
  BY <1>1, <1>4, <1>5, <1>6, <1>7

(***************************************************************************)
(* A handler takes one event of w; base is what it wrote in the books, and *)
(* after the state its last method returned.                               *)
(***************************************************************************)
Staffed(w, name, base, after) ==
  /\ phase' \in [Worker -> Phase] /\ active_nodes' \subseteq Worker /\ failed_nodes' \in Nat
  /\ \A v \in Worker : \/ phase'[v] = phase[v]
                       \/ phase[v] = "unborn" /\ phase'[v] = "starting" /\ v \in active_nodes'
  /\ \A v \in active_nodes : v # w => v \in active_nodes'
  /\ \/ w \in active_nodes' \/ after.raised # None
     \/ name \in {"workerfinished", "errordown"} /\ w \notin ToSet(base.nodes)

Reports(w, name) == IF name = Complete THEN {Head(events[w])[2]} ELSE {}

Booked(w, name, base, after, stopping) ==
  /\ base.completed = sched.completed \cup Reports(w, name)
  /\ base.broken = sched.broken
  /\ \A v \in sched.broken : base.torun[v] = sched.torun[v]
  /\ \A v \in ToSet(base.nodes) : v \in ToSet(sched.nodes) \/ (name = "workerready" /\ v = w)
  /\ after.raised = None /\ CollectionCompleted(base) => base.collected
  /\ stopping /\ failed_nodes' <= config.restarts /\ after.raised = None =>
       base.collected /\ base.queue = <<>>

Handled(w, name, base, after, stopping) ==
  /\ Take(w, name) /\ Return(after, stopping) /\ From(Ahead', base, after)
  /\ UNCHANGED <<config, nextitem, running, began>>
  /\ Staffed(w, name, base, after) /\ Booked(w, name, base, after, stopping)

HandledBy(w, name) ==
  \E base, after : \E stopping \in BOOLEAN : Handled(w, name, base, after, stopping)

LEMMA SameStaff ==
  ASSUME SessionInv, NEW w \in active_nodes, UNCHANGED <<active_nodes, failed_nodes, phase>>,
         NEW name, NEW base, NEW after
  PROVE  Staffed(w, name, base, after)
<1>1. phase' = phase /\ active_nodes' = active_nodes /\ failed_nodes' = failed_nodes
  OBVIOUS
<1>2. phase \in [Worker -> Phase] /\ active_nodes \subseteq Worker /\ failed_nodes \in Nat
  BY DEF SessionInv, SessionTypes
<1>3. QED
  BY <1>1, <1>2 DEF Staffed

(* Where the books keep who has collected and what is queued. *)
LEMMA SameBooks ==
  ASSUME SessionInv, ~aborted, NEW w, NEW name, NEW base, NEW after,
         base.completed = sched.completed \cup Reports(w, name),
         base.broken = sched.broken, base.torun = sched.torun,
         \A v \in ToSet(base.nodes) : v \in ToSet(sched.nodes) \/ (name = "workerready" /\ v = w),
         base.registered = sched.registered, base.numnodes = sched.numnodes,
         base.collected = sched.collected, base.queue = sched.queue,
         UNCHANGED <<config, failed_nodes>>
  PROVE  Booked(w, name, base, after, shuttingdown)
<1>1. CollectionCompleted(base) => base.collected
  BY DEF SessionInv, CollectionNoticed, CollectionCompleted
<1>2. shuttingdown /\ failed_nodes' <= config.restarts => base.collected /\ base.queue = <<>>
  BY DEF SessionInv, NothingLeft
<1>3. QED
  BY <1>1, <1>2 DEF Booked

LEMMA HandlerKeeps ==
  ASSUME SessionInv, NEW w \in Worker, NEW name, NEW base, NEW after, NEW stopping \in BOOLEAN,
         Handled(w, name, base, after, stopping)
  PROVE  SessionInv'
<1> USE DEF SessionInv, Handled, Staffed, Booked
<1> DEFINE n == Len(events'[w])
<1>1. /\ ~aborted /\ \A v \in Worker : v # w => events'[v] = events[v]
      /\ Len(events[w]) = n + 1 /\ n \in Nat
      /\ DOMAIN events[w] = 1 .. (n + 1) /\ DOMAIN events'[w] = 1 .. n
      /\ \A i \in 1 .. n : events'[w][i] = events[w][i + 1]
      /\ events[w][1][1] = name /\ events[w] # <<>>
      /\ events' \in [Worker -> Seq(EventName \X (Test \cup {None}))]
  <2>1. ~aborted /\ events[w] # <<>>
    BY DEF Take, Over
  <2> HIDE DEF EventName
  <2>2. QED
    BY <2>1, TakeFacts
<1> HIDE DEF n
<1>2. /\ From(Ahead', base, sched')
      /\ shuttingdown' \in BOOLEAN /\ aborted' = (after.raised # None)
      /\ shuttingdown' /\ ~stopping => CollectionCompleted(base) /\ sched'.queue = <<>>
  BY LoopReturns
<1>3. /\ sched'.nodes = base.nodes /\ sched'.broken = sched.broken
      /\ sched'.registered = base.registered /\ sched'.numnodes = base.numnodes
      /\ sched'.collected = base.collected /\ ToSet(sched'.queue) \subseteq ToSet(base.queue)
      /\ \A v \in sched.broken : sched'.torun[v] = sched.torun[v]
      /\ sched'.queue \in Seq(TestFile)
  <2>1. sched' \in Sched /\ Same(base, sched')
    BY <1>2 DEF From, Sound, Shape
  <2>2. sched'.queue \in Seq(TestFile)
    BY <2>1 DEF Sched
  <2>3. QED
    BY <2>1, <2>2 DEF Same
<1>4. /\ phase[w] \notin {"unborn", "starting"} /\ phase'[w] = phase[w]
      /\ w \in active_nodes
  BY <1>1 DEF ProcessShape, EveryoneCounted
<1>5. \A v \in Worker : Upcoming(v)' = Upcoming(v)
  BY DEF Upcoming
<1>6. SessionTypes'
  BY <1>1, <1>2 DEF SessionTypes
<1>7. SchedulerSound'
  BY <1>2 DEF SchedulerSound, From
<1>8. ProcessShape'
  <2> SUFFICES ASSUME NEW v \in Worker
               PROVE  /\ phase'[v] \in {"unborn", "starting"} =>
                           events'[v] = <<>> /\ v \notin ToSet(sched'.nodes)
                      /\ running'[v] # None => phase'[v] = "loop"
                      /\ phase'[v] = "loop" => nextitem'[v] # None
                      /\ phase'[v] = "crashed" => v \in sched'.broken /\ sched'.torun[v] = <<>>
    BY DEF ProcessShape
  <2>1. phase'[v] \in {"unborn", "starting"} => events'[v] = <<>> /\ v \notin ToSet(sched'.nodes)
    <3>1. phase'[v] \in {"unborn", "starting"} => v # w /\ phase[v] \in {"unborn", "starting"}
      BY <1>4
    <3>2. QED
      BY <1>1, <1>3, <3>1 DEF ProcessShape
  <2>2. /\ running'[v] # None => phase'[v] = "loop"
        /\ phase'[v] = "loop" => nextitem'[v] # None
        /\ phase'[v] = "crashed" => v \in sched'.broken /\ sched'.torun[v] = <<>>
    BY <1>3 DEF ProcessShape
  <2>3. QED
    BY <2>1, <2>2
<1>9. EventsInOrder'
  <2>1. ASSUME NEW i \in 1 .. n
        PROVE  /\ events'[w][i][1] # "workerready"
               /\ events'[w][i][1] \in {"workerfinished", "errordown"} =>
                    i = n /\ phase'[w] \in {"done", "crashed"}
               /\ events'[w][i][1] = "errordown" => phase'[w] = "crashed"
               /\ events'[w][i][1] = Complete =>
                    /\ events'[w][i][2] \in Test \ ({running'[w]} \cup Upcoming(w)')
                    /\ \A j \in 1 .. n : events'[w][i] = events'[w][j] => i = j
    <3>1. i + 1 \in DOMAIN events[w] /\ events'[w][i] = events[w][i + 1] /\ i + 1 # 1
      BY <1>1
    <3>2. events'[w][i][1] = Complete =>
            \A j \in 1 .. n : events'[w][i] = events'[w][j] => i = j
      <4>1. ASSUME events'[w][i][1] = Complete, NEW j \in 1 .. n, events'[w][i] = events'[w][j]
            PROVE  i = j
        <5>1. j + 1 \in DOMAIN events[w] /\ events[w][i + 1] = events[w][j + 1]
              /\ events[w][i + 1][1] = Complete
          BY <1>1, <3>1, <4>1
        <5>2. i + 1 = j + 1
          BY <3>1, <5>1 DEF EventsInOrder
        <5>3. QED
          BY <1>1, <5>2
      <4>2. QED
        BY <4>1
    <3>3. events'[w][i][1] \in {"workerfinished", "errordown"} => i = n
      <4>1. events'[w][i][1] \in {"workerfinished", "errordown"} => i + 1 = n + 1
        BY <1>1, <3>1 DEF EventsInOrder
      <4>2. QED
        BY <1>1, <4>1
    <3>4. QED
      BY <1>4, <1>5, <3>1, <3>2, <3>3 DEF EventsInOrder
  <2>2. ASSUME NEW v \in Worker, v # w
        PROVE  \A i \in DOMAIN events'[v] :
                 /\ events'[v][i][1] = "workerready" => i = 1 /\ v \notin ToSet(sched'.nodes)
                 /\ events'[v][i][1] \in {"workerfinished", "errordown"} =>
                      i = Len(events'[v]) /\ phase'[v] \in {"done", "crashed"}
                 /\ events'[v][i][1] = "errordown" => phase'[v] = "crashed"
                 /\ events'[v][i][1] = Complete =>
                      /\ events'[v][i][2] \in Test \ ({running'[v]} \cup Upcoming(v)')
                      /\ \A j \in DOMAIN events'[v] : events'[v][i] = events'[v][j] => i = j
    <3>1. /\ events'[v] = events[v] /\ (v \in ToSet(sched'.nodes) => v \in ToSet(sched.nodes))
          /\ phase[v] \in {"done", "crashed"} => phase'[v] = phase[v]
          /\ running'[v] = running[v] /\ Upcoming(v)' = Upcoming(v)
      BY <1>1, <1>3, <1>5, <2>2
    <3>2. \A i \in DOMAIN events[v] :
            /\ events[v][i][1] = "workerready" => i = 1 /\ v \notin ToSet(sched.nodes)
            /\ events[v][i][1] \in {"workerfinished", "errordown"} =>
                 i = Len(events[v]) /\ phase[v] \in {"done", "crashed"}
            /\ events[v][i][1] = "errordown" => phase[v] = "crashed"
            /\ events[v][i][1] = Complete =>
                 /\ events[v][i][2] \in Test \ ({running[v]} \cup Upcoming(v))
                 /\ \A j \in DOMAIN events[v] : events[v][i] = events[v][j] => i = j
      BY DEF EventsInOrder
    <3>3. QED
      BY <3>1, <3>2
  <2>3. \A v \in Worker : running'[v] \notin Upcoming(v)'
    <3>1. \A v \in Worker : running[v] \notin Upcoming(v)
      BY DEF EventsInOrder
    <3>2. QED
      BY <1>5, <3>1
  <2>4. \A i \in DOMAIN events'[w] :
          /\ events'[w][i][1] = "workerready" => i = 1 /\ w \notin ToSet(sched'.nodes)
          /\ events'[w][i][1] \in {"workerfinished", "errordown"} =>
               i = Len(events'[w]) /\ phase'[w] \in {"done", "crashed"}
          /\ events'[w][i][1] = "errordown" => phase'[w] = "crashed"
          /\ events'[w][i][1] = Complete =>
               /\ events'[w][i][2] \in Test \ ({running'[w]} \cup Upcoming(w)')
               /\ \A j \in DOMAIN events'[w] : events'[w][i] = events'[w][j] => i = j
    BY <1>1, <2>1 DEF n
  <2>5. QED
    BY <2>2, <2>3, <2>4 DEF EventsInOrder
<1>10. EveryoneCounted'
  <2> SUFFICES ASSUME ~aborted', NEW v \in Worker, v \notin active_nodes', phase'[v] # "unborn"
               PROVE  phase'[v] \in {"done", "crashed"} /\ events'[v] = <<>> /\ v \notin ToSet(sched'.nodes)
    BY DEF EveryoneCounted
  <2>1. CASE v = w
    <3>1. name \in {"workerfinished", "errordown"} /\ w \notin ToSet(base.nodes)
      BY <1>2, <2>1
    <3>2. 1 = n + 1 /\ phase[w] \in {"done", "crashed"}
      BY <1>1, <3>1 DEF EventsInOrder
    <3>3. events'[w] \in Seq(EventName \X (Test \cup {None})) /\ Len(events'[w]) = 0
      BY <1>1, <3>2 DEF n
    <3> HIDE DEF EventName
    <3>4. events'[w] = <<>>
      BY <3>3
    <3>5. QED
      BY <1>3, <1>4, <2>1, <3>1, <3>2, <3>4
  <2>2. CASE v # w
    <3>1. v \notin active_nodes /\ phase'[v] = phase[v]
      BY <2>2
    <3>2. phase[v] \in {"done", "crashed"} /\ events[v] = <<>> /\ v \notin ToSet(sched.nodes)
      BY <1>1, <3>1 DEF EveryoneCounted
    <3>3. QED
      BY <1>1, <1>3, <2>2, <3>1, <3>2
  <2>3. QED
    BY <2>1, <2>2
<1>11. CollectionNoticed'
  BY <1>2, <1>3 DEF CollectionNoticed, CollectionCompleted
<1>12. NothingLeft'
  <2>1. base.queue = <<>> => sched'.queue = <<>>
    BY <1>3, EmptyFacts, NonEmptyFacts
  <2>2. QED
    BY <1>2, <1>3, <2>1 DEF NothingLeft
<1>13. QED
  BY <1>6, <1>7, <1>8, <1>9, <1>10, <1>11, <1>12

(* A report leaves the queue when the controller takes it. *)
LEMMA ReportedAfter ==
  ASSUME SessionInv, NEW w \in Worker, NEW name, Take(w, name)
  PROVE  /\ \A v \in Worker : v # w => Reported(v)' = Reported(v)
         /\ Reported(w)' = Reported(w) \ Reports(w, name)
         /\ Reports(w, name) \subseteq Reported(w) \ ({running[w]} \cup Upcoming(w))
<1> DEFINE n == Len(events'[w])
           t == Head(events[w])[2]
<1>1. /\ \A v \in Worker : v # w => events'[v] = events[v]
      /\ n \in Nat /\ DOMAIN events[w] = 1 .. (n + 1) /\ DOMAIN events'[w] = 1 .. n
      /\ \A i \in 1 .. n : events'[w][i] = events[w][i + 1]
      /\ events[w][1] = <<name, t>>
  BY TakeFacts DEF SessionInv
<1> HIDE DEF n
<1>2. \A v \in Worker : v # w => Reported(v)' = Reported(v)
  BY <1>1 DEF Reported
<1>3. \A u \in Test : u \in Reported(w) <=>
        <<name, t>> = <<Complete, u>> \/ u \in Reported(w)'
  <2> HIDE DEF t
  <2> TAKE u \in Test
  <2>1. u \in Reported(w) => <<name, t>> = <<Complete, u>> \/ u \in Reported(w)'
    <3> SUFFICES ASSUME NEW i \in 1 .. (n + 1), events[w][i] = <<Complete, u>>, i # 1
                 PROVE  u \in Reported(w)'
      BY <1>1 DEF Reported
    <3>1. i - 1 \in 1 .. n /\ (i - 1) + 1 = i
      BY <1>1
    <3>2. events'[w][i - 1] = <<Complete, u>>
      BY <1>1, <3>1
    <3>3. QED
      BY <1>1, <3>1, <3>2 DEF Reported
  <2>2. u \in Reported(w)' => u \in Reported(w)
    <3> SUFFICES ASSUME NEW i \in 1 .. n, events'[w][i] = <<Complete, u>>
                 PROVE  u \in Reported(w)
      BY <1>1 DEF Reported
    <3>1. i + 1 \in 1 .. (n + 1) /\ events[w][i + 1] = <<Complete, u>>
      BY <1>1
    <3>2. QED
      BY <1>1, <3>1 DEF Reported
  <2>3. <<name, t>> = <<Complete, u>> => u \in Reported(w)
    BY <1>1 DEF Reported
  <2>4. QED
    BY <2>1, <2>2, <2>3
<1>4. Reported(w) \subseteq Test /\ Reported(w)' \subseteq Test
  BY DEF Reported
<1>5. CASE name # Complete
  <2>1. Reports(w, name) = {} /\ Reported(w)' = Reported(w)
    BY <1>3, <1>4, <1>5 DEF Reports
  <2>2. QED
    BY <1>2, <2>1
<1>6. CASE name = Complete
  <2>0. Reports(w, name) = {t}
    BY <1>6 DEF Reports
  <2> HIDE DEF t
  <2>1. t \in Test \ ({running[w]} \cup Upcoming(w))
        /\ \A j \in 1 .. (n + 1) : events[w][j] = <<Complete, t>> => j = 1
    <3>1. 1 \in DOMAIN events[w] /\ events[w][1][1] = Complete /\ events[w][1][2] = t
      BY <1>1, <1>6
    <3>2. /\ events[w][1][2] \in Test \ ({running[w]} \cup Upcoming(w))
          /\ \A j \in DOMAIN events[w] : events[w][1] = events[w][j] => 1 = j
      BY <3>1 DEF SessionInv, EventsInOrder
    <3>3. QED
      BY <1>1, <1>6, <3>1, <3>2
  <2>2. t \notin Reported(w)'
    <3> SUFFICES ASSUME NEW i \in 1 .. n, events'[w][i] = <<Complete, t>> PROVE FALSE
      BY <1>1 DEF Reported
    <3>1. i + 1 \in 1 .. (n + 1) /\ events[w][i + 1] = <<Complete, t>> /\ i + 1 # 1
      BY <1>1
    <3>2. QED
      BY <2>1, <3>1
  <2>3. Reported(w)' = Reported(w) \ {t} /\ t \in Reported(w)
    BY <1>3, <1>4, <1>6, <2>1, <2>2
  <2>4. QED
    BY <1>2, <2>0, <2>1, <2>3
<1>7. QED
  BY <1>5, <1>6

(* The tests in front of a worker, once the controller has taken an event. *)
LEMMA AheadAfter ==
  ASSUME SessionInv, NEW w \in Worker, NEW name, Take(w, name),
         UNCHANGED <<nextitem, running>>, phase \in [Worker -> Phase],
         \A v \in Worker : phase'[v] = phase[v] \/ {phase[v], phase'[v]} \cap {"loop"} = {}
  PROVE  /\ name # Complete => Ahead' = Ahead
         /\ name = Complete =>
              LET t == Head(events[w])[2]
              IN  /\ t \in Ahead[w]
                  /\ \A v \in Worker : Ahead'[v] = IF v = w THEN Ahead[w] \ {t} ELSE Ahead[v]
<1>1. \A v \in Worker : Upcoming(v)' = Upcoming(v)
  BY DEF Upcoming
<1>2. \A v \in Worker : v # w => Ahead'[v] = Ahead[v]
  BY <1>1, ReportedAfter, AheadMeans
<1>3. Ahead'[w] = Ahead[w] \ Reports(w, name) /\ Reports(w, name) \subseteq Ahead[w]
  <2>1. /\ Reported(w)' = Reported(w) \ Reports(w, name)
        /\ Reports(w, name) \subseteq Reported(w) \ ({running[w]} \cup Upcoming(w))
    BY ReportedAfter
  <2>2. QED
    BY <1>1, <2>1, AheadMeans
<1>4. CASE name # Complete
  <2>1. Ahead'[w] = Ahead[w]
    BY <1>3, <1>4 DEF Reports
  <2>2. QED
    BY <1>2, <1>4, <2>1 DEF Ahead
<1>5. CASE name = Complete
  BY <1>2, <1>3, <1>5 DEF Reports
<1>6. QED
  BY <1>4, <1>5

LEMMA Heard ==
  ASSUME SessionInv, NEW w \in Worker, NEW name, Take(w, name)
  PROVE  /\ ~aborted /\ w \in active_nodes /\ phase[w] # "unborn"
         /\ 1 \in DOMAIN events[w] /\ events[w][1][1] = name
         /\ sched \in Sched /\ Sound(Ahead, sched) /\ shuttingdown \in BOOLEAN
         /\ phase \in [Worker -> Phase]
<1>1. ~aborted /\ events[w] # <<>>
  BY DEF Take, Over
<1>2. 1 \in DOMAIN events[w] /\ events[w][1][1] = name
  <2> HIDE DEF EventName
  <2>1. QED
    BY TakeFacts DEF SessionInv
<1>3. w \in active_nodes /\ phase[w] # "unborn"
  BY <1>1 DEF SessionInv, EveryoneCounted, ProcessShape
<1>4. QED
  BY <1>1, <1>2, <1>3 DEF SessionInv, SessionTypes, SchedulerSound, Sound, Shape

LEMMA WorkerReadyHandled ==
  ASSUME SessionInv, NEW w \in Worker, WorkerReady(w)
  PROVE  HandledBy(w, "workerready")
<1> DEFINE base == IF shuttingdown THEN sched ELSE NodeAdded(sched, w)
           after == IF shuttingdown THEN Shutdown(sched, w) ELSE AddNode(sched, w)
<1>1. /\ Take(w, "workerready") /\ Return(after, shuttingdown)
      /\ UNCHANGED <<config, active_nodes, failed_nodes, phase, nextitem, running, began>>
  BY DEF WorkerReady
<1>2. /\ ~aborted /\ w \in active_nodes /\ phase[w] # "unborn"
      /\ 1 \in DOMAIN events[w] /\ events[w][1][1] = "workerready"
      /\ sched \in Sched /\ Sound(Ahead, sched) /\ shuttingdown \in BOOLEAN
      /\ phase \in [Worker -> Phase]
  BY <1>1, Heard
<1>3. w \notin ToSet(sched.nodes)
  BY <1>2 DEF SessionInv, EventsInOrder
<1>4. Ahead' = Ahead
  BY <1>1, <1>2, AheadAfter DEF Complete
<1>5. From(Ahead, base, after)
  <2>1. From(Ahead, sched, Shutdown(sched, w))
    BY <1>2, ShutdownKeeps DEF Shutdown
  <2>2. From(Ahead, NodeAdded(sched, w), AddNode(sched, w))
    BY <1>2, <1>3, AddNodeKeeps
  <2>3. QED
    BY <2>1, <2>2
<1>6. /\ base.broken = sched.broken /\ base.torun = sched.torun
      /\ base.registered = sched.registered /\ base.numnodes = sched.numnodes
      /\ base.collected = sched.collected /\ base.queue = sched.queue
      /\ base.completed = sched.completed \cup Reports(w, "workerready")
      /\ \A v \in ToSet(base.nodes) : v \in ToSet(sched.nodes) \/ v = w
  <2>1. sched.nodes \in Seq(Worker)
    BY <1>2 DEF Sched
  <2>2. ToSet(Append(sched.nodes, w)) = ToSet(sched.nodes) \cup {w}
    BY <2>1, AppendFacts
  <2>3. QED
    BY <1>2, <2>2 DEF NodeAdded, Sched, Reports, Complete
<1> HIDE DEF base, after
<1>7. Booked(w, "workerready", base, after, shuttingdown)
  BY <1>1, <1>2, <1>6, SameBooks
<1>8. Staffed(w, "workerready", base, after)
  BY <1>1, <1>2, SameStaff
<1>9. Handled(w, "workerready", base, after, shuttingdown)
  BY <1>1, <1>4, <1>5, <1>7, <1>8 DEF Handled
<1>10. QED
  BY <1>2, <1>9 DEF HandledBy

LEMMA WorkerCollectionFinishHandled ==
  ASSUME SessionInv, NEW w \in Worker, WorkerCollectionFinish(w)
  PROVE  HandledBy(w, "collectionfinish")
<1> DEFINE s == AddNodeCollection(sched, w)
           s2 == IF CollectionCompleted(s) /\ s.raised = None THEN Schedule(s) ELSE s
           after == IF shuttingdown THEN sched ELSE s2
           added == CollectionAdded(sched, w)
<1>1. /\ Take(w, "collectionfinish") /\ Return(after, shuttingdown)
      /\ UNCHANGED <<config, active_nodes, failed_nodes, phase, nextitem, running, began>>
  BY DEF WorkerCollectionFinish
<1>2. /\ ~aborted /\ w \in active_nodes /\ phase[w] # "unborn"
      /\ sched \in Sched /\ Sound(Ahead, sched) /\ shuttingdown \in BOOLEAN
      /\ phase \in [Worker -> Phase]
  BY <1>1, Heard
<1>3. Ahead' = Ahead
  BY <1>1, <1>2, AheadAfter DEF Complete
<1>4. \/ s.raised # None /\ From(Ahead, sched, s)
      \/ From(Ahead, added, s)
  BY <1>2, AddNodeCollectionKeeps
<1>5. /\ added.completed = sched.completed /\ added.broken = sched.broken
      /\ added.torun = sched.torun /\ added.nodes = sched.nodes
      /\ added.numnodes = sched.numnodes /\ added.collected = sched.collected
  BY <1>2 DEF CollectionAdded, Sched
<1> HIDE DEF s, added
<1>6. s \in Sched /\ Sound(Ahead, s)
  BY <1>4 DEF From, Sound, Shape
<1>7. From(Ahead, sched, sched) /\ From(Ahead, Scheduled(s), Schedule(s))
  BY <1>2, <1>6, FromItself, ScheduleKeeps
<1>8. Reports(w, "collectionfinish") = {}
  BY DEF Reports, Complete
<1>9. CASE shuttingdown
  <2>1. after = sched
    BY <1>9
  <2> HIDE DEF after
  <2>2. /\ sched.completed = sched.completed \cup Reports(w, "collectionfinish")
        /\ \A v \in ToSet(sched.nodes) : v \in ToSet(sched.nodes)
    BY <1>8
  <2>3. Booked(w, "collectionfinish", sched, after, shuttingdown)
    BY <1>1, <1>2, <2>2, SameBooks
  <2>4. Staffed(w, "collectionfinish", sched, after)
    BY <1>1, <1>2, SameStaff
  <2>5. Handled(w, "collectionfinish", sched, after, shuttingdown)
    BY <1>1, <1>3, <1>7, <2>1, <2>3, <2>4 DEF Handled
  <2>6. QED
    BY <1>2, <2>5 DEF HandledBy
<1>10. CASE ~shuttingdown
  <2>1. CASE s.raised # None
    <3>1. after = s
      BY <1>10, <2>1
    <3>2. PICK b \in {sched, added} : From(Ahead, b, s)
      BY <1>4
    <3>3. /\ b.completed = sched.completed /\ b.broken = sched.broken
          /\ b.torun = sched.torun /\ b.nodes = sched.nodes
      BY <1>5, <3>2
    <3> HIDE DEF after
    <3>4. Booked(w, "collectionfinish", b, after, shuttingdown)
      BY <1>8, <1>10, <2>1, <3>1, <3>3 DEF Booked
    <3>5. Staffed(w, "collectionfinish", b, after)
      BY <1>1, <1>2, SameStaff
    <3>6. Handled(w, "collectionfinish", b, after, shuttingdown)
      BY <1>1, <1>3, <3>1, <3>2, <3>4, <3>5 DEF Handled
    <3>7. QED
      BY <1>2, <3>6 DEF HandledBy
  <2>2. CASE s.raised = None /\ CollectionCompleted(s)
    <3> DEFINE base == Scheduled(s)
    <3>1. after = Schedule(s)
      BY <1>10, <2>2
    <3>2. /\ s.completed = sched.completed /\ s.broken = sched.broken /\ s.nodes = sched.nodes
          /\ \A v \in sched.broken : s.torun[v] = sched.torun[v]
      BY <1>4, <1>5, <2>2 DEF From, Same
    <3> HIDE DEF after
    <3>3. /\ base.completed = s.completed /\ base.broken = s.broken /\ base.nodes = s.nodes /\ base.torun = s.torun
          /\ base.collected
      BY <1>6 DEF Scheduled, Sched
    <3> HIDE DEF base
    <3>4. Booked(w, "collectionfinish", base, after, shuttingdown)
      BY <1>8, <1>10, <3>2, <3>3 DEF Booked
    <3>5. Staffed(w, "collectionfinish", base, after)
      BY <1>1, <1>2, SameStaff
    <3>6. Handled(w, "collectionfinish", base, after, shuttingdown)
      BY <1>1, <1>3, <1>7, <3>1, <3>4, <3>5 DEF Handled, base
    <3>7. QED
      BY <1>2, <3>6 DEF HandledBy
  <2>3. CASE s.raised = None /\ ~CollectionCompleted(s)
    <3>1. after = s
      BY <1>10, <2>3
    <3>2. From(Ahead, added, s)
      BY <1>4, <2>3
    <3>3. ~CollectionCompleted(added)
      BY <2>3, <3>2 DEF From, Same, CollectionCompleted
    <3> HIDE DEF after
    <3>4. Booked(w, "collectionfinish", added, after, shuttingdown)
      BY <1>5, <1>8, <1>10, <3>3 DEF Booked
    <3>5. Staffed(w, "collectionfinish", added, after)
      BY <1>1, <1>2, SameStaff
    <3>6. Handled(w, "collectionfinish", added, after, shuttingdown)
      BY <1>1, <1>3, <3>1, <3>2, <3>4, <3>5 DEF Handled
    <3>7. QED
      BY <1>2, <3>6 DEF HandledBy
  <2>4. QED
    BY <2>1, <2>2, <2>3
<1>11. QED
  BY <1>2, <1>9, <1>10

LEMMA WorkerTestCompleteHandled ==
  ASSUME SessionInv, NEW w \in Worker, WorkerTestComplete(w)
  PROVE  HandledBy(w, Complete)
<1> DEFINE t == Head(events[w])[2]
           base == Marked(sched, w, t)
           after == MarkTestComplete(sched, w, t)
<1>1. /\ Take(w, Complete) /\ Return(after, shuttingdown)
      /\ UNCHANGED <<config, active_nodes, failed_nodes, phase, nextitem, running, began>>
  BY DEF WorkerTestComplete, Complete
<1>2. /\ ~aborted /\ w \in active_nodes /\ phase[w] # "unborn"
      /\ sched \in Sched /\ Sound(Ahead, sched) /\ shuttingdown \in BOOLEAN
      /\ phase \in [Worker -> Phase]
  BY <1>1, Heard
<1>3. /\ t \in Ahead[w]
      /\ \A v \in Worker : Ahead'[v] = IF v = w THEN Ahead[w] \ {t} ELSE Ahead[v]
  BY <1>1, <1>2, AheadAfter
<1> HIDE DEF t
<1>4. From(Ahead', base, after)
  BY <1>2, <1>3, MarkTestCompleteKeeps
<1>5. /\ base.broken = sched.broken /\ base.torun = sched.torun /\ base.nodes = sched.nodes
      /\ base.registered = sched.registered /\ base.numnodes = sched.numnodes
      /\ base.collected = sched.collected /\ base.queue = sched.queue
      /\ base.completed = sched.completed \cup {t}
  BY <1>2 DEF Marked, Sched
<1> HIDE DEF base, after
<1>6. Booked(w, Complete, base, after, shuttingdown)
  <2>1. \A v \in ToSet(base.nodes) : v \in ToSet(sched.nodes)
    BY <1>5
  <2>2. Reports(w, Complete) = {t}
    BY DEF Reports, t
  <2>3. QED
    BY <1>1, <1>2, <1>5, <2>1, <2>2, SameBooks
<1>7. Staffed(w, Complete, base, after)
  BY <1>1, <1>2, SameStaff
<1>8. Handled(w, Complete, base, after, shuttingdown)
  BY <1>1, <1>4, <1>6, <1>7 DEF Handled
<1>9. QED
  BY <1>2, <1>8 DEF HandledBy

LEMMA LeftFacts ==
  ASSUME NEW ahead, NEW s, Sound(ahead, s), NEW w \in Worker
  PROVE  LET r == Left(s, w)
         IN  /\ r.completed = s.completed /\ r.broken = s.broken /\ r.torun = s.torun /\ r.registered = s.registered
             /\ r.numnodes = s.numnodes /\ r.collected = s.collected
             /\ ToSet(r.nodes) = ToSet(s.nodes) \ {w}
             /\ s.assigned[w] = <<>> => r.queue = s.queue
<1>1. s \in Sched /\ s.nodes \in Seq(Worker) /\ s.queue \in Seq(TestFile)
  BY DEF Sound, Shape, Sched
<1>2. ToSet(RemoveFirst(s.nodes, w)) = ToSet(s.nodes) \ {w}
  BY <1>1, RemoveFirstFacts DEF Sound, Shape
<1>3. s.queue \o <<>> = s.queue
  BY <1>1
<1>4. CASE w \in ToSet(s.nodes)
  BY <1>1, <1>2, <1>3, <1>4 DEF Left, WorkReturned, Sched
<1>5. CASE w \notin ToSet(s.nodes)
  BY <1>5 DEF Left
<1>6. QED
  BY <1>4, <1>5

(* The staff after the end of w: one worker less, or another one instead. *)
Replacing(w) ==
  \/ active_nodes' = active_nodes \ {w} /\ UNCHANGED phase
  \/ \E clone \in Worker : /\ NewWorker(clone)
                           /\ active_nodes' = (active_nodes \ {w}) \cup {clone}
                           /\ Become(clone, "starting")

LEMMA ReplacedStaff ==
  ASSUME SessionInv, NEW w \in Worker, Replacing(w), failed_nodes' \in Nat,
         NEW name \in {"workerfinished", "errordown"}, NEW base, NEW after,
         after.raised # None \/ w \notin ToSet(base.nodes)
  PROVE  /\ Staffed(w, name, base, after)
         /\ \A v \in Worker : phase'[v] = phase[v] \/ {phase[v], phase'[v]} \cap {"loop"} = {}
<1>1. phase \in [Worker -> Phase] /\ active_nodes \subseteq Worker
  BY DEF SessionInv, SessionTypes
<1>2. CASE active_nodes' = active_nodes \ {w} /\ UNCHANGED phase
  BY <1>1, <1>2 DEF Staffed
<1>3. ASSUME NEW clone \in Worker, NewWorker(clone),
             active_nodes' = (active_nodes \ {w}) \cup {clone}, Become(clone, "starting")
      PROVE  /\ Staffed(w, name, base, after)
             /\ \A v \in Worker : phase'[v] = phase[v] \/ {phase[v], phase'[v]} \cap {"loop"} = {}
  <2>1. phase[clone] = "unborn" /\ phase' = [phase EXCEPT ![clone] = "starting"]
    BY <1>3 DEF NewWorker, Born, Become
  <2>2. phase' \in [Worker -> Phase]
    BY <1>1, <2>1 DEF Phase
  <2>3. \A v \in Worker : \/ phase'[v] = phase[v]
                          \/ v = clone /\ phase[v] = "unborn" /\ phase'[v] = "starting"
    BY <1>1, <2>1
  <2>4. clone \in active_nodes' /\ active_nodes' \subseteq Worker
        /\ \A v \in active_nodes : v # w => v \in active_nodes'
    BY <1>1, <1>3
  <2>5. QED
    BY <2>2, <2>3, <2>4 DEF Staffed
<1>4. QED
  BY <1>2, <1>3 DEF Replacing

LEMMA WorkerFinishedHandled ==
  ASSUME SessionInv, NEW w \in Worker, WorkerFinished(w)
  PROVE  HandledBy(w, "workerfinished")
<1> DEFINE known == Contains(sched.nodes, w)
           lost == known /\ Pending(sched, w) # {}
           s == IF lost THEN [sched EXCEPT !.raised = "AssertionError"]
                ELSE IF known THEN RemoveNode(sched, w) ELSE sched
           after == [s EXCEPT !.clones = @ \ {w}]
           base == IF lost THEN sched ELSE Left(sched, w)
<1>1. /\ Take(w, "workerfinished") /\ Return(after, shuttingdown) /\ Replacing(w)
      /\ UNCHANGED <<config, failed_nodes, nextitem, running, began>>
  BY DEF WorkerFinished, Replacing
<1>2. /\ ~aborted /\ w \in active_nodes /\ phase[w] # "unborn"
      /\ sched \in Sched /\ Sound(Ahead, sched) /\ shuttingdown \in BOOLEAN
      /\ phase \in [Worker -> Phase]
  BY <1>1, Heard
<1>3. known <=> w \in ToSet(sched.nodes)
  <2>1. sched.nodes \in Seq(Worker)
    BY <1>2 DEF Sched
  <2>2. QED
    BY <2>1, ContainsMeans
<1>4. From(Ahead, base, s)
  <2>1. CASE lost
    <3>1. From(Ahead, sched, [sched EXCEPT !.raised = "AssertionError"])
      BY <1>2, RaisedKeeps
    <3>2. QED
      BY <2>1, <3>1
  <2>2. CASE known /\ ~lost
    BY <1>2, <2>2, RemoveNodeKeeps
  <2>3. CASE ~known
    BY <1>2, <1>3, <2>3, FromItself DEF Left
  <2>4. QED
    BY <2>1, <2>2, <2>3
<1>5. lost => s.raised # None
  BY <1>2, NoTestTwice DEF Sched
<1>6. /\ base.completed = sched.completed /\ base.broken = sched.broken /\ base.torun = sched.torun
      /\ base.registered = sched.registered /\ base.numnodes = sched.numnodes
      /\ base.collected = sched.collected /\ base.queue = sched.queue
      /\ \A v \in ToSet(base.nodes) : v \in ToSet(sched.nodes)
      /\ ~lost => w \notin ToSet(base.nodes)
  <2>1. CASE lost
    BY <2>1
  <2>2. CASE ~lost
    <3>1. /\ base.completed = sched.completed /\ base.broken = sched.broken /\ base.torun = sched.torun
          /\ base.registered = sched.registered /\ base.numnodes = sched.numnodes
          /\ base.collected = sched.collected
          /\ ToSet(base.nodes) = ToSet(sched.nodes) \ {w}
          /\ sched.assigned[w] = <<>> => base.queue = sched.queue
      BY <1>2, <2>2, LeftFacts
    <3>2. base.queue = sched.queue
      <4>1. CASE known
        BY <1>2, <2>2, <3>1, <4>1, NothingPending
      <4>2. CASE ~known
        BY <1>3, <2>2, <4>2 DEF Left
      <4>3. QED
        BY <4>1, <4>2
    <3>3. QED
      BY <3>1, <3>2
  <2>3. QED
    BY <2>1, <2>2
<1> HIDE DEF s, base, lost, known
<1>7. From(Ahead, s, after) /\ after.raised = s.raised
  <2>1. s \in Sched /\ Sound(Ahead, s)
    BY <1>4 DEF From, Sound, Shape
  <2>2. s.clones \ {w} \in SUBSET Worker
    BY <2>1 DEF Sched
  <2>3. /\ after \in Sched /\ Same(s, after) /\ after.queue = s.queue
        /\ after.assigned = s.assigned /\ after.torun = s.torun
        /\ after.active = s.active /\ after.next = s.next /\ after.raised = s.raised
    BY <2>1, <2>2 DEF Sched, Same
  <2> HIDE DEF after
  <2>4. QED
    BY <2>1, <2>3, BookkeepingKeeps DEF Sound, Shape
<1> HIDE DEF after
<1>8. From(Ahead, base, after)
  BY <1>4, <1>7, FromFollows
<1>9. failed_nodes' \in Nat /\ (after.raised # None \/ w \notin ToSet(base.nodes))
  BY <1>1, <1>5, <1>6, <1>7 DEF SessionInv, SessionTypes
<1>10. /\ Staffed(w, "workerfinished", base, after)
       /\ \A v \in Worker : phase'[v] = phase[v] \/ {phase[v], phase'[v]} \cap {"loop"} = {}
  BY <1>1, <1>9, ReplacedStaff
<1>11. Ahead' = Ahead
  BY <1>1, <1>2, <1>10, AheadAfter DEF Complete
<1>12. Booked(w, "workerfinished", base, after, shuttingdown)
  <2>1. Reports(w, "workerfinished") = {}
    BY DEF Reports, Complete
  <2>2. QED
    BY <1>1, <1>2, <1>6, <2>1, SameBooks
<1>13. Handled(w, "workerfinished", base, after, shuttingdown)
  BY <1>1, <1>8, <1>10, <1>11, <1>12 DEF Handled
<1>14. QED
  BY <1>2, <1>13 DEF HandledBy

LEMMA WorkerErrorDownHandled ==
  ASSUME SessionInv, NEW w \in Worker, WorkerErrorDown(w)
  PROVE  HandledBy(w, "errordown")
<1> DEFINE left == RemoveNode(sched, w)
           s == Forgiven(left)
           base == Left(sched, w)
           over == failed_nodes' > config.restarts
           after == IF over /\ ~shuttingdown THEN ShutdownAll(s) ELSE s
<1>1. /\ Take(w, "errordown") /\ Return(after, over) /\ Replacing(w)
      /\ failed_nodes' = failed_nodes + 1
      /\ UNCHANGED <<config, nextitem, running, began>>
  <2>1. CASE over
    BY <2>1 DEF WorkerErrorDown, Replacing
  <2>2. CASE ~over
    <3>1. over = FALSE
      BY <2>2
    <3>2. after = s
      BY <2>2
    <3> HIDE DEF after, over
    <3>3. Take(w, "errordown") /\ Return(s, FALSE) /\ Replacing(w)
          /\ failed_nodes' = failed_nodes + 1
          /\ UNCHANGED <<config, nextitem, running, began>>
      BY <2>2 DEF WorkerErrorDown, Replacing, over
    <3>4. QED
      BY <3>1, <3>2, <3>3
  <2>3. QED
    BY <2>1, <2>2
<1>2. /\ ~aborted /\ w \in active_nodes /\ phase[w] # "unborn"
      /\ 1 \in DOMAIN events[w] /\ events[w][1][1] = "errordown"
      /\ sched \in Sched /\ Sound(Ahead, sched) /\ shuttingdown \in BOOLEAN
      /\ phase \in [Worker -> Phase]
  BY <1>1, Heard
<1>3. phase[w] = "crashed" /\ Len(events[w]) = 1
  BY <1>2 DEF SessionInv, EventsInOrder
<1>4. Ahead[w] = {} /\ sched.torun[w] = <<>>
  <2>1. sched.torun[w] = <<>> /\ running[w] = None /\ Upcoming(w) = {}
    BY <1>3 DEF SessionInv, ProcessShape, Upcoming
  <2>2. DOMAIN events[w] = {1}
    BY <1>1, <1>3, TakeFacts DEF SessionInv
  <2>3. Reported(w) = {}
    BY <1>2, <2>2 DEF Reported, Complete
  <2>4. QED
    BY <2>1, <2>3, AheadMeans
<1>5. /\ base.completed = sched.completed /\ base.broken = sched.broken /\ base.torun = sched.torun
      /\ base.registered = sched.registered /\ base.numnodes = sched.numnodes
      /\ base.collected = sched.collected /\ ToSet(base.nodes) = ToSet(sched.nodes) \ {w}
  BY <1>2, LeftFacts
<1>6. From(Ahead, base, left)
  BY <1>2, <1>4, RemoveNodeKeeps
<1> HIDE DEF left, base
<1>7. From(Ahead, base, s)
  <2>1. Sound(Ahead, left)
    BY <1>6 DEF From
  <2>2. From(Ahead, left, [left EXCEPT !.raised = None])
    BY <2>1, RaisedKeeps
  <2>3. QED
    BY <1>6, <2>2, FromFollows DEF Forgiven
<1> HIDE DEF s
<1>8. From(Ahead, base, after)
  <2>1. Sound(Ahead, s) /\ s.nodes \in Seq(Worker)
    BY <1>7 DEF From, Sound, Shape, Sched
  <2>2. ToSet(s.nodes) \in SUBSET Worker
    BY <2>1, NonEmptyFacts
  <2>3. From(Ahead, s, ShutdownAll(s))
    BY <2>1, <2>2, ShutdownKeeps DEF ShutdownAll
  <2>4. QED
    BY <1>7, <2>3, FromFollows
<1> HIDE DEF after
<1>9. failed_nodes' \in Nat /\ w \notin ToSet(base.nodes) /\ over \in BOOLEAN
  BY <1>1, <1>5 DEF SessionInv, SessionTypes
<1>10. /\ Staffed(w, "errordown", base, after)
       /\ \A v \in Worker : phase'[v] = phase[v] \/ {phase[v], phase'[v]} \cap {"loop"} = {}
  BY <1>1, <1>9, ReplacedStaff
<1>11. Ahead' = Ahead
  BY <1>1, <1>2, <1>10, AheadAfter DEF Complete
<1>12. Booked(w, "errordown", base, after, over)
  <2>1. CollectionCompleted(base) => base.collected
    BY <1>2, <1>5 DEF SessionInv, CollectionNoticed, CollectionCompleted
  <2>2. config.restarts \in Nat
    BY ConfigsShape DEF SessionInv, SessionTypes
  <2>3. ~(over /\ failed_nodes' <= config.restarts)
    BY <1>9, <2>2
  <2>4. Reports(w, "errordown") = {}
    BY DEF Reports, Complete
  <2> HIDE DEF over
  <2>5. QED
    BY <1>5, <2>1, <2>3, <2>4 DEF Booked
<1> HIDE DEF over
<1>13. Handled(w, "errordown", base, after, over)
  BY <1>1, <1>8, <1>10, <1>11, <1>12 DEF Handled
<1>14. QED
  BY <1>9, <1>13 DEF HandledBy
------------------------------------------------------------------------------
LEMMA EventHandled ==
  ASSUME SessionInv, NEW w \in Worker, HandleEvent(w)
  PROVE  \E name : HandledBy(w, name)
<1>1. CASE WorkerReady(w)
  BY <1>1, WorkerReadyHandled
<1>2. CASE WorkerCollectionFinish(w)
  BY <1>2, WorkerCollectionFinishHandled
<1>3. CASE WorkerTestComplete(w)
  BY <1>3, WorkerTestCompleteHandled
<1>4. CASE WorkerFinished(w)
  BY <1>4, WorkerFinishedHandled
<1>5. CASE WorkerErrorDown(w)
  BY <1>5, WorkerErrorDownHandled
<1>6. QED
  BY <1>1, <1>2, <1>3, <1>4, <1>5 DEF HandleEvent

LEMMA SessionNext == SessionInv /\ [Next]_vars => SessionInv'
<1> SUFFICES ASSUME SessionInv, [Next]_vars PROVE SessionInv'
  OBVIOUS
<1>1. CASE UNCHANGED vars
  <2>1. UNCHANGED <<config, sched, shuttingdown, active_nodes, failed_nodes, aborted,
                    events, phase, nextitem, running, began>>
    BY <1>1 DEF vars, controller
  <2>2. Ahead' = Ahead
    BY <2>1 DEF Ahead, Reported, Upcoming
  <2>3. SessionTypes' /\ SchedulerSound'
    BY <2>1, <2>2 DEF SessionInv, SessionTypes, SchedulerSound
  <2>4. ProcessShape' /\ EveryoneCounted'
    <3>1. ProcessShape /\ EveryoneCounted
      BY DEF SessionInv
    <3>2. QED
      BY <2>1, <3>1 DEF ProcessShape, EveryoneCounted
  <2>5. CollectionNoticed' /\ NothingLeft'
    <3>1. CollectionNoticed /\ NothingLeft
      BY DEF SessionInv
    <3>2. QED
      BY <2>1, <3>1 DEF CollectionNoticed, NothingLeft, CollectionCompleted
  <2>6. EventsInOrder'
    <3>1. EventsInOrder
      BY DEF SessionInv
    <3>2. QED
      BY <2>1, <3>1 DEF EventsInOrder, Upcoming
  <2>7. QED
    BY <2>3, <2>4, <2>5, <2>6 DEF SessionInv
<1>2. CASE SessionOver
  BY <1>1, <1>2 DEF SessionOver
<1>3. ASSUME NEW w \in Worker, WorkerStep(w)
      PROVE  SessionInv'
  BY <1>3, WorkerEventsKeep, WorkerGetsKeep DEF WorkerStep
<1>4. ASSUME NEW w \in Worker, HandleEvent(w)
      PROVE  SessionInv'
  <2>1. PICK name : HandledBy(w, name)
    BY <1>4, EventHandled
  <2>2. QED
    BY <2>1, HandlerKeeps DEF HandledBy
<1>5. ASSUME NEW w \in Worker, Crash(w) \/ ReceiveEnd(w)
      PROVE  SessionInv'
  BY <1>5, CrashKeeps, ReceiveEndKeeps
<1>6. QED
  BY <1>1, <1>2, <1>3, <1>4, <1>5 DEF Next

(* However the events of the workers, their deaths and their replacements  *)
(* interleave (dsession.py, isolation.py), the books of the scheduler and  *)
(* what is under way in the workers agree.                                 *)
THEOREM SessionInvariant == Spec => []SessionInv
BY SessionInit, SessionNext, PTL DEF Spec

(* No test that has been reported is running (again): _assign_work_unit    *)
(* sends only the tests of a file that are still open, and the file is not *)
(* handed out anew before its worker has been removed.                     *)
THEOREM NothingRunAgain == Spec => []NoRerun
<1>1. SessionInv => NoRerun
  <2> SUFFICES ASSUME SessionInv, NEW w \in Worker PROVE running[w] \notin sched.completed
    BY DEF NoRerun
  <2>1. CASE running[w] = None
    BY <2>1, NoTestTwice DEF SessionInv, SchedulerSound, Sound, Shape, Sched
  <2>2. CASE running[w] # None
    <3>1. running[w] \in Ahead[w]
      BY <2>2 DEF Ahead
    <3>2. QED
      BY <3>1 DEF SessionInv, SchedulerSound, Sound, TestsSent
  <2>3. QED
    BY <2>1, <2>2
<1>2. QED
  BY <1>1, SessionInvariant, PTL

(* No file gets lost and none is handed out twice, through every           *)
(* assignment, crash and replacement: until its last test is reported a    *)
(* file is queued once or it is one worker's, and then it is nobody's.     *)
THEOREM EveryFilePlaced == Spec => []WorkPlaced
<1>1. SessionInv => WorkPlaced
  <2> SUFFICES ASSUME SessionInv, sched.collected, NEW f \in TestFile
               PROVE  Cardinality(Places(f)) = IF TestsOf(f) \subseteq sched.completed THEN 0 ELSE 1
    BY DEF WorkPlaced
  <2>1. /\ sched.nodes \in Seq(Worker) /\ sched.queue \in Seq(TestFile)
        /\ sched.assigned \in [Worker -> Seq(TestFile)] /\ FilesPlaced(sched)
    BY DEF SessionInv, SchedulerSound, Sound, Shape, Sched
  <2> DEFINE Queued == {j \in DOMAIN sched.queue : sched.queue[j] = f}
             Holders == {v \in ToSet(sched.nodes) : Contains(sched.assigned[v], f)}
  <2>2. Holders = {v \in Worker : f \in Held(sched, v)}
    <3>1. \A v \in Worker : Contains(sched.assigned[v], f) <=> f \in Held(sched, v)
      BY <2>1, ContainsMeans DEF Held
    <3>2. \A v \in Worker : f \in Held(sched, v) => v \in ToSet(sched.nodes)
      BY <2>1 DEF FilesPlaced
    <3>3. ToSet(sched.nodes) \subseteq Worker
      BY <2>1, NonEmptyFacts
    <3>4. QED
      BY <3>1, <3>2, <3>3
  <2>3. f \in ToSet(sched.queue) <=> Queued # {}
    BY <2>1 DEF ToSet
  <2>4. \A i, j \in Queued : i = j
    BY <2>1 DEF FilesPlaced, Distinct
  <2>5. \A v, w \in Holders : v = w
    BY <2>1, <2>2 DEF FilesPlaced
  <2>6. Queued = {} \/ Holders = {}
    BY <2>1, <2>2, <2>3 DEF FilesPlaced
  <2>7. TestsOf(f) \subseteq sched.completed <=> Queued = {} /\ Holders = {}
    BY <2>1, <2>2, <2>3 DEF FilesPlaced, Open
  <2>8. Places(f) = {<<"queue", i>> : i \in Queued} \cup {<<"node", w>> : w \in Holders}
    BY DEF Places
  <2> HIDE DEF Queued, Holders
  <2>9. CASE Queued = {} /\ Holders = {}
    <3>1. Places(f) = {}
      BY <2>8, <2>9
    <3>2. QED
      BY <2>7, <2>9, <3>1, FS_EmptySet
  <2>10. CASE Queued # {}
    <3>1. PICK i : Queued = {i}
      BY <2>4, <2>10
    <3>2. Places(f) = {<<"queue", i>>}
      BY <2>6, <2>8, <3>1
    <3>3. QED
      BY <2>7, <2>10, <3>2, FS_Singleton
  <2>11. CASE Holders # {}
    <3>1. PICK w : Holders = {w}
      BY <2>5, <2>11
    <3>2. Places(f) = {<<"node", w>>}
      BY <2>6, <2>8, <3>1
    <3>3. QED
      BY <2>7, <2>11, <3>2, FS_Singleton
  <2>12. QED
    BY <2>9, <2>10, <2>11
<1>2. QED
  BY <1>1, SessionInvariant, PTL

(* A session that comes to its end without an error, and without having    *)
(* used up --max-worker-restart, has run every test: nothing is queued,    *)
(* and who still holds a file still counts as an active node.              *)
THEOREM EveryTestRun == Spec => []NoTestLost
<1>1. SessionInv => NoTestLost
  <2> SUFFICES ASSUME SessionInv, Over, ~aborted, failed_nodes <= config.restarts
               PROVE  sched.completed = Test
    BY DEF NoTestLost
  <2>1. shuttingdown /\ active_nodes = {}
    BY DEF Over
  <2>2. sched.collected /\ sched.queue = <<>>
    BY <2>1 DEF SessionInv, NothingLeft
  <2>3. ToSet(sched.nodes) \cap Worker = {}
    BY <2>1 DEF SessionInv, EveryoneCounted, ProcessShape
  <2>4. FilesPlaced(sched) /\ sched.completed \in SUBSET Test
    BY DEF SessionInv, SchedulerSound, Sound, Shape, Sched
  <2>5. \A f \in TestFile : TestsOf(f) \subseteq sched.completed
    BY <2>2, <2>3, <2>4, EmptyFacts DEF FilesPlaced, Open
  <2>6. \A t \in Test : FileOf[t] \in TestFile /\ t \in TestsOf(FileOf[t])
    BY DEF TestFile, TestsOf
  <2>7. QED
    BY <2>4, <2>5, <2>6
<1>2. QED
  BY <1>1, SessionInvariant, PTL
------------------------------------------------------------------------------
(***************************************************************************)
(* The files and their processes.  A file is at home where a test of it    *)
(* has begun or comes next.                                                *)
(***************************************************************************)
Home == [w \in Worker |-> began[w] \cup Upcoming(w)]
Steady == Crashed = {}

FilesAtHome == Undisturbed => Homely(Home, Steady, sched)

(* Nothing begins before the tests are known, nor in a worker the          *)
(* scheduler has not heard of.                                             *)
BegunLate ==
  \A w \in Worker :
    Home[w] # {} =>
      /\ sched.collected
      /\ phase[w] \notin {"unborn", "starting", "collecting", "waiting"}
      /\ \A i \in DOMAIN events[w] : events[w][i][1] # "workerready"

AliveBounded == IsFiniteSet(active_nodes) /\ Cardinality(active_nodes) <= config.n

HomesInv == SessionInv /\ FilesAtHome /\ BegunLate /\ AliveBounded

LEMMA HomesInit == Init => HomesInv
<1> SUFFICES ASSUME Init PROVE HomesInv
  OBVIOUS
<1>1. SessionInv
  BY SessionInit
<1>2. config.n \in Nat \ {0}
  BY ConfigsShape DEF Init
<1>3. /\ sched.active = None /\ sched.next = None /\ sched.standby = <<>> /\ sched.nodes = <<>>
      /\ sched.assigned = [w \in Worker |-> <<>>] /\ sched.torun = [w \in Worker |-> <<>>]
  BY DEF Init, InitSched
<1>4. \A w \in Worker : Home[w] = {} /\ Sent(sched, w) = {} /\ Held(sched, w) = {}
  BY <1>3, EmptyFacts DEF Init, Home, Upcoming, Sent, Held
<1>5. FilesAtHome
  <2>1. LineUp(sched) /\ Idle(sched) = {}
    BY <1>3, EmptyFacts, WorkerNumbers DEF LineUp, Idle
  <2>2. QED
    BY <1>4, <2>1 DEF FilesAtHome, Homely, Work, OneFile, OneAtATime
<1>6. BegunLate
  BY <1>4 DEF BegunLate
<1>7. AliveBounded
  <2> DEFINE I == 0 .. (config.n - 1)
  <2>1. active_nodes \subseteq I
    BY <1>2, WorkerNumbers DEF Init
  <2>2. IsFiniteSet(I) /\ Cardinality(I) = config.n
    <3>1. 0 \in Int /\ config.n - 1 \in Int
      BY <1>2
    <3>2. IsFiniteSet(I)
          /\ Cardinality(I) = IF 0 > config.n - 1 THEN 0 ELSE (config.n - 1) - 0 + 1
      BY <3>1, FS_Interval
    <3>3. QED
      BY <1>2, <3>2
  <2> HIDE DEF I
  <2>3. IsFiniteSet(active_nodes) /\ Cardinality(active_nodes) <= Cardinality(I)
    BY <2>1, <2>2, FS_Subset
  <2>4. QED
    BY <2>2, <2>3 DEF AliveBounded
<1>8. QED
  BY <1>1, <1>5, <1>6, <1>7 DEF HomesInv

(* A worker goes on, or stops: it only begins what it has been sent.       *)
LEMMA HomelyMoves ==
  ASSUME NEW ahead, NEW home, NEW steady, NEW s, Sound(ahead, s), Homely(home, steady, s),
         NEW more, NEW still, NEW r, still => steady,
         r.active = s.active, r.next = s.next, r.standby = s.standby, r.current = s.current,
         r.nodes = s.nodes, r.assigned = s.assigned, r.completed = s.completed,
         r.collected = s.collected,
         \A w \in Worker : Work(more, r, w) \subseteq Work(home, s, w)
  PROVE  Homely(more, still, r)
<1>1. LineUp(r) /\ Idle(r) \subseteq Idle(s)
  BY DEF Homely, LineUp, Idle
<1>2. \A w \in Idle(r) : Work(more, r, w) = {}
  <2> TAKE w \in Idle(r)
  <2>1. w \in Worker /\ Work(home, s, w) = {}
    BY <1>1 DEF Homely, Idle
  <2>2. QED
    BY <2>1
<1>3. \A w \in Worker : OneFile(Work(more, r, w))
  BY DEF Homely, OneFile
<1>4. still => OneAtATime(more, r)
  <2> SUFFICES ASSUME still PROVE OneAtATime(more, r)
    OBVIOUS
  <2>1. OneAtATime(home, s)
    BY DEF Homely
  <2>2. \A w \in Worker : Held(r, w) = Held(s, w) /\ \A f : Open(r, f) = Open(s, f)
    BY DEF Held, Open
  <2>3. ASSUME NEW w \in Worker, NEW t \in more[w], Open(r, FileOf[t])
        PROVE  FileOf[t] \in Held(r, w)
    <3>1. t \in home[w] \/ t \in Sent(s, w)
      BY DEF Work
    <3>2. t \in Sent(s, w) => FileOf[t] \in Held(s, w)
      BY NoTestTwice DEF Sound, TestsSent, Sent
    <3>3. QED
      BY <2>1, <2>2, <2>3, <3>1, <3>2 DEF OneAtATime
  <2>4. QED
    BY <2>1, <2>2, <2>3 DEF OneAtATime
<1>5. QED
  BY <1>1, <1>2, <1>3, <1>4 DEF Homely

(* Nobody comes back from the dead. *)
LEMMA StillUndisturbed ==
  ASSUME UNCHANGED config, \A w \in Worker : phase[w] = "crashed" => phase'[w] = "crashed"
  PROVE  (Undisturbed' => Undisturbed) /\ (Steady' => Steady)
BY DEF Undisturbed, Steady, Crashed

(* What the processes do, and what the receiver thread does.               *)
LEMMA ProcessesHome ==
  ASSUME HomesInv, SessionInv',
         UNCHANGED <<config, active_nodes>>,
         \A w \in Worker : phase[w] = "crashed" => phase'[w] = "crashed",
         sched'.active = sched.active, sched'.next = sched.next,
         sched'.standby = sched.standby, sched'.current = sched.current,
         sched'.nodes = sched.nodes, sched'.assigned = sched.assigned,
         sched'.completed = sched.completed, sched'.collected = sched.collected,
         \A w \in Worker : Work(Home', sched', w) \subseteq Work(Home, sched, w),
         \A w \in Worker : Home'[w] # {} =>
            /\ phase'[w] \notin {"unborn", "starting", "collecting", "waiting"}
            /\ Home[w] # {} \/ Sent(sched, w) # {}
            /\ \A i \in DOMAIN events'[w] :
                 (i \in DOMAIN events[w] /\ events'[w][i] = events[w][i])
                 \/ events'[w][i][1] # "workerready"
  PROVE  HomesInv'
<1>1. FilesAtHome'
  <2>1. Sound(Ahead, sched) /\ (Undisturbed' => Homely(Home, Steady, sched))
    BY StillUndisturbed DEF HomesInv, FilesAtHome, SessionInv, SchedulerSound
  <2>2. Steady' => Steady
    BY StillUndisturbed
  <2>3. Undisturbed' => Homely(Home', Steady', sched')
    BY <2>1, <2>2, HomelyMoves
  <2>4. QED
    BY <2>3 DEF FilesAtHome
<1>2. BegunLate'
  <2> SUFFICES ASSUME NEW w \in Worker, Home'[w] # {}
               PROVE  /\ sched'.collected
                      /\ \A i \in DOMAIN events'[w] : events'[w][i][1] # "workerready"
    BY DEF BegunLate
  <2>1. ASSUME Sent(sched, w) # {}
        PROVE  sched.collected /\ \A i \in DOMAIN events[w] : events[w][i][1] # "workerready"
    <3>1. PICK t \in Sent(sched, w) : FileOf[t] \in Held(sched, w)
      BY <2>1, NoTestTwice DEF HomesInv, SessionInv, SchedulerSound, Sound, TestsSent, Sent
    <3>2. w \in ToSet(sched.nodes)
      BY <3>1 DEF HomesInv, SessionInv, SchedulerSound, Sound, FilesPlaced
    <3>3. sched.collected
      <4>1. FileOf[t] \in TestFile
        BY <3>1 DEF Sent, TestFile
      <4>2. QED
        BY <3>1, <4>1 DEF HomesInv, SessionInv, SchedulerSound, Sound, FilesPlaced, Open
    <3>4. QED
      BY <3>2, <3>3 DEF HomesInv, SessionInv, EventsInOrder
  <2>2. sched.collected /\ \A i \in DOMAIN events[w] : events[w][i][1] # "workerready"
    BY <2>1 DEF HomesInv, BegunLate
  <2>3. QED
    BY <2>2
<1>3. AliveBounded'
  BY DEF HomesInv, AliveBounded
<1>4. QED
  BY <1>1, <1>2, <1>3 DEF HomesInv

LEMMA EmitHome ==
  ASSUME HomesInv, SessionInv', NEW w \in Worker, NEW e \in EventName \X (Test \cup {None}),
         Emit(w, e), UNCHANGED <<config, controller, nextitem, began>>,
         \A v \in Worker : v # w => phase'[v] = phase[v],
         phase[w] # "crashed", Upcoming(w)' = Upcoming(w),
         Home[w] # {} => /\ phase'[w] \notin {"unborn", "starting", "collecting", "waiting"}
                         /\ e[1] # "workerready"
  PROVE  HomesInv'
<1>1. sched' = sched /\ UNCHANGED <<config, active_nodes>>
  BY DEF controller
<1>2. \A v \in Worker : Home'[v] = Home[v]
  BY DEF Home, Upcoming
<1>3. \A v \in Worker : Work(Home', sched', v) \subseteq Work(Home, sched, v)
  BY <1>1, <1>2 DEF Work
<1>4. ASSUME NEW v \in Worker, Home'[v] # {}
      PROVE  /\ phase'[v] \notin {"unborn", "starting", "collecting", "waiting"}
             /\ Home[v] # {} \/ Sent(sched, v) # {}
             /\ \A i \in DOMAIN events'[v] :
                  (i \in DOMAIN events[v] /\ events'[v][i] = events[v][i])
                  \/ events'[v][i][1] # "workerready"
  <2>1. /\ \A u \in Worker : u # w => events'[u] = events[u]
        /\ DOMAIN events[w] = 1 .. Len(events[w]) /\ DOMAIN events'[w] = 1 .. Len(events'[w])
        /\ Len(events'[w]) = Len(events[w]) + 1 /\ Len(events[w]) \in Nat
        /\ \A i \in DOMAIN events[w] : events'[w][i] = events[w][i]
        /\ events'[w][Len(events'[w])] = e
    BY EmitFacts DEF HomesInv, SessionInv
  <2>2. Home[v] # {}
    BY <1>2, <1>4
  <2>3. CASE v = w
    <3>1. \A i \in DOMAIN events'[w] : i \in DOMAIN events[w] \/ events'[w][i] = e
      BY <2>1
    <3>2. QED
      BY <2>1, <2>2, <2>3, <3>1
  <2>4. CASE v # w
    BY <2>1, <2>2, <2>4 DEF HomesInv, BegunLate
  <2>5. QED
    BY <2>3, <2>4
<1>5. \A v \in Worker : phase[v] = "crashed" => phase'[v] = "crashed"
  OBVIOUS
<1>6. QED
  BY <1>1, <1>3, <1>4, <1>5, ProcessesHome

LEMMA WorkerEventsHome ==
  ASSUME HomesInv, SessionInv', NEW w \in Worker,
         SessionStart(w) \/ CollectionFinish(w) \/ EndTest(w) \/ SessionFinish(w)
  PROVE  HomesInv'
<1>0. /\ phase \in [Worker -> Phase] /\ running \in [Worker -> Test \cup {None}]
      /\ running[w] # None => phase[w] = "loop"
  BY DEF HomesInv, SessionInv, SessionTypes, ProcessShape
<1>1. Home[w] # {} => phase[w] \notin {"unborn", "starting", "collecting", "waiting"}
  BY DEF HomesInv, BegunLate
<1>2. CASE SessionStart(w)
  <2>1. /\ phase' = [phase EXCEPT ![w] = "collecting"] /\ Emit(w, <<"workerready", None>>)
        /\ phase[w] = "starting" /\ UNCHANGED <<config, controller, nextitem, began>>
    BY <1>2 DEF SessionStart, Become
  <2>2. <<"workerready", None>> \in EventName \X (Test \cup {None})
    BY DEF EventName
  <2>3. Upcoming(w)' = Upcoming(w) /\ Home[w] = {} /\ \A v \in Worker : v # w => phase'[v] = phase[v]
    BY <1>0, <1>1, <2>1 DEF Upcoming
  <2>4. QED
    BY <2>1, <2>2, <2>3, EmitHome
<1>3. CASE CollectionFinish(w)
  <2>1. /\ phase' = [phase EXCEPT ![w] = "waiting"] /\ Emit(w, <<"collectionfinish", None>>)
        /\ phase[w] = "collecting" /\ UNCHANGED <<config, controller, nextitem, began>>
    BY <1>3 DEF CollectionFinish, Become
  <2>2. <<"collectionfinish", None>> \in EventName \X (Test \cup {None})
    BY DEF EventName
  <2>3. Upcoming(w)' = Upcoming(w) /\ Home[w] = {} /\ \A v \in Worker : v # w => phase'[v] = phase[v]
    BY <1>0, <1>1, <2>1 DEF Upcoming
  <2>4. QED
    BY <2>1, <2>2, <2>3, EmitHome
<1>4. CASE EndTest(w)
  <2> DEFINE e == <<"runtest_protocol_complete", running[w]>>
  <2>1. /\ phase' = phase /\ phase[w] = "loop" /\ Emit(w, e)
        /\ UNCHANGED <<config, controller, nextitem, began>>
    BY <1>0, <1>4 DEF EndTest
  <2>2. e \in EventName \X (Test \cup {None}) /\ e[1] # "workerready"
    BY <1>0 DEF EventName, Complete
  <2> HIDE DEF e
  <2>3. Upcoming(w)' = Upcoming(w) /\ \A v \in Worker : v # w => phase'[v] = phase[v]
    BY <2>1 DEF Upcoming
  <2>4. QED
    BY <2>1, <2>2, <2>3, EmitHome
<1>5. CASE SessionFinish(w)
  <2> DEFINE e == <<"workerfinished", None>>
  <2>1. /\ phase' = [phase EXCEPT ![w] = "done"] /\ Emit(w, e)
        /\ phase[w] = "loop" /\ nextitem[w] = SHUTDOWN
        /\ UNCHANGED <<config, controller, nextitem, began>>
    BY <1>5 DEF SessionFinish, Become
  <2>2. e \in EventName \X (Test \cup {None}) /\ e[1] # "workerready"
    BY DEF EventName
  <2> HIDE DEF e
  <2>3. /\ Upcoming(w)' = Upcoming(w) /\ phase'[w] = "done"
        /\ \A v \in Worker : v # w => phase'[v] = phase[v]
    BY <1>0, <2>1 DEF Upcoming
  <2>4. QED
    BY <2>1, <2>2, <2>3, EmitHome
<1>6. QED
  BY <1>2, <1>3, <1>4, <1>5

(* A worker that begins a test has been sent it. *)
LEMMA WorkerGetsHome ==
  ASSUME HomesInv, SessionInv', NEW w \in Worker, EnterLoop(w) \/ BeginTest(w)
  PROVE  HomesInv'
<1> DEFINE next == Head(sched.torun[w])
<1>0. /\ phase \in [Worker -> Phase] /\ nextitem \in [Worker -> Test \cup {SHUTDOWN, None}]
      /\ began \in [Worker -> SUBSET Test] /\ sched \in Sched
      /\ sched.torun \in [Worker -> Seq(Test \cup {SHUTDOWN})]
      /\ phase[w] = "loop" => nextitem[w] # None
  BY DEF HomesInv, SessionInv, SessionTypes, SchedulerSound, Sound, Shape, ProcessShape, Sched
<1>1. /\ sched.torun[w] # <<>> /\ nextitem' = [nextitem EXCEPT ![w] = next]
      /\ sched' = [sched EXCEPT !.torun[w] = Tail(@)]
      /\ UNCHANGED <<config, active_nodes, events>>
  BY DEF EnterLoop, BeginTest, Get
<1>2. \/ /\ phase[w] = "waiting" /\ phase' = [phase EXCEPT ![w] = "loop"] /\ UNCHANGED began
      \/ /\ phase[w] = "loop" /\ nextitem[w] # SHUTDOWN /\ UNCHANGED phase
         /\ began' = [began EXCEPT ![w] = @ \cup {nextitem[w]}]
  BY DEF EnterLoop, BeginTest, Become
<1>3. /\ sched'.active = sched.active /\ sched'.next = sched.next
      /\ sched'.standby = sched.standby /\ sched'.current = sched.current
      /\ sched'.nodes = sched.nodes /\ sched'.assigned = sched.assigned
      /\ sched'.completed = sched.completed /\ sched'.collected = sched.collected
      /\ sched'.torun = [sched.torun EXCEPT ![w] = Tail(sched.torun[w])]
  BY <1>0, <1>1 DEF Sched
<1>4. ASSUME NEW v \in Worker, v # w
      PROVE  Home'[v] = Home[v] /\ phase'[v] = phase[v] /\ Sent(sched', v) = Sent(sched, v)
  <2>1. /\ phase'[v] = phase[v] /\ nextitem'[v] = nextitem[v] /\ began'[v] = began[v]
        /\ sched'.torun[v] = sched.torun[v]
    BY <1>0, <1>1, <1>2, <1>3, <1>4
  <2>2. QED
    BY <2>1 DEF Home, Upcoming, Sent
<1>5. phase'[w] = "loop" /\ nextitem'[w] = next
  BY <1>0, <1>1, <1>2
<1>6. next \in Test => next \in Sent(sched, w)
  <2>1. 1 \in DOMAIN sched.torun[w] /\ sched.torun[w][1] = next
    BY <1>0, <1>1
  <2>2. QED
    BY <2>1 DEF Sent
<1>7. next \in Test \cup {SHUTDOWN} /\ Sent(sched', w) \subseteq Sent(sched, w)
  <2>1. /\ next \in Test \cup {SHUTDOWN}
        /\ \A i \in DOMAIN Tail(sched.torun[w]) :
             i + 1 \in DOMAIN sched.torun[w] /\ Tail(sched.torun[w])[i] = sched.torun[w][i + 1]
    BY <1>0, <1>1
  <2>2. sched'.torun[w] = Tail(sched.torun[w])
    BY <1>0, <1>3
  <2>3. QED
    BY <2>1, <2>2 DEF Sent
<1> HIDE DEF next
<1>8. Home'[w] \subseteq Home[w] \cup Sent(sched, w)
  <2>1. Upcoming(w)' \subseteq Sent(sched, w)
    BY <1>5, <1>6, <1>7 DEF Upcoming
  <2>2. began'[w] \subseteq began[w] \cup Upcoming(w)
    BY <1>0, <1>2 DEF Upcoming
  <2>3. QED
    BY <2>1, <2>2 DEF Home
<1>9. \A v \in Worker : Work(Home', sched', v) \subseteq Work(Home, sched, v)
  BY <1>4, <1>7, <1>8 DEF Work
<1>10. ASSUME NEW v \in Worker, Home'[v] # {}
       PROVE  /\ phase'[v] \notin {"unborn", "starting", "collecting", "waiting"}
              /\ Home[v] # {} \/ Sent(sched, v) # {}
              /\ \A i \in DOMAIN events'[v] :
                   (i \in DOMAIN events[v] /\ events'[v][i] = events[v][i])
                   \/ events'[v][i][1] # "workerready"
  <2>1. phase'[v] \notin {"unborn", "starting", "collecting", "waiting"}
    BY <1>4, <1>5, <1>10 DEF HomesInv, BegunLate
  <2>2. Home[v] # {} \/ Sent(sched, v) # {}
    BY <1>4, <1>8, <1>10
  <2>3. QED
    BY <1>1, <2>1, <2>2
<1>11. \A v \in Worker : phase[v] = "crashed" => phase'[v] = "crashed"
  BY <1>2, <1>4, <1>5
<1>12. QED
  BY <1>1, <1>3, <1>9, <1>10, <1>11, ProcessesHome

LEMMA CrashHome ==
  ASSUME HomesInv, SessionInv', NEW w \in Worker, Crash(w)
  PROVE  HomesInv'
<1>0. /\ phase \in [Worker -> Phase] /\ sched \in Sched
      /\ sched.torun \in [Worker -> Seq(Test \cup {SHUTDOWN})]
  BY DEF HomesInv, SessionInv, SessionTypes, SchedulerSound, Sound, Shape, Sched
<1>1. /\ phase' = [phase EXCEPT ![w] = "crashed"] /\ Emit(w, <<"errordown", None>>)
      /\ sched' = [sched EXCEPT !.broken = @ \cup {w}, !.torun[w] = <<>>]
      /\ UNCHANGED <<config, active_nodes, nextitem, began>>
  BY DEF Crash, Become
<1>2. /\ sched'.active = sched.active /\ sched'.next = sched.next
      /\ sched'.standby = sched.standby /\ sched'.current = sched.current
      /\ sched'.nodes = sched.nodes /\ sched'.assigned = sched.assigned
      /\ sched'.completed = sched.completed /\ sched'.collected = sched.collected
      /\ sched'.torun = [sched.torun EXCEPT ![w] = <<>>]
  BY <1>0, <1>1 DEF Sched
<1>3. phase'[w] = "crashed" /\ \A v \in Worker : v # w => phase'[v] = phase[v]
  BY <1>0, <1>1
<1>4. ASSUME NEW v \in Worker, v # w
      PROVE  Home'[v] = Home[v] /\ Sent(sched', v) = Sent(sched, v)
  <2>1. /\ phase'[v] = phase[v] /\ nextitem'[v] = nextitem[v] /\ began'[v] = began[v]
        /\ sched'.torun[v] = sched.torun[v]
    BY <1>0, <1>1, <1>2, <1>3, <1>4
  <2>2. QED
    BY <2>1 DEF Home, Upcoming, Sent
<1>5. Home'[w] \subseteq Home[w] /\ Sent(sched', w) = {}
  BY <1>0, <1>1, <1>2, <1>3 DEF Home, Upcoming, Sent
<1>6. \A v \in Worker : Work(Home', sched', v) \subseteq Work(Home, sched, v)
  BY <1>4, <1>5 DEF Work
<1>7. ASSUME NEW v \in Worker, Home'[v] # {}
      PROVE  /\ phase'[v] \notin {"unborn", "starting", "collecting", "waiting"}
             /\ Home[v] # {} \/ Sent(sched, v) # {}
             /\ \A i \in DOMAIN events'[v] :
                  (i \in DOMAIN events[v] /\ events'[v][i] = events[v][i])
                  \/ events'[v][i][1] # "workerready"
  <2> DEFINE e == <<"errordown", None>>
  <2>1. e \in EventName \X (Test \cup {None}) /\ e[1] # "workerready" /\ Emit(w, e)
    BY <1>1 DEF EventName
  <2> HIDE DEF e
  <2>2. /\ \A u \in Worker : u # w => events'[u] = events[u]
        /\ DOMAIN events[w] = 1 .. Len(events[w]) /\ DOMAIN events'[w] = 1 .. Len(events'[w])
        /\ Len(events'[w]) = Len(events[w]) + 1 /\ Len(events[w]) \in Nat
        /\ \A i \in DOMAIN events[w] : events'[w][i] = events[w][i]
        /\ events'[w][Len(events'[w])] = e
    BY <2>1, EmitFacts DEF HomesInv, SessionInv
  <2>3. \A i \in DOMAIN events'[w] : i \in DOMAIN events[w] \/ events'[w][i] = e
    BY <2>2
  <2>4. Home[v] # {}
    BY <1>4, <1>5, <1>7
  <2>5. phase'[v] \notin {"unborn", "starting", "collecting", "waiting"}
    BY <1>3, <2>4 DEF HomesInv, BegunLate
  <2>6. QED
    BY <2>1, <2>2, <2>3, <2>4, <2>5
<1>8. \A v \in Worker : phase[v] = "crashed" => phase'[v] = "crashed"
  BY <1>3
<1>9. QED
  BY <1>1, <1>2, <1>6, <1>7, <1>8, ProcessesHome

LEMMA ReceiveEndHome ==
  ASSUME HomesInv, SessionInv', UNCHANGED vars \/ \E w \in Worker : ReceiveEnd(w)
  PROVE  HomesInv'
<1>0. sched \in Sched
  BY DEF HomesInv, SessionInv, SchedulerSound, Sound, Shape
<1>1. /\ \/ sched' = sched
         \/ \E w \in Worker : sched' = [sched EXCEPT !.down = @ \cup {w}, !.broken = @ \cup {w}]
      /\ UNCHANGED <<config, active_nodes, events, phase, nextitem, began>>
  BY DEF ReceiveEnd, vars, controller
<1>2. /\ sched'.active = sched.active /\ sched'.next = sched.next
      /\ sched'.standby = sched.standby /\ sched'.current = sched.current
      /\ sched'.nodes = sched.nodes /\ sched'.assigned = sched.assigned
      /\ sched'.completed = sched.completed /\ sched'.collected = sched.collected
      /\ sched'.torun = sched.torun
  BY <1>0, <1>1 DEF Sched
<1>3. \A v \in Worker : Home'[v] = Home[v] /\ Sent(sched', v) = Sent(sched, v)
  BY <1>1, <1>2 DEF Home, Upcoming, Sent
<1>4. \A v \in Worker : Work(Home', sched', v) \subseteq Work(Home, sched, v)
  BY <1>3 DEF Work
<1>5. ASSUME NEW v \in Worker, Home'[v] # {}
      PROVE  /\ phase'[v] \notin {"unborn", "starting", "collecting", "waiting"}
             /\ Home[v] # {} \/ Sent(sched, v) # {}
             /\ \A i \in DOMAIN events'[v] :
                  (i \in DOMAIN events[v] /\ events'[v][i] = events[v][i])
                  \/ events'[v][i][1] # "workerready"
  BY <1>1, <1>3, <1>5 DEF HomesInv, BegunLate
<1>6. \A v \in Worker : phase[v] = "crashed" => phase'[v] = "crashed"
  BY <1>1
<1>7. QED
  BY <1>1, <1>2, <1>4, <1>5, <1>6, ProcessesHome

(* An event is taken: what its handler makes of the scheduler is tidy.      *)
LEMMA HandlerHome ==
  ASSUME HomesInv, SessionInv', NEW w \in Worker, NEW name, Take(w, name),
         UNCHANGED <<config, nextitem, running, began>>,
         NEW after \in Sched, NEW stopping, Return(after, stopping),
         sched.collected => after.collected,
         Undisturbed => Tidy(Ahead', Home, Steady, after),
         \A v \in Worker : phase'[v] = phase[v] \/ (phase[v] = "unborn" /\ phase'[v] = "starting"),
         AliveBounded'
  PROVE  HomesInv'
<1>1. /\ \A v \in Worker : v # w => events'[v] = events[v]
      /\ Len(events[w]) = Len(events'[w]) + 1 /\ Len(events'[w]) \in Nat
      /\ DOMAIN events[w] = 1 .. Len(events[w]) /\ DOMAIN events'[w] = 1 .. Len(events'[w])
      /\ \A i \in DOMAIN events'[w] : events'[w][i] = events[w][i + 1]
  BY TakeFacts DEF HomesInv, SessionInv
<1>2. \A v \in Worker : Upcoming(v)' = Upcoming(v)
  BY DEF Upcoming
<1>3. Home' = Home
  BY <1>2 DEF Home
<1>4. Crashed' = Crashed
  BY DEF Crashed
<1>5. Steady' = Steady /\ Undisturbed' = Undisturbed
  BY <1>4 DEF Steady, Undisturbed
<1>6. ToSet(after.nodes) \in SUBSET Worker
  BY NonEmptyFacts DEF Sched
<1>7. sched' = after \/ sched' = ShutdownEach(after, ToSet(after.nodes))
  BY DEF Return, ShutdownAll
<1>8. FilesAtHome'
  <2> SUFFICES ASSUME Undisturbed PROVE Homely(Home, Steady, sched')
    BY <1>3, <1>5 DEF FilesAtHome
  <2>1. Tidy(Ahead', Home, Steady, after)
    OBVIOUS
  <2>2. Tidy(Ahead', Home, Steady, ShutdownEach(after, ToSet(after.nodes)))
    BY <1>6, <2>1, ShutdownTidy
  <2>3. Tidy(Ahead', Home, Steady, sched')
    BY <1>7, <2>1, <2>2
  <2>4. QED
    BY <2>3 DEF Tidy
<1>9. sched.collected => sched'.collected
  BY <1>6, <1>7, ShutdownFrame
<1>10. BegunLate'
  <2> SUFFICES ASSUME NEW v \in Worker, Home[v] # {}
               PROVE  /\ sched'.collected
                      /\ phase'[v] \notin {"unborn", "starting", "collecting", "waiting"}
                      /\ \A i \in DOMAIN events'[v] : events'[v][i][1] # "workerready"
    BY <1>3 DEF BegunLate
  <2>1. /\ sched.collected /\ phase[v] \notin {"unborn", "starting", "collecting", "waiting"}
        /\ \A i \in DOMAIN events[v] : events[v][i][1] # "workerready"
    BY DEF HomesInv, BegunLate
  <2>2. phase'[v] = phase[v]
    BY <2>1
  <2>3. CASE v = w
    <3>1. \A i \in DOMAIN events'[w] : i + 1 \in DOMAIN events[w]
      BY <1>1
    <3>2. QED
      BY <1>1, <1>9, <2>1, <2>2, <2>3, <3>1
  <2>4. CASE v # w
    BY <1>1, <1>9, <2>1, <2>2, <2>4
  <2>5. QED
    BY <2>3, <2>4
<1>11. QED
  BY <1>8, <1>10 DEF HomesInv

(* What is known of an undisturbed session when an event arrives. *)
LEMMA HeardHome ==
  ASSUME HomesInv, NEW w \in Worker, NEW name, Take(w, name)
  PROVE  /\ ~aborted /\ w \in active_nodes
         /\ 1 \in DOMAIN events[w] /\ events[w][1][1] = name
         /\ sched \in Sched /\ Sound(Ahead, sched) /\ shuttingdown \in BOOLEAN
         /\ phase \in [Worker -> Phase]
         /\ Undisturbed => Tidy(Ahead, Home, Steady, sched)
<1>1. SessionInv
  BY DEF HomesInv
<1>2. Undisturbed => Homely(Home, Steady, sched)
  BY DEF HomesInv, FilesAtHome
<1>3. QED
  BY <1>1, <1>2, Heard DEF Tidy

LEMMA WorkerReadyHome ==
  ASSUME HomesInv, SessionInv', NEW w \in Worker, WorkerReady(w)
  PROVE  HomesInv'
<1> DEFINE after == IF shuttingdown THEN Shutdown(sched, w) ELSE AddNode(sched, w)
<1>1. /\ Take(w, "workerready") /\ Return(after, shuttingdown)
      /\ UNCHANGED <<config, active_nodes, phase, nextitem, running, began>>
  BY DEF WorkerReady
<1>2. /\ 1 \in DOMAIN events[w] /\ events[w][1][1] = "workerready"
      /\ sched \in Sched /\ Sound(Ahead, sched) /\ shuttingdown \in BOOLEAN
      /\ phase \in [Worker -> Phase]
      /\ Undisturbed => Tidy(Ahead, Home, Steady, sched)
  BY <1>1, HeardHome
<1>3. w \notin ToSet(sched.nodes) /\ Home[w] = {}
  BY <1>2 DEF HomesInv, SessionInv, EventsInOrder, BegunLate
<1>4. Work(Home, sched, w) = {}
  <2>1. Held(sched, w) = {}
    BY <1>2, <1>3 DEF Sound, FilesPlaced
  <2>2. Sent(sched, w) = {}
    BY <1>2, <2>1, NoTestTwice DEF Sound, TestsSent, Sent
  <2>3. QED
    BY <1>3, <2>2 DEF Work
<1>5. Ahead' = Ahead
  BY <1>1, <1>2, AheadAfter DEF Complete, HomesInv
<1>6. after \in Sched /\ after.collected = sched.collected
  <2>1. From(Ahead, sched, Shutdown(sched, w))
    BY <1>2, ShutdownKeeps DEF Shutdown
  <2>2. From(Ahead, NodeAdded(sched, w), AddNode(sched, w))
    BY <1>2, <1>3, AddNodeKeeps
  <2>3. NodeAdded(sched, w).collected = sched.collected
    BY <1>2 DEF NodeAdded, Sched
  <2>4. QED
    BY <2>1, <2>2, <2>3 DEF From, Sound, Shape, Same
<1>7. Undisturbed => Tidy(Ahead, Home, Steady, after)
  <2> SUFFICES ASSUME Undisturbed PROVE Tidy(Ahead, Home, Steady, after)
    OBVIOUS
  <2>1. Tidy(Ahead, Home, Steady, Shutdown(sched, w))
    BY <1>2, ShutdownTidy DEF Shutdown
  <2>2. Tidy(Ahead, Home, Steady, AddNode(sched, w))
    BY <1>2, <1>3, <1>4, AddNodeTidy
  <2>3. QED
    BY <2>1, <2>2
<1> HIDE DEF after
<1>8. AliveBounded'
  BY <1>1 DEF HomesInv, AliveBounded
<1>9. QED
  BY <1>1, <1>5, <1>6, <1>7, <1>8, HandlerHome

LEMMA WorkerCollectionFinishHome ==
  ASSUME HomesInv, SessionInv', NEW w \in Worker, WorkerCollectionFinish(w)
  PROVE  HomesInv'
<1> DEFINE s == AddNodeCollection(sched, w)
           s2 == IF CollectionCompleted(s) /\ s.raised = None THEN Schedule(s) ELSE s
           after == IF shuttingdown THEN sched ELSE s2
           added == CollectionAdded(sched, w)
<1>1. /\ Take(w, "collectionfinish") /\ Return(after, shuttingdown)
      /\ UNCHANGED <<config, active_nodes, phase, nextitem, running, began>>
  BY DEF WorkerCollectionFinish
<1>2. /\ sched \in Sched /\ Sound(Ahead, sched) /\ shuttingdown \in BOOLEAN
      /\ phase \in [Worker -> Phase]
      /\ Undisturbed => Tidy(Ahead, Home, Steady, sched)
  BY <1>1, HeardHome
<1>3. Ahead' = Ahead
  BY <1>1, <1>2, AheadAfter DEF Complete, HomesInv
<1>4. s \in Sched /\ Sound(Ahead, s) /\ s.collected = sched.collected
  <2>1. \/ s.raised # None /\ From(Ahead, sched, s)
        \/ From(Ahead, added, s)
    BY <1>2, AddNodeCollectionKeeps
  <2>2. added.collected = sched.collected
    BY <1>2 DEF CollectionAdded, Sched
  <2>3. QED
    BY <2>1, <2>2 DEF From, Sound, Shape, Same
<1>5. Undisturbed => Tidy(Ahead, Home, Steady, s)
  BY <1>2, AddNodeCollectionTidy
<1> HIDE DEF s
<1>6. Undisturbed => Tidy(Ahead, Home, Steady, Schedule(s))
  <2>1. ~s.collected => \A v \in Worker : Home[v] = {}
    BY <1>4 DEF HomesInv, BegunLate
  <2>2. QED
    BY <1>5, <2>1, ScheduleTidy
<1>7. Schedule(s) \in Sched /\ Schedule(s).collected
  <2>1. From(Ahead, Scheduled(s), Schedule(s))
    BY <1>4, ScheduleKeeps
  <2>2. Scheduled(s).collected
    BY <1>4 DEF Scheduled, Sched
  <2>3. QED
    BY <2>1, <2>2 DEF From, Sound, Shape, Same
<1>8. /\ after \in Sched /\ (sched.collected => after.collected)
      /\ Undisturbed => Tidy(Ahead, Home, Steady, after)
  BY <1>2, <1>4, <1>5, <1>6, <1>7
<1> HIDE DEF after
<1>9. AliveBounded'
  BY <1>1 DEF HomesInv, AliveBounded
<1>10. QED
  BY <1>1, <1>3, <1>8, <1>9, HandlerHome

LEMMA WorkerTestCompleteHome ==
  ASSUME HomesInv, SessionInv', NEW w \in Worker, WorkerTestComplete(w)
  PROVE  HomesInv'
<1> DEFINE t == Head(events[w])[2]
           after == MarkTestComplete(sched, w, t)
<1>1. /\ Take(w, Complete) /\ Return(after, shuttingdown)
      /\ UNCHANGED <<config, active_nodes, phase, nextitem, running, began>>
  BY DEF WorkerTestComplete, Complete
<1>2. /\ sched \in Sched /\ Sound(Ahead, sched) /\ phase \in [Worker -> Phase]
      /\ Undisturbed => Tidy(Ahead, Home, Steady, sched)
  BY <1>1, HeardHome
<1>3. /\ t \in Ahead[w]
      /\ \A v \in Worker : Ahead'[v] = IF v = w THEN Ahead[w] \ {t} ELSE Ahead[v]
  BY <1>1, <1>2, AheadAfter DEF HomesInv
<1> HIDE DEF t
<1>4. after \in Sched /\ after.collected = sched.collected
  <2>1. From(Ahead', Marked(sched, w, t), after)
    BY <1>2, <1>3, MarkTestCompleteKeeps
  <2>2. Marked(sched, w, t).collected = sched.collected
    BY <1>2 DEF Marked, Sched
  <2>3. QED
    BY <2>1, <2>2 DEF From, Sound, Shape, Same
<1>5. Undisturbed => Tidy(Ahead', Home, Steady, after)
  BY <1>2, <1>3, MarkTestCompleteTidy
<1> HIDE DEF after
<1>6. AliveBounded'
  BY <1>1 DEF HomesInv, AliveBounded
<1>7. QED
  BY <1>1, <1>4, <1>5, <1>6, HandlerHome

(* A worker is only replaced when it no longer counts. *)
LEMMA ReplacedHome ==
  ASSUME HomesInv, NEW w \in active_nodes, Replacing(w), UNCHANGED config
  PROVE  /\ AliveBounded'
         /\ \A v \in Worker : phase'[v] = phase[v] \/ (phase[v] = "unborn" /\ phase'[v] = "starting")
<1> DEFINE rest == active_nodes \ {w}
<1>1. IsFiniteSet(active_nodes) /\ Cardinality(active_nodes) <= config.n /\ config.n \in Nat
  BY ConfigsShape DEF HomesInv, AliveBounded, SessionInv, SessionTypes
<1>2. Cardinality(active_nodes) \in Nat
  BY <1>1, FS_CardinalityType
<1>3. IsFiniteSet(rest) /\ Cardinality(rest) = Cardinality(active_nodes) - 1
  BY <1>1, FS_RemoveElement
<1>4. phase \in [Worker -> Phase]
  BY DEF HomesInv, SessionInv, SessionTypes
<1> HIDE DEF rest
<1>5. CASE active_nodes' = rest /\ UNCHANGED phase
  BY <1>1, <1>2, <1>3, <1>5 DEF AliveBounded
<1>6. ASSUME NEW clone \in Worker, NewWorker(clone),
             active_nodes' = rest \cup {clone}, Become(clone, "starting")
      PROVE  /\ AliveBounded'
             /\ \A v \in Worker : phase'[v] = phase[v] \/ (phase[v] = "unborn" /\ phase'[v] = "starting")
  <2>1. phase[clone] = "unborn" /\ phase' = [phase EXCEPT ![clone] = "starting"]
    BY <1>6 DEF NewWorker, Born, Become
  <2>2. IsFiniteSet(rest \cup {clone}) /\ Cardinality(rest \cup {clone}) <= Cardinality(rest) + 1
    <3>1. Cardinality(rest) \in Nat
      BY <1>3, FS_CardinalityType
    <3>2. /\ IsFiniteSet(rest \cup {clone})
          /\ Cardinality(rest \cup {clone}) =
               IF clone \in rest THEN Cardinality(rest) ELSE Cardinality(rest) + 1
      BY <1>3, FS_AddElement
    <3>3. QED
      BY <3>1, <3>2
  <2>3. AliveBounded'
    <3>1. Cardinality(rest \cup {clone}) \in Nat
      BY <2>2, FS_CardinalityType
    <3>2. Cardinality(rest \cup {clone}) <= config.n
      BY <1>1, <1>2, <1>3, <2>2, <3>1
    <3>3. QED
      BY <1>6, <2>2, <3>2 DEF AliveBounded
  <2>4. QED
    BY <1>4, <2>1, <2>3
<1>7. QED
  BY <1>5, <1>6 DEF Replacing, rest

LEMMA WorkerFinishedHome ==
  ASSUME HomesInv, SessionInv', NEW w \in Worker, WorkerFinished(w)
  PROVE  HomesInv'
<1> DEFINE known == Contains(sched.nodes, w)
           lost == known /\ Pending(sched, w) # {}
           failed == [sched EXCEPT !.raised = "AssertionError"]
           s == IF lost THEN failed ELSE IF known THEN RemoveNode(sched, w) ELSE sched
           after == [s EXCEPT !.clones = @ \ {w}]
<1>1. /\ Take(w, "workerfinished") /\ Return(after, shuttingdown) /\ Replacing(w)
      /\ UNCHANGED <<config, nextitem, running, began>>
  BY DEF WorkerFinished, Replacing
<1>2. /\ w \in active_nodes /\ sched \in Sched /\ Sound(Ahead, sched)
      /\ phase \in [Worker -> Phase]
      /\ Undisturbed => Tidy(Ahead, Home, Steady, sched)
  BY <1>1, HeardHome
<1>3. /\ AliveBounded'
      /\ \A v \in Worker : phase'[v] = phase[v] \/ (phase[v] = "unborn" /\ phase'[v] = "starting")
  BY <1>1, <1>2, ReplacedHome
<1>4. Ahead' = Ahead
  BY <1>1, <1>2, <1>3, AheadAfter DEF Complete, HomesInv
<1>5. /\ failed \in Sched /\ failed.active = sched.active /\ failed.next = sched.next
      /\ failed.standby = sched.standby /\ failed.current = sched.current
      /\ failed.nodes = sched.nodes /\ failed.assigned = sched.assigned
      /\ failed.completed = sched.completed /\ failed.collected = sched.collected
      /\ failed.torun = sched.torun /\ failed.queue = sched.queue
  BY <1>2 DEF Sched
<1> HIDE DEF failed
<1>6. Undisturbed => Tidy(Ahead, Home, Steady, s)
  <2> SUFFICES ASSUME Undisturbed PROVE Tidy(Ahead, Home, Steady, s)
    OBVIOUS
  <2>1. Tidy(Ahead, Home, Steady, failed)
    BY <1>2, <1>5, SamePlacesTidy
  <2>2. known /\ ~lost => Tidy(Ahead, Home, Steady, RemoveNode(sched, w))
    BY <1>2, RemoveNodeTidy
  <2>3. QED
    BY <1>2, <2>1, <2>2
<1>7. s \in Sched /\ s.collected = sched.collected
  <2>1. CASE known /\ ~lost
    <3>1. From(Ahead, Left(sched, w), RemoveNode(sched, w))
      BY <1>2, <2>1, RemoveNodeKeeps
    <3>2. Left(sched, w).collected = sched.collected
      BY <1>2, LeftFacts
    <3>3. QED
      BY <2>1, <3>1, <3>2 DEF From, Sound, Shape, Same
  <2>2. CASE ~(known /\ ~lost)
    BY <1>2, <1>5, <2>2
  <2>3. QED
    BY <2>1, <2>2
<1> HIDE DEF s
<1>8. /\ after \in Sched /\ after.active = s.active /\ after.next = s.next
      /\ after.standby = s.standby /\ after.current = s.current
      /\ after.nodes = s.nodes /\ after.assigned = s.assigned
      /\ after.completed = s.completed /\ after.collected = s.collected
      /\ after.torun = s.torun /\ after.queue = s.queue
  BY <1>7 DEF Sched
<1> HIDE DEF after
<1>9. Undisturbed => Tidy(Ahead, Home, Steady, after)
  BY <1>6, <1>8, SamePlacesTidy
<1>10. QED
  BY <1>1, <1>3, <1>4, <1>7, <1>8, <1>9, HandlerHome

(* A worker that dies has nothing in front of it when that is heard, and    *)
(* with one worker asked for nobody is left.                               *)
LEMMA LastOneDies ==
  ASSUME HomesInv, NEW w \in Worker, Take(w, "errordown")
  PROVE  /\ phase[w] = "crashed" /\ Ahead[w] = {} /\ sched.torun[w] = <<>>
         /\ Undisturbed => ToSet(sched.nodes) \subseteq {w} /\ active_nodes \subseteq {w}
<1>1. /\ ~aborted /\ w \in active_nodes /\ 1 \in DOMAIN events[w] /\ events[w][1][1] = "errordown"
      /\ sched \in Sched
  BY HeardHome
<1>2. phase[w] = "crashed" /\ Len(events[w]) = 1
  BY <1>1 DEF HomesInv, SessionInv, EventsInOrder
<1>3. Ahead[w] = {} /\ sched.torun[w] = <<>>
  <2>1. sched.torun[w] = <<>> /\ running[w] = None /\ Upcoming(w) = {}
    BY <1>2 DEF HomesInv, SessionInv, ProcessShape, Upcoming
  <2>2. DOMAIN events[w] = {1}
    BY <1>2, TakeFacts DEF HomesInv, SessionInv
  <2>3. Reported(w) = {}
    BY <1>1, <2>2 DEF Reported, Complete
  <2>4. QED
    BY <2>1, <2>3, AheadMeans
<1>4. ~Steady
  BY <1>2 DEF Steady, Crashed
<1>5. Undisturbed => active_nodes \subseteq {w}
  <2> SUFFICES ASSUME config.n = 1, NEW v \in active_nodes, v # w PROVE FALSE
    BY <1>4 DEF Undisturbed, Steady
  <2>1. IsFiniteSet(active_nodes) /\ {v, w} \in SUBSET active_nodes
    BY <1>1 DEF HomesInv, AliveBounded
  <2>2. Cardinality({v, w}) <= Cardinality(active_nodes)
    BY <2>1, FS_Subset
  <2>3. Cardinality({v, w}) = 2
    <3>1. IsFiniteSet({v}) /\ Cardinality({v}) = 1
      BY FS_Singleton
    <3>2. Cardinality({v} \cup {w}) = Cardinality({v}) + 1
      BY <3>1, FS_AddElement
    <3>3. {v} \cup {w} = {v, w}
      OBVIOUS
    <3>4. QED
      BY <3>1, <3>2, <3>3
  <2>4. Cardinality(active_nodes) <= 1 /\ Cardinality(active_nodes) \in Nat
    BY <2>1, FS_CardinalityType DEF HomesInv, AliveBounded
  <2>5. QED
    BY <2>2, <2>3, <2>4
<1>6. ToSet(sched.nodes) \subseteq active_nodes
  <2> SUFFICES ASSUME NEW v \in ToSet(sched.nodes) PROVE v \in active_nodes
    OBVIOUS
  <2>1. v \in Worker
    BY <1>1, NonEmptyFacts DEF Sched
  <2>2. QED
    BY <1>1, <2>1 DEF HomesInv, SessionInv, EveryoneCounted, ProcessShape
<1>7. QED
  BY <1>2, <1>3, <1>5, <1>6

LEMMA WorkerErrorDownHome ==
  ASSUME HomesInv, SessionInv', NEW w \in Worker, WorkerErrorDown(w)
  PROVE  HomesInv'
<1> DEFINE left == RemoveNode(sched, w)
           s == Forgiven(left)
           over == failed_nodes' > config.restarts
           after == IF over /\ ~shuttingdown THEN ShutdownAll(s) ELSE s
<1>1. /\ Take(w, "errordown") /\ Return(after, over) /\ Replacing(w)
      /\ UNCHANGED <<config, nextitem, running, began>>
  <2>1. CASE over
    BY <2>1 DEF WorkerErrorDown, Replacing
  <2>2. CASE ~over
    <3>1. over = FALSE /\ after = s
      BY <2>2
    <3> HIDE DEF after, over
    <3>2. Take(w, "errordown") /\ Return(s, FALSE) /\ Replacing(w)
          /\ UNCHANGED <<config, nextitem, running, began>>
      BY <2>2 DEF WorkerErrorDown, Replacing, over
    <3>3. QED
      BY <3>1, <3>2
  <2>3. QED
    BY <2>1, <2>2
<1>2. /\ ~aborted /\ w \in active_nodes /\ 1 \in DOMAIN events[w] /\ events[w][1][1] = "errordown"
      /\ sched \in Sched /\ Sound(Ahead, sched) /\ phase \in [Worker -> Phase]
      /\ Undisturbed => Tidy(Ahead, Home, Steady, sched)
  BY <1>1, HeardHome
<1>3. /\ AliveBounded'
      /\ \A v \in Worker : phase'[v] = phase[v] \/ (phase[v] = "unborn" /\ phase'[v] = "starting")
  BY <1>1, <1>2, ReplacedHome
<1>4. Ahead' = Ahead
  BY <1>1, <1>2, <1>3, AheadAfter DEF Complete, HomesInv
<1>5. ~Steady /\ Ahead[w] = {} /\ sched.torun[w] = <<>>
      /\ (Undisturbed => ToSet(sched.nodes) \subseteq {w})
  BY <1>1, LastOneDies DEF Steady, Crashed
<1>6. Undisturbed => Tidy(Ahead, Home, Steady, left)
  BY <1>2, <1>5, RemoveNodeTidy
<1>7. left \in Sched /\ left.collected = sched.collected
  <2>1. From(Ahead, Left(sched, w), left)
    BY <1>2, <1>5, RemoveNodeKeeps
  <2>2. Left(sched, w).collected = sched.collected
    BY <1>2, LeftFacts
  <2>3. QED
    BY <2>1, <2>2 DEF From, Sound, Shape, Same
<1> HIDE DEF left
<1>8. /\ s \in Sched /\ s.active = left.active /\ s.next = left.next
       /\ s.standby = left.standby /\ s.current = left.current
       /\ s.nodes = left.nodes /\ s.assigned = left.assigned
       /\ s.completed = left.completed /\ s.collected = left.collected
       /\ s.torun = left.torun /\ s.queue = left.queue
  BY <1>7 DEF Sched, Forgiven
<1> HIDE DEF s
<1>9. Undisturbed => Tidy(Ahead, Home, Steady, s)
  BY <1>6, <1>8, SamePlacesTidy
<1>10. ToSet(s.nodes) \in SUBSET Worker
  BY <1>8, NonEmptyFacts DEF Sched
<1>11. /\ ShutdownAll(s).collected = s.collected
       /\ Undisturbed => Tidy(Ahead, Home, Steady, ShutdownAll(s))
  BY <1>8, <1>9, <1>10, ShutdownFrame, ShutdownTidy DEF ShutdownAll
<1>12. after \in Sched
  <2>1. Sound(Ahead, s)
    <3>1. From(Ahead, Left(sched, w), left)
      BY <1>2, <1>5, RemoveNodeKeeps DEF left
    <3>2. From(Ahead, left, [left EXCEPT !.raised = None])
      BY <3>1, RaisedKeeps DEF From
    <3>3. QED
      BY <3>1, <3>2 DEF Forgiven, From, s
  <2>2. From(Ahead, s, ShutdownAll(s))
    BY <1>10, <2>1, ShutdownKeeps DEF ShutdownAll
  <2>3. QED
    BY <1>8, <2>2 DEF From, Sound, Shape
<1>13. /\ sched.collected => after.collected
       /\ Undisturbed => Tidy(Ahead, Home, Steady, after)
  BY <1>7, <1>8, <1>9, <1>11
<1> HIDE DEF after, over
<1>14. QED
  BY <1>1, <1>3, <1>4, <1>12, <1>13, HandlerHome

LEMMA HomesNext == HomesInv /\ [Next]_vars => HomesInv'
<1> SUFFICES ASSUME HomesInv, [Next]_vars PROVE HomesInv'
  OBVIOUS
<1>1. SessionInv'
  BY SessionNext DEF HomesInv
<1>2. CASE UNCHANGED vars
  BY <1>1, <1>2, ReceiveEndHome
<1>3. ASSUME NEW w \in Worker, WorkerStep(w) \/ Crash(w) \/ ReceiveEnd(w)
      PROVE  HomesInv'
  BY <1>1, <1>3, WorkerEventsHome, WorkerGetsHome, CrashHome, ReceiveEndHome DEF WorkerStep
<1>4. ASSUME NEW w \in Worker, HandleEvent(w)
      PROVE  HomesInv'
  BY <1>1, <1>4, WorkerReadyHome, WorkerCollectionFinishHome, WorkerTestCompleteHome,
     WorkerFinishedHome, WorkerErrorDownHome DEF HandleEvent
<1>5. QED
  BY <1>2, <1>3, <1>4 DEF Next, SessionOver

LEMMA HomesInvariant == Spec => []HomesInv
BY HomesInit, HomesNext, PTL DEF Spec

(* Every file is run in one process of its own, as pytest-xdist-isolation  *)
(* promises, for any number of workers as long as none dies, and for a     *)
(* single worker whatever dies: the spare workers stand in line with       *)
(* nothing sent to them (isolation.py), and the one file that is under way *)
(* stays where its first test began.                                       *)
THEOREM OwnProcess == Spec => []IsolatedUndisturbed
<1>1. HomesInv => IsolatedUndisturbed
  <2> SUFFICES ASSUME Homely(Home, Steady, sched), NEW w \in Worker, NEW t \in began[w],
                      NEW u \in began[w]
               PROVE  FileOf[t] = FileOf[u]
    BY DEF IsolatedUndisturbed, Isolated, HomesInv, FilesAtHome
  <2>1. {t, u} \subseteq Work(Home, sched, w)
    BY DEF Work, Home
  <2>2. QED
    BY <2>1 DEF Homely, OneFile
<1>2. QED
  BY <1>1, HomesInvariant, PTL

(* However workers finish, die and are replaced (_clone_node), no more     *)
(* than -n of them count as alive at a time.                               *)
THEOREM NoMoreThanAsked == Spec => []AliveBounded
<1>1. HomesInv => AliveBounded
  BY DEF HomesInv
<1>2. QED
  BY <1>1, HomesInvariant, PTL
------------------------------------------------------------------------------
(***************************************************************************)
(* The promise is kept: while nobody dies, a session is a run of           *)
(* SerialFiles.  What has begun is through, reported or running.           *)
(***************************************************************************)
NoDeaths == \A c \in Configs : c.deaths = 0

Done(w) == Reported(w) \cup ({running[w]} \ {None})

BegunAccounts ==
  /\ \A w \in Worker : Done(w) \subseteq began[w] /\ began[w] \subseteq sched.completed \cup Done(w)
  /\ sched.completed \subseteq UNION {began[w] : w \in Worker}

SerialInv == HomesInv /\ Steady /\ BegunAccounts

LEMMA SerialInit == Init => SerialInv
<1> SUFFICES ASSUME Init PROVE SerialInv
  OBVIOUS
<1>1. HomesInv
  BY HomesInit
<1>2. Steady
  BY DEF Init, Steady, Crashed
<1>3. \A w \in Worker : Done(w) = {} /\ began[w] = {}
  BY DEF Init, Done, Reported
<1>4. sched.completed = {}
  BY DEF Init, InitSched
<1>5. QED
  BY <1>1, <1>2, <1>3, <1>4 DEF SerialInv, BegunAccounts

(* A report on its way, and its arrival. *)
LEMMA AccountsStay ==
  ASSUME BegunAccounts, UNCHANGED began,
         \A w \in Worker : /\ Done(w)' \subseteq Done(w)
                           /\ Done(w) \subseteq Done(w)' \cup sched'.completed,
         sched.completed \subseteq sched'.completed,
         sched'.completed \subseteq sched.completed \cup UNION {Done(w) : w \in Worker}
  PROVE  BegunAccounts'
<1>1. \A w \in Worker : /\ Done(w)' \subseteq began'[w]
                        /\ began'[w] \subseteq sched'.completed \cup Done(w)'
  BY DEF BegunAccounts
<1>2. sched'.completed \subseteq UNION {began'[w] : w \in Worker}
  <2>1. UNION {Done(w) : w \in Worker} \subseteq UNION {began[w] : w \in Worker}
    BY DEF BegunAccounts
  <2>2. QED
    BY <2>1 DEF BegunAccounts
<1>3. QED
  BY <1>1, <1>2 DEF BegunAccounts

LEMMA EmitAccounts ==
  ASSUME SerialInv, NEW w \in Worker,
         SessionStart(w) \/ CollectionFinish(w) \/ SessionFinish(w)
  PROVE  BegunAccounts' /\ UNCHANGED <<began, running>>
<1>1. PICK name \in {"workerready", "collectionfinish", "workerfinished"} :
        Emit(w, <<name, None>>) /\ UNCHANGED <<began, running, sched>>
  BY DEF SessionStart, CollectionFinish, SessionFinish, controller
<1>2. Reported(w)' = Reported(w)
  <2>1. <<name, None>> \in EventName \X (Test \cup {None})
    BY DEF EventName
  <2>2. <<name, None>>[1] # Complete
    BY DEF Complete
  <2> HIDE DEF EventName, Complete
  <2>3. QED
    BY <1>1, <2>1, <2>2, OtherReports DEF SerialInv, HomesInv, SessionInv
<1>3. \A v \in Worker : v # w => Reported(v)' = Reported(v)
  <2>1. events \in [Worker -> Seq(EventName \X (Test \cup {None}))]
    BY DEF SerialInv, HomesInv, SessionInv, SessionTypes
  <2>2. \A v \in Worker : v # w => events'[v] = events[v]
    BY <1>1, <2>1 DEF Emit
  <2>3. QED
    BY <2>2 DEF Reported
<1>4. \A v \in Worker : Done(v)' = Done(v)
  BY <1>1, <1>2, <1>3 DEF Done
<1>5. QED
  BY <1>1, <1>4, AccountsStay DEF SerialInv

LEMMA BeginAccounts ==
  ASSUME SerialInv, NEW w \in Worker, BeginTest(w)
  PROVE  BegunAccounts'
<1> DEFINE t == nextitem[w]
<1>1. /\ began \in [Worker -> SUBSET Test] /\ running \in [Worker -> Test \cup {None}]
      /\ sched \in Sched
  BY DEF SerialInv, HomesInv, SessionInv, SessionTypes, SchedulerSound, Sound, Shape
<1>2. /\ running' = [running EXCEPT ![w] = t] /\ began' = [began EXCEPT ![w] = @ \cup {t}]
      /\ running[w] = None /\ events' = events
  BY DEF BeginTest
<1>3. sched'.completed = sched.completed
  BY <1>1 DEF BeginTest, Get, Sched
<1>4. t # None
  BY DEF BeginTest, SerialInv, HomesInv, SessionInv, ProcessShape
<1> HIDE DEF t
<1>5. \A v \in Worker : Reported(v)' = Reported(v)
  BY <1>2 DEF Reported
<1>6. /\ Done(w)' = Done(w) \cup {t} /\ began'[w] = began[w] \cup {t}
      /\ \A v \in Worker : v # w => Done(v)' = Done(v) /\ began'[v] = began[v]
  BY <1>1, <1>2, <1>4, <1>5 DEF Done
<1>7. \A v \in Worker : /\ Done(v)' \subseteq began'[v]
                        /\ began'[v] \subseteq sched'.completed \cup Done(v)'
  BY <1>3, <1>6 DEF SerialInv, BegunAccounts
<1>8. sched'.completed \subseteq UNION {began'[v] : v \in Worker}
  <2>1. \A v \in Worker : began[v] \subseteq began'[v]
    BY <1>6
  <2>2. QED
    BY <1>3, <2>1 DEF SerialInv, BegunAccounts
<1>9. QED
  BY <1>7, <1>8 DEF BegunAccounts

LEMMA EndAccounts ==
  ASSUME SerialInv, NEW w \in Worker, EndTest(w)
  PROVE  BegunAccounts'
<1> DEFINE t == running[w]
           e == <<Complete, t>>
<1>1. /\ SessionTypes /\ t \in Test \cup {None} /\ t # None /\ None \notin Test
      /\ running \in [Worker -> Test \cup {None}]
  BY NoTestTwice DEF EndTest, SerialInv, HomesInv, SessionInv, SessionTypes
<1>2. /\ Emit(w, e) /\ UNCHANGED <<began, sched>>
      /\ running' = [running EXCEPT ![w] = None]
  BY DEF EndTest, controller, Complete
<1> HIDE DEF t
<1>3. e \in EventName \X (Test \cup {None})
  BY <1>1 DEF EventName
<1>4. /\ \A v \in Worker : v # w => events'[v] = events[v]
      /\ DOMAIN events'[w] = DOMAIN events[w] \cup {Len(events'[w])}
      /\ \A i \in DOMAIN events[w] : events'[w][i] = events[w][i]
      /\ events'[w][Len(events'[w])] = e
  BY <1>1, <1>2, <1>3, EmitFacts
<1> HIDE DEF EventName, Complete
<1>5. Reported(w)' = Reported(w) \cup {t}
  <2>1. \A u \in Test : e = <<Complete, u>> <=> u = t
    OBVIOUS
  <2> HIDE DEF e
  <2>2. QED
    BY <1>1, <1>4, <2>1 DEF Reported
<1>6. \A v \in Worker : v # w => Done(v)' = Done(v)
  BY <1>1, <1>2, <1>4 DEF Done, Reported
<1>7. Done(w)' = Done(w)
  BY <1>1, <1>2, <1>5 DEF Done, t
<1>8. QED
  BY <1>2, <1>6, <1>7, AccountsStay DEF SerialInv

LEMMA EventAccounts ==
  ASSUME SerialInv, NEW w \in Worker, HandleEvent(w)
  PROVE  BegunAccounts' /\ UNCHANGED <<began, running>>
<1>1. PICK name, base, after : \E stopping \in BOOLEAN : Handled(w, name, base, after, stopping)
  BY EventHandled DEF HandledBy, SerialInv, HomesInv
<1>2. /\ Take(w, name) /\ UNCHANGED <<running, began>>
      /\ base.completed = sched.completed \cup Reports(w, name)
  BY <1>1 DEF Handled, Booked
<1>3. sched'.completed = base.completed
  BY <1>1, LoopReturns DEF Handled, From, Same
<1>4. /\ \A v \in Worker : v # w => Done(v)' = Done(v)
      /\ Done(w)' \subseteq Done(w) /\ Done(w) \subseteq Done(w)' \cup Reports(w, name)
      /\ Reports(w, name) \subseteq Done(w)
  BY <1>2, ReportedAfter DEF Done, SerialInv, HomesInv
<1>5. QED
  BY <1>2, <1>3, <1>4, AccountsStay DEF SerialInv

LEMMA NobodyDies ==
  ASSUME NoDeaths, SerialInv, NEW w \in Worker, Crash(w)
  PROVE  FALSE
<1>1. Cardinality(Crashed) < config.deaths
  BY DEF Crash
<1>2. Crashed = {} /\ config.deaths = 0
  BY DEF SerialInv, Steady, NoDeaths, HomesInv, SessionInv, SessionTypes
<1>3. QED
  BY <1>1, <1>2, FS_EmptySet

LEMMA SerialNext == NoDeaths /\ SerialInv /\ [Next]_vars => SerialInv'
<1> SUFFICES ASSUME NoDeaths, SerialInv, [Next]_vars PROVE SerialInv'
  OBVIOUS
<1>1. HomesInv'
  BY HomesNext DEF SerialInv
<1>2. ASSUME NEW w \in Worker, Crash(w) PROVE FALSE
  BY <1>2, NobodyDies
<1>3. ASSUME UNCHANGED vars
      PROVE  BegunAccounts' /\ UNCHANGED phase
  <2>1. UNCHANGED <<events, running, began, sched, phase>>
    BY <1>3 DEF vars, controller
  <2>2. \A w \in Worker : Done(w)' = Done(w)
    BY <2>1 DEF Done, Reported
  <2>3. QED
    BY <2>1, <2>2, AccountsStay DEF SerialInv
<1>4. ASSUME NEW w \in Worker, EnterLoop(w) \/ ReceiveEnd(w)
      PROVE  BegunAccounts'
  <2>1. UNCHANGED <<events, running, began>> /\ sched'.completed = sched.completed
    BY <1>4 DEF EnterLoop, Get, ReceiveEnd, SerialInv, HomesInv, SessionInv, SchedulerSound,
                Sound, Shape, Sched
  <2>2. \A v \in Worker : Done(v)' = Done(v)
    BY <2>1 DEF Done, Reported
  <2>3. QED
    BY <2>1, <2>2, AccountsStay DEF SerialInv
<1>5. BegunAccounts'
  <2>1. ASSUME NEW w \in Worker, WorkerStep(w) \/ Crash(w) \/ ReceiveEnd(w) \/ HandleEvent(w)
        PROVE  BegunAccounts'
    BY <1>2, <1>4, <2>1, EmitAccounts, BeginAccounts, EndAccounts, EventAccounts DEF WorkerStep
  <2>2. QED
    BY <1>3, <2>1 DEF Next, SessionOver
<1>6. Steady'
  <2>1. \A w \in Worker : phase'[w] = "crashed" => phase[w] = "crashed"
    <3>1. phase \in [Worker -> Phase]
      BY DEF SerialInv, HomesInv, SessionInv, SessionTypes
    <3>2. ASSUME NEW w \in Worker, WorkerStep(w) \/ ReceiveEnd(w)
          PROVE  \A v \in Worker : phase'[v] = "crashed" => phase[v] = "crashed"
      BY <3>1, <3>2 DEF WorkerStep, SessionStart, CollectionFinish, EnterLoop, BeginTest,
                        EndTest, SessionFinish, ReceiveEnd, Become
    <3>3. ASSUME NEW w \in Worker, HandleEvent(w)
          PROVE  \A v \in Worker : phase'[v] = "crashed" => phase[v] = "crashed"
      BY <3>3, EventHandled DEF HandledBy, Handled, Staffed, SerialInv, HomesInv
    <3>4. QED
      BY <1>2, <1>3, <3>2, <3>3 DEF Next, SessionOver
  <2>2. QED
    BY <2>1 DEF SerialInv, Steady, Crashed
<1>7. QED
  BY <1>1, <1>5, <1>6 DEF SerialInv

(***************************************************************************)
(* The refinement mapping, by name.                                        *)
(***************************************************************************)
OneOf(S) == CHOOSE w \in S : TRUE
Processes == [f \in TestFile |-> IF HomesOf(f) = {} THEN None ELSE OneOf(HomesOf(f))]
FilesRun ==
  {f \in TestFile : /\ TestsOf(f) \subseteq UNION {began[w] : w \in Worker}
                    /\ \A w \in Worker : running[w] \notin TestsOf(f)}

LEMMA FilesStay ==
  ASSUME UNCHANGED <<began, running>>
  PROVE  UNCHANGED <<Processes, FilesRun>>
BY DEF Processes, FilesRun, HomesOf

LEMMA ProcessesMean ==
  ASSUME NEW f \in TestFile
  PROVE  /\ Processes[f] = None <=> HomesOf(f) = {}
         /\ HomesOf(f) # {} => Processes[f] \in HomesOf(f)
<1>1. \A w \in HomesOf(f) : w # None
  BY WorkerNumbers DEF HomesOf
<1>2. CASE HomesOf(f) = {}
  BY <1>2 DEF Processes
<1>3. CASE HomesOf(f) # {}
  <2>1. OneOf(HomesOf(f)) \in HomesOf(f)
    BY <1>3 DEF OneOf
  <2>2. Processes[f] = OneOf(HomesOf(f))
    BY <1>3 DEF Processes
  <2>3. QED
    BY <1>1, <1>3, <2>1, <2>2
<1>4. QED
  BY <1>2, <1>3

(* The file a worker begins a test of is the only one under way.           *)
LEMMA BeginningFacts ==
  ASSUME SerialInv, NEW w \in Worker, BeginTest(w)
  PROVE  LET t == nextitem[w]
             f == FileOf[t]
         IN  /\ t \in Test /\ f \in TestFile /\ t \in TestsOf(f)
             /\ \A v \in Worker : t \notin began[v]
             /\ HomesOf(f) \subseteq {w}
             /\ \A u \in began[w] : FileOf[u] = f
             /\ \A g \in TestFile : g # f /\ HomesOf(g) # {} => TestsOf(g) \subseteq sched.completed
<1> DEFINE t == nextitem[w]
           f == FileOf[t]
<1>1. /\ SessionInv /\ Homely(Home, Steady, sched) /\ Steady /\ BegunAccounts /\ BegunLate
      /\ TestsSent(Ahead, sched) /\ FilesPlaced(sched)
  BY DEF SerialInv, HomesInv, FilesAtHome, Undisturbed, Steady, SessionInv, SchedulerSound, Sound
<1>2. /\ phase[w] = "loop" /\ running[w] = None /\ t # SHUTDOWN /\ t # None
      /\ began \in [Worker -> SUBSET Test]
  BY <1>1 DEF BeginTest, SessionInv, ProcessShape, SessionTypes
<1> HIDE DEF t
<1>3. t \in Upcoming(w) /\ t \in Ahead[w] /\ t \in Home[w]
  BY <1>2 DEF Upcoming, Ahead, Home, t
<1>4. t \in Test \ sched.completed /\ f \in Held(sched, w) /\ f \in TestFile /\ t \in TestsOf(f)
  BY <1>1, <1>3 DEF TestsSent, TestFile, TestsOf
<1>5. sched.collected /\ Open(sched, f)
  <2>1. sched.collected
    BY <1>1, <1>3 DEF BegunLate
  <2>2. QED
    BY <1>4, <2>1 DEF Open
<1> HIDE DEF f
<1>6. ASSUME NEW v \in Worker, NEW u \in began[v], Open(sched, FileOf[u])
      PROVE  v = w /\ FileOf[u] = f
  <2>1. OneAtATime(Home, sched)
    BY <1>1 DEF Homely
  <2>2. u \in Home[v]
    BY <1>6 DEF Home
  <2>3. FileOf[u] \in Held(sched, v)
    BY <1>6, <2>1, <2>2 DEF OneAtATime
  <2>4. v = sched.active /\ w = sched.active
    BY <1>4, <2>1, <2>3 DEF OneAtATime
  <2>5. QED
    BY <1>4, <2>1, <2>3, <2>4 DEF OneAtATime
<1>7. ASSUME NEW v \in Worker, t \in began[v]
      PROVE  FALSE
  <2>1. v = w
    BY <1>5, <1>6, <1>7 DEF f
  <2>2. t \in Reported(w)
    BY <1>1, <1>2, <1>4, <1>7, <2>1 DEF BegunAccounts, Done
  <2>3. PICK i \in DOMAIN events[w] : events[w][i] = <<Complete, t>>
    BY <2>2 DEF Reported
  <2>4. events[w][i][1] = Complete /\ events[w][i][2] = t
    BY <2>3
  <2>5. QED
    BY <1>1, <1>3, <2>4 DEF SessionInv, EventsInOrder
<1>8. HomesOf(f) \subseteq {w}
  <2>1. ASSUME NEW v \in Worker, NEW u \in began[v] \cap TestsOf(f) PROVE v = w
    BY <1>5, <1>6 DEF TestsOf
  <2>2. QED
    BY <2>1 DEF HomesOf
<1>9. \A u \in began[w] : FileOf[u] = f
  <2>1. \A u \in began[w] : {t, u} \subseteq Work(Home, sched, w)
    BY <1>3 DEF Work, Home
  <2>2. QED
    BY <1>1, <2>1 DEF Homely, OneFile, f
<1>10. ASSUME NEW g \in TestFile, g # f, HomesOf(g) # {}
       PROVE  TestsOf(g) \subseteq sched.completed
  <2>1. PICK v \in Worker : \E u \in began[v] : u \in TestsOf(g)
    BY <1>10 DEF HomesOf
  <2>2. PICK u \in began[v] : u \in TestsOf(g)
    BY <2>1
  <2>3. FileOf[u] = g
    BY <2>2 DEF TestsOf
  <2>4. ~Open(sched, g)
    BY <1>6, <1>10, <2>3
  <2>5. QED
    BY <1>5, <2>4 DEF Open
<1>11. QED
  BY <1>4, <1>7, <1>8, <1>9, <1>10 DEF t, f

LEMMA BeginningServes ==
  ASSUME SerialInv, NEW w \in Worker, BeginTest(w)
  PROVE  Promise!StartFile \/ UNCHANGED <<Processes, FilesRun>>
<1>0. PICK t, f : t = nextitem[w] /\ f = FileOf[t]
  OBVIOUS
<1>1. /\ t \in Test /\ f \in TestFile /\ t \in TestsOf(f)
      /\ \A v \in Worker : t \notin began[v]
      /\ HomesOf(f) \subseteq {w}
      /\ \A u \in began[w] : FileOf[u] = f
      /\ \A g \in TestFile : g # f /\ HomesOf(g) # {} => TestsOf(g) \subseteq sched.completed
  BY <1>0, BeginningFacts
<1>2. /\ running \in [Worker -> Test \cup {None}] /\ began \in [Worker -> SUBSET Test]
      /\ None \notin Test /\ SessionInv /\ BegunAccounts
  BY NoTestTwice DEF SerialInv, HomesInv, SessionInv, SessionTypes
<1>3. /\ running' = [running EXCEPT ![w] = t] /\ began' = [began EXCEPT ![w] = @ \cup {t}]
      /\ running[w] = None
  BY <1>0 DEF BeginTest
<1>4. \A g : t \in TestsOf(g) <=> g = f
  BY <1>0, <1>1 DEF TestsOf
<1>5. /\ running'[w] = t /\ began'[w] = began[w] \cup {t}
      /\ \A v \in Worker : v # w => running'[v] = running[v] /\ began'[v] = began[v]
  BY <1>2, <1>3
<1>6. \A g : TestsOf(g) \subseteq Test
  BY DEF TestsOf
<1>7. FilesRun' = FilesRun
  <2>1. f \notin FilesRun /\ f \notin FilesRun'
    BY <1>1, <1>5 DEF FilesRun
  <2>2. ASSUME NEW g \in TestFile, g # f
        PROVE  g \in FilesRun' <=> g \in FilesRun
    <3>1. TestsOf(g) \subseteq UNION {began'[v] : v \in Worker}
          <=> TestsOf(g) \subseteq UNION {began[v] : v \in Worker}
      <4>1. \A u \in TestsOf(g) : \A v \in Worker : u \in began'[v] <=> u \in began[v]
        BY <1>4, <1>5, <2>2
      <4>2. QED
        BY <4>1
    <3>2. (\A v \in Worker : running'[v] \notin TestsOf(g))
          <=> (\A v \in Worker : running[v] \notin TestsOf(g))
      BY <1>2, <1>3, <1>4, <1>5, <1>6, <2>2
    <3>3. QED
      BY <3>1, <3>2 DEF FilesRun
  <2>3. QED
    BY <2>1, <2>2 DEF FilesRun
<1>8. \A g : g # f => HomesOf(g)' = HomesOf(g)
  <2>1. ASSUME NEW g, g # f, NEW v \in Worker
        PROVE  began'[v] \cap TestsOf(g) = began[v] \cap TestsOf(g)
    BY <1>4, <1>5, <2>1
  <2>2. QED
    BY <2>1 DEF HomesOf
<1>9. HomesOf(f)' = {w}
  <2>1. w \in HomesOf(f)'
    BY <1>1, <1>5 DEF HomesOf
  <2>2. ASSUME NEW v \in HomesOf(f)' PROVE v = w
    <3>1. v \in Worker /\ began'[v] \cap TestsOf(f) # {}
      BY DEF HomesOf
    <3>2. v # w => v \in HomesOf(f)
      BY <1>5, <3>1 DEF HomesOf
    <3>3. QED
      BY <1>1, <3>2
  <2>3. QED
    BY <2>1, <2>2
<1>10. Processes' = [g \in TestFile |-> IF g = f THEN w ELSE Processes[g]]
  <2>1. ASSUME NEW g \in TestFile
        PROVE  Processes'[g] = IF g = f THEN w ELSE Processes[g]
    <3>1. CASE g = f
      <4>1. OneOf(HomesOf(f)') = w
        BY <1>9 DEF OneOf
      <4>2. QED
        BY <1>9, <3>1, <4>1 DEF Processes
    <3>2. CASE g # f
      BY <1>8, <3>2 DEF Processes
    <3>3. QED
      BY <3>1, <3>2
  <2>2. Processes' = [g \in TestFile |-> Processes'[g]]
    BY DEF Processes
  <2>3. QED
    BY <2>1, <2>2
<1>11. CASE HomesOf(f) # {}
  <2>1. Processes[f] = w
    BY <1>1, <1>11, ProcessesMean
  <2>2. Processes = [g \in TestFile |-> Processes[g]]
    BY DEF Processes
  <2>3. QED
    BY <1>7, <1>10, <2>1, <2>2
<1>12. CASE HomesOf(f) = {}
  <2>1. {g \in TestFile : Processes[g] # None} \ FilesRun = {}
    <3> SUFFICES ASSUME NEW g \in TestFile, HomesOf(g) # {} PROVE g \in FilesRun
      BY ProcessesMean
    <3>1. TestsOf(g) \subseteq sched.completed
      BY <1>1, <1>12
    <3>2. TestsOf(g) \subseteq UNION {began[v] : v \in Worker}
      BY <1>2, <3>1 DEF BegunAccounts
    <3>3. ASSUME NEW v \in Worker, running[v] \in TestsOf(g) PROVE FALSE
      <4>1. running[v] \in Ahead[v]
        BY <1>2, <1>6, <3>3 DEF Ahead
      <4>2. running[v] \notin sched.completed
        BY <1>2, <4>1 DEF SessionInv, SchedulerSound, Sound, TestsSent
      <4>3. QED
        BY <3>1, <3>3, <4>2
    <3>4. QED
      BY <3>2, <3>3 DEF FilesRun
  <2>2. Processes[f] = None
    BY <1>1, <1>12, ProcessesMean
  <2>3. w \notin {Processes[g] : g \in TestFile}
    <3> SUFFICES ASSUME NEW g \in TestFile, Processes[g] = w PROVE FALSE
      OBVIOUS
    <3>1. w \in HomesOf(g)
      BY WorkerNumbers, ProcessesMean
    <3>2. PICK u \in began[w] : u \in TestsOf(g)
      BY <3>1 DEF HomesOf
    <3>3. g = f
      BY <1>1, <3>2 DEF TestsOf
    <3>4. QED
      BY <1>12, <3>1, <3>3
  <2>4. Processes' = [Processes EXCEPT ![f] = w]
    <3>1. Processes = [g \in TestFile |-> Processes[g]]
      BY DEF Processes
    <3>2. QED
      BY <1>10, <3>1
  <2>5. Promise!Underway = {}
    BY <2>1 DEF Promise!Underway, Processes, OneOf, FilesRun
  <2>6. f \in Promise!Waiting
    BY <1>1, <2>2 DEF Promise!Waiting, Processes, OneOf
  <2>7. w \in Promise!Fresh
    BY <2>3 DEF Promise!Fresh, Processes, OneOf
  <2>8. \E g \in Promise!Waiting, v \in Promise!Fresh : Processes' = [Processes EXCEPT ![g] = v]
    BY <2>4, <2>6, <2>7
  <2>9. QED
    BY <1>7, <2>5, <2>8 DEF Promise!StartFile, Processes, OneOf, FilesRun
<1>13. QED
  BY <1>11, <1>12

LEMMA EndingServes ==
  ASSUME SerialInv, NEW w \in Worker, EndTest(w)
  PROVE  Promise!FinishFile \/ UNCHANGED <<Processes, FilesRun>>
<1> DEFINE t == running[w]
           f == FileOf[t]
<1>1. /\ t \in Test /\ None \notin Test
      /\ running \in [Worker -> Test \cup {None}]
      /\ running' = [running EXCEPT ![w] = None] /\ UNCHANGED began
  BY NoTestTwice DEF EndTest, SerialInv, HomesInv, SessionInv, SessionTypes
<1>2. f \in TestFile /\ \A g : t \in TestsOf(g) <=> g = f
  BY <1>1 DEF TestFile, TestsOf
<1>3. \A g : TestsOf(g) \subseteq Test
  BY DEF TestsOf
<1>4. /\ running'[w] = None
      /\ \A v \in Worker : v # w => running'[v] = running[v]
  BY <1>1
<1>5. Processes' = Processes
  BY <1>1 DEF Processes, HomesOf
<1>6. f \notin FilesRun
  BY <1>2 DEF FilesRun
<1>7. \A g \in TestFile : g # f => (g \in FilesRun' <=> g \in FilesRun)
  BY <1>1, <1>2, <1>3, <1>4 DEF FilesRun
<1>8. Processes[f] # None
  <2>1. t \in began[w]
    BY <1>1 DEF SerialInv, BegunAccounts, Done
  <2>2. HomesOf(f) # {}
    BY <1>2, <2>1 DEF HomesOf
  <2>3. QED
    BY <1>2, <2>2, ProcessesMean
<1> HIDE DEF f
<1>9. CASE f \in FilesRun'
  <2>1. FilesRun' = FilesRun \cup {f}
    BY <1>7, <1>9 DEF FilesRun
  <2>2. f \in Promise!Underway
    BY <1>2, <1>6, <1>8 DEF Promise!Underway, Processes, OneOf, FilesRun
  <2>3. \E g \in Promise!Underway : FilesRun' = FilesRun \cup {g}
    BY <2>1, <2>2
  <2>4. QED
    BY <1>5, <2>3 DEF Promise!FinishFile, Processes, OneOf, FilesRun
<1>10. CASE f \notin FilesRun'
  <2>1. FilesRun' = FilesRun
    BY <1>6, <1>7, <1>10 DEF FilesRun
  <2>2. QED
    BY <1>5, <2>1
<1>11. QED
  BY <1>9, <1>10

(* While no worker dies, a session does what the documentation of          *)
(* pytest-xdist-isolation promises, for any number of workers and any      *)
(* order of events: each file is run once, in a worker that has run        *)
(* nothing before, and one file at a time (SerialFiles).                   *)
THEOREM PromiseKept == NoDeaths => (Spec => ImplementsSerialFiles)
<1> SUFFICES ASSUME NoDeaths PROVE Spec => ImplementsSerialFiles
  OBVIOUS
<1>1. Init => Promise!InitFiles
  <2> SUFFICES ASSUME Init PROVE Promise!InitFiles
    OBVIOUS
  <2>1. \A w \in Worker : began[w] = {}
    BY DEF Init
  <2>2. \A f \in TestFile : HomesOf(f) = {}
    BY <2>1 DEF HomesOf
  <2>3. \A f \in TestFile : TestsOf(f) # {}
    BY DEF TestFile, TestsOf
  <2>4. Processes = [f \in TestFile |-> None]
    BY <2>2 DEF Processes
  <2>5. FilesRun = {}
    BY <2>1, <2>3 DEF FilesRun
  <2>6. QED
    BY <2>4, <2>5 DEF Promise!InitFiles, Processes, OneOf, FilesRun
<1>2. SerialInv /\ [Next]_vars => Promise!NextFiles \/ UNCHANGED <<Processes, FilesRun>>
  <2> SUFFICES ASSUME SerialInv, [Next]_vars
               PROVE  Promise!NextFiles \/ UNCHANGED <<Processes, FilesRun>>
    OBVIOUS
  <2>1. CASE UNCHANGED vars
    BY <2>1, FilesStay DEF vars
  <2>2. ASSUME NEW w \in Worker, WorkerStep(w) \/ Crash(w) \/ ReceiveEnd(w) \/ HandleEvent(w)
        PROVE  Promise!NextFiles \/ UNCHANGED <<Processes, FilesRun>>
    <3>1. CASE BeginTest(w)
      BY <3>1, BeginningServes DEF Promise!NextFiles
    <3>2. CASE EndTest(w)
      BY <3>2, EndingServes DEF Promise!NextFiles
    <3>3. CASE SessionStart(w) \/ CollectionFinish(w) \/ SessionFinish(w)
      BY <3>3, EmitAccounts, FilesStay
    <3>4. CASE EnterLoop(w) \/ ReceiveEnd(w)
      BY <3>4, FilesStay DEF EnterLoop, ReceiveEnd
    <3>5. CASE HandleEvent(w)
      BY <3>5, EventAccounts, FilesStay
    <3>6. CASE Crash(w)
      BY <3>6, NobodyDies
    <3>7. QED
      BY <2>2, <3>1, <3>2, <3>3, <3>4, <3>5, <3>6 DEF WorkerStep
  <2>3. QED
    BY <2>1, <2>2 DEF Next, SessionOver
<1>3. SerialInv /\ [Next]_vars => [Promise!NextFiles]_<<Processes, FilesRun>>
  BY <1>2
<1>4. SerialInv /\ [Next]_vars => SerialInv'
  BY SerialNext
<1>5. QED
  BY <1>1, <1>3, <1>4, SerialInit, PTL
     DEF Spec, ImplementsSerialFiles, Promise!SerialSpec, Processes, OneOf, FilesRun

------------------------------------------------------------------------------
(***************************************************************************)
(* How many workers a session starts.  Every worker beyond the first -n    *)
(* replaces one that died or one that was due; there are never more        *)
(* replaced and due workers than files that are through, and less unless   *)
(* a file is queued or held by a worker that is not to be replaced.        *)
(***************************************************************************)
Replacements == Cardinality(Born) - config.n - failed_nodes
ToReplace == Dues(sched) \cap active_nodes
FilesThrough == {f \in TestFile : TestsOf(f) \subseteq sched.completed}

SpawnInv ==
  /\ Orderly(sched)
  /\ IsFiniteSet(Born) /\ Dues(sched) \subseteq Born
  /\ Replacements + Cardinality(ToReplace) <= Cardinality(FilesThrough)
  /\ sched.collected /\ TestFile # {} =>
       \/ Unclaimed(sched)
       \/ Replacements + Cardinality(ToReplace) < Cardinality(FilesThrough)

LEMMA FilesFinite == IsFiniteSet(TestFile)
<1>1. FilesInOrder \in Seq(TestFile) /\ ToSet(FilesInOrder) = TestFile
  BY FilesInOrderFacts
<1>2. DOMAIN FilesInOrder = 1 .. Len(FilesInOrder) /\ Len(FilesInOrder) \in Nat
      /\ FilesInOrder \in [1 .. Len(FilesInOrder) -> TestFile]
  BY <1>1
<1>3. FilesInOrder \in Surjection(1 .. Len(FilesInOrder), TestFile)
  BY <1>1, <1>2 DEF Surjection, ToSet
<1>4. IsFiniteSet(1 .. Len(FilesInOrder))
  BY <1>2, FS_Interval
<1>5. QED
  BY <1>3, <1>4, FS_Surjection

(* The numbers of the invariant are numbers. *)
LEMMA SpawnNumbers ==
  ASSUME HomesInv, IsFiniteSet(Born)
  PROVE  /\ IsFiniteSet(ToReplace) /\ IsFiniteSet(FilesThrough)
         /\ Cardinality(ToReplace) \in Nat /\ Cardinality(FilesThrough) \in Nat
         /\ Cardinality(Born) \in Nat /\ config.n \in Nat \ {0} /\ failed_nodes \in Nat
         /\ Replacements \in Int
         /\ Cardinality(FilesThrough) <= Cardinality(TestFile) /\ Cardinality(TestFile) \in Nat
         /\ Cardinality(FilesThrough) = Cardinality(TestFile) => FilesThrough = TestFile
<1>1. IsFiniteSet(active_nodes) /\ failed_nodes \in Nat /\ config.n \in Nat \ {0}
  BY ConfigsShape DEF HomesInv, AliveBounded, SessionInv, SessionTypes
<1>2. ToReplace \in SUBSET active_nodes /\ FilesThrough \in SUBSET TestFile
  BY DEF ToReplace, FilesThrough
<1>3. IsFiniteSet(ToReplace) /\ IsFiniteSet(FilesThrough)
      /\ Cardinality(FilesThrough) <= Cardinality(TestFile)
      /\ (Cardinality(TestFile) = Cardinality(FilesThrough) => TestFile = FilesThrough)
  BY <1>1, <1>2, FilesFinite, FS_Subset
<1>4. Cardinality(ToReplace) \in Nat /\ Cardinality(FilesThrough) \in Nat
      /\ Cardinality(Born) \in Nat /\ Cardinality(TestFile) \in Nat
  BY <1>3, FilesFinite, FS_CardinalityType
<1>5. Replacements \in Int
  BY <1>1, <1>4 DEF Replacements
<1>6. QED
  BY <1>1, <1>3, <1>4, <1>5

LEMMA SpawnInit == Init => HomesInv /\ SpawnInv
<1> SUFFICES ASSUME Init PROVE SpawnInv
  BY HomesInit
<1>1. config.n \in Nat \ {0}
  BY ConfigsShape DEF Init
<1>2. sched.current = {} /\ sched.clones = {} /\ sched.collected = FALSE
  BY DEF Init, InitSched
<1> DEFINE I == 0 .. (config.n - 1)
<1>3. Born \in SUBSET I
  BY <1>1, WorkerNumbers DEF Init, Born
<1>4. IsFiniteSet(I) /\ Cardinality(I) = config.n
  <2>1. 0 \in Int /\ config.n - 1 \in Int
    BY <1>1
  <2>2. IsFiniteSet(I)
        /\ Cardinality(I) = IF 0 > config.n - 1 THEN 0 ELSE (config.n - 1) - 0 + 1
    BY <2>1, FS_Interval
  <2>3. QED
    BY <1>1, <2>2
<1> HIDE DEF I
<1>5. IsFiniteSet(Born) /\ Cardinality(Born) <= config.n
  BY <1>3, <1>4, FS_Subset
<1>6. failed_nodes = 0
  BY DEF Init
<1>7. ToReplace = {}
  BY <1>2 DEF ToReplace, Dues
<1>8. Cardinality(ToReplace) = 0
  BY <1>7, FS_EmptySet
<1>9. Cardinality(FilesThrough) \in Nat /\ Cardinality(Born) \in Nat
  BY <1>5, HomesInit, SpawnNumbers
<1>10. Replacements + Cardinality(ToReplace) <= Cardinality(FilesThrough)
  BY <1>1, <1>5, <1>6, <1>8, <1>9 DEF Replacements
<1>11. Orderly(sched) /\ Dues(sched) \subseteq Born
  BY <1>2 DEF Orderly, Dues
<1>12. QED
  BY <1>2, <1>5, <1>10, <1>11 DEF SpawnInv

(* Where the numbers do not rise and the books stay open. *)
LEMMA SpawnKept ==
  ASSUME HomesInv, HomesInv', SpawnInv, Orderly(sched'),
         IsFiniteSet(Born'), Dues(sched') \subseteq Born',
         Replacements' + Cardinality(ToReplace') <= Replacements + Cardinality(ToReplace),
         sched.completed \subseteq sched'.completed,
         sched'.collected /\ TestFile # {} =>
           Unclaimed(sched') \/ (sched.collected /\ ~Unclaimed(sched))
  PROVE  SpawnInv'
<1>1. /\ Cardinality(ToReplace) \in Nat /\ Cardinality(FilesThrough) \in Nat
      /\ Replacements \in Int
  BY SpawnNumbers DEF SpawnInv
<1>2. /\ IsFiniteSet(FilesThrough') /\ Cardinality(ToReplace') \in Nat
      /\ Cardinality(FilesThrough') \in Nat /\ Replacements' \in Int
  <2>1. (HomesInv /\ IsFiniteSet(Born))'
    OBVIOUS
  <2>2. (/\ IsFiniteSet(FilesThrough) /\ Cardinality(ToReplace) \in Nat
         /\ Cardinality(FilesThrough) \in Nat /\ Replacements \in Int)'
    BY <2>1, SpawnNumbers, PTL
  <2>3. QED
    BY <2>2
<1>3. FilesThrough \in SUBSET FilesThrough'
  BY DEF FilesThrough
<1>4. Cardinality(FilesThrough) <= Cardinality(FilesThrough')
  BY <1>2, <1>3, FS_Subset
<1>5. QED
  BY <1>1, <1>2, <1>4 DEF SpawnInv

(* A step of a worker, of the receiver thread, or none.                     *)
LEMMA SpawnUntouched ==
  ASSUME HomesInv, HomesInv', SpawnInv,
         sched'.active = sched.active, sched'.current = sched.current,
         sched'.clones = sched.clones, sched'.assigned = sched.assigned,
         sched'.queue = sched.queue, sched'.completed = sched.completed,
         sched'.collected = sched.collected,
         sched.sent \cup sched.down \subseteq sched'.sent \cup sched'.down,
         UNCHANGED <<config, active_nodes, failed_nodes>>,
         \A w \in Worker : phase'[w] = "unborn" <=> phase[w] = "unborn"
  PROVE  SpawnInv'
<1>1. Born' = Born
  BY DEF Born
<1>2. Accounted(sched, sched')
  BY AccountedStays DEF SpawnInv
<1>3. Dues(sched') = Dues(sched)
  BY DEF Dues
<1>4. ToReplace' = ToReplace
  BY <1>3 DEF ToReplace
<1>5. Replacements' = Replacements
  BY <1>1 DEF Replacements
<1>6. Cardinality(ToReplace) \in Nat /\ Replacements \in Int
  BY SpawnNumbers DEF SpawnInv
<1>7. Replacements' + Cardinality(ToReplace') <= Replacements + Cardinality(ToReplace)
  BY <1>4, <1>5, <1>6
<1>8. QED
  BY <1>1, <1>2, <1>3, <1>7, SpawnKept DEF SpawnInv, Accounted

LEMMA ProcessesSpawn ==
  ASSUME HomesInv, HomesInv', SpawnInv,
         \/ UNCHANGED vars
         \/ \E w \in Worker : WorkerStep(w) \/ Crash(w) \/ ReceiveEnd(w)
  PROVE  SpawnInv'
<1>0. sched \in Sched /\ phase \in [Worker -> Phase]
  BY DEF HomesInv, SessionInv, SessionTypes, SchedulerSound, Sound, Shape
<1>1. CASE UNCHANGED vars
  BY <1>1, SpawnUntouched DEF vars, controller
<1>2. ASSUME NEW w \in Worker, SessionStart(w) \/ CollectionFinish(w) \/ EndTest(w) \/ SessionFinish(w)
      PROVE  SpawnInv'
  <2>1. UNCHANGED <<config, controller>>
    BY <1>2 DEF SessionStart, CollectionFinish, EndTest, SessionFinish
  <2>2. \A v \in Worker : phase'[v] = "unborn" <=> phase[v] = "unborn"
    BY <1>0, <1>2 DEF SessionStart, CollectionFinish, EndTest, SessionFinish, Become
  <2>3. QED
    BY <2>1, <2>2, SpawnUntouched DEF controller
<1>3. ASSUME NEW w \in Worker, EnterLoop(w) \/ BeginTest(w) \/ Crash(w) \/ ReceiveEnd(w)
      PROVE  SpawnInv'
  <2>1. UNCHANGED <<config, active_nodes, failed_nodes>>
    BY <1>3 DEF EnterLoop, BeginTest, Crash, ReceiveEnd
  <2>2. \A v \in Worker : phase'[v] = "unborn" <=> phase[v] = "unborn"
    BY <1>0, <1>3 DEF EnterLoop, BeginTest, Crash, ReceiveEnd, Become
  <2>3. /\ sched'.active = sched.active /\ sched'.current = sched.current
        /\ sched'.clones = sched.clones /\ sched'.assigned = sched.assigned
        /\ sched'.queue = sched.queue /\ sched'.completed = sched.completed
        /\ sched'.collected = sched.collected
        /\ sched'.sent = sched.sent /\ sched.down \subseteq sched'.down
    <3>1. \E T, D, B : sched' = [sched EXCEPT !.torun = T, !.down = sched.down \cup D, !.broken = B]
      <4>1. \/ sched' = [sched EXCEPT !.torun[w] = Tail(@)]
            \/ sched' = [sched EXCEPT !.broken = @ \cup {w}, !.torun[w] = <<>>]
            \/ sched' = [sched EXCEPT !.down = @ \cup {w}, !.broken = @ \cup {w}]
        BY <1>3 DEF EnterLoop, BeginTest, Crash, ReceiveEnd, Get
      <4>2. CASE sched' = [sched EXCEPT !.torun[w] = Tail(@)]
        <5>1. sched' = [sched EXCEPT !.torun = [sched.torun EXCEPT ![w] = Tail(@)],
                                     !.down = sched.down \cup {}, !.broken = sched.broken]
          BY <1>0, <4>2 DEF Sched
        <5>2. QED
          BY <5>1
      <4>3. CASE sched' = [sched EXCEPT !.broken = @ \cup {w}, !.torun[w] = <<>>]
        <5>1. sched' = [sched EXCEPT !.torun = [sched.torun EXCEPT ![w] = <<>>],
                                     !.down = sched.down \cup {}, !.broken = sched.broken \cup {w}]
          BY <1>0, <4>3 DEF Sched
        <5>2. QED
          BY <5>1
      <4>4. CASE sched' = [sched EXCEPT !.down = @ \cup {w}, !.broken = @ \cup {w}]
        <5>1. sched' = [sched EXCEPT !.torun = sched.torun, !.down = sched.down \cup {w},
                                     !.broken = sched.broken \cup {w}]
          BY <1>0, <4>4 DEF Sched
        <5>2. QED
          BY <5>1
      <4>5. QED
        BY <4>1, <4>2, <4>3, <4>4
    <3>2. QED
      BY <1>0, <3>1 DEF Sched
  <2>4. QED
    BY <2>1, <2>2, <2>3, SpawnUntouched
<1>4. QED
  BY <1>1, <1>2, <1>3 DEF WorkerStep

LEMMA LoopAccounts ==
  ASSUME NEW after \in Sched, Orderly(after), NEW stopping, Return(after, stopping)
  PROVE  /\ Accounted(after, sched')
         /\ sched'.completed = after.completed /\ sched'.collected = after.collected
<1>1. sched' = after \/ sched' = ShutdownEach(after, ToSet(after.nodes))
  BY DEF Return, ShutdownAll
<1>2. ToSet(after.nodes) \in SUBSET Worker
  BY NonEmptyFacts DEF Sched
<1>3. QED
  BY <1>1, <1>2, ShutdownAccounted, ShutdownFrame, AccountedStays

(* An event that changes neither the staff nor what is due.                  *)
LEMMA BooksSpawn ==
  ASSUME HomesInv, HomesInv', SpawnInv, NEW after \in Sched, NEW stopping, Return(after, stopping),
         UNCHANGED <<config, active_nodes, failed_nodes, phase>>,
         Orderly(after), Dues(after) \subseteq Dues(sched),
         sched.completed \subseteq after.completed,
         after.collected /\ TestFile # {} =>
           Unclaimed(after) \/ (sched.collected /\ ~Unclaimed(sched))
  PROVE  SpawnInv'
<1>1. Accounted(after, sched') /\ sched'.completed = after.completed
      /\ sched'.collected = after.collected
  BY LoopAccounts
<1>2. Born' = Born
  BY DEF Born
<1>3. ToReplace' \in SUBSET ToReplace
  BY <1>1 DEF ToReplace, Accounted
<1>4. /\ IsFiniteSet(ToReplace) /\ Cardinality(ToReplace) \in Nat
      /\ Replacements \in Int /\ Replacements' = Replacements
  BY <1>2, SpawnNumbers DEF SpawnInv, Replacements
<1>5. Cardinality(ToReplace') <= Cardinality(ToReplace) /\ IsFiniteSet(ToReplace')
  BY <1>3, <1>4, FS_Subset
<1>6. Cardinality(ToReplace') \in Nat
  BY <1>5, FS_CardinalityType
<1>7. Replacements' + Cardinality(ToReplace') <= Replacements + Cardinality(ToReplace)
  BY <1>4, <1>5, <1>6
<1>8. QED
  BY <1>1, <1>2, <1>7, SpawnKept DEF SpawnInv, Accounted

LEMMA WorkerReadySpawn ==
  ASSUME HomesInv, HomesInv', SpawnInv, NEW w \in Worker, WorkerReady(w)
  PROVE  SpawnInv'
<1> DEFINE after == IF shuttingdown THEN Shutdown(sched, w) ELSE AddNode(sched, w)
<1>1. /\ Take(w, "workerready") /\ Return(after, shuttingdown)
      /\ UNCHANGED <<config, active_nodes, failed_nodes, phase>>
  BY DEF WorkerReady
<1>2. /\ 1 \in DOMAIN events[w] /\ events[w][1][1] = "workerready"
      /\ sched \in Sched /\ Sound(Ahead, sched) /\ shuttingdown \in BOOLEAN
  BY <1>1, HeardHome
<1>3. w \notin ToSet(sched.nodes)
  BY <1>2 DEF HomesInv, SessionInv, EventsInOrder
<1>4. From(Ahead, sched, Shutdown(sched, w)) /\ Accounted(sched, Shutdown(sched, w))
  BY <1>2, ShutdownKeeps, ShutdownAccounted DEF Shutdown, SpawnInv
<1>5. From(Ahead, NodeAdded(sched, w), AddNode(sched, w)) /\ Accounted(sched, AddNode(sched, w))
  BY <1>2, <1>3, AddNodeKeeps, AddNodeAccounted DEF SpawnInv
<1>6. /\ NodeAdded(sched, w).completed = sched.completed
      /\ NodeAdded(sched, w).collected = sched.collected
  BY <1>2, <1>3, NodeAddedSound
<1>7. /\ after \in Sched /\ Accounted(sched, after) /\ after.completed = sched.completed
      /\ after.collected = sched.collected
  BY <1>4, <1>5, <1>6 DEF From, Sound, Shape, Same
<1> HIDE DEF after
<1>8. QED
  BY <1>1, <1>7, BooksSpawn DEF Accounted

LEMMA WorkerCollectionFinishSpawn ==
  ASSUME HomesInv, HomesInv', SpawnInv, NEW w \in Worker, WorkerCollectionFinish(w)
  PROVE  SpawnInv'
<1> DEFINE s == AddNodeCollection(sched, w)
           s2 == IF CollectionCompleted(s) /\ s.raised = None THEN Schedule(s) ELSE s
           after == IF shuttingdown THEN sched ELSE s2
           added == CollectionAdded(sched, w)
<1>1. /\ Take(w, "collectionfinish") /\ Return(after, shuttingdown)
      /\ UNCHANGED <<config, active_nodes, failed_nodes, phase>>
  BY DEF WorkerCollectionFinish
<1>2. sched \in Sched /\ Sound(Ahead, sched) /\ shuttingdown \in BOOLEAN
  BY <1>1, HeardHome
<1>3. /\ s \in Sched /\ Sound(Ahead, s) /\ s.collected = sched.collected
      /\ s.completed = sched.completed
  <2>1. \/ s.raised # None /\ From(Ahead, sched, s)
        \/ From(Ahead, added, s)
    BY <1>2, AddNodeCollectionKeeps
  <2>2. added.collected = sched.collected /\ added.completed = sched.completed
    BY <1>2 DEF CollectionAdded, Sched
  <2>3. QED
    BY <2>1, <2>2 DEF From, Sound, Shape, Same
<1>4. Accounted(sched, s) /\ Accounted(sched, sched)
  BY <1>2, AddNodeCollectionAccounted, AccountedStays DEF SpawnInv
<1> HIDE DEF s
<1> DEFINE r == Schedule(s)
<1>5. /\ Orderly(r) /\ Dues(r) \subseteq Dues(sched)
      /\ TestFile # {} /\ (Unclaimed(s) \/ ~s.collected) => Unclaimed(r)
  BY <1>3, <1>4, ScheduleAccounted DEF Accounted
<1>6. r \in Sched /\ r.completed = sched.completed
  <2>1. From(Ahead, Scheduled(s), r)
    BY <1>3, ScheduleKeeps
  <2>2. Scheduled(s).completed = s.completed
    BY <1>3 DEF Scheduled, Sched
  <2>3. QED
    BY <1>3, <2>1, <2>2 DEF From, Sound, Shape, Same
<1> HIDE DEF r
<1>7. after = sched \/ after = s \/ after = r
  BY DEF r
<1>8. /\ after \in Sched /\ Orderly(after) /\ Dues(after) \subseteq Dues(sched)
      /\ after.completed = sched.completed
      /\ after.collected /\ TestFile # {} =>
           Unclaimed(after) \/ (sched.collected /\ ~Unclaimed(sched))
  BY <1>2, <1>3, <1>4, <1>5, <1>6, <1>7 DEF Accounted
<1> HIDE DEF after
<1>9. QED
  BY <1>1, <1>8, BooksSpawn

(* A file that is through pays for the worker that becomes due with it.     *)
LEMMA WorkerTestCompleteSpawn ==
  ASSUME HomesInv, HomesInv', SpawnInv, NEW w \in Worker, WorkerTestComplete(w)
  PROVE  SpawnInv'
<1> DEFINE t == Head(events[w])[2]
           f == FileOf[t]
           after == MarkTestComplete(sched, w, t)
           freed == sched.clones \cap sched.current \cap {w}
<1>1. /\ Take(w, Complete) /\ Return(after, shuttingdown)
      /\ UNCHANGED <<config, active_nodes, failed_nodes, phase, nextitem, running, began>>
  BY DEF WorkerTestComplete, Complete
<1>2. sched \in Sched /\ Sound(Ahead, sched) /\ phase \in [Worker -> Phase]
  BY <1>1, HeardHome
<1>3. /\ t \in Ahead[w]
      /\ \A v \in Worker : Ahead'[v] = IF v = w THEN Ahead[w] \ {t} ELSE Ahead[v]
  BY <1>1, <1>2, AheadAfter DEF HomesInv
<1> HIDE DEF t
<1>4. t \in Test /\ t \notin sched.completed
  BY <1>2, <1>3 DEF Sound, TestsSent
<1>5. /\ after \in Sched /\ after.collected = sched.collected
      /\ after.completed = sched.completed \cup {t}
  <2>1. From(Ahead', Marked(sched, w, t), after)
    BY <1>2, <1>3, MarkTestCompleteKeeps
  <2>2. /\ Marked(sched, w, t).collected = sched.collected
        /\ Marked(sched, w, t).completed = sched.completed \cup {t}
    BY <1>2 DEF Marked, Sched
  <2>3. QED
    BY <2>1, <2>2 DEF From, Sound, Shape, Same
<1>6. IF ~Through(sched, t) THEN Accounted(sched, after)
      ELSE /\ Orderly(after)
           /\ Dues(after) \subseteq Dues(sched) \cup freed
           /\ w \in sched.clones \cap sched.current /\ Unclaimed(sched) => Unclaimed(after)
  BY <1>2, <1>3, MarkTestCompleteAccounted DEF SpawnInv
<1> HIDE DEF after, f, freed
<1>7. CASE ~Through(sched, t)
  BY <1>1, <1>5, <1>6, <1>7, BooksSpawn DEF Accounted
<1>8. CASE Through(sched, t)
  <2>1. Accounted(after, sched') /\ sched'.completed = sched.completed \cup {t}
        /\ sched'.collected = sched.collected
    BY <1>1, <1>5, <1>6, <1>8, LoopAccounts
  <2>2. Born' = Born /\ Replacements' = Replacements
    BY <1>1 DEF Born, Replacements
  <2>3. /\ IsFiniteSet(ToReplace) /\ IsFiniteSet(FilesThrough)
        /\ Cardinality(ToReplace) \in Nat /\ Cardinality(FilesThrough) \in Nat
        /\ Replacements \in Int
    BY SpawnNumbers DEF SpawnInv
  <2>4. /\ IsFiniteSet(FilesThrough') /\ Cardinality(ToReplace') \in Nat
        /\ Cardinality(FilesThrough') \in Nat
    <3>1. (HomesInv /\ IsFiniteSet(Born))'
      BY <2>2 DEF SpawnInv
    <3>2. (IsFiniteSet(FilesThrough) /\ Cardinality(ToReplace) \in Nat
           /\ Cardinality(FilesThrough) \in Nat)'
      BY <3>1, SpawnNumbers, PTL
    <3>3. QED
      BY <3>2
  <2>5. Cardinality(FilesThrough) + 1 <= Cardinality(FilesThrough')
    <3>1. f \in TestFile /\ f \notin FilesThrough
      BY <1>4 DEF FilesThrough, TestFile, TestsOf, f
    <3>2. FilesThrough \cup {f} \in SUBSET FilesThrough'
      BY <1>8, <2>1, <3>1 DEF FilesThrough, Through, f
    <3>3. Cardinality(FilesThrough \cup {f}) = Cardinality(FilesThrough) + 1
      BY <2>3, <3>1, FS_AddElement
    <3>4. QED
      BY <2>3, <2>4, <3>2, <3>3, FS_Subset
  <2>6. Orderly(sched') /\ Dues(sched') \subseteq Dues(sched) \cup freed
    BY <1>6, <1>8, <2>1 DEF Accounted
  <2>7. w \in Born
    BY <1>1, Heard DEF Born, HomesInv
  <2>8. CASE w \in sched.clones \cap sched.current
    <3>1. ToReplace' \in SUBSET (ToReplace \cup {w})
      BY <1>1, <2>6 DEF ToReplace, freed
    <3>2. IsFiniteSet(ToReplace \cup {w}) /\ Cardinality(ToReplace \cup {w}) <= Cardinality(ToReplace) + 1
      <4>1. /\ IsFiniteSet(ToReplace \cup {w})
            /\ Cardinality(ToReplace \cup {w}) =
                 IF w \in ToReplace THEN Cardinality(ToReplace) ELSE Cardinality(ToReplace) + 1
        BY <2>3, FS_AddElement
      <4>2. QED
        BY <2>3, <4>1
    <3>3. Cardinality(ToReplace \cup {w}) \in Nat
      BY <3>2, FS_CardinalityType
    <3>4. Cardinality(ToReplace') <= Cardinality(ToReplace) + 1
      BY <2>3, <2>4, <3>1, <3>2, <3>3, FS_Subset
    <3>5. Unclaimed(sched) => Unclaimed(sched')
      BY <1>6, <1>8, <2>1, <2>8 DEF Accounted
    <3>6. Replacements' + Cardinality(ToReplace') <= Cardinality(FilesThrough')
      BY <2>2, <2>3, <2>4, <2>5, <3>4 DEF SpawnInv
    <3>7. Replacements + Cardinality(ToReplace) < Cardinality(FilesThrough) =>
            Replacements' + Cardinality(ToReplace') < Cardinality(FilesThrough')
      BY <2>2, <2>3, <2>4, <2>5, <3>4
    <3>8. QED
      BY <2>1, <2>2, <2>6, <2>7, <3>5, <3>6, <3>7 DEF SpawnInv, freed
  <2>9. CASE w \notin sched.clones \cap sched.current
    <3>1. freed = {}
      BY <2>9 DEF freed
    <3>2. ToReplace' \in SUBSET ToReplace
      BY <1>1, <2>6, <3>1 DEF ToReplace
    <3>3. Cardinality(ToReplace') <= Cardinality(ToReplace)
      BY <2>3, <3>2, FS_Subset
    <3>4. Replacements' + Cardinality(ToReplace') < Cardinality(FilesThrough')
      BY <2>2, <2>3, <2>4, <2>5, <3>3 DEF SpawnInv
    <3>5. Replacements' + Cardinality(ToReplace') <= Cardinality(FilesThrough')
      BY <2>2, <2>3, <2>4, <3>4
    <3>6. QED
      BY <2>2, <2>6, <3>1, <3>4, <3>5 DEF SpawnInv
  <2>10. QED
    BY <2>8, <2>9
<1>9. QED
  BY <1>7, <1>8

LEMMA ReplacingBorn ==
  ASSUME HomesInv, SpawnInv, NEW w \in active_nodes, Replacing(w)
  PROVE  /\ IsFiniteSet(Born') /\ Born \subseteq Born'
         /\ \/ active_nodes' = active_nodes \ {w} /\ Born' = Born
            \/ \E clone \in Worker \ Born :
                 /\ active_nodes' = (active_nodes \ {w}) \cup {clone}
                 /\ Cardinality(Born') = Cardinality(Born) + 1
<1>1. phase \in [Worker -> Phase] /\ IsFiniteSet(Born)
  BY DEF HomesInv, SessionInv, SessionTypes, SpawnInv
<1>2. CASE active_nodes' = active_nodes \ {w} /\ UNCHANGED phase
  <2>1. Born' = Born
    BY <1>2 DEF Born
  <2>2. QED
    BY <1>1, <1>2, <2>1
<1>3. ASSUME NEW clone \in Worker, NewWorker(clone),
             active_nodes' = (active_nodes \ {w}) \cup {clone}, Become(clone, "starting")
      PROVE  /\ IsFiniteSet(Born') /\ Born \subseteq Born' /\ clone \in Worker \ Born
             /\ Cardinality(Born') = Cardinality(Born) + 1
  <2>1. clone \in Worker \ Born
    BY <1>3 DEF NewWorker
  <2>2. Born' = Born \cup {clone}
    BY <1>1, <1>3 DEF Born, Become
  <2>3. QED
    BY <1>1, <2>1, <2>2, FS_AddElement
<1>4. QED
  BY <1>2, <1>3 DEF Replacing

(* A worker that finishes while it is due is replaced at most once; one    *)
(* that is not due is not replaced.                                        *)
LEMMA WorkerFinishedSpawn ==
  ASSUME HomesInv, HomesInv', SpawnInv, NEW w \in Worker, WorkerFinished(w)
  PROVE  SpawnInv'
<1> DEFINE known == Contains(sched.nodes, w)
           lost == known /\ Pending(sched, w) # {}
           failed == [sched EXCEPT !.raised = "AssertionError"]
           s == IF lost THEN failed ELSE IF known THEN RemoveNode(sched, w) ELSE sched
           after == [s EXCEPT !.clones = @ \ {w}]
           due == s.raised = None /\ ShouldCloneWorker(s, w)
<1>1. /\ Take(w, "workerfinished") /\ Return(after, shuttingdown) /\ Replacing(w)
      /\ UNCHANGED <<config, failed_nodes>>
      /\ ~due => active_nodes' = active_nodes \ {w} /\ UNCHANGED phase
  BY DEF WorkerFinished, Replacing
<1>2. /\ w \in active_nodes /\ sched \in Sched /\ Sound(Ahead, sched)
      /\ sched.nodes \in Seq(Worker)
  BY <1>1, HeardHome DEF Sched
<1>3. /\ failed.active = sched.active /\ failed.current = sched.current
      /\ failed.clones = sched.clones /\ failed.assigned = sched.assigned
      /\ failed.queue = sched.queue /\ failed.sent = sched.sent /\ failed.down = sched.down
      /\ failed.completed = sched.completed /\ failed.collected = sched.collected
      /\ failed \in Sched /\ failed.raised # None
  BY <1>2, NoTestTwice DEF Sched
<1> HIDE DEF failed
<1>4. Accounted(sched, failed) /\ Accounted(sched, sched)
  BY <1>3, AccountedStays DEF SpawnInv
<1>5. ~lost => w \notin sched.current
  <2>1. known <=> w \in ToSet(sched.nodes)
    BY <1>2, ContainsMeans
  <2>2. ~known => Held(sched, w) = {}
    BY <1>2, <2>1 DEF Sound, FilesPlaced
  <2>3. ~lost => Held(sched, w) = {}
    BY <1>2, <2>2, NothingPending
  <2>4. QED
    BY <2>3 DEF SpawnInv, Orderly
<1>6. /\ s \in Sched /\ Orderly(s) /\ Dues(s) \subseteq Dues(sched)
      /\ Unclaimed(sched) => Unclaimed(s)
      /\ s.completed = sched.completed /\ s.collected = sched.collected
      /\ ~lost => w \notin s.current
  <2>1. CASE lost
    BY <1>3, <1>4, <2>1 DEF Accounted
  <2>2. CASE ~known
    BY <1>2, <1>4, <1>5, <2>2 DEF Accounted
  <2>3. CASE known /\ ~lost
    <3> DEFINE r == RemoveNode(sched, w)
    <3>1. From(Ahead, Left(sched, w), r)
      BY <1>2, <2>3, RemoveNodeKeeps
    <3>2. /\ Orderly(r) /\ (Unclaimed(sched) => Unclaimed(r))
          /\ Dues(r) \subseteq Dues(sched) \cup (sched.clones \cap {w})
          /\ Held(r, w) = {}
      BY <1>2, <2>3, RemoveNodeAccounted DEF SpawnInv
    <3>3. Left(sched, w).completed = sched.completed /\ Left(sched, w).collected = sched.collected
      BY <1>2, LeftFacts
    <3>4. Dues(r) \subseteq Dues(sched) /\ w \notin r.current
      BY <1>5, <2>3, <3>2 DEF Dues, Orderly
    <3>5. s = r
      BY <2>3
    <3> HIDE DEF r, s
    <3>6. QED
      BY <3>1, <3>2, <3>3, <3>4, <3>5 DEF From, Sound, Shape, Same
  <2>4. QED
    BY <2>1, <2>2, <2>3
<1>7. due => w \in Dues(s)
  <2>1. lost => s.raised # None
    BY <1>3
  <2>2. due => w \in s.clones
    BY DEF ShouldCloneWorker
  <2>3. QED
    BY <1>6, <2>1, <2>2 DEF Dues
<1> HIDE DEF s, due
<1>8. /\ after \in Sched /\ after.active = s.active /\ after.current = s.current
      /\ after.clones = s.clones \ {w} /\ after.assigned = s.assigned /\ after.queue = s.queue
      /\ after.sent = s.sent /\ after.down = s.down
      /\ after.completed = s.completed /\ after.collected = s.collected
  BY <1>6 DEF Sched
<1> HIDE DEF after
<1>9. /\ Orderly(after) /\ Dues(after) \subseteq Dues(s) \ {w}
      /\ Unclaimed(s) => Unclaimed(after)
  BY <1>6, <1>8 DEF Orderly, Dues, Unclaimed, Held
<1>10. Accounted(after, sched') /\ sched'.completed = sched.completed
       /\ sched'.collected = sched.collected
  BY <1>1, <1>6, <1>8, <1>9, LoopAccounts
<1>11. /\ IsFiniteSet(Born') /\ Born \subseteq Born'
       /\ \/ active_nodes' = active_nodes \ {w} /\ Born' = Born
          \/ \E clone \in Worker \ Born :
               /\ active_nodes' = (active_nodes \ {w}) \cup {clone}
               /\ Cardinality(Born') = Cardinality(Born) + 1
  BY <1>1, <1>2, ReplacingBorn
<1>12. /\ IsFiniteSet(ToReplace) /\ Cardinality(ToReplace) \in Nat /\ Cardinality(Born) \in Nat
       /\ config.n \in Nat /\ failed_nodes \in Nat
  BY SpawnNumbers DEF SpawnInv
<1>13. Dues(sched') \subseteq Dues(sched) \ {w} /\ Dues(sched) \subseteq Born
  BY <1>6, <1>9, <1>10 DEF Accounted, SpawnInv
<1>14. ToReplace' \in SUBSET (ToReplace \ {w})
  BY <1>11, <1>13 DEF ToReplace
<1>15. /\ IsFiniteSet(ToReplace \ {w})
       /\ Cardinality(ToReplace \ {w}) = IF w \in ToReplace THEN Cardinality(ToReplace) - 1
                                         ELSE Cardinality(ToReplace)
  BY <1>12, FS_RemoveElement
<1>16. /\ Cardinality(ToReplace') <= Cardinality(ToReplace \ {w})
       /\ Cardinality(ToReplace') \in Nat /\ Cardinality(ToReplace \ {w}) \in Nat
  BY <1>14, <1>15, FS_Subset, FS_CardinalityType
<1>17. Replacements' + Cardinality(ToReplace') <= Replacements + Cardinality(ToReplace)
  <2>1. CASE active_nodes' = active_nodes \ {w} /\ Born' = Born
    <3>1. Replacements' = Replacements /\ Replacements \in Int
      BY <1>1, <1>12, <2>1 DEF Replacements
    <3>2. Cardinality(ToReplace') <= Cardinality(ToReplace)
      BY <1>12, <1>15, <1>16
    <3>3. QED
      BY <1>12, <1>16, <3>1, <3>2
  <2>2. CASE Cardinality(Born') = Cardinality(Born) + 1
    <3>1. due
      <4>1. ~due => Born' = Born
        BY <1>1 DEF Born
      <4>2. QED
        BY <1>12, <2>2, <4>1
    <3>2. w \in ToReplace
      BY <1>2, <1>6, <1>7, <3>1 DEF ToReplace
    <3>3. Replacements' = Replacements + 1 /\ Replacements \in Int
      BY <1>1, <1>12, <2>2 DEF Replacements
    <3>4. Cardinality(ToReplace') <= Cardinality(ToReplace) - 1
      BY <1>12, <1>15, <1>16, <3>2
    <3>5. QED
      BY <1>12, <1>16, <3>3, <3>4
  <2>3. QED
    BY <1>11, <2>1, <2>2
<1>18. Orderly(sched') /\ Dues(sched') \subseteq Born' /\ (Unclaimed(sched) => Unclaimed(sched'))
  BY <1>6, <1>9, <1>10, <1>11, <1>13 DEF Accounted
<1>19. QED
  BY <1>10, <1>11, <1>17, <1>18, SpawnKept

(* A worker that died is replaced for nothing in return: it is counted.     *)
LEMMA WorkerErrorDownSpawn ==
  ASSUME HomesInv, HomesInv', SpawnInv, NEW w \in Worker, WorkerErrorDown(w)
  PROVE  SpawnInv'
<1> DEFINE left == RemoveNode(sched, w)
           s == Forgiven(left)
           over == failed_nodes' > config.restarts
           after == IF over /\ ~shuttingdown THEN ShutdownAll(s) ELSE s
<1>1. /\ Take(w, "errordown") /\ Return(after, over) /\ Replacing(w)
      /\ UNCHANGED config /\ failed_nodes' = failed_nodes + 1
  <2>1. CASE over
    BY <2>1 DEF WorkerErrorDown, Replacing
  <2>2. CASE ~over
    <3>1. over = FALSE /\ after = s
      BY <2>2
    <3> HIDE DEF after, over
    <3>2. Take(w, "errordown") /\ Return(s, FALSE) /\ Replacing(w)
          /\ UNCHANGED config /\ failed_nodes' = failed_nodes + 1
      BY <2>2 DEF WorkerErrorDown, Replacing, over
    <3>3. QED
      BY <3>1, <3>2
  <2>3. QED
    BY <2>1, <2>2
<1>2. /\ w \in active_nodes /\ 1 \in DOMAIN events[w] /\ events[w][1][1] = "errordown"
      /\ sched \in Sched /\ Sound(Ahead, sched) /\ w \in Born
  BY <1>1, HeardHome, Heard DEF Born, HomesInv
<1>3. phase[w] = "crashed" /\ Len(events[w]) = 1
  BY <1>2 DEF HomesInv, SessionInv, EventsInOrder
<1>4. Ahead[w] = {} /\ sched.torun[w] = <<>>
  <2>1. sched.torun[w] = <<>> /\ running[w] = None /\ Upcoming(w) = {}
    BY <1>3 DEF HomesInv, SessionInv, ProcessShape, Upcoming
  <2>2. DOMAIN events[w] = {1}
    BY <1>1, <1>3, TakeFacts DEF HomesInv, SessionInv
  <2>3. Reported(w) = {}
    BY <1>2, <2>2 DEF Reported, Complete
  <2>4. QED
    BY <2>1, <2>3, AheadMeans
<1>5. /\ Orderly(left) /\ (Unclaimed(sched) => Unclaimed(left))
      /\ Dues(left) \subseteq Dues(sched) \cup {w}
  BY <1>2, <1>4, RemoveNodeAccounted DEF SpawnInv
<1>6. left \in Sched /\ left.completed = sched.completed /\ left.collected = sched.collected
  <2>1. From(Ahead, Left(sched, w), left)
    BY <1>2, <1>4, RemoveNodeKeeps
  <2>2. Left(sched, w).completed = sched.completed /\ Left(sched, w).collected = sched.collected
    BY <1>2, LeftFacts
  <2>3. QED
    BY <2>1, <2>2 DEF From, Sound, Shape, Same
<1> HIDE DEF left
<1>7. /\ s \in Sched /\ s.active = left.active /\ s.current = left.current
      /\ s.clones = left.clones /\ s.assigned = left.assigned /\ s.queue = left.queue
      /\ s.sent = left.sent /\ s.down = left.down
      /\ s.completed = left.completed /\ s.collected = left.collected
  BY <1>6 DEF Sched, Forgiven
<1> HIDE DEF s
<1>8. Accounted(left, s)
  BY <1>5, <1>7, AccountedStays
<1>9. /\ after \in Sched /\ Accounted(s, after)
      /\ after.completed = s.completed /\ after.collected = s.collected
  <2>1. ToSet(s.nodes) \in SUBSET Worker
    BY <1>7, NonEmptyFacts DEF Sched
  <2>2. Accounted(s, ShutdownAll(s)) /\ Accounted(s, s)
        /\ ShutdownAll(s).completed = s.completed /\ ShutdownAll(s).collected = s.collected
    BY <1>7, <1>8, <2>1, ShutdownAccounted, ShutdownFrame, AccountedStays
       DEF Accounted, ShutdownAll
  <2>3. ShutdownAll(s) \in Sched
    <3>1. Sound(Ahead, s)
      <4>1. From(Ahead, Left(sched, w), left)
        BY <1>2, <1>4, RemoveNodeKeeps DEF left
      <4>2. From(Ahead, left, [left EXCEPT !.raised = None])
        BY <4>1, RaisedKeeps DEF From
      <4>3. QED
        BY <4>1, <4>2 DEF Forgiven, From, s
    <3>2. From(Ahead, s, ShutdownAll(s))
      BY <2>1, <3>1, ShutdownKeeps DEF ShutdownAll
    <3>3. QED
      BY <3>2 DEF From, Sound, Shape
  <2>4. QED
    BY <1>7, <2>2, <2>3
<1> HIDE DEF after, over
<1>10. Accounted(after, sched') /\ sched'.completed = sched.completed
       /\ sched'.collected = sched.collected
  BY <1>1, <1>6, <1>7, <1>9, LoopAccounts DEF Accounted
<1>11. Accounted(left, sched')
  BY <1>8, <1>9, <1>10, AccountedFollows
<1>12. /\ Orderly(sched') /\ (Unclaimed(sched) => Unclaimed(sched'))
       /\ Dues(sched') \subseteq Dues(sched) \cup {w}
  BY <1>5, <1>11 DEF Accounted
<1>13. /\ IsFiniteSet(Born') /\ Born \subseteq Born'
       /\ \/ active_nodes' = active_nodes \ {w} /\ Born' = Born
          \/ \E clone \in Worker \ Born :
               /\ active_nodes' = (active_nodes \ {w}) \cup {clone}
               /\ Cardinality(Born') = Cardinality(Born) + 1
  BY <1>1, <1>2, ReplacingBorn
<1>14. /\ IsFiniteSet(ToReplace) /\ Cardinality(ToReplace) \in Nat /\ Cardinality(Born) \in Nat
       /\ config.n \in Nat /\ failed_nodes \in Nat
  BY SpawnNumbers DEF SpawnInv
<1>15. Dues(sched) \subseteq Born
  BY DEF SpawnInv
<1>16. ToReplace' \in SUBSET ToReplace
  BY <1>2, <1>12, <1>13, <1>15 DEF ToReplace
<1>17. IsFiniteSet(ToReplace') /\ Cardinality(ToReplace') <= Cardinality(ToReplace)
  BY <1>14, <1>16, FS_Subset
<1>18. Cardinality(ToReplace') \in Nat
  BY <1>17, FS_CardinalityType
<1>19. Replacements' <= Replacements /\ Replacements' \in Int /\ Replacements \in Int
  <2>1. Cardinality(Born') = Cardinality(Born) \/ Cardinality(Born') = Cardinality(Born) + 1
    BY <1>13
  <2>2. QED
    BY <1>1, <1>14, <2>1 DEF Replacements
<1>20. Replacements' + Cardinality(ToReplace') <= Replacements + Cardinality(ToReplace)
  BY <1>14, <1>17, <1>18, <1>19
<1>21. Dues(sched') \subseteq Born'
  BY <1>2, <1>12, <1>13, <1>15
<1>22. QED
  BY <1>10, <1>12, <1>13, <1>20, <1>21, SpawnKept

LEMMA SpawnNext == HomesInv /\ SpawnInv /\ [Next]_vars => HomesInv' /\ SpawnInv'
<1> SUFFICES ASSUME HomesInv, SpawnInv, [Next]_vars PROVE HomesInv' /\ SpawnInv'
  OBVIOUS
<1>1. HomesInv'
  BY HomesNext
<1>2. CASE UNCHANGED vars
  BY <1>1, <1>2, ProcessesSpawn
<1>3. ASSUME NEW w \in Worker, WorkerStep(w) \/ Crash(w) \/ ReceiveEnd(w)
      PROVE  SpawnInv'
  BY <1>1, <1>3, ProcessesSpawn
<1>4. ASSUME NEW w \in Worker, HandleEvent(w)
      PROVE  SpawnInv'
  BY <1>1, <1>4, WorkerReadySpawn, WorkerCollectionFinishSpawn, WorkerTestCompleteSpawn,
     WorkerFinishedSpawn, WorkerErrorDownSpawn DEF HandleEvent
<1>5. QED
  BY <1>1, <1>2, <1>3, <1>4 DEF Next, SessionOver

(* When the last file is through, nothing is queued and nobody holds a     *)
(* file, so one file has not been paid for.                                *)
LEMMA SpawnEnough ==
  ASSUME HomesInv, SpawnInv, TestFile # {}
  PROVE  Replacements <= Cardinality(TestFile) - 1
<1>1. /\ IsFiniteSet(FilesThrough)
      /\ Cardinality(ToReplace) \in Nat /\ Cardinality(FilesThrough) \in Nat
      /\ Replacements \in Int
      /\ Cardinality(FilesThrough) <= Cardinality(TestFile) /\ Cardinality(TestFile) \in Nat
      /\ Cardinality(FilesThrough) = Cardinality(TestFile) => FilesThrough = TestFile
      /\ Replacements + Cardinality(ToReplace) <= Cardinality(FilesThrough)
  BY SpawnNumbers DEF SpawnInv
<1>2. Sound(Ahead, sched) /\ sched \in Sched
  BY DEF HomesInv, SessionInv, SchedulerSound, Sound, Shape
<1>3. CASE FilesThrough # TestFile
  BY <1>1, <1>3
<1>4. CASE FilesThrough = TestFile
  <2>1. sched.collected
    <3>1. PICK g \in TestFile : TRUE
      OBVIOUS
    <3>2. PICK t \in Test : g = FileOf[t]
      BY DEF TestFile
    <3>3. t \in sched.completed
      BY <1>4, <3>1, <3>2 DEF FilesThrough, TestsOf
    <3>4. QED
      BY <1>2, <3>3 DEF Sound, Shape
  <2>2. \A g \in TestFile : ~Open(sched, g)
    BY <1>4 DEF FilesThrough, Open
  <2>3. ToSet(sched.queue) = {} /\ \A w \in Worker : Held(sched, w) = {}
    <3>1. ToSet(sched.queue) \subseteq TestFile /\ \A w \in Worker : Held(sched, w) \subseteq TestFile
      BY <1>2, NonEmptyFacts DEF Sched, Held
    <3>2. QED
      BY <1>2, <2>2, <3>1 DEF Sound, FilesPlaced
  <2>4. ~Unclaimed(sched)
    BY <1>2, <2>3, NonEmptyFacts DEF Unclaimed, Sched
  <2>5. Replacements + Cardinality(ToReplace) < Cardinality(FilesThrough)
    BY <2>1, <2>4 DEF SpawnInv
  <2>6. QED
    BY <1>1, <2>5
<1>5. QED
  BY <1>3, <1>4

(* However many workers die: no more than -n count as alive at a time, and *)
(* a session starts at most one worker per file, -n - 1 spares, and one    *)
(* for every death.                                                        *)
THEOREM FewWorkersStarted == Spec => []SpawnBounded
<1>1. HomesInv /\ SpawnInv => SpawnBounded
  <2> SUFFICES ASSUME HomesInv, SpawnInv PROVE SpawnBounded
    OBVIOUS
  <2>1. Cardinality(active_nodes) <= config.n
    BY DEF HomesInv, AliveBounded
  <2>2. ASSUME Collection # <<>>
        PROVE  Cardinality(Born) <= Cardinality(TestFile) + (config.n - 1) + failed_nodes
    <3>1. TestFile # {}
      <4>1. Collection \in Seq(Test)
        BY NoTestTwice
      <4>2. Test # {}
        BY <2>2, <4>1, NonEmptyFacts DEF Test
      <4>3. QED
        BY <4>2 DEF TestFile
    <3>2. Replacements <= Cardinality(TestFile) - 1
      BY <3>1, SpawnEnough
    <3>3. /\ Cardinality(Born) \in Nat /\ config.n \in Nat /\ failed_nodes \in Nat
          /\ Cardinality(TestFile) \in Nat
      BY SpawnNumbers DEF SpawnInv
    <3>4. QED
      BY <3>2, <3>3 DEF Replacements
  <2>3. QED
    BY <2>1, <2>2 DEF SpawnBounded
<1>2. QED
  BY <1>1, SpawnInit, SpawnNext, PTL DEF Spec

------------------------------------------------------------------------------
(***************************************************************************)
(* No exception escapes a handler while nobody dies, nor does one when the *)
(* only worker asked for dies of a test.                                   *)
(***************************************************************************)
Unheard ==
  {w \in Worker : \/ phase[w] \in {"unborn", "starting"}
                  \/ \E i \in DOMAIN events[w] : events[w][i][1] = "workerready"}

Course == [ahead |-> Ahead, home |-> Home, ended |-> {w \in Worker : nextitem[w] = SHUTDOWN},
           dead |-> Crashed, unheard |-> Unheard]

Calm == Crashed = {} \/ (config.n = 1 /\ ~config.anywhere)

(* The loop has asked whether the tests are finished. *)
FinishNoticed == TestsFinished(sched) => shuttingdown

(* A worker that finishes has come to the end of its queue. *)
FinishedWell ==
  \A w \in Worker :
    /\ phase[w] = "done" => nextitem[w] = SHUTDOWN
    /\ \A i \in DOMAIN events[w] : events[w][i][1] = "workerfinished" => phase[w] = "done"

CalmInv ==
  /\ HomesInv /\ FinishNoticed /\ FinishedWell
  /\ Undisturbed => Calm
  /\ Calm => Serene(Course, sched) /\ ~aborted

LEMMA CourseMeans ==
  /\ Course.ahead = Ahead /\ Course.home = Home /\ Course.dead = Crashed
  /\ Course.ended = {w \in Worker : nextitem[w] = SHUTDOWN} /\ Course.unheard = Unheard
BY DEF Course

LEMMA CalmUntroubled ==
  ASSUME CalmInv, Calm
  PROVE  Untroubled(Course, sched) /\ Undisturbed /\ ~aborted
<1>1. Undisturbed
  BY DEF Calm, Undisturbed
<1>2. Sound(Ahead, sched) /\ Homely(Home, FALSE, sched)
  BY <1>1 DEF CalmInv, HomesInv, SessionInv, SchedulerSound, FilesAtHome, Homely
<1>3. Tidy(Ahead, Home, FALSE, sched)
  BY <1>2 DEF Tidy
<1>4. QED
  BY <1>1, <1>3, CourseMeans DEF CalmInv, Untroubled

LEMMA CalmInit == Init => CalmInv
<1> SUFFICES ASSUME Init PROVE CalmInv
  OBVIOUS
<1>1. HomesInv
  BY HomesInit
<1>2. config.n \in Nat \ {0}
  BY ConfigsShape DEF Init
<1>3. /\ sched.active = None /\ sched.next = None /\ sched.standby = <<>> /\ sched.nodes = <<>>
      /\ sched.assigned = [w \in Worker |-> <<>>] /\ sched.torun = [w \in Worker |-> <<>>]
      /\ sched.registered = {} /\ sched.numnodes \in Nat \ {0} /\ sched.raised = None
      /\ sched.sent = {} /\ sched.broken = {}
  BY <1>2 DEF Init, InitSched
<1>4. Crashed = {} /\ \A w \in Worker : nextitem[w] # SHUTDOWN /\ events[w] = <<>> /\ phase[w] # "done"
  BY NoTestTwice DEF Init, Crashed
<1>5. Calm
  BY <1>4 DEF Calm
<1>6. FinishNoticed
  BY <1>3, FS_EmptySet DEF FinishNoticed, TestsFinished, CollectionCompleted
<1>7. FinishedWell
  BY <1>4 DEF FinishedWell
<1>8. Serene(Course, sched)
  <2>1. Idle(sched) = {} /\ ToSet(sched.nodes) = {}
    BY <1>3, EmptyFacts, WorkerNumbers DEF Idle
  <2>2. \A w \in Worker : Pending(sched, w) = {}
    BY <1>3 DEF Pending, Contains
  <2>3. \A w \in Worker : LastWord(Course, sched, w)
    BY <1>3, <1>4, CourseMeans, EmptyFacts DEF LastWord
  <2>4. QED
    BY <1>3, <2>1, <2>2, <2>3 DEF Serene
<1>9. QED
  BY <1>1, <1>5, <1>6, <1>7, <1>8 DEF CalmInv, Init

(* A step of a worker, of the receiver thread, or none.                     *)
LEMMA ProcessCalm ==
  ASSUME CalmInv, HomesInv', FinishedWell',
         UNCHANGED <<config, shuttingdown, aborted>>, Crashed \subseteq Crashed',
         sched'.active = sched.active, sched'.next = sched.next,
         sched'.standby = sched.standby, sched'.current = sched.current,
         sched'.nodes = sched.nodes, sched'.assigned = sched.assigned,
         sched'.completed = sched.completed, sched'.collected = sched.collected,
         sched'.queue = sched.queue, sched'.registered = sched.registered,
         sched'.numnodes = sched.numnodes, sched'.raised = sched.raised,
         sched'.sent = sched.sent,
         Undisturbed' => Calm',
         Calm' =>
           /\ \A w \in Worker : LastWord(Course', sched', w)
           /\ sched.queue # <<>> \/ ~sched.collected => Idle(sched) \cap sched'.broken = {}
           /\ Unheard' \cap (sched.sent \cup sched'.broken \cup ToSet(sched.nodes)) = {}
           /\ \A w \in Worker \ Crashed' :
                Ahead[w] \cup Sent(sched, w) \subseteq Ahead'[w] \cup Sent(sched', w)
  PROVE  CalmInv'
<1>1. /\ Idle(sched') = Idle(sched)
      /\ \A w \in Worker : Held(sched', w) = Held(sched, w) /\ Pending(sched', w) = Pending(sched, w)
  BY DEF Idle, Held, Pending
<1>2. FinishNoticed'
  <2>1. TestsFinished(sched') <=> TestsFinished(sched)
    BY DEF TestsFinished, CollectionCompleted, Pending
  <2>2. QED
    BY <2>1 DEF CalmInv, FinishNoticed
<1>3. Calm' => Serene(Course', sched') /\ ~aborted'
  <2> SUFFICES ASSUME Calm' PROVE Serene(Course', sched') /\ ~aborted'
    OBVIOUS
  <2>1. Calm
    BY DEF Calm
  <2>2. Serene(Course, sched) /\ ~aborted
    BY <2>1 DEF CalmInv
  <2>3. Course'.ahead = Ahead' /\ Course'.dead = Crashed' /\ Course'.unheard = Unheard'
    BY DEF Course
  <2>4. \A w \in Worker \ Crashed' : Pending(sched', w) \subseteq Ahead'[w] \cup Sent(sched', w)
    BY <1>1, <2>2, CourseMeans DEF Serene
  <2>5. \A w \in Idle(sched') : Held(sched', w) = {}
    BY <1>1, <2>2 DEF Serene, Idle
  <2>6. QED
    BY <1>1, <2>2, <2>3, <2>4, <2>5 DEF Serene
<1>4. QED
  BY <1>2, <1>3 DEF CalmInv

(* What a worker reports is still ahead of it until the controller hears.   *)
LEMMA EmitCalm ==
  ASSUME CalmInv, HomesInv', NEW w \in Worker, NEW e \in EventName \X (Test \cup {None}),
         Emit(w, e), UNCHANGED <<config, controller, nextitem>>,
         \A v \in Worker : v # w => phase'[v] = phase[v] /\ running'[v] = running[v],
         phase[w] \in {"starting", "collecting", "loop"},
         phase'[w] \notin {"unborn", "starting", "crashed"},
         e[1] = "workerready" => phase[w] = "starting",
         phase'[w] = "done" => nextitem[w] = SHUTDOWN,
         e[1] = "workerfinished" => phase'[w] = "done",
         phase[w] = "loop" => phase'[w] = "loop" \/ nextitem[w] = SHUTDOWN,
         running[w] = running'[w] \/ e = <<Complete, running[w]>>
  PROVE  CalmInv'
<1>0. SessionTypes /\ running \in [Worker -> Test \cup {None}]
  BY DEF CalmInv, HomesInv, SessionInv, SessionTypes
<1>1. /\ \A v \in Worker : v # w => events'[v] = events[v]
      /\ DOMAIN events[w] = 1 .. Len(events[w]) /\ DOMAIN events'[w] = 1 .. Len(events'[w])
      /\ Len(events'[w]) = Len(events[w]) + 1 /\ Len(events[w]) \in Nat
      /\ \A i \in DOMAIN events[w] : events'[w][i] = events[w][i]
      /\ events'[w][Len(events'[w])] = e
  BY <1>0, EmitFacts
<1>2. /\ sched' = sched /\ UNCHANGED <<config, shuttingdown, aborted, nextitem>>
  BY DEF controller
<1>3. /\ \A v \in Worker : v # w => events'[v] = events[v]
      /\ \A i \in DOMAIN events[w] : i \in DOMAIN events'[w] /\ events'[w][i] = events[w][i]
      /\ \A i \in DOMAIN events'[w] :
           (i \in DOMAIN events[w] /\ events'[w][i] = events[w][i]) \/ events'[w][i] = e
      /\ \E i \in DOMAIN events'[w] : events'[w][i] = e
  <2>1. Len(events'[w]) \in DOMAIN events'[w]
    BY <1>1
  <2>2. \A i \in DOMAIN events'[w] : i \in DOMAIN events[w] \/ i = Len(events'[w])
    BY <1>1
  <2>3. \A i \in DOMAIN events[w] : i \in DOMAIN events'[w]
    BY <1>1
  <2>4. QED
    BY <1>1, <2>1, <2>2, <2>3
<1>4. Crashed' = Crashed /\ Undisturbed' = Undisturbed /\ Calm' = Calm
  <2>1. Crashed' = Crashed
    BY DEF Crashed
  <2>2. QED
    BY <1>2, <2>1 DEF Undisturbed, Calm
<1>5. FinishedWell'
  <2> SUFFICES ASSUME NEW v \in Worker
               PROVE  /\ phase'[v] = "done" => nextitem'[v] = SHUTDOWN
                      /\ \A i \in DOMAIN events'[v] :
                           events'[v][i][1] = "workerfinished" => phase'[v] = "done"
    BY DEF FinishedWell
  <2>1. /\ phase[v] = "done" => nextitem[v] = SHUTDOWN
        /\ \A i \in DOMAIN events[v] : events[v][i][1] = "workerfinished" => phase[v] = "done"
    BY DEF CalmInv, FinishedWell
  <2>2. CASE v # w
    BY <1>2, <1>3, <2>1, <2>2
  <2>3. CASE v = w
    BY <1>2, <1>3, <2>1, <2>3
  <2>4. QED
    BY <2>2, <2>3
<1>6. Unheard' \subseteq Unheard
  <2> SUFFICES ASSUME NEW v \in Unheard' PROVE v \in Unheard
    OBVIOUS
  <2>1. v \in Worker /\ \/ phase'[v] \in {"unborn", "starting"}
                        \/ \E i \in DOMAIN events'[v] : events'[v][i][1] = "workerready"
    BY DEF Unheard
  <2>2. CASE v # w
    BY <1>3, <2>1, <2>2 DEF Unheard
  <2>3. CASE v = w
    BY <1>3, <2>1, <2>3 DEF Unheard
  <2>4. QED
    BY <2>2, <2>3
<1>7. ASSUME NEW v \in Worker
      PROVE  Ahead[v] \subseteq Ahead'[v]
  <2>1. CASE v # w
    <3>1. Reported(v)' = Reported(v) /\ Upcoming(v)' = Upcoming(v) /\ running'[v] = running[v]
      BY <1>2, <1>3, <2>1 DEF Reported, Upcoming
    <3>2. QED
      BY <3>1, AheadMeans
  <2>2. CASE v = w
    <3>1. Reported(w) \subseteq Reported(w)'
      BY <1>3 DEF Reported
    <3>2. Upcoming(w) \subseteq Upcoming(w)'
      BY <1>2 DEF Upcoming
    <3>3. {running[w]} \ {None} \subseteq ({running'[w]} \ {None}) \cup Reported(w)'
      BY <1>0, <1>3 DEF Reported
    <3>4. QED
      BY <2>2, <3>1, <3>2, <3>3, AheadMeans
  <2>3. QED
    BY <2>1, <2>2
<1>8. ASSUME Calm' 
      PROVE  /\ \A v \in Worker : LastWord(Course', sched', v)
             /\ sched.queue # <<>> \/ ~sched.collected => Idle(sched) \cap sched'.broken = {}
             /\ Unheard' \cap (sched.sent \cup sched'.broken \cup ToSet(sched.nodes)) = {}
             /\ \A v \in Worker \ Crashed' :
                  Ahead[v] \cup Sent(sched, v) \subseteq Ahead'[v] \cup Sent(sched', v)
  <2>1. Serene(Course, sched)
    BY <1>4, <1>8 DEF CalmInv
  <2>2. Course'.ended = Course.ended
    BY <1>2 DEF Course
  <2>3. \A v \in Worker : LastWord(Course', sched', v)
    BY <1>2, <2>1, <2>2 DEF LastWord, Serene
  <2>4. QED
    BY <1>2, <1>6, <1>7, <2>1, <2>3, CourseMeans DEF Serene
<1>9. QED
  BY <1>2, <1>4, <1>5, <1>8, ProcessCalm DEF CalmInv

LEMMA WorkerEventsCalm ==
  ASSUME CalmInv, HomesInv', NEW w \in Worker,
         SessionStart(w) \/ CollectionFinish(w) \/ EndTest(w) \/ SessionFinish(w)
  PROVE  CalmInv'
<1>0. /\ phase \in [Worker -> Phase] /\ running \in [Worker -> Test \cup {None}]
      /\ running[w] # None => phase[w] = "loop"
  BY DEF CalmInv, HomesInv, SessionInv, SessionTypes, ProcessShape
<1>1. CASE SessionStart(w)
  <2> DEFINE e == <<"workerready", None>>
  <2>1. e \in EventName \X (Test \cup {None}) /\ e[1] = "workerready"
    BY DEF EventName
  <2>2. /\ phase' = [phase EXCEPT ![w] = "collecting"] /\ Emit(w, e) /\ phase[w] = "starting"
        /\ UNCHANGED <<config, controller, nextitem, running>>
    BY <1>1 DEF SessionStart, Become
  <2> HIDE DEF e
  <2>3. phase'[w] = "collecting" /\ \A v \in Worker : v # w => phase'[v] = phase[v]
    BY <1>0, <2>2
  <2>4. QED
    BY <2>1, <2>2, <2>3, EmitCalm
<1>2. CASE CollectionFinish(w)
  <2> DEFINE e == <<"collectionfinish", None>>
  <2>1. e \in EventName \X (Test \cup {None}) /\ e[1] = "collectionfinish"
    BY DEF EventName
  <2>2. /\ phase' = [phase EXCEPT ![w] = "waiting"] /\ Emit(w, e) /\ phase[w] = "collecting"
        /\ UNCHANGED <<config, controller, nextitem, running>>
    BY <1>2 DEF CollectionFinish, Become
  <2> HIDE DEF e
  <2>3. phase'[w] = "waiting" /\ \A v \in Worker : v # w => phase'[v] = phase[v]
    BY <1>0, <2>2
  <2>4. QED
    BY <2>1, <2>2, <2>3, EmitCalm
<1>3. CASE EndTest(w)
  <2> DEFINE e == <<Complete, running[w]>>
  <2>1. e \in EventName \X (Test \cup {None}) /\ e[1] = Complete /\ e = <<Complete, running[w]>>
    BY <1>0 DEF EventName
  <2>2. /\ phase' = phase /\ phase[w] = "loop" /\ Emit(w, e)
        /\ running' = [running EXCEPT ![w] = None]
        /\ UNCHANGED <<config, controller, nextitem>>
    BY <1>0, <1>3 DEF EndTest, Complete
  <2> HIDE DEF e
  <2>3. \A v \in Worker : v # w => running'[v] = running[v]
    BY <1>0, <2>2
  <2>4. e[1] \notin {"workerready", "workerfinished"}
    BY <2>1 DEF Complete
  <2>5. QED
    BY <2>1, <2>2, <2>3, <2>4, EmitCalm
<1>4. CASE SessionFinish(w)
  <2> DEFINE e == <<"workerfinished", None>>
  <2>1. e \in EventName \X (Test \cup {None}) /\ e[1] = "workerfinished"
    BY DEF EventName
  <2>2. /\ phase' = [phase EXCEPT ![w] = "done"] /\ Emit(w, e) /\ phase[w] = "loop"
        /\ nextitem[w] = SHUTDOWN
        /\ UNCHANGED <<config, controller, nextitem, running>>
    BY <1>4 DEF SessionFinish, Become
  <2> HIDE DEF e
  <2>3. phase'[w] = "done" /\ \A v \in Worker : v # w => phase'[v] = phase[v]
    BY <1>0, <2>2
  <2>4. QED
    BY <2>1, <2>2, <2>3, EmitCalm
<1>5. QED
  BY <1>1, <1>2, <1>3, <1>4

(* A command taken is the next one, and behind the marker there is nothing  *)
(* but the marker.                                                          *)
LEMMA WorkerGetsCalm ==
  ASSUME CalmInv, HomesInv', NEW w \in Worker, EnterLoop(w) \/ BeginTest(w)
  PROVE  CalmInv'
<1> DEFINE old == sched.torun[w]
           next == Head(old)
<1>0. /\ phase \in [Worker -> Phase] /\ nextitem \in [Worker -> Test \cup {SHUTDOWN, None}]
      /\ running \in [Worker -> Test \cup {None}] /\ sched \in Sched
      /\ old \in Seq(Test \cup {SHUTDOWN})
      /\ phase[w] = "loop" => nextitem[w] # None
      /\ SHUTDOWN \notin Test
  BY NoTestTwice
     DEF CalmInv, HomesInv, SessionInv, SessionTypes, SchedulerSound, Sound, Shape, ProcessShape, Sched
<1>1. /\ old # <<>> /\ nextitem' = [nextitem EXCEPT ![w] = next]
      /\ sched' = [sched EXCEPT !.torun[w] = Tail(@)]
      /\ UNCHANGED <<config, shuttingdown, aborted, events>>
  BY DEF EnterLoop, BeginTest, Get
<1>2. \/ /\ phase[w] = "waiting" /\ phase' = [phase EXCEPT ![w] = "loop"] /\ UNCHANGED running
      \/ /\ phase[w] = "loop" /\ nextitem[w] # SHUTDOWN /\ UNCHANGED phase
         /\ running[w] = None /\ running' = [running EXCEPT ![w] = nextitem[w]]
  BY DEF EnterLoop, BeginTest, Become
<1>3. /\ sched'.active = sched.active /\ sched'.next = sched.next
      /\ sched'.standby = sched.standby /\ sched'.current = sched.current
      /\ sched'.nodes = sched.nodes /\ sched'.assigned = sched.assigned
      /\ sched'.completed = sched.completed /\ sched'.collected = sched.collected
      /\ sched'.queue = sched.queue /\ sched'.registered = sched.registered
      /\ sched'.numnodes = sched.numnodes /\ sched'.raised = sched.raised
      /\ sched'.sent = sched.sent /\ sched'.broken = sched.broken
      /\ sched'.torun = [sched.torun EXCEPT ![w] = Tail(old)]
  BY <1>0, <1>1 DEF Sched
<1>4. sched'.torun[w] = Tail(old) /\ \A v \in Worker : v # w => sched'.torun[v] = sched.torun[v]
  BY <1>0, <1>3 DEF Sched
<1>5. /\ Len(old) \in Nat /\ DOMAIN old = 1 .. Len(old) /\ 1 \in DOMAIN old /\ old[1] = next
      /\ DOMAIN Tail(old) = 1 .. (Len(old) - 1)
      /\ \A i \in DOMAIN Tail(old) : i + 1 \in DOMAIN old /\ Tail(old)[i] = old[i + 1]
      /\ \A i \in DOMAIN old : old[i] \in Test \cup {SHUTDOWN}
      /\ next \in Test \cup {SHUTDOWN}
  BY <1>0, <1>1
<1>6. \A v \in Worker : v # w => phase'[v] = phase[v] /\ nextitem'[v] = nextitem[v]
                                 /\ running'[v] = running[v]
  BY <1>0, <1>1, <1>2
<1>7. /\ phase'[w] = "loop" /\ nextitem'[w] = next /\ phase[w] \in {"waiting", "loop"}
      /\ phase[w] = "loop" => running'[w] = nextitem[w] /\ running[w] = None
      /\ phase[w] = "waiting" => running'[w] = running[w]
  BY <1>0, <1>1, <1>2
<1> HIDE DEF next, old
<1>8. Crashed' = Crashed /\ Undisturbed' = Undisturbed /\ Calm' = Calm
  <2>1. Crashed' = Crashed
    BY <1>6, <1>7 DEF Crashed
  <2>2. QED
    BY <1>1, <2>1 DEF Undisturbed, Calm
<1>9. FinishedWell'
  <2>1. FinishedWell
    BY DEF CalmInv
  <2>2. ASSUME NEW v \in Worker
        PROVE  /\ phase'[v] = "done" => nextitem'[v] = SHUTDOWN
               /\ \A i \in DOMAIN events'[v] :
                    events'[v][i][1] = "workerfinished" => phase'[v] = "done"
    BY <1>1, <1>6, <1>7, <2>1 DEF FinishedWell
  <2>3. QED
    BY <2>2 DEF FinishedWell
<1>10. Unheard' \subseteq Unheard
  BY <1>1, <1>6, <1>7 DEF Unheard
<1>11. ASSUME NEW v \in Worker
       PROVE  Ahead[v] \cup Sent(sched, v) \subseteq Ahead'[v] \cup Sent(sched', v)
  <2>1. Reported(v)' = Reported(v)
    BY <1>1 DEF Reported
  <2>2. CASE v # w
    <3>1. Upcoming(v)' = Upcoming(v) /\ Sent(sched', v) = Sent(sched, v)
      BY <1>4, <1>6, <2>2 DEF Upcoming, Sent
    <3>2. QED
      BY <1>6, <2>1, <2>2, <3>1, AheadMeans
  <2>3. CASE v = w
    <3>1. ASSUME NEW t \in Sent(sched, w)
          PROVE  t \in Upcoming(w)' \cup Sent(sched', w)
      <4>1. PICK i \in DOMAIN old : old[i] = t /\ t \in Test
        BY <3>1 DEF Sent, old
      <4>2. CASE i = 1
        BY <1>0, <1>5, <1>7, <4>1, <4>2 DEF Upcoming
      <4>3. CASE i # 1
        <5>1. i - 1 \in DOMAIN Tail(old) /\ Tail(old)[i - 1] = t
          BY <1>5, <4>1, <4>3
        <5>2. QED
          BY <1>4, <4>1, <5>1 DEF Sent
      <4>4. QED
        BY <4>2, <4>3
    <3>2. Upcoming(w) \subseteq {running'[w]} \ {None}
      BY <1>0, <1>7 DEF Upcoming
    <3>3. {running[w]} \ {None} \subseteq {running'[w]} \ {None}
      BY <1>7
    <3>4. QED
      BY <2>1, <2>3, <3>1, <3>2, <3>3, AheadMeans
  <2>4. QED
    BY <2>2, <2>3
<1>12. ASSUME Calm'
       PROVE  /\ \A v \in Worker : LastWord(Course', sched', v)
              /\ sched.queue # <<>> \/ ~sched.collected => Idle(sched) \cap sched'.broken = {}
              /\ Unheard' \cap (sched.sent \cup sched'.broken \cup ToSet(sched.nodes)) = {}
              /\ \A v \in Worker \ Crashed' :
                   Ahead[v] \cup Sent(sched, v) \subseteq Ahead'[v] \cup Sent(sched', v)
  <2>1. Serene(Course, sched)
    BY <1>8, <1>12 DEF CalmInv
  <2>2. Course'.ended = {v \in Worker : nextitem'[v] = SHUTDOWN}
    BY DEF Course
  <2>3. ASSUME NEW v \in Worker
        PROVE  LastWord(Course', sched', v)
    <3>1. LastWord(Course, sched, v)
      BY <2>1 DEF Serene
    <3>2. CASE v # w
      <4>1. v \in Course'.ended <=> v \in Course.ended
        BY <1>6, <2>2, <3>2, CourseMeans
      <4>2. QED
        BY <1>3, <1>4, <3>1, <3>2, <4>1 DEF LastWord, Sent
    <3>3. CASE v = w
      <4>1. w \in Course'.ended <=> next = SHUTDOWN
        BY <1>7, <2>2
      <4>2. \A i, j \in DOMAIN Tail(old) :
              i < j /\ Tail(old)[i] = SHUTDOWN => Tail(old)[j] = SHUTDOWN
        <5> TAKE i, j \in DOMAIN Tail(old)
        <5>1. i \in Nat /\ j \in Nat /\ i + 1 \in DOMAIN old /\ j + 1 \in DOMAIN old
          BY <1>5
        <5>2. i < j => i + 1 < j + 1
          BY <5>1
        <5>3. QED
          BY <1>5, <3>1, <3>3, <5>1, <5>2 DEF LastWord, old
      <4>3. next = SHUTDOWN => \A i \in DOMAIN old : old[i] = SHUTDOWN
        <5> SUFFICES ASSUME next = SHUTDOWN, NEW i \in DOMAIN old PROVE old[i] = SHUTDOWN
          OBVIOUS
        <5>1. i = 1 \/ 1 < i
          BY <1>5
        <5>2. QED
          BY <1>5, <3>1, <3>3, <5>1 DEF LastWord, old
      <4>4. next = SHUTDOWN => Sent(sched', w) = {}
        BY <1>0, <1>4, <1>5, <4>3 DEF Sent
      <4>5. SHUTDOWN \in ToSet(Tail(old)) \/ next = SHUTDOWN => SHUTDOWN \in ToSet(old)
        BY <1>5 DEF ToSet
      <4>6. w \in Course'.ended \/ SHUTDOWN \in ToSet(Tail(old)) => w \in sched.sent
        BY <3>1, <3>3, <4>1, <4>5 DEF LastWord, old
      <4>7. sched'.torun[w] = Tail(old) /\ sched'.sent = sched.sent
        BY <1>3, <1>4
      <4>8. w \in Course'.ended => Sent(sched', w) = {}
        BY <4>1, <4>4
      <4>9. LastWord(Course', sched', w)
        BY <4>2, <4>6, <4>7, <4>8 DEF LastWord
      <4>10. QED
        BY <3>3, <4>9
    <3>4. QED
      BY <3>2, <3>3
  <2>4. QED
    BY <1>3, <1>10, <1>11, <2>1, <2>3, CourseMeans DEF Serene
<1>13. QED
  BY <1>1, <1>3, <1>8, <1>9, <1>12, ProcessCalm DEF CalmInv

(* Workers only die of tests if the only one does. *)
OnlyInTests == \A c \in Configs : c.n = 1 /\ c.anywhere => c.deaths = 0

(* The worker that dies of a test holds its file, and so does not wait for  *)
(* one.                                                                     *)
LEMMA CrashCalm ==
  ASSUME OnlyInTests, CalmInv, HomesInv', NEW w \in Worker, Crash(w)
  PROVE  CalmInv'
<1> DEFINE e == <<"errordown", None>>
<1>0. /\ SessionTypes /\ phase \in [Worker -> Phase] /\ config \in Configs
      /\ running \in [Worker -> Test \cup {None}]
      /\ sched \in Sched /\ sched.torun \in [Worker -> Seq(Test \cup {SHUTDOWN})]
      /\ Sound(Ahead, sched)
  BY DEF CalmInv, HomesInv, SessionInv, SessionTypes, SchedulerSound, Sound, Shape, Sched
<1>1. /\ phase' = [phase EXCEPT ![w] = "crashed"] /\ Emit(w, e)
      /\ running' = [running EXCEPT ![w] = None]
      /\ sched' = [sched EXCEPT !.broken = @ \cup {w}, !.torun[w] = <<>>]
      /\ phase[w] \notin {"unborn", "done", "crashed"} /\ Cardinality(Crashed) < config.deaths
      /\ config.anywhere \/ running[w] # None
      /\ UNCHANGED <<config, shuttingdown, aborted, nextitem>>
  BY DEF Crash, Become
<1>2. e \in EventName \X (Test \cup {None}) /\ e[1] = "errordown"
  BY DEF EventName
<1> HIDE DEF e
<1>3. /\ sched'.active = sched.active /\ sched'.next = sched.next
      /\ sched'.standby = sched.standby /\ sched'.current = sched.current
      /\ sched'.nodes = sched.nodes /\ sched'.assigned = sched.assigned
      /\ sched'.completed = sched.completed /\ sched'.collected = sched.collected
      /\ sched'.queue = sched.queue /\ sched'.registered = sched.registered
      /\ sched'.numnodes = sched.numnodes /\ sched'.raised = sched.raised
      /\ sched'.sent = sched.sent /\ sched'.broken = sched.broken \cup {w}
      /\ sched'.torun = [sched.torun EXCEPT ![w] = <<>>]
  BY <1>0, <1>1 DEF Sched
<1>4. sched'.torun[w] = <<>> /\ \A v \in Worker : v # w => sched'.torun[v] = sched.torun[v]
  BY <1>0, <1>3
<1>5. /\ phase'[w] = "crashed" /\ running'[w] = None
      /\ \A v \in Worker : v # w => phase'[v] = phase[v] /\ running'[v] = running[v]
  BY <1>0, <1>1
<1>6. /\ \A v \in Worker : v # w => events'[v] = events[v]
      /\ \A i \in DOMAIN events'[w] :
           (i \in DOMAIN events[w] /\ events'[w][i] = events[w][i]) \/ events'[w][i] = e
  <2>1. /\ \A v \in Worker : v # w => events'[v] = events[v]
        /\ DOMAIN events[w] = 1 .. Len(events[w]) /\ DOMAIN events'[w] = 1 .. Len(events'[w])
        /\ Len(events'[w]) = Len(events[w]) + 1 /\ Len(events[w]) \in Nat
        /\ \A i \in DOMAIN events[w] : events'[w][i] = events[w][i]
        /\ events'[w][Len(events'[w])] = e
    BY <1>0, <1>1, <1>2, EmitFacts
  <2>2. \A i \in DOMAIN events'[w] : i \in DOMAIN events[w] \/ i = Len(events'[w])
    BY <2>1
  <2>3. QED
    BY <2>1, <2>2
<1>7. Crashed' = Crashed \cup {w} /\ (Calm' => Calm)
  <2>1. Crashed' = Crashed \cup {w}
    BY <1>5 DEF Crashed
  <2>2. QED
    BY <1>1, <2>1 DEF Calm
<1>8. Undisturbed' => Calm'
  <2> SUFFICES ASSUME Undisturbed', config.anywhere PROVE FALSE
    BY <1>1 DEF Undisturbed, Calm
  <2>1. config.n = 1
    BY <1>1, <1>7 DEF Undisturbed
  <2>2. Crashed = {} /\ config.deaths = 0
    BY <1>0, <2>1 DEF CalmInv, Undisturbed, Calm, OnlyInTests
  <2>3. QED
    BY <1>1, <2>2, FS_EmptySet
<1>9. FinishedWell'
  <2>1. FinishedWell
    BY DEF CalmInv
  <2>2. ASSUME NEW v \in Worker
        PROVE  /\ phase'[v] = "done" => nextitem'[v] = SHUTDOWN
               /\ \A i \in DOMAIN events'[v] :
                    events'[v][i][1] = "workerfinished" => phase'[v] = "done"
    <3>1. CASE v # w
      BY <1>1, <1>5, <1>6, <2>1, <3>1 DEF FinishedWell
    <3>2. CASE v = w
      BY <1>1, <1>2, <1>5, <1>6, <2>1, <3>2 DEF FinishedWell
    <3>3. QED
      BY <3>1, <3>2
  <2>3. QED
    BY <2>2 DEF FinishedWell
<1>10. Unheard' \subseteq Unheard
  <2> SUFFICES ASSUME NEW v \in Unheard' PROVE v \in Unheard
    OBVIOUS
  <2>1. v \in Worker /\ \/ phase'[v] \in {"unborn", "starting"}
                        \/ \E i \in DOMAIN events'[v] : events'[v][i][1] = "workerready"
    BY DEF Unheard
  <2>2. QED
    BY <1>2, <1>5, <1>6, <2>1 DEF Unheard
<1>11. ASSUME NEW v \in Worker, v # w
       PROVE  Ahead'[v] = Ahead[v] /\ Sent(sched', v) = Sent(sched, v)
  <2>1. Reported(v)' = Reported(v) /\ Upcoming(v)' = Upcoming(v) /\ Sent(sched', v) = Sent(sched, v)
    BY <1>1, <1>4, <1>5, <1>6, <1>11 DEF Reported, Upcoming, Sent
  <2>2. QED
    BY <1>5, <1>11, <2>1, AheadMeans
<1>12. ASSUME Calm'
       PROVE  /\ \A v \in Worker : LastWord(Course', sched', v)
              /\ sched.queue # <<>> \/ ~sched.collected => Idle(sched) \cap sched'.broken = {}
              /\ Unheard' \cap (sched.sent \cup sched'.broken \cup ToSet(sched.nodes)) = {}
              /\ \A v \in Worker \ Crashed' :
                   Ahead[v] \cup Sent(sched, v) \subseteq Ahead'[v] \cup Sent(sched', v)
  <2>1. Serene(Course, sched)
    BY <1>7, <1>12 DEF CalmInv
  <2>2. running[w] # None
    BY <1>1, <1>7, <1>12 DEF Calm
  <2>3. Held(sched, w) # {}
    <3>1. running[w] \in Ahead[w]
      BY <2>2, AheadMeans
    <3>2. QED
      BY <1>0, <3>1 DEF Sound, TestsSent
  <2>4. w \in ToSet(sched.nodes) /\ w \notin Idle(sched)
    BY <1>0, <2>1, <2>3 DEF Serene, Sound, FilesPlaced
  <2>5. w \notin Unheard
    BY <2>1, <2>4, CourseMeans DEF Serene
  <2>6. Course'.ended = Course.ended
    BY <1>1 DEF Course
  <2>7. ASSUME NEW v \in Worker
        PROVE  LastWord(Course', sched', v)
    <3>1. LastWord(Course, sched, v) /\ sched'.sent = sched.sent
      BY <1>3, <2>1 DEF Serene
    <3>2. CASE v # w
      <4>1. sched'.torun[v] = sched.torun[v] /\ Sent(sched', v) = Sent(sched, v)
        BY <1>4, <1>11, <3>2
      <4>2. QED
        BY <2>6, <3>1, <4>1 DEF LastWord
    <3>3. CASE v = w
      <4>1. sched'.torun[w] = <<>> /\ Sent(sched', w) = {} /\ ToSet(<<>>) = {}
        BY <1>4, EmptyFacts DEF Sent
      <4>2. QED
        BY <2>6, <3>1, <3>3, <4>1 DEF LastWord
    <3>4. QED
      BY <3>2, <3>3
  <2>8. sched'.broken = sched.broken \cup {w}
    BY <1>3
  <2>9. sched.queue # <<>> \/ ~sched.collected => Idle(sched) \cap sched'.broken = {}
    BY <2>1, <2>4, <2>8 DEF Serene
  <2>10. Unheard' \cap (sched.sent \cup sched'.broken \cup ToSet(sched.nodes)) = {}
    BY <1>10, <2>1, <2>5, <2>8, CourseMeans DEF Serene
  <2>11. QED
    BY <1>7, <1>11, <2>7, <2>9, <2>10
<1>13. QED
  BY <1>1, <1>3, <1>7, <1>8, <1>9, <1>12, ProcessCalm

(* A worker that is done had been told to stop. *)
LEMMA ReceiveEndCalm ==
  ASSUME CalmInv, HomesInv', UNCHANGED vars \/ \E w \in Worker : ReceiveEnd(w)
  PROVE  CalmInv'
<1>0. sched \in Sched
  BY DEF CalmInv, HomesInv, SessionInv, SchedulerSound, Sound, Shape
<1>1. /\ \/ sched' = sched
         \/ \E w \in Worker : /\ sched' = [sched EXCEPT !.down = @ \cup {w}, !.broken = @ \cup {w}]
                              /\ phase[w] \in {"done", "crashed"}
      /\ UNCHANGED <<config, shuttingdown, aborted, events, phase, nextitem, running, began>>
  BY DEF ReceiveEnd, vars, controller
<1>2. PICK more \in SUBSET {w \in Worker : phase[w] \in {"done", "crashed"}} :
        sched'.broken = sched.broken \cup more
  <2>1. CASE sched' = sched
    <3>1. sched'.broken = sched.broken \cup {}
      BY <2>1
    <3>2. QED
      BY <3>1
  <2>2. ASSUME NEW w \in Worker, phase[w] \in {"done", "crashed"},
               sched' = [sched EXCEPT !.down = @ \cup {w}, !.broken = @ \cup {w}]
        PROVE  \E more \in SUBSET {v \in Worker : phase[v] \in {"done", "crashed"}} :
                 sched'.broken = sched.broken \cup more
    <3>1. sched'.broken = sched.broken \cup {w}
      BY <1>0, <2>2 DEF Sched
    <3>2. {w} \in SUBSET {v \in Worker : phase[v] \in {"done", "crashed"}}
      BY <2>2
    <3>3. QED
      BY <3>1, <3>2
  <2>3. QED
    BY <1>1, <2>1, <2>2
<1>3. /\ sched'.active = sched.active /\ sched'.next = sched.next
      /\ sched'.standby = sched.standby /\ sched'.current = sched.current
      /\ sched'.nodes = sched.nodes /\ sched'.assigned = sched.assigned
      /\ sched'.completed = sched.completed /\ sched'.collected = sched.collected
      /\ sched'.queue = sched.queue /\ sched'.registered = sched.registered
      /\ sched'.numnodes = sched.numnodes /\ sched'.raised = sched.raised
      /\ sched'.sent = sched.sent /\ sched'.torun = sched.torun
  BY <1>0, <1>1 DEF Sched
<1>4. Crashed' = Crashed /\ Unheard' = Unheard /\ Course'.ended = Course.ended
  BY <1>1 DEF Crashed, Unheard, Course
<1>5. Undisturbed' = Undisturbed /\ Calm' = Calm
  BY <1>1, <1>4 DEF Undisturbed, Calm
<1>6. FinishedWell'
  BY <1>1 DEF CalmInv, FinishedWell
<1>7. \A w \in Worker : Ahead'[w] = Ahead[w] /\ Sent(sched', w) = Sent(sched, w)
  <2>1. \A w \in Worker : Reported(w)' = Reported(w) /\ Upcoming(w)' = Upcoming(w)
    BY <1>1 DEF Reported, Upcoming
  <2>2. QED
    BY <1>1, <1>3, <2>1, AheadMeans DEF Sent
<1>8. ASSUME Calm'
      PROVE  /\ \A v \in Worker : LastWord(Course', sched', v)
             /\ sched.queue # <<>> \/ ~sched.collected => Idle(sched) \cap sched'.broken = {}
             /\ Unheard' \cap (sched.sent \cup sched'.broken \cup ToSet(sched.nodes)) = {}
             /\ \A v \in Worker \ Crashed' :
                  Ahead[v] \cup Sent(sched, v) \subseteq Ahead'[v] \cup Sent(sched', v)
  <2>1. Serene(Course, sched)
    BY <1>5, <1>8 DEF CalmInv
  <2>2. more \subseteq sched.broken \cup sched.sent
    <3> SUFFICES ASSUME NEW w \in more, w \notin sched.broken PROVE w \in sched.sent
      OBVIOUS
    <3>1. w \in Worker /\ phase[w] = "done"
      BY DEF CalmInv, HomesInv, SessionInv, ProcessShape
    <3>2. w \in Course.ended
      BY <3>1, CourseMeans DEF CalmInv, FinishedWell
    <3>3. QED
      BY <2>1, <3>1, <3>2 DEF Serene, LastWord
  <2>3. \A v \in Worker : LastWord(Course', sched', v)
    <3>1. \A v \in Worker : LastWord(Course, sched, v)
      BY <2>1 DEF Serene
    <3>2. QED
      BY <1>3, <1>4, <1>7, <3>1 DEF LastWord
  <2>4. QED
    BY <1>2, <1>4, <1>7, <2>1, <2>2, <2>3, CourseMeans DEF Serene
<1>9. QED
  BY <1>1, <1>3, <1>4, <1>5, <1>6, <1>8, ProcessCalm DEF CalmInv

(* Hearing of a worker is all that changes when an event is taken. *)
LEMMA UntroubledHeard ==
  ASSUME NEW p, NEW q, NEW s, Untroubled(p, s), q.ahead = p.ahead, q.home = p.home,
         q.ended = p.ended, q.dead = p.dead, q.unheard \subseteq p.unheard
  PROVE  Untroubled(q, s)
<1>1. Tidy(q.ahead, q.home, FALSE, s)
  BY DEF Untroubled
<1>2. \A w \in Worker : LastWord(p, s, w) => LastWord(q, s, w)
  BY DEF LastWord
<1>3. Serene(q, s)
  BY <1>2 DEF Untroubled, Serene
<1>4. QED
  BY <1>1, <1>3 DEF Untroubled

LEMMA TakenCourse ==
  ASSUME CalmInv, NEW w \in Worker, NEW name, Take(w, name),
         UNCHANGED <<config, nextitem, running, began>>,
         \A v \in Worker : phase'[v] = phase[v] \/ (phase[v] = "unborn" /\ phase'[v] = "starting")
  PROVE  /\ Course'.ahead = Ahead' /\ Course'.home = Home /\ Course'.dead = Crashed
         /\ Course'.ended = Course.ended /\ Course'.unheard = Unheard' /\ Unheard' \subseteq Unheard
         /\ name # Complete => Ahead' = Ahead
         /\ name = "workerready" => w \in Unheard /\ w \notin Unheard'
         /\ Undisturbed' = Undisturbed /\ Calm' = Calm /\ FinishedWell'
<1>0. SessionInv /\ SessionTypes /\ phase \in [Worker -> Phase]
  BY DEF CalmInv, HomesInv, SessionInv, SessionTypes
<1>1. /\ \A v \in Worker : v # w => events'[v] = events[v]
      /\ Len(events[w]) = Len(events'[w]) + 1 /\ Len(events'[w]) \in Nat
      /\ DOMAIN events[w] = 1 .. Len(events[w]) /\ DOMAIN events'[w] = 1 .. Len(events'[w])
      /\ \A i \in DOMAIN events'[w] : events'[w][i] = events[w][i + 1]
      /\ events[w][1] = Head(events[w]) /\ Head(events[w])[1] = name
  BY <1>0, TakeFacts
<1>2. /\ 1 \in DOMAIN events[w] /\ events[w][1][1] = name
      /\ \A i \in DOMAIN events'[w] :
           i + 1 \in DOMAIN events[w] /\ i + 1 # 1 /\ events'[w][i] = events[w][i + 1]
  BY <1>1
<1>3. Crashed' = Crashed
  BY DEF Crashed
<1>4. Home' = Home
  <2>1. \A v \in Worker : Upcoming(v)' = Upcoming(v)
    BY DEF Upcoming
  <2>2. QED
    BY <2>1 DEF Home
<1>5. name # Complete => Ahead' = Ahead
  <2>1. \A v \in Worker : phase'[v] = phase[v] \/ {phase[v], phase'[v]} \cap {"loop"} = {}
    OBVIOUS
  <2>2. QED
    BY <1>0, <2>1, AheadAfter
<1>6. Unheard' \subseteq Unheard
  <2> SUFFICES ASSUME NEW v \in Unheard' PROVE v \in Unheard
    OBVIOUS
  <2>1. v \in Worker /\ \/ phase'[v] \in {"unborn", "starting"}
                        \/ \E i \in DOMAIN events'[v] : events'[v][i][1] = "workerready"
    BY DEF Unheard
  <2>2. phase'[v] \in {"unborn", "starting"} => phase[v] \in {"unborn", "starting"}
    BY <2>1
  <2>3. CASE v # w
    BY <1>1, <2>1, <2>2, <2>3 DEF Unheard
  <2>4. CASE v = w
    BY <1>2, <2>1, <2>2, <2>4 DEF Unheard
  <2>5. QED
    BY <2>3, <2>4
<1>7. name = "workerready" => w \in Unheard /\ w \notin Unheard'
  <2> SUFFICES ASSUME name = "workerready" PROVE w \in Unheard /\ w \notin Unheard'
    OBVIOUS
  <2>1. w \in Unheard
    BY <1>2 DEF Unheard
  <2>2. phase[w] \notin {"unborn", "starting"} /\ phase'[w] = phase[w]
    BY <1>0, <1>2 DEF SessionInv, ProcessShape
  <2>3. \A i \in DOMAIN events[w] : events[w][i][1] = "workerready" => i = 1
    BY <1>0 DEF SessionInv, EventsInOrder
  <2>4. \A i \in DOMAIN events'[w] : events'[w][i][1] # "workerready"
    BY <1>2, <2>3
  <2>5. QED
    BY <2>1, <2>2, <2>4 DEF Unheard
<1>8. FinishedWell'
  <2>1. ASSUME NEW v \in Worker
        PROVE  /\ phase'[v] = "done" => nextitem'[v] = SHUTDOWN
               /\ \A i \in DOMAIN events'[v] :
                    events'[v][i][1] = "workerfinished" => phase'[v] = "done"
    <3>1. /\ phase[v] = "done" => nextitem[v] = SHUTDOWN
          /\ \A i \in DOMAIN events[v] : events[v][i][1] = "workerfinished" => phase[v] = "done"
      BY DEF CalmInv, FinishedWell
    <3>2. phase'[v] = "done" <=> phase[v] = "done"
      OBVIOUS
    <3>3. CASE v # w
      BY <1>1, <3>1, <3>2, <3>3
    <3>4. CASE v = w
      BY <1>2, <3>1, <3>2, <3>4
    <3>5. QED
      BY <3>3, <3>4
  <2>2. QED
    BY <2>1 DEF FinishedWell
<1>9. Undisturbed' = Undisturbed /\ Calm' = Calm
  BY <1>3 DEF Undisturbed, Calm
<1>10. Course'.ended = Course.ended
  BY DEF Course
<1>11. Course'.ahead = Ahead' /\ Course'.home = Home' /\ Course'.dead = Crashed'
       /\ Course'.unheard = Unheard'
  BY DEF Course
<1>12. QED
  BY <1>3, <1>4, <1>5, <1>6, <1>7, <1>8, <1>9, <1>10, <1>11

(* An event that is taken finds the scheduler at peace. *)
LEMMA HeardCalm ==
  ASSUME CalmInv, Calm, NEW w \in Worker, NEW name, Take(w, name), name # Complete,
         UNCHANGED <<config, nextitem, running, began>>,
         \A v \in Worker : phase'[v] = phase[v] \/ (phase[v] = "unborn" /\ phase'[v] = "starting")
  PROVE  Untroubled(Course', sched)
<1>1. Untroubled(Course, sched)
  BY CalmUntroubled
<1>2. /\ Course'.ahead = Course.ahead /\ Course'.home = Course.home
      /\ Course'.ended = Course.ended /\ Course'.dead = Course.dead
      /\ Course'.unheard \subseteq Course.unheard
  <2>1. Course'.ahead = Ahead' /\ Course'.home = Home /\ Course'.dead = Crashed
    BY TakenCourse
  <2>2. Course'.ended = Course.ended /\ Course'.unheard = Unheard' /\ Unheard' \subseteq Unheard
    BY TakenCourse
  <2>3. Ahead' = Ahead
    <3>1. SessionInv /\ phase \in [Worker -> Phase]
      BY DEF CalmInv, HomesInv, SessionInv, SessionTypes
    <3>2. \A v \in Worker : phase'[v] = phase[v] \/ {phase[v], phase'[v]} \cap {"loop"} = {}
      OBVIOUS
    <3>3. QED
      BY <3>1, <3>2, AheadAfter
  <2>4. QED
    BY <2>1, <2>2, <2>3, CourseMeans
<1>3. QED
  BY <1>1, <1>2, UntroubledHeard

LEMMA HandlerCalm ==
  ASSUME CalmInv, HomesInv', NEW w \in Worker, NEW name, Take(w, name),
         UNCHANGED <<config, nextitem, running, began>>,
         NEW after, NEW stopping \in BOOLEAN, Return(after, stopping),
         \A v \in Worker : phase'[v] = phase[v] \/ (phase[v] = "unborn" /\ phase'[v] = "starting"),
         Calm => Untroubled(Course', after)
  PROVE  CalmInv'
<1>1. Undisturbed' = Undisturbed /\ Calm' = Calm /\ FinishedWell'
  BY TakenCourse
<1>2. /\ sched' = IF TestsFinished(after) /\ ~stopping THEN ShutdownAll(after) ELSE after
      /\ shuttingdown' = (stopping \/ TestsFinished(after))
      /\ aborted' = (after.raised # None)
  BY DEF Return
<1>3. FinishNoticed'
  <2>1. CASE TestsFinished(after)
    BY <1>2, <2>1 DEF FinishNoticed
  <2>2. CASE ~TestsFinished(after)
    <3>1. sched' = after
      BY <1>2, <2>2
    <3>2. QED
      BY <2>2, <3>1 DEF FinishNoticed
  <2>3. QED
    BY <2>1, <2>2
<1>4. ASSUME Calm
      PROVE  Serene(Course', sched') /\ ~aborted'
  <2> DEFINE ws == ToSet(after.nodes)
             p == Course'
  <2>1. Untroubled(p, after) /\ after.raised = None /\ after \in Sched
    BY <1>4 DEF Untroubled, Serene, Tidy, Sound, Shape
  <2> HIDE DEF p
  <2>2. CASE TestsFinished(after) /\ ~stopping
    <3>1. sched' = ShutdownEach(after, ws)
      BY <1>2, <2>2 DEF ShutdownAll
    <3>2. /\ sched'.registered = after.registered /\ sched'.numnodes = after.numnodes
          /\ sched'.collected = after.collected
      BY <2>1, <3>1 DEF ShutdownEach, Sched
    <3>3. after.queue = <<>> /\ CollectionCompleted(after)
      BY <2>2 DEF TestsFinished
    <3>4. sched'.collected
      BY <1>2, <2>1, <3>2, <3>3 DEF HomesInv, SessionInv, CollectionNoticed, CollectionCompleted
    <3>5. ws \in SUBSET ToSet(after.nodes)
      OBVIOUS
    <3> HIDE DEF ws
    <3>6. Untroubled(p, ShutdownEach(after, ws))
      BY <2>1, <3>2, <3>3, <3>4, <3>5, ShutdownUntroubled
    <3>7. QED
      BY <1>2, <2>1, <3>1, <3>6 DEF Untroubled, p
  <2>3. CASE ~(TestsFinished(after) /\ ~stopping)
    BY <1>2, <2>1, <2>3 DEF Untroubled, p
  <2>4. QED
    BY <2>2, <2>3
<1>5. QED
  BY <1>1, <1>3, <1>4 DEF CalmInv

(* A worker that reports late is told to stop, one that reports in time has *)
(* not been told anything.                                                  *)
LEMMA WorkerReadyCalm ==
  ASSUME CalmInv, HomesInv', NEW w \in Worker, WorkerReady(w)
  PROVE  CalmInv'
<1> DEFINE after == IF shuttingdown THEN Shutdown(sched, w) ELSE AddNode(sched, w)
           p == Course'
<1>1. /\ Take(w, "workerready") /\ Return(after, shuttingdown)
      /\ UNCHANGED <<config, active_nodes, phase, nextitem, running, began>>
  BY DEF WorkerReady
<1>2. /\ 1 \in DOMAIN events[w] /\ events[w][1][1] = "workerready"
      /\ sched \in Sched /\ Sound(Ahead, sched) /\ shuttingdown \in BOOLEAN
  BY <1>1, HeardHome DEF CalmInv
<1>3. w \notin ToSet(sched.nodes) /\ Home[w] = {}
  BY <1>2 DEF CalmInv, HomesInv, SessionInv, EventsInOrder, BegunLate
<1>4. Work(Home, sched, w) = {} /\ (Calm => w \notin Idle(sched))
  <2>1. Held(sched, w) = {}
    BY <1>2, <1>3 DEF Sound, FilesPlaced
  <2>2. Sent(sched, w) = {}
    BY <1>2, <2>1, NoTestTwice DEF Sound, TestsSent, Sent
  <2>3. Calm => w \notin Idle(sched)
    <3>1. Calm => LineUp(sched)
      BY CalmUntroubled DEF Untroubled, Tidy, Homely
    <3>2. {sched.active, sched.next} \subseteq ToSet(sched.nodes) \cup {None}
      BY <1>2 DEF Sound, Shape
    <3>3. QED
      BY <1>3, <3>1, <3>2, WorkerNumbers DEF LineUp, Idle
  <2>4. QED
    BY <1>3, <2>2, <2>3 DEF Work
<1>5. Calm => Untroubled(p, after)
  <2> SUFFICES ASSUME Calm PROVE Untroubled(p, after)
    OBVIOUS
  <2>1. Untroubled(p, sched)
    BY <1>1, HeardCalm DEF Complete
  <2>2. p.home = Home /\ p.unheard = Unheard' /\ w \in Unheard /\ w \notin Unheard'
    <3>1. p.home = Home /\ p.unheard = Unheard'
      BY <1>1, TakenCourse
    <3>2. w \in Unheard /\ w \notin Unheard'
      BY <1>1, TakenCourse
    <3>3. QED
      BY <3>1, <3>2
  <2>3. w \notin sched.sent /\ w \notin sched.broken
    BY <2>2, CourseMeans DEF CalmInv, Serene
  <2> HIDE DEF p
  <2>4. CASE shuttingdown
    <3> DEFINE ws == {w}
    <3>1. ws \in SUBSET Worker /\ ws \cap p.unheard = {} /\ ws \cap Idle(sched) = {}
      BY <1>4, <2>2
    <3> HIDE DEF ws
    <3>2. Untroubled(p, ShutdownEach(sched, ws))
      BY <2>1, <3>1, DismissUntroubled
    <3>3. QED
      BY <2>4, <3>2 DEF Shutdown, ws
  <2>5. CASE ~shuttingdown
    <3>1. Work(p.home, sched, w) = {} /\ w \notin p.unheard
      BY <1>4, <2>2
    <3>2. Untroubled(p, AddNode(sched, w))
      BY <1>3, <2>1, <2>3, <3>1, AddNodeUntroubled
    <3>3. QED
      BY <2>5, <3>2
  <2>6. QED
    BY <2>4, <2>5
<1> HIDE DEF after
<1>6. QED
  BY <1>1, <1>2, <1>5, HandlerCalm

(* Until the session shuts down, whoever has reported is a node.            *)
Listed == Calm /\ ~shuttingdown => active_nodes \subseteq Unheard \cup ToSet(sched.nodes)

LEMMA ListedInit == Init => Listed
BY DEF Init, Listed, Unheard

LEMMA HeardOnce ==
  ASSUME CalmInv, NEW w \in Worker, NEW name, Take(w, name),
         \A v \in Worker : phase'[v] = phase[v] \/ (phase[v] = "unborn" /\ phase'[v] = "starting")
  PROVE  /\ Unheard \ {w} \subseteq Unheard'
         /\ name # "workerready" => w \notin Unheard
<1>1. SessionInv /\ 1 \in DOMAIN events[w] /\ events[w][1][1] = name
  BY HeardHome DEF CalmInv, HomesInv
<1>2. \A v \in Worker : v # w => events'[v] = events[v]
  BY <1>1, TakeFacts DEF SessionInv
<1>3. Unheard \ {w} \subseteq Unheard'
  BY <1>2 DEF Unheard
<1>4. name # "workerready" => w \notin Unheard
  BY <1>1 DEF SessionInv, ProcessShape, EventsInOrder, Unheard
<1>5. QED
  BY <1>3, <1>4

(* A collection comes from a node.  Without tests the first worker to       *)
(* report its collection ends the session, and the collections that are     *)
(* awaited are counted once.                                                *)
LEMMA CollectionAwaited ==
  ASSUME CalmInv, Listed, Calm, NEW w \in Worker, Take(w, "collectionfinish"), phase' = phase,
         ~shuttingdown
  PROVE  ~Refused(sched, w)
<1>0. ~aborted /\ sched \in Sched /\ w \in active_nodes
  BY HeardHome DEF CalmInv
<1>1. Contains(sched.nodes, w)
  <2>1. w \notin Unheard
    BY HeardOnce
  <2>2. w \in ToSet(sched.nodes)
    BY <1>0, <2>1 DEF Listed
  <2>3. sched.nodes \in Seq(Worker)
    BY <1>0 DEF Sched
  <2>4. QED
    BY <2>2, <2>3, ContainsMeans
<1> SUFFICES ASSUME CollectionCompleted(sched) PROVE sched.collected /\ Collection # <<>>
  BY <1>1 DEF Refused
<1>2. sched.collected
  BY <1>0 DEF CalmInv, HomesInv, SessionInv, CollectionNoticed
<1>3. Collection # <<>>
  <2> SUFFICES ASSUME Collection = <<>> PROVE FALSE
    OBVIOUS
  <2>1. Test = {} /\ TestFile = {}
    BY EmptyFacts DEF Test, TestFile
  <2>2. sched.queue = <<>>
    <3>1. sched.queue \in Seq(TestFile)
      BY <1>0 DEF Sched
    <3>2. ToSet(sched.queue) = {}
      BY <2>1, <3>1, NonEmptyFacts
    <3>3. QED
      BY <3>1, <3>2, NonEmptyFacts
  <2>3. \A v : Pending(sched, v) = {}
    BY <2>1 DEF Pending
  <2>4. TestsFinished(sched)
    <3>1. \A v : Cardinality(Pending(sched, v)) < 2
      BY <2>3, FS_EmptySet
    <3>2. QED
      BY <2>2, <3>1 DEF TestsFinished
  <2>5. QED
    BY <2>4 DEF CalmInv, FinishNoticed
<1>4. QED
  BY <1>2, <1>3

LEMMA WorkerCollectionFinishCalm ==
  ASSUME CalmInv, HomesInv', Listed, NEW w \in Worker, WorkerCollectionFinish(w)
  PROVE  CalmInv'
<1> DEFINE s == AddNodeCollection(sched, w)
           s2 == IF CollectionCompleted(s) /\ s.raised = None THEN Schedule(s) ELSE s
           after == IF shuttingdown THEN sched ELSE s2
           p == Course'
<1>1. /\ Take(w, "collectionfinish") /\ Return(after, shuttingdown)
      /\ UNCHANGED <<config, active_nodes, phase, nextitem, running, began>>
  BY DEF WorkerCollectionFinish
<1>2. ~aborted /\ sched \in Sched /\ shuttingdown \in BOOLEAN
  BY <1>1, HeardHome DEF CalmInv
<1>3. Calm /\ ~shuttingdown => ~Refused(sched, w)
  BY <1>1, CollectionAwaited
<1>4. Calm => Untroubled(p, after)
  <2> SUFFICES ASSUME Calm PROVE Untroubled(p, after)
    OBVIOUS
  <2>1. Untroubled(p, sched)
    BY <1>1, HeardCalm DEF Complete
  <2> HIDE DEF p
  <2>2. ~shuttingdown => Untroubled(p, s)
    BY <1>3, <2>1, AddNodeCollectionUntroubled
  <2> HIDE DEF s
  <2>3. ~shuttingdown => Untroubled(p, Schedule(s))
    BY <2>2, ScheduleUntroubled
  <2>4. QED
    BY <2>1, <2>2, <2>3
<1> HIDE DEF after
<1>5. QED
  BY <1>1, <1>2, <1>4, HandlerCalm

(* A worker reports the tests it has been sent. *)
LEMMA WorkerTestCompleteCalm ==
  ASSUME CalmInv, HomesInv', NEW w \in Worker, WorkerTestComplete(w)
  PROVE  CalmInv'
<1> DEFINE t == Head(events[w])[2]
           after == MarkTestComplete(sched, w, t)
           p == [ahead |-> Ahead, home |-> Home, ended |-> Course.ended, dead |-> Crashed,
                 unheard |-> Unheard']
           q == Course'
<1>1. /\ Take(w, Complete) /\ Return(after, shuttingdown)
      /\ UNCHANGED <<config, active_nodes, phase, nextitem, running, began>>
  BY DEF WorkerTestComplete, Complete
<1>2. shuttingdown \in BOOLEAN /\ phase \in [Worker -> Phase]
  BY <1>1, HeardHome DEF CalmInv
<1>3. /\ t \in Ahead[w]
      /\ \A v \in Worker : Ahead'[v] = IF v = w THEN Ahead[w] \ {t} ELSE Ahead[v]
  BY <1>1, <1>2, AheadAfter DEF CalmInv, HomesInv
<1> HIDE DEF t
<1>4. Calm => Untroubled(q, after)
  <2> SUFFICES ASSUME Calm PROVE Untroubled(q, after)
    OBVIOUS
  <2>1. q.ahead = Ahead' /\ q.home = Home /\ q.dead = Crashed
    BY <1>1, TakenCourse
  <2>2. q.ended = Course.ended /\ q.unheard = Unheard' /\ Unheard' \subseteq Unheard
    BY <1>1, TakenCourse
  <2>3. /\ p.ahead = Ahead /\ p.home = Home /\ p.ended = Course.ended /\ p.dead = Crashed
        /\ p.unheard = Unheard'
    OBVIOUS
  <2> HIDE DEF p, q
  <2>4. Untroubled(p, sched)
    BY <2>2, <2>3, CalmUntroubled, CourseMeans, UntroubledHeard
  <2>5. /\ t \in p.ahead[w]
        /\ \A v \in Worker : q.ahead[v] = IF v = w THEN p.ahead[w] \ {t} ELSE p.ahead[v]
    BY <1>3, <2>1, <2>3
  <2>6. q.home = p.home /\ q.ended = p.ended /\ q.dead = p.dead /\ q.unheard = p.unheard
    BY <2>1, <2>2, <2>3
  <2>7. QED
    BY <2>4, <2>5, <2>6, MarkTestCompleteUntroubled
<1> HIDE DEF after
<1>5. QED
  BY <1>1, <1>2, <1>4, HandlerCalm

(* A worker that is done has reported everything, so that nothing it was    *)
(* given is pending when its end is handled.                                *)
LEMMA DoneMeans ==
  ASSUME CalmInv, Calm, NEW w \in Worker, Take(w, "workerfinished")
  PROVE  Pending(sched, w) = {}
<1>1. 1 \in DOMAIN events[w] /\ events[w][1][1] = "workerfinished"
  BY HeardHome DEF CalmInv
<1>2. phase[w] = "done" /\ nextitem[w] = SHUTDOWN /\ Len(events[w]) = 1
  BY <1>1 DEF CalmInv, FinishedWell, HomesInv, SessionInv, EventsInOrder
<1>3. Ahead[w] = {}
  <2>1. running[w] = None /\ Upcoming(w) = {}
    BY <1>2 DEF CalmInv, HomesInv, SessionInv, ProcessShape, Upcoming
  <2>2. DOMAIN events[w] = {1}
    BY <1>2, TakeFacts DEF CalmInv, HomesInv, SessionInv
  <2>3. Reported(w) = {}
    BY <1>1, <2>2 DEF Reported, Complete
  <2>4. QED
    BY <2>1, <2>3, AheadMeans
<1>4. Serene(Course, sched) /\ w \in Course.ended /\ w \notin Course.dead
  BY <1>2, CourseMeans DEF CalmInv, Crashed
<1>5. Sent(sched, w) = {}
  BY <1>4 DEF Serene, LastWord
<1>6. Pending(sched, w) \subseteq Course.ahead[w] \cup Sent(sched, w)
  BY <1>4 DEF Serene
<1>7. QED
  BY <1>3, <1>5, <1>6, CourseMeans

LEMMA WorkerFinishedCalm ==
  ASSUME CalmInv, HomesInv', NEW w \in Worker, WorkerFinished(w)
  PROVE  CalmInv'
<1> DEFINE known == Contains(sched.nodes, w)
           lost == known /\ Pending(sched, w) # {}
           failed == [sched EXCEPT !.raised = "AssertionError"]
           s == IF lost THEN failed ELSE IF known THEN RemoveNode(sched, w) ELSE sched
           after == [s EXCEPT !.clones = @ \ {w}]
           p == Course'
<1>1. /\ Take(w, "workerfinished") /\ Return(after, shuttingdown) /\ Replacing(w)
      /\ UNCHANGED <<config, nextitem, running, began>>
  BY DEF WorkerFinished, Replacing
<1>2. w \in active_nodes /\ shuttingdown \in BOOLEAN
  BY <1>1, HeardHome DEF CalmInv
<1>3. \A v \in Worker : phase'[v] = phase[v] \/ (phase[v] = "unborn" /\ phase'[v] = "starting")
  BY <1>1, <1>2, ReplacedHome DEF CalmInv
<1>4. Calm => Untroubled(p, after)
  <2> SUFFICES ASSUME Calm PROVE Untroubled(p, after)
    OBVIOUS
  <2>1. Untroubled(p, sched)
    BY <1>1, <1>3, HeardCalm DEF Complete
  <2> HIDE DEF p
  <2>2. Pending(sched, w) = {}
    BY <1>1, DoneMeans
  <2>3. Untroubled(p, RemoveNode(sched, w))
    BY <2>1, <2>2, RemoveNodeUntroubled
  <2>4. s = RemoveNode(sched, w) \/ s = sched
    BY <2>2
  <2> HIDE DEF s
  <2>5. Untroubled(p, s)
    BY <2>1, <2>3, <2>4
  <2>6. s \in Sched /\ Tidy(p.ahead, p.home, FALSE, s)
    BY <2>5 DEF Untroubled, Tidy, Sound, Shape
  <2>7. /\ after \in Sched /\ after.active = s.active /\ after.next = s.next
        /\ after.standby = s.standby /\ after.current = s.current
        /\ after.nodes = s.nodes /\ after.assigned = s.assigned
        /\ after.completed = s.completed /\ after.collected = s.collected
        /\ after.torun = s.torun /\ after.queue = s.queue
        /\ after.raised = s.raised /\ after.sent = s.sent /\ after.broken = s.broken
    BY <2>6 DEF Sched
  <2> HIDE DEF after
  <2>8. Tidy(p.ahead, p.home, FALSE, after)
    <3> DEFINE steady == FALSE
    <3>1. Tidy(p.ahead, p.home, steady, s)
      BY <2>6
    <3> HIDE DEF steady
    <3>2. Tidy(p.ahead, p.home, steady, after)
      BY <2>7, <3>1, SamePlacesTidy
    <3>3. QED
      BY <3>2 DEF steady
  <2>9. Idle(after) = Idle(s)
    BY <2>7 DEF Idle
  <2>10. QED
    BY <2>5, <2>7, <2>8, <2>9, UntroubledStays
<1> HIDE DEF after
<1>5. QED
  BY <1>1, <1>2, <1>3, <1>4, HandlerCalm

(* The work of the only worker waits for its replacement. *)
LEMMA WorkerErrorDownCalm ==
  ASSUME CalmInv, HomesInv', NEW w \in Worker, WorkerErrorDown(w)
  PROVE  CalmInv'
<1> DEFINE left == RemoveNode(sched, w)
           s == Forgiven(left)
           over == failed_nodes' > config.restarts
           after == IF over /\ ~shuttingdown THEN ShutdownAll(s) ELSE s
           p == Course'
<1>1. /\ Take(w, "errordown") /\ Return(after, over) /\ Replacing(w)
      /\ UNCHANGED <<config, nextitem, running, began>>
  <2>1. CASE over
    BY <2>1 DEF WorkerErrorDown, Replacing
  <2>2. CASE ~over
    <3>1. over = FALSE /\ after = s
      BY <2>2
    <3> HIDE DEF after, over
    <3>2. Take(w, "errordown") /\ Return(s, FALSE) /\ Replacing(w)
          /\ UNCHANGED <<config, nextitem, running, began>>
      BY <2>2 DEF WorkerErrorDown, Replacing, over
    <3>3. QED
      BY <3>1, <3>2
  <2>3. QED
    BY <2>1, <2>2
<1>2. over \in BOOLEAN
  OBVIOUS
<1>3. w \in active_nodes /\ Sound(Ahead, sched)
  BY <1>1, HeardHome DEF CalmInv
<1>4. \A v \in Worker : phase'[v] = phase[v] \/ (phase[v] = "unborn" /\ phase'[v] = "starting")
  BY <1>1, <1>3, ReplacedHome DEF CalmInv
<1>5. Calm => Untroubled(p, after)
  <2> SUFFICES ASSUME Calm PROVE Untroubled(p, after)
    OBVIOUS
  <2>1. Untroubled(p, sched)
    BY <1>1, <1>4, HeardCalm DEF Complete
  <2>2. p.ahead = Ahead
    <3>1. p.ahead = Ahead'
      BY DEF Course
    <3>2. \A v \in Worker : phase'[v] = phase[v] \/ {phase[v], phase'[v]} \cap {"loop"} = {}
      BY <1>4
    <3>3. SessionInv /\ phase \in [Worker -> Phase] /\ "errordown" # Complete
      BY DEF CalmInv, HomesInv, SessionInv, SessionTypes, Complete
    <3>4. Ahead' = Ahead
      BY <1>1, <3>2, <3>3, AheadAfter
    <3>5. QED
      BY <3>1, <3>4
  <2> HIDE DEF p
  <2>3. Ahead[w] = {} /\ sched.torun[w] = <<>> /\ ToSet(sched.nodes) \subseteq {w}
    BY <1>1, LastOneDies, CalmUntroubled DEF CalmInv
  <2>4. Untroubled(p, left)
    BY <2>1, <2>2, <2>3, RemoveNodeUntroubled
  <2>5. ToSet(left.nodes) = {}
    <3>1. From(Ahead, Left(sched, w), left)
      BY <1>3, <2>3, RemoveNodeKeeps
    <3>2. ToSet(Left(sched, w).nodes) = ToSet(sched.nodes) \ {w}
      BY <1>3, LeftFacts
    <3>3. left.nodes = Left(sched, w).nodes
      BY <3>1 DEF From, Same
    <3>4. QED
      BY <2>3, <3>2, <3>3
  <2> HIDE DEF left
  <2>6. left.raised # "KeyError"
    BY <2>4, NoTestTwice DEF Untroubled, Serene
  <2>7. s = left
    BY <2>6 DEF Forgiven
  <2> HIDE DEF s
  <2>8. Untroubled(p, ShutdownAll(left))
    <3> DEFINE ws == ToSet(left.nodes)
    <3>1. ws \in SUBSET ToSet(left.nodes) /\ ws \cap Idle(left) = {}
      BY <2>5
    <3> HIDE DEF ws
    <3>2. Untroubled(p, ShutdownEach(left, ws))
      BY <2>4, <3>1, ShutdownUntroubled
    <3>3. QED
      BY <3>2 DEF ShutdownAll, ws
  <2>9. QED
    BY <2>4, <2>7, <2>8
<1> HIDE DEF after, over
<1>6. QED
  BY <1>1, <1>2, <1>4, <1>5, HandlerCalm

(* Whoever may be heard of for the first time still may be, as the          *)
(* processes go on.                                                         *)
LEMMA ProcessesUnheard ==
  ASSUME CalmInv, Calm',
         \/ UNCHANGED vars
         \/ \E w \in Worker : WorkerStep(w) \/ Crash(w) \/ ReceiveEnd(w)
  PROVE  Unheard \subseteq Unheard'
<1>0. /\ SessionTypes /\ phase \in [Worker -> Phase] /\ running \in [Worker -> Test \cup {None}]
      /\ \A w \in Worker : running[w] # None => phase[w] = "loop"
  BY DEF CalmInv, HomesInv, SessionInv, SessionTypes, ProcessShape
<1>1. ASSUME NEW w \in Worker, NEW e \in EventName \X (Test \cup {None}), Emit(w, e)
      PROVE  \A v \in Worker : \A i \in DOMAIN events[v] :
               i \in DOMAIN events'[v] /\ events'[v][i] = events[v][i]
  <2>1. /\ \A v \in Worker : v # w => events'[v] = events[v]
        /\ DOMAIN events[w] = 1 .. Len(events[w]) /\ DOMAIN events'[w] = 1 .. Len(events'[w])
        /\ Len(events'[w]) = Len(events[w]) + 1 /\ Len(events[w]) \in Nat
        /\ \A i \in DOMAIN events[w] : events'[w][i] = events[w][i]
    BY <1>0, <1>1, EmitFacts
  <2>2. \A i \in DOMAIN events[w] : i \in DOMAIN events'[w]
    BY <2>1
  <2>3. QED
    BY <2>1, <2>2
<1>2. ASSUME \A v \in Worker : \A i \in DOMAIN events[v] :
               i \in DOMAIN events'[v] /\ events'[v][i] = events[v][i],
             \A v \in Worker : phase[v] \in {"unborn", "starting"} => v \in Unheard'
      PROVE  Unheard \subseteq Unheard'
  BY <1>2 DEF Unheard
<1>3. ASSUME UNCHANGED <<events, phase>>
      PROVE  Unheard \subseteq Unheard'
  BY <1>3 DEF Unheard
<1>4. ASSUME NEW w \in Worker, SessionStart(w)
      PROVE  Unheard \subseteq Unheard'
  <2> DEFINE e == <<"workerready", None>>
  <2>1. e \in EventName \X (Test \cup {None}) /\ e[1] = "workerready"
    BY DEF EventName
  <2>2. phase' = [phase EXCEPT ![w] = "collecting"] /\ Emit(w, e)
    BY <1>4 DEF SessionStart, Become
  <2> HIDE DEF e
  <2>3. Len(events'[w]) \in DOMAIN events'[w] /\ events'[w][Len(events'[w])] = e
    <3>1. /\ DOMAIN events'[w] = 1 .. Len(events'[w]) /\ events'[w][Len(events'[w])] = e
          /\ Len(events'[w]) = Len(events[w]) + 1 /\ Len(events[w]) \in Nat
      BY <1>0, <2>1, <2>2, EmitFacts
    <3>2. QED
      BY <3>1
  <2>4. w \in Unheard'
    BY <2>1, <2>3 DEF Unheard
  <2>5. \A v \in Worker : v # w => phase'[v] = phase[v]
    BY <1>0, <2>2
  <2>6. \A v \in Worker : phase[v] \in {"unborn", "starting"} => v \in Unheard'
    BY <2>4, <2>5 DEF Unheard
  <2>7. QED
    BY <1>1, <1>2, <2>1, <2>2, <2>6
<1>5. ASSUME NEW w \in Worker, NEW e \in EventName \X (Test \cup {None}), Emit(w, e),
             phase[w] \notin {"unborn", "starting"}, \A v \in Worker : v # w => phase'[v] = phase[v]
      PROVE  Unheard \subseteq Unheard'
  <2>1. \A v \in Worker : phase[v] \in {"unborn", "starting"} => v \in Unheard'
    BY <1>5 DEF Unheard
  <2>2. QED
    BY <1>1, <1>2, <1>5, <2>1
<1>6. ASSUME NEW w \in Worker, CollectionFinish(w) \/ EndTest(w) \/ SessionFinish(w) \/ Crash(w)
      PROVE  Unheard \subseteq Unheard'
  <2>1. PICK e \in EventName \X (Test \cup {None}) : Emit(w, e)
    <3>1. /\ <<"collectionfinish", None>> \in EventName \X (Test \cup {None})
          /\ <<Complete, running[w]>> \in EventName \X (Test \cup {None})
          /\ <<"workerfinished", None>> \in EventName \X (Test \cup {None})
          /\ <<"errordown", None>> \in EventName \X (Test \cup {None})
      BY <1>0 DEF EventName
    <3>2. \/ Emit(w, <<"collectionfinish", None>>) \/ Emit(w, <<Complete, running[w]>>)
          \/ Emit(w, <<"workerfinished", None>>) \/ Emit(w, <<"errordown", None>>)
      BY <1>6 DEF CollectionFinish, EndTest, SessionFinish, Crash, Complete
    <3>3. QED
      BY <3>1, <3>2
  <2>2. \A v \in Worker : v # w => phase'[v] = phase[v]
    BY <1>0, <1>6 DEF CollectionFinish, EndTest, SessionFinish, Crash, Become
  <2>3. phase[w] \notin {"unborn", "starting"}
    <3>1. CASE CollectionFinish(w) \/ EndTest(w) \/ SessionFinish(w)
      BY <1>0, <3>1 DEF CollectionFinish, EndTest, SessionFinish
    <3>2. CASE Crash(w)
      <4>1. phase'[w] = "crashed" /\ config' = config
        BY <1>0, <3>2 DEF Crash, Become
      <4>2. ~config.anywhere
        BY <4>1 DEF Calm, Crashed
      <4>3. QED
        BY <1>0, <3>2, <4>2 DEF Crash
    <3>3. QED
      BY <1>6, <3>1, <3>2
  <2>4. QED
    BY <1>5, <2>1, <2>2, <2>3
<1>7. ASSUME NEW w \in Worker, EnterLoop(w) \/ BeginTest(w)
      PROVE  Unheard \subseteq Unheard'
  <2>1. UNCHANGED events /\ phase[w] \in {"waiting", "loop"}
    BY <1>7 DEF EnterLoop, BeginTest
  <2>2. \A v \in Worker : v # w => phase'[v] = phase[v]
    BY <1>0, <1>7 DEF EnterLoop, BeginTest, Become
  <2>3. QED
    BY <2>1, <2>2 DEF Unheard
<1>8. \A w \in Worker : ReceiveEnd(w) => UNCHANGED <<events, phase>>
  BY DEF ReceiveEnd
<1>9. QED
  BY <1>3, <1>4, <1>6, <1>7, <1>8 DEF vars, WorkerStep

LEMMA NewcomerUnheard ==
  ASSUME SessionInv, NEW clone \in Worker, Become(clone, "starting")
  PROVE  clone \in Unheard'
BY DEF Become, Unheard, SessionInv, SessionTypes

LEMMA HandlerListed ==
  ASSUME CalmInv, NEW w \in Worker, NEW name, Take(w, name), UNCHANGED config,
         \A v \in Worker : phase'[v] = phase[v] \/ (phase[v] = "unborn" /\ phase'[v] = "starting"),
         NEW after, NEW stopping \in BOOLEAN, Return(after, stopping),
         Calm /\ ~stopping => active_nodes' \subseteq Unheard' \cup ToSet(after.nodes)
  PROVE  Listed'
<1>1. /\ sched' = IF TestsFinished(after) /\ ~stopping THEN ShutdownAll(after) ELSE after
      /\ shuttingdown' = (stopping \/ TestsFinished(after))
  BY DEF Return
<1>2. Calm' = Calm
  BY DEF Calm, Crashed
<1>3. ASSUME Calm', ~shuttingdown'
      PROVE  active_nodes' \subseteq Unheard' \cup ToSet(sched'.nodes)
  BY <1>1, <1>2, <1>3
<1>4. QED
  BY <1>3 DEF Listed

(* The nodes are those of before, and whoever reports now; a worker that    *)
(* takes the place of another has not reported.                             *)
LEMMA StillListed ==
  ASSUME CalmInv, Listed, NEW w \in Worker, HandleEvent(w)
  PROVE  Listed'
<1>0. HomesInv /\ SessionInv
  BY DEF CalmInv, HomesInv
<1>1. CASE WorkerReady(w)
  <2> DEFINE added == AddNode(sched, w)
             after == IF shuttingdown THEN Shutdown(sched, w) ELSE added
  <2>1. /\ Take(w, "workerready") /\ Return(after, shuttingdown)
        /\ UNCHANGED <<config, active_nodes, phase>>
    BY <1>1 DEF WorkerReady
  <2>2. /\ sched \in Sched /\ Sound(Ahead, sched) /\ shuttingdown \in BOOLEAN
        /\ 1 \in DOMAIN events[w] /\ events[w][1][1] = "workerready"
    BY <1>0, <2>1, HeardHome
  <2>3. w \notin ToSet(sched.nodes)
    BY <1>0, <2>2 DEF SessionInv, EventsInOrder
  <2>4. From(Ahead, NodeAdded(sched, w), added)
    BY <2>2, <2>3, AddNodeKeeps
  <2>5. ToSet(NodeAdded(sched, w).nodes) = ToSet(sched.nodes) \cup {w}
    <3>1. sched.nodes \in Seq(Worker)
      BY <2>2 DEF Sched
    <3>2. ToSet(Append(sched.nodes, w)) = ToSet(sched.nodes) \cup {w}
      BY <3>1, AppendFacts
    <3>3. NodeAdded(sched, w).nodes = Append(sched.nodes, w)
      BY <2>2 DEF NodeAdded, Sched
    <3>4. QED
      BY <3>2, <3>3
  <2>6. Unheard \ {w} \subseteq Unheard'
    BY <2>1, HeardOnce
  <2> HIDE DEF added
  <2>7. ToSet(added.nodes) = ToSet(sched.nodes) \cup {w}
    BY <2>4, <2>5 DEF From, Same
  <2>8. Calm /\ ~shuttingdown => active_nodes' \subseteq Unheard' \cup ToSet(after.nodes)
    BY <2>1, <2>6, <2>7 DEF Listed
  <2> HIDE DEF after
  <2>9. QED
    BY <2>1, <2>2, <2>8, HandlerListed
<1>2. ASSUME NEW name, name # "workerready", Take(w, name), UNCHANGED <<config, active_nodes, phase>>,
             NEW after, Return(after, shuttingdown), ~shuttingdown => after.nodes = sched.nodes
      PROVE  Listed'
  <2>1. shuttingdown \in BOOLEAN
    BY <1>0, <1>2, HeardHome
  <2>2. Unheard \subseteq Unheard'
    BY <1>2, HeardOnce
  <2>3. Calm /\ ~shuttingdown => active_nodes' \subseteq Unheard' \cup ToSet(after.nodes)
    BY <1>2, <2>2 DEF Listed
  <2>4. QED
    BY <1>2, <2>1, <2>3, HandlerListed
<1>3. CASE WorkerCollectionFinish(w)
  <2> DEFINE s == AddNodeCollection(sched, w)
             s2 == IF CollectionCompleted(s) /\ s.raised = None THEN Schedule(s) ELSE s
             after == IF shuttingdown THEN sched ELSE s2
             name == "collectionfinish"
  <2>1. /\ Take(w, name) /\ Return(after, shuttingdown)
        /\ UNCHANGED <<config, active_nodes, phase>> /\ name # "workerready"
    BY <1>3 DEF WorkerCollectionFinish
  <2> HIDE DEF name
  <2>2. sched \in Sched /\ Sound(Ahead, sched)
    BY <1>0, <2>1, HeardHome
  <2>3. Sound(Ahead, s) /\ s.nodes = sched.nodes
    <3>1. From(Ahead, sched, s) \/ From(Ahead, CollectionAdded(sched, w), s)
      BY <2>2, AddNodeCollectionKeeps
    <3>2. CollectionAdded(sched, w).nodes = sched.nodes
      BY <2>2 DEF CollectionAdded, Sched
    <3>3. QED
      BY <3>1, <3>2 DEF From, Same
  <2> HIDE DEF s
  <2>4. Schedule(s).nodes = s.nodes
    <3>1. From(Ahead, Scheduled(s), Schedule(s))
      BY <2>3, ScheduleKeeps
    <3>2. Scheduled(s).nodes = s.nodes
      BY <2>3 DEF Scheduled, Sound, Shape, Sched
    <3>3. QED
      BY <3>1, <3>2 DEF From, Same
  <2>5. ~shuttingdown => after.nodes = sched.nodes
    BY <2>3, <2>4
  <2> HIDE DEF after
  <2>6. QED
    BY <1>2, <2>1, <2>5
<1>4. CASE WorkerTestComplete(w)
  <2> DEFINE t == Head(events[w])[2]
             after == MarkTestComplete(sched, w, t)
  <2>1. /\ Take(w, Complete) /\ Return(after, shuttingdown)
        /\ UNCHANGED <<config, active_nodes, phase, nextitem, running, began>>
    BY <1>4 DEF WorkerTestComplete, Complete
  <2>2. sched \in Sched /\ Sound(Ahead, sched) /\ phase \in [Worker -> Phase]
    BY <1>0, <2>1, HeardHome
  <2>3. /\ t \in Ahead[w]
        /\ \A v \in Worker : Ahead'[v] = IF v = w THEN Ahead[w] \ {t} ELSE Ahead[v]
    BY <1>0, <2>1, <2>2, AheadAfter
  <2> HIDE DEF t
  <2>4. From(Ahead', Marked(sched, w, t), after)
    BY <2>2, <2>3, MarkTestCompleteKeeps
  <2>5. Marked(sched, w, t).nodes = sched.nodes
    BY <2>2 DEF Marked, Sched
  <2> HIDE DEF after
  <2>6. after.nodes = sched.nodes
    BY <2>4, <2>5 DEF From, Same
  <2>7. QED
    BY <1>2, <2>1, <2>6 DEF Complete
<1>5. CASE WorkerFinished(w)
  <2> DEFINE known == Contains(sched.nodes, w)
             lost == known /\ Pending(sched, w) # {}
             failed == [sched EXCEPT !.raised = "AssertionError"]
             r == RemoveNode(sched, w)
             s == IF lost THEN failed ELSE IF known THEN r ELSE sched
             after == [s EXCEPT !.clones = @ \ {w}]
  <2>1. Take(w, "workerfinished") /\ Return(after, shuttingdown) /\ Replacing(w) /\ UNCHANGED config
    BY <1>5 DEF WorkerFinished, Replacing
  <2>2. /\ sched \in Sched /\ Sound(Ahead, sched) /\ shuttingdown \in BOOLEAN
        /\ w \in active_nodes
    BY <1>0, <2>1, HeardHome
  <2>3. \A v \in Worker : phase'[v] = phase[v] \/ (phase[v] = "unborn" /\ phase'[v] = "starting")
    BY <1>0, <2>1, <2>2, ReplacedHome
  <2>4. Unheard \subseteq Unheard'
    BY <2>1, <2>3, HeardOnce
  <2>5. s \in Sched /\ ToSet(sched.nodes) \ {w} \subseteq ToSet(s.nodes)
    <3>1. CASE lost
      BY <2>2, <3>1 DEF Sched
    <3>2. CASE ~lost /\ known
      <4>1. From(Ahead, Left(sched, w), r)
        BY <2>2, <3>2, RemoveNodeKeeps
      <4>2. ToSet(Left(sched, w).nodes) = ToSet(sched.nodes) \ {w}
        BY <2>2, LeftFacts
      <4> HIDE DEF r
      <4>3. s = r
        BY <3>2
      <4> HIDE DEF s
      <4>4. QED
        BY <4>1, <4>2, <4>3 DEF From, Same, Sound, Shape
    <3>3. CASE ~lost /\ ~known
      BY <2>2, <3>3
    <3>4. QED
      BY <3>1, <3>2, <3>3
  <2> HIDE DEF s
  <2>6. after.nodes = s.nodes
    BY <2>5 DEF Sched
  <2> HIDE DEF after
  <2>7. active_nodes' \subseteq (active_nodes \ {w}) \cup Unheard'
    BY <1>0, <2>1, NewcomerUnheard DEF Replacing
  <2>8. Calm /\ ~shuttingdown => active_nodes' \subseteq Unheard' \cup ToSet(after.nodes)
    BY <2>4, <2>5, <2>6, <2>7 DEF Listed
  <2>9. QED
    BY <2>1, <2>2, <2>3, <2>8, HandlerListed
<1>6. CASE WorkerErrorDown(w)
  <2> DEFINE s == Forgiven(RemoveNode(sched, w))
             over == failed_nodes' > config.restarts
             after == IF over /\ ~shuttingdown THEN ShutdownAll(s) ELSE s
  <2>1. /\ Take(w, "errordown") /\ Return(after, over) /\ Replacing(w) /\ UNCHANGED config
        /\ ~over => active_nodes' \subseteq (active_nodes \ {w}) \cup Unheard'
    <3>1. CASE over
      BY <1>6, <3>1 DEF WorkerErrorDown, Replacing
    <3>2. CASE ~over
      <4>1. over = FALSE /\ after = s
        BY <3>2
      <4> HIDE DEF after, over
      <4>2. /\ Take(w, "errordown") /\ Return(s, FALSE) /\ Replacing(w) /\ UNCHANGED config
        BY <1>6, <3>2 DEF WorkerErrorDown, Replacing, over
      <4>3. active_nodes' \subseteq (active_nodes \ {w}) \cup Unheard'
        BY <1>0, <4>2, NewcomerUnheard DEF Replacing
      <4>4. QED
        BY <4>1, <4>2, <4>3
    <3>3. QED
      BY <3>1, <3>2
  <2>2. w \in active_nodes /\ over \in BOOLEAN
    BY <1>0, <2>1, HeardHome
  <2> HIDE DEF after, over
  <2>3. \A v \in Worker : phase'[v] = phase[v] \/ (phase[v] = "unborn" /\ phase'[v] = "starting")
    BY <1>0, <2>1, <2>2, ReplacedHome
  <2>4. Calm => active_nodes \subseteq {w}
    BY <1>0, <2>1, LastOneDies, CalmUntroubled
  <2>5. Calm /\ ~over => active_nodes' \subseteq Unheard' \cup ToSet(after.nodes)
    BY <2>1, <2>4
  <2>6. QED
    BY <2>1, <2>2, <2>3, <2>5, HandlerListed
<1>7. QED
  BY <1>1, <1>3, <1>4, <1>5, <1>6 DEF HandleEvent

LEMMA ListedNext == CalmInv /\ Listed /\ [Next]_vars => Listed'
<1> SUFFICES ASSUME CalmInv, Listed, [Next]_vars PROVE Listed'
  OBVIOUS
<1>1. ASSUME \/ UNCHANGED vars
             \/ \E w \in Worker : WorkerStep(w) \/ Crash(w) \/ ReceiveEnd(w)
      PROVE  Listed'
  <2>0. sched \in Sched /\ phase \in [Worker -> Phase]
    BY DEF CalmInv, HomesInv, SessionInv, SessionTypes, SchedulerSound, Sound, Shape
  <2>1. \A w \in Worker : SessionStart(w) \/ CollectionFinish(w) \/ EndTest(w) \/ SessionFinish(w)
          => UNCHANGED <<config, controller>>
    BY DEF SessionStart, CollectionFinish, EndTest, SessionFinish
  <2>2. \A w \in Worker : EnterLoop(w) \/ BeginTest(w) \/ Crash(w) \/ ReceiveEnd(w)
          => UNCHANGED <<config, shuttingdown, active_nodes>> /\ sched'.nodes = sched.nodes
    BY <2>0 DEF EnterLoop, BeginTest, Crash, ReceiveEnd, Get, Sched
  <2>3. UNCHANGED <<config, shuttingdown, active_nodes>> /\ sched'.nodes = sched.nodes
    BY <1>1, <2>1, <2>2 DEF WorkerStep, vars, controller
  <2>4. \A w \in Worker : SessionStart(w) \/ CollectionFinish(w) \/ EnterLoop(w)
                            \/ SessionFinish(w) \/ Crash(w)
          => \A v \in Worker : phase[v] = "crashed" => phase'[v] = "crashed"
    BY <2>0 DEF SessionStart, CollectionFinish, EnterLoop, SessionFinish, Crash, Become
  <2>5. \A w \in Worker : BeginTest(w) \/ EndTest(w) \/ ReceiveEnd(w) => UNCHANGED phase
    BY DEF BeginTest, EndTest, ReceiveEnd
  <2>6. Crashed \subseteq Crashed'
    BY <1>1, <2>4, <2>5 DEF WorkerStep, vars, Crashed
  <2>7. Calm' => Calm
    BY <2>3, <2>6 DEF Calm
  <2>8. Calm' => Unheard \subseteq Unheard'
    BY <1>1, ProcessesUnheard
  <2>9. QED
    BY <2>3, <2>7, <2>8 DEF Listed
<1>2. \A w \in Worker : HandleEvent(w) => Listed'
  BY StillListed
<1>3. QED
  BY <1>1, <1>2 DEF Next, SessionOver

LEMMA CalmNext == OnlyInTests /\ CalmInv /\ Listed /\ [Next]_vars => CalmInv'
<1> SUFFICES ASSUME OnlyInTests, CalmInv, Listed, [Next]_vars PROVE CalmInv'
  OBVIOUS
<1>1. HomesInv'
  BY HomesNext DEF CalmInv
<1>2. CASE UNCHANGED vars
  BY <1>1, <1>2, ReceiveEndCalm
<1>3. ASSUME NEW w \in Worker, WorkerStep(w) \/ Crash(w) \/ ReceiveEnd(w)
      PROVE  CalmInv'
  BY <1>1, <1>3, WorkerEventsCalm, WorkerGetsCalm, CrashCalm, ReceiveEndCalm DEF WorkerStep
<1>4. ASSUME NEW w \in Worker, HandleEvent(w)
      PROVE  CalmInv'
  BY <1>1, <1>4, WorkerReadyCalm, WorkerCollectionFinishCalm, WorkerTestCompleteCalm,
     WorkerFinishedCalm, WorkerErrorDownCalm DEF HandleEvent
<1>5. QED
  BY <1>2, <1>3, <1>4 DEF Next, SessionOver

(* The assertions of dsession.py and isolation.py hold, nothing is sent to  *)
(* a worker that is gone, and every collection that is looked up is there,  *)
(* in any number of workers as long as none dies, and where a single        *)
(* worker is asked for, however often it dies of its tests.                 *)
THEOREM NothingRaised == OnlyInTests => (Spec => []NeverAborts)
<1> SUFFICES ASSUME OnlyInTests PROVE Spec => []NeverAborts
  OBVIOUS
<1>1. CalmInv => NeverAborts
  BY DEF CalmInv, NeverAborts
<1>2. CalmInv /\ Listed /\ [Next]_vars => CalmInv' /\ Listed'
  BY CalmNext, ListedNext
<1>3. QED
  BY <1>1, <1>2, CalmInit, ListedInit, PTL DEF Spec

------------------------------------------------------------------------------
(***************************************************************************)
(* Why a session is not left without workers.  Until it shuts down, one of *)
(* the active nodes has not reported yet, or the queued files find relief; *)
(* and before the tests are known nobody has been told to stop, and every  *)
(* active node that has reported is a spare.                               *)
(***************************************************************************)
Served(alive, unheard, s) ==
  /\ ~s.collected => s.sent = {} /\ alive \subseteq unheard \cup Idle(s)
  /\ alive \cap unheard # {} \/ Covered(alive, s)

Collected(s) ==
  IsFiniteSet(s.registered) /\ (s.collected => CollectionCompleted(s))

StaffInv ==
  /\ CalmInv /\ SpawnInv
  /\ Calm => /\ Collected(sched)
             /\ Crashed # {} => sched.collected
             /\ ~shuttingdown => active_nodes # {} /\ Served(active_nodes, Unheard, sched)

LEMMA StaffInit == Init => StaffInv
<1> SUFFICES ASSUME Init PROVE StaffInv
  OBVIOUS
<1>1. CalmInv /\ SpawnInv
  BY CalmInit, SpawnInit
<1>2. /\ sched.registered = {} /\ ~sched.collected /\ sched.sent = {} /\ sched.queue = <<>>
  BY DEF Init, InitSched
<1>3. 0 \in Worker /\ 0 < config.n
  BY ConfigsShape DEF Init
<1>4. 0 \in active_nodes
  BY <1>3 DEF Init
<1>5. active_nodes \subseteq Unheard
  BY DEF Init, Unheard
<1>6. Crashed = {}
  BY DEF Init, Crashed
<1>7. Served(active_nodes, Unheard, sched)
  BY <1>2, <1>5 DEF Served, Covered
<1>8. Collected(sched)
  BY <1>2, FS_EmptySet DEF Collected
<1>9. QED
  BY <1>1, <1>4, <1>6, <1>7, <1>8 DEF StaffInv

LEMMA CollectedKept ==
  ASSUME NEW s, NEW r, Collected(s), r.registered = s.registered, r.numnodes = s.numnodes,
         r.collected = s.collected
  PROVE  Collected(r)
BY DEF Collected, CollectionCompleted

(* A step of a worker, of the receiver thread, or none: a worker dies of a  *)
(* test, so the tests are known.                                            *)
LEMMA ProcessesStaff ==
  ASSUME OnlyInTests, StaffInv, CalmInv', SpawnInv',
         \/ UNCHANGED vars
         \/ \E w \in Worker : WorkerStep(w) \/ Crash(w) \/ ReceiveEnd(w)
  PROVE  StaffInv'
<1>0. /\ sched \in Sched /\ Sound(Ahead, sched) /\ phase \in [Worker -> Phase]
      /\ running \in [Worker -> Test \cup {None}]
  BY DEF StaffInv, CalmInv, HomesInv, SessionInv, SessionTypes, SchedulerSound, Sound, Shape
<1>1. \A w \in Worker : SessionStart(w) \/ CollectionFinish(w) \/ EndTest(w) \/ SessionFinish(w)
        => UNCHANGED <<config, controller>>
  BY DEF SessionStart, CollectionFinish, EndTest, SessionFinish
<1>2. UNCHANGED <<config, shuttingdown, active_nodes>>
  <2>1. \A w \in Worker : EnterLoop(w) \/ BeginTest(w) \/ Crash(w) \/ ReceiveEnd(w)
          => UNCHANGED <<config, shuttingdown, active_nodes>>
    BY DEF EnterLoop, BeginTest, Crash, ReceiveEnd
  <2>2. QED
    BY <1>1, <2>1 DEF vars, controller, WorkerStep
<1>3. /\ sched'.active = sched.active /\ sched'.next = sched.next
      /\ sched'.standby = sched.standby /\ sched'.current = sched.current
      /\ sched'.clones = sched.clones /\ sched'.queue = sched.queue
      /\ sched'.registered = sched.registered /\ sched'.numnodes = sched.numnodes
      /\ sched'.collected = sched.collected /\ sched'.sent = sched.sent
  <2>1. CASE UNCHANGED sched
    BY <2>1
  <2>2. ASSUME NEW w \in Worker, EnterLoop(w) \/ BeginTest(w) \/ Crash(w) \/ ReceiveEnd(w)
        PROVE  \E T, D, B : sched' = [sched EXCEPT !.torun = T, !.down = D, !.broken = B]
    <3>1. \/ sched' = [sched EXCEPT !.torun[w] = Tail(@)]
          \/ sched' = [sched EXCEPT !.broken = @ \cup {w}, !.torun[w] = <<>>]
          \/ sched' = [sched EXCEPT !.down = @ \cup {w}, !.broken = @ \cup {w}]
      BY <2>2 DEF EnterLoop, BeginTest, Crash, ReceiveEnd, Get
    <3>2. CASE sched' = [sched EXCEPT !.torun[w] = Tail(@)]
      <4>1. sched' = [sched EXCEPT !.torun = [sched.torun EXCEPT ![w] = Tail(@)],
                                   !.down = sched.down, !.broken = sched.broken]
        BY <1>0, <3>2 DEF Sched
      <4>2. QED
        BY <4>1
    <3>3. CASE sched' = [sched EXCEPT !.broken = @ \cup {w}, !.torun[w] = <<>>]
      <4>1. sched' = [sched EXCEPT !.torun = [sched.torun EXCEPT ![w] = <<>>],
                                   !.down = sched.down, !.broken = sched.broken \cup {w}]
        BY <1>0, <3>3 DEF Sched
      <4>2. QED
        BY <4>1
    <3>4. CASE sched' = [sched EXCEPT !.down = @ \cup {w}, !.broken = @ \cup {w}]
      <4>1. sched' = [sched EXCEPT !.torun = sched.torun, !.down = sched.down \cup {w},
                                   !.broken = sched.broken \cup {w}]
        BY <1>0, <3>4 DEF Sched
      <4>2. QED
        BY <4>1
    <3>5. QED
      BY <3>1, <3>2, <3>3, <3>4
  <2>3. CASE \E T, D, B : sched' = [sched EXCEPT !.torun = T, !.down = D, !.broken = B]
    BY <1>0, <2>3 DEF Sched
  <2>4. QED
    BY <1>1, <2>1, <2>2, <2>3 DEF vars, controller, WorkerStep
<1>4. ASSUME Calm'
      PROVE  /\ Calm
             /\ Crashed' # {} => sched.collected
             /\ Unheard \subseteq Unheard'
  <2>1. Unheard \subseteq Unheard'
    BY <1>4, ProcessesUnheard DEF StaffInv
  <2>2. CASE Crashed' = Crashed
    BY <1>2, <1>4, <2>1, <2>2 DEF StaffInv, Calm
  <2>3. ASSUME NEW w \in Worker, Crash(w)
        PROVE  Calm /\ sched.collected
    <3>1. phase'[w] = "crashed"
      BY <1>0, <2>3 DEF Crash, Become
    <3>2. config.n = 1 /\ ~config.anywhere
      BY <1>2, <1>4, <3>1 DEF Calm, Crashed
    <3>3. running[w] # None
      BY <2>3, <3>2 DEF Crash
    <3>4. running[w] \in Ahead[w]
      BY <3>3, AheadMeans
    <3>5. Held(sched, w) # {}
      BY <1>0, <3>4 DEF Sound, TestsSent
    <3>6. sched.collected
      BY <1>0, <3>5, NothingQueued
    <3>7. QED
      BY <3>2, <3>6 DEF Calm
  <2>4. ASSUME NEW w \in Worker, WorkerStep(w) \/ ReceiveEnd(w)
        PROVE  Crashed' = Crashed
    BY <1>0, <2>4 DEF WorkerStep, SessionStart, CollectionFinish, EnterLoop, BeginTest, EndTest,
                      SessionFinish, ReceiveEnd, Become, Crashed
  <2>5. UNCHANGED vars => Crashed' = Crashed
    BY DEF vars, Crashed
  <2>6. QED
    BY <2>1, <2>2, <2>3, <2>4, <2>5
<1>5. Idle(sched') = Idle(sched)
  BY <1>3 DEF Idle
<1>6. ASSUME Calm'
      PROVE  /\ Collected(sched')
             /\ Crashed' # {} => sched'.collected
             /\ ~shuttingdown' => active_nodes' # {} /\ Served(active_nodes', Unheard', sched')
  <2>1. Collected(sched) /\ (~shuttingdown => active_nodes # {} /\ Served(active_nodes, Unheard, sched))
    BY <1>4, <1>6 DEF StaffInv
  <2>2. Collected(sched')
    BY <1>3, <2>1, CollectedKept
  <2>3. Served(active_nodes, Unheard, sched) => Served(active_nodes', Unheard', sched')
    BY <1>2, <1>3, <1>4, <1>5, <1>6 DEF Served, Covered, Relief
  <2>4. QED
    BY <1>2, <1>3, <1>4, <1>6, <2>1, <2>2, <2>3
<1>7. QED
  BY <1>6 DEF StaffInv

(* What a handler leaves behind, unless the session is to shut down.        *)
LEMMA HandlerStaff ==
  ASSUME StaffInv, CalmInv', SpawnInv', NEW w \in Worker, NEW name, Take(w, name),
         UNCHANGED <<config, nextitem, running, began>>,
         \A v \in Worker : phase'[v] = phase[v] \/ (phase[v] = "unborn" /\ phase'[v] = "starting"),
         NEW after \in Sched, NEW stopping \in BOOLEAN, Return(after, stopping),
         Calm => /\ Collected(after)
                 /\ sched.collected => after.collected
                 /\ ~stopping /\ ~TestsFinished(after) /\ sched' = after =>
                      active_nodes' # {} /\ Served(active_nodes', Unheard', after)
  PROVE  StaffInv'
<1>1. /\ sched' = IF TestsFinished(after) /\ ~stopping THEN ShutdownAll(after) ELSE after
      /\ shuttingdown' = (stopping \/ TestsFinished(after))
  BY DEF Return
<1>2. Calm' = Calm /\ Crashed' = Crashed
  BY DEF Calm, Crashed
<1>3. /\ sched'.registered = after.registered /\ sched'.numnodes = after.numnodes
      /\ sched'.collected = after.collected
  BY <1>1 DEF ShutdownAll, ShutdownEach, Sched
<1>4. ASSUME Calm
      PROVE  /\ Collected(sched')
             /\ Crashed' # {} => sched'.collected
             /\ ~shuttingdown' => active_nodes' # {} /\ Served(active_nodes', Unheard', sched')
  <2>1. Collected(sched')
    BY <1>3, <1>4, CollectedKept
  <2>2. Crashed' # {} => sched'.collected
    BY <1>2, <1>3, <1>4 DEF StaffInv
  <2>3. QED
    BY <1>1, <1>4, <2>1, <2>2
<1>5. QED
  BY <1>2, <1>4 DEF StaffInv

(* Whose event is taken is alive, and it is the only one that may thereby   *)
(* have been heard of.                                                      *)
LEMMA HeardStaff ==
  ASSUME StaffInv, NEW w \in Worker, NEW name, Take(w, name),
         \A v \in Worker : phase'[v] = phase[v] \/ (phase[v] = "unborn" /\ phase'[v] = "starting")
  PROVE  /\ CalmInv /\ HomesInv /\ SessionInv /\ w \in active_nodes
         /\ sched \in Sched /\ Sound(Ahead, sched) /\ shuttingdown \in BOOLEAN
         /\ active_nodes \subseteq Worker
         /\ Unheard \ {w} \subseteq Unheard'
         /\ name # "workerready" => w \notin Unheard
<1>1. /\ SessionInv /\ w \in active_nodes /\ 1 \in DOMAIN events[w] /\ events[w][1][1] = name
      /\ sched \in Sched /\ Sound(Ahead, sched) /\ shuttingdown \in BOOLEAN
      /\ active_nodes \subseteq Worker /\ CalmInv /\ HomesInv
  BY HeardHome DEF StaffInv, CalmInv, HomesInv, SessionInv, SessionTypes
<1>2. QED
  BY <1>1, HeardOnce

LEMMA NodesActive ==
  ASSUME CalmInv, Calm
  PROVE  Idle(sched) \subseteq ToSet(sched.nodes) /\ ToSet(sched.nodes) \subseteq active_nodes
<1>1. /\ LineUp(sched) /\ sched.nodes \in Seq(Worker) /\ sched \in Sched
      /\ {sched.active, sched.next} \subseteq ToSet(sched.nodes) \cup {None}
      /\ ~aborted /\ SessionInv
  BY CalmUntroubled
     DEF Untroubled, Tidy, Sound, Shape, Homely, Sched, CalmInv, HomesInv
<1>2. Idle(sched) \subseteq ToSet(sched.nodes)
  BY <1>1, WorkerNumbers DEF LineUp, Idle
<1>3. ToSet(sched.nodes) \subseteq Worker
  BY <1>1, NonEmptyFacts
<1>4. \A w \in ToSet(sched.nodes) : w \in active_nodes
  BY <1>1, <1>3 DEF SessionInv, EveryoneCounted, ProcessShape
<1>5. QED
  BY <1>2, <1>4

(* What the methods of the scheduler find when there is still work to do.   *)
LEMMA CalmGuarded ==
  ASSUME StaffInv, Calm
  PROVE  /\ Guarded(Ahead, Home, FALSE, active_nodes, sched)
         /\ Covered(active_nodes, sched) => Manned(Ahead, Home, FALSE, active_nodes, sched)
         /\ ~sched.collected => Covered(active_nodes, sched)
<1>1. Tidy(Ahead, Home, FALSE, sched) /\ Sound(Ahead, sched)
  BY CalmUntroubled, CourseMeans DEF StaffInv, Untroubled, Tidy
<1>2. Orderly(sched)
  BY DEF StaffInv, SpawnInv
<1>3. ToSet(sched.nodes) \subseteq active_nodes
  BY NodesActive DEF StaffInv
<1>4. ~sched.collected => sched.queue = <<>>
  BY <1>1, NothingQueued
<1>5. QED
  BY <1>1, <1>2, <1>3, <1>4 DEF Guarded, Manned, Covered

LEMMA WorkerReadyStaff ==
  ASSUME StaffInv, CalmInv', SpawnInv', NEW w \in Worker, WorkerReady(w)
  PROVE  StaffInv'
<1> DEFINE told == Shutdown(sched, w)
           added == AddNode(sched, w)
           after == IF shuttingdown THEN told ELSE added
<1>1. /\ Take(w, "workerready") /\ Return(after, shuttingdown)
      /\ UNCHANGED <<config, active_nodes, phase, nextitem, running, began>>
  BY DEF WorkerReady
<1>2. /\ SessionInv /\ HomesInv /\ CalmInv /\ w \in active_nodes
      /\ sched \in Sched /\ Sound(Ahead, sched) /\ shuttingdown \in BOOLEAN
      /\ Unheard \ {w} \subseteq Unheard' /\ active_nodes \subseteq Worker
  BY <1>1, HeardStaff
<1>3. w \notin ToSet(sched.nodes) /\ Home[w] = {}
  <2>1. 1 \in DOMAIN events[w] /\ events[w][1][1] = "workerready"
    BY <1>1, <1>2, HeardHome
  <2>2. QED
    BY <1>2, <2>1 DEF HomesInv, SessionInv, EventsInOrder, BegunLate
<1>4. Work(Home, sched, w) = {}
  <2>1. Held(sched, w) = {}
    BY <1>2, <1>3 DEF Sound, FilesPlaced
  <2>2. Sent(sched, w) = {}
    BY <1>2, <2>1, NoTestTwice DEF Sound, TestsSent, Sent
  <2>3. QED
    BY <1>3, <2>2 DEF Work
<1>5. From(Ahead, sched, told)
  BY <1>2, ShutdownKeeps DEF Shutdown
<1>6. /\ From(Ahead, NodeAdded(sched, w), added)
      /\ NodeAdded(sched, w).registered = sched.registered
      /\ NodeAdded(sched, w).numnodes = sched.numnodes
      /\ NodeAdded(sched, w).collected = sched.collected
  BY <1>2, <1>3, AddNodeKeeps DEF NodeAdded, Sched
<1> HIDE DEF told, added
<1>7. /\ after \in Sched /\ after.registered = sched.registered
      /\ after.numnodes = sched.numnodes /\ after.collected = sched.collected
  BY <1>5, <1>6 DEF From, Same, Sound, Shape
<1>8. ASSUME Calm, ~shuttingdown
      PROVE  active_nodes' # {} /\ Served(active_nodes', Unheard', after)
  <2> DEFINE steady == FALSE
  <2>1. Guarded(Ahead, Home, steady, active_nodes, sched)
    BY <1>8, CalmGuarded
  <2> HIDE DEF steady
  <2>2. /\ Manned(Ahead, Home, steady, active_nodes, added)
        /\ ~sched.collected => /\ Idle(sched) \cup {w} \subseteq Idle(added)
                               /\ added.sent = sched.sent
    BY <1>2, <1>3, <1>4, <2>1, AddNodeManned DEF added
  <2>3. Served(active_nodes, Unheard, sched)
    BY <1>8 DEF StaffInv
  <2>4. Covered(active_nodes, added)
    BY <2>2 DEF Manned
  <2>5. after = added
    BY <1>8
  <2> HIDE DEF after
  <2>6. QED
    BY <1>1, <1>2, <1>7, <2>2, <2>3, <2>4, <2>5 DEF Served
<1>9. Calm => Collected(after)
  BY <1>7, CollectedKept DEF StaffInv
<1> HIDE DEF after
<1>10. Calm => /\ Collected(after)
               /\ sched.collected => after.collected
               /\ ~shuttingdown => active_nodes' # {} /\ Served(active_nodes', Unheard', after)
  BY <1>7, <1>8, <1>9
<1>11. QED
  BY <1>1, <1>2, <1>7, <1>10, HandlerStaff

(* As soon as the tests are known, the worker whose collection completed    *)
(* them is a spare.                                                         *)
LEMMA WorkerCollectionFinishStaff ==
  ASSUME StaffInv, CalmInv', SpawnInv', Listed, NEW w \in Worker, WorkerCollectionFinish(w)
  PROVE  StaffInv'
<1> DEFINE s == AddNodeCollection(sched, w)
           s2 == IF CollectionCompleted(s) /\ s.raised = None THEN Schedule(s) ELSE s
           after == IF shuttingdown THEN sched ELSE s2
<1>1. /\ Take(w, "collectionfinish") /\ Return(after, shuttingdown)
      /\ UNCHANGED <<config, active_nodes, phase, nextitem, running, began>>
  BY DEF WorkerCollectionFinish
<1>2. /\ SessionInv /\ HomesInv /\ CalmInv /\ w \in active_nodes
      /\ sched \in Sched /\ Sound(Ahead, sched) /\ shuttingdown \in BOOLEAN
      /\ Unheard \ {w} \subseteq Unheard' /\ w \notin Unheard
      /\ active_nodes \subseteq Worker
  BY <1>1, HeardStaff
<1>3. Calm /\ ~shuttingdown => ~Refused(sched, w)
  BY <1>1, <1>2, CollectionAwaited
<1>4. /\ Sound(Ahead, s)
      /\ s.raised # None \/ From(Ahead, CollectionAdded(sched, w), s)
  <2>1. \/ s.raised # None /\ From(Ahead, sched, s)
        \/ From(Ahead, CollectionAdded(sched, w), s)
    BY <1>2, AddNodeCollectionKeeps
  <2>2. QED
    BY <2>1 DEF From
<1> HIDE DEF s
<1>5. From(Ahead, Scheduled(s), Schedule(s))
  BY <1>4, ScheduleKeeps
<1>6. s2 \in Sched /\ s \in Sched
  BY <1>4, <1>5 DEF From, Sound, Shape
<1>7. Scheduled(s).registered = s.registered /\ Scheduled(s).numnodes = s.numnodes
      /\ Scheduled(s).collected
  BY <1>6 DEF Scheduled, Sched
<1>8. ASSUME Calm, ~shuttingdown
      PROVE  /\ s.raised = None
             /\ s.registered = sched.registered \cup {w} /\ s.numnodes = sched.numnodes
             /\ s.collected = sched.collected
  <2>1. Untroubled(Course, sched)
    BY <1>2, <1>8, CalmUntroubled
  <2>2. Untroubled(Course, s)
    BY <1>3, <1>8, <2>1, AddNodeCollectionUntroubled DEF s
  <2>3. s.raised = None
    BY <2>2 DEF Untroubled, Serene
  <2>4. QED
    BY <1>2, <1>4, <2>3 DEF From, Same, CollectionAdded, Sched
<1>9. ASSUME Calm, ~shuttingdown
      PROVE  /\ Collected(s2) /\ (sched.collected => s2.collected)
             /\ sched.collected => CollectionCompleted(s)
  <2>1. Collected(sched)
    BY <1>9 DEF StaffInv
  <2>2. /\ IsFiniteSet(s.registered)
        /\ Cardinality(s.registered) = Cardinality(sched.registered)
           \/ Cardinality(s.registered) = Cardinality(sched.registered) + 1
        /\ Cardinality(sched.registered) \in Nat /\ sched.numnodes \in Nat
    <3>1. s.registered = sched.registered \cup {w}
      BY <1>8, <1>9
    <3>2. IsFiniteSet(sched.registered)
      BY <2>1 DEF Collected
    <3>3. /\ IsFiniteSet(s.registered)
          /\ Cardinality(s.registered) = Cardinality(sched.registered)
             \/ Cardinality(s.registered) = Cardinality(sched.registered) + 1
      BY <3>1, <3>2, FS_AddElement
    <3>4. Cardinality(sched.registered) \in Nat
      BY <3>2, FS_CardinalityType
    <3>5. sched.numnodes \in Nat
      BY <1>2 DEF Sched
    <3>6. QED
      BY <3>3, <3>4, <3>5
  <2>3. CollectionCompleted(sched) => CollectionCompleted(s)
    BY <1>8, <1>9, <2>2 DEF CollectionCompleted
  <2>4. sched.collected => CollectionCompleted(s)
    BY <2>1, <2>3 DEF Collected
  <2>5. CASE CollectionCompleted(s)
    <3>1. s2 = Schedule(s)
      BY <1>8, <1>9, <2>5
    <3>2. s2.registered = s.registered /\ s2.numnodes = s.numnodes /\ s2.collected
      BY <1>5, <1>7, <3>1 DEF From, Same
    <3> HIDE DEF s2
    <3>3. QED
      BY <2>2, <2>4, <2>5, <3>2 DEF Collected, CollectionCompleted
  <2>6. CASE ~CollectionCompleted(s)
    BY <1>8, <1>9, <2>2, <2>4, <2>6 DEF Collected
  <2>7. QED
    BY <2>5, <2>6
<1>10. ASSUME Calm, ~shuttingdown
       PROVE  Served(active_nodes, Unheard', s2)
  <2> DEFINE steady == FALSE
             alive == active_nodes
  <2>1. /\ Guarded(Ahead, Home, steady, alive, sched)
        /\ Covered(alive, sched) => Manned(Ahead, Home, steady, alive, sched)
        /\ ~sched.collected => Covered(alive, sched)
    BY <1>10, CalmGuarded
  <2>2. Served(alive, Unheard, sched)
    BY <1>10 DEF StaffInv
  <2>3. steady => FALSE
    OBVIOUS
  <2> HIDE DEF steady, alive
  <2>4. Manned(Ahead, Home, steady, alive, sched) =>
          /\ Manned(Ahead, Home, steady, alive, s)
          /\ ~sched.collected => Idle(s) = Idle(sched) /\ s.sent = sched.sent
    BY <1>3, <1>10, AddNodeCollectionManned DEF s
  <2>5. Manned(Ahead, Home, steady, alive, s) /\ Covered(alive, Scheduled(s)) =>
          Manned(Ahead, Home, steady, alive, Schedule(s))
    BY <2>3, ScheduleManned DEF Manned
  <2>6. Schedule(s).collected
    BY <1>5, <1>7 DEF From, Same
  <2>7. CASE sched.collected
    <3>1. s2 = Schedule(s) /\ Scheduled(s) = s
      BY <1>8, <1>9, <1>10, <2>7 DEF Scheduled
    <3> HIDE DEF s2
    <3>2. Covered(alive, sched) => Covered(alive, s2)
      BY <2>1, <2>4, <2>5, <3>1 DEF Manned
    <3>3. alive \cap Unheard # {} => alive \cap Unheard' # {}
      BY <1>2
    <3>4. QED
      BY <2>2, <2>6, <3>1, <3>2, <3>3 DEF Served, alive
  <2>8. CASE ~sched.collected
    <3>1. /\ Manned(Ahead, Home, steady, alive, s) /\ Idle(s) = Idle(sched) /\ s.sent = {}
          /\ alive \subseteq Unheard \cup Idle(s) /\ Covered(alive, s)
      BY <2>1, <2>2, <2>4, <2>8 DEF Served, Manned
    <3>2. w \in Idle(s)
      BY <1>2, <3>1 DEF alive
    <3>3. Idle(Scheduled(s)) = Idle(s)
      BY <1>6 DEF Scheduled, Idle, Sched
    <3>4. Manned(Ahead, Home, steady, alive, Schedule(s))
      BY <2>5, <3>1, <3>2, <3>3 DEF Covered, Relief
    <3>5. alive \subseteq Unheard' \cup Idle(s)
      BY <1>2, <3>1, <3>2
    <3>6. s2 = s \/ s2 = Schedule(s)
      OBVIOUS
    <3> HIDE DEF s2
    <3>7. QED
      BY <2>6, <3>1, <3>4, <3>5, <3>6 DEF Served, Manned, alive
  <2>9. QED
    BY <2>7, <2>8
<1>11. /\ after \in Sched
       /\ Calm => /\ Collected(after)
                  /\ sched.collected => after.collected
                  /\ ~shuttingdown => active_nodes' # {} /\ Served(active_nodes', Unheard', after)
  <2>1. CASE shuttingdown
    BY <1>2, <2>1 DEF StaffInv
  <2>2. CASE ~shuttingdown
    <3>1. after = s2
      BY <2>2
    <3> HIDE DEF after, s2
    <3>2. QED
      BY <1>1, <1>2, <1>6, <1>9, <1>10, <2>2, <3>1
  <2>3. QED
    BY <2>1, <2>2
<1> HIDE DEF after, s2
<1>12. QED
  BY <1>1, <1>2, <1>11, HandlerStaff

(* Whoever reports a test has run a file, so the tests are known, and it is *)
(* no spare.                                                                *)
LEMMA WorkerTestCompleteStaff ==
  ASSUME StaffInv, CalmInv', SpawnInv', NEW w \in Worker, WorkerTestComplete(w)
  PROVE  StaffInv'
<1> DEFINE t == Head(events[w])[2]
           after == MarkTestComplete(sched, w, t)
<1>1. /\ Take(w, Complete) /\ Return(after, shuttingdown)
      /\ UNCHANGED <<config, active_nodes, phase, nextitem, running, began>>
  BY DEF WorkerTestComplete, Complete
<1>2. /\ SessionInv /\ HomesInv /\ CalmInv /\ w \in active_nodes
      /\ sched \in Sched /\ Sound(Ahead, sched) /\ shuttingdown \in BOOLEAN
      /\ active_nodes \subseteq Worker
      /\ Unheard \ {w} \subseteq Unheard' /\ (Complete # "workerready" => w \notin Unheard)
  BY <1>1, HeardStaff
<1>3. phase \in [Worker -> Phase]
  BY <1>2 DEF SessionInv, SessionTypes
<1>4. /\ t \in Ahead[w]
      /\ \A v \in Worker : Ahead'[v] = IF v = w THEN Ahead[w] \ {t} ELSE Ahead[v]
  BY <1>1, <1>2, <1>3, AheadAfter
<1> HIDE DEF t
<1>5. From(Ahead', Marked(sched, w, t), after)
  BY <1>2, <1>4, MarkTestCompleteKeeps
<1>6. /\ Marked(sched, w, t).registered = sched.registered
      /\ Marked(sched, w, t).numnodes = sched.numnodes
      /\ Marked(sched, w, t).collected = sched.collected
  BY <1>2 DEF Marked, Sched
<1> HIDE DEF after
<1>7. /\ after \in Sched /\ after.registered = sched.registered
      /\ after.numnodes = sched.numnodes /\ after.collected = sched.collected
  BY <1>5, <1>6 DEF From, Same, Sound, Shape
<1>8. Held(sched, w) # {}
  BY <1>2, <1>4 DEF Sound, TestsSent
<1>9. sched.collected
  BY <1>2, <1>8, NothingQueued
<1>10. ASSUME Calm, ~shuttingdown
       PROVE  active_nodes' # {} /\ Served(active_nodes', Unheard', after)
  <2>1. Served(active_nodes, Unheard, sched)
    BY <1>10 DEF StaffInv
  <2>2. active_nodes \cap Unheard # {} => active_nodes \cap Unheard' # {}
    BY <1>2 DEF Complete
  <2>3. ASSUME Covered(active_nodes, sched)
        PROVE  Covered(active_nodes, after)
    <3> DEFINE steady == FALSE
               alive == active_nodes
               left == Ahead'
    <3>1. Manned(Ahead, Home, steady, alive, sched)
      BY <1>10, <2>3, CalmGuarded
    <3>2. w \notin Idle(sched)
      BY <1>8, <1>10, CalmUntroubled, CourseMeans DEF StaffInv, Untroubled, Serene
    <3>3. \A v \in Worker : left[v] = IF v = w THEN Ahead[w] \ {t} ELSE Ahead[v]
      BY <1>4
    <3> HIDE DEF steady, alive, left
    <3>4. Manned(left, Home, steady, alive, MarkTestComplete(sched, w, t))
      BY <1>4, <3>1, <3>2, <3>3, MarkTestCompleteManned
    <3>5. Covered(alive, after)
      BY <3>4 DEF Manned, after
    <3>6. QED
      BY <3>5 DEF alive
  <2>4. QED
    BY <1>1, <1>2, <1>7, <1>9, <2>1, <2>2, <2>3 DEF Served
<1>11. Calm => Collected(after)
  BY <1>7, CollectedKept DEF StaffInv
<1>12. Calm => /\ Collected(after)
               /\ sched.collected => after.collected
               /\ ~shuttingdown => active_nodes' # {} /\ Served(active_nodes', Unheard', after)
  BY <1>7, <1>10, <1>11
<1>13. QED
  BY <1>1, <1>2, <1>7, <1>12, HandlerStaff

(* A worker that finishes had been told to, so the tests are known.         *)
LEMMA DoneTold ==
  ASSUME CalmInv, Calm, NEW w \in Worker, Take(w, "workerfinished")
  PROVE  w \in sched.sent /\ (sched.queue # <<>> => w \notin Idle(sched))
<1>1. 1 \in DOMAIN events[w] /\ events[w][1][1] = "workerfinished"
  BY HeardHome DEF CalmInv
<1>2. nextitem[w] = SHUTDOWN
  BY <1>1 DEF CalmInv, FinishedWell
<1>3. Serene(Course, sched) /\ w \in Course.ended
  BY <1>2, CourseMeans DEF CalmInv
<1>4. w \in sched.sent
  BY <1>3 DEF Serene, LastWord
<1>5. QED
  BY <1>3, <1>4 DEF Serene

LEMMA NodesStayActive ==
  (CalmInv /\ Calm =>
     Idle(sched) \subseteq ToSet(sched.nodes) /\ ToSet(sched.nodes) \subseteq active_nodes)'
<1>1. CalmInv /\ Calm =>
        Idle(sched) \subseteq ToSet(sched.nodes) /\ ToSet(sched.nodes) \subseteq active_nodes
  BY NodesActive
<1>2. QED
  BY <1>1, PTL

(* A worker is only not replaced if somebody else is there for the files    *)
(* that are queued, or nothing is queued; and the last one is not gone      *)
(* before the tests are finished.                                           *)
LEMMA WorkerFinishedStaff ==
  ASSUME StaffInv, CalmInv', SpawnInv', NEW w \in Worker, WorkerFinished(w)
  PROVE  StaffInv'
<1> DEFINE known == Contains(sched.nodes, w)
           lost == known /\ Pending(sched, w) # {}
           failed == [sched EXCEPT !.raised = "AssertionError"]
           r == RemoveNode(sched, w)
           s == IF lost THEN failed ELSE IF known THEN r ELSE sched
           after == [s EXCEPT !.clones = @ \ {w}]
<1>1. /\ Take(w, "workerfinished") /\ Return(after, shuttingdown) /\ Replacing(w)
      /\ UNCHANGED <<config, nextitem, running, began>>
      /\ \/ active_nodes' \cap Unheard' # {}
         \/ active_nodes' = active_nodes \ {w} /\ (s.raised # None \/ ~ShouldCloneWorker(s, w))
  <2>1. /\ Take(w, "workerfinished") /\ Return(after, shuttingdown) /\ Replacing(w)
        /\ UNCHANGED <<config, nextitem, running, began>>
    BY DEF WorkerFinished, Replacing
  <2>2. CASE s.raised # None \/ ~ShouldCloneWorker(s, w)
    BY <2>1, <2>2 DEF WorkerFinished
  <2>3. CASE ~(s.raised # None \/ ~ShouldCloneWorker(s, w))
    <3>1. \E clone \in Worker : /\ active_nodes' = (active_nodes \ {w}) \cup {clone}
                                /\ Become(clone, "starting")
      BY <2>3 DEF WorkerFinished
    <3>2. SessionInv
      BY DEF StaffInv, CalmInv, HomesInv
    <3>3. \A clone \in Worker : Become(clone, "starting") => clone \in Unheard'
      BY <3>2, NewcomerUnheard
    <3>4. QED
      BY <2>1, <3>1, <3>3
  <2>4. QED
    BY <2>2, <2>3
<1>2. /\ SessionInv /\ HomesInv /\ CalmInv /\ w \in active_nodes
  BY <1>1, HeardHome DEF StaffInv, CalmInv, HomesInv
<1>3. \A v \in Worker : phase'[v] = phase[v] \/ (phase[v] = "unborn" /\ phase'[v] = "starting")
  BY <1>1, <1>2, ReplacedHome
<1>4. /\ sched \in Sched /\ Sound(Ahead, sched) /\ shuttingdown \in BOOLEAN
      /\ active_nodes \subseteq Worker
      /\ Unheard \ {w} \subseteq Unheard'
      /\ ("workerfinished" # "workerready" => w \notin Unheard)
  BY <1>1, <1>3, HeardStaff
<1>5. /\ s \in Sched /\ s.registered = sched.registered
      /\ s.numnodes = sched.numnodes /\ s.collected = sched.collected
  <2>1. CASE lost
    BY <1>4, <2>1 DEF Sched
  <2>2. CASE ~lost /\ known
    <3>1. From(Ahead, Left(sched, w), r)
      BY <1>4, <2>2, RemoveNodeKeeps
    <3>2. /\ Left(sched, w).registered = sched.registered
          /\ Left(sched, w).numnodes = sched.numnodes
          /\ Left(sched, w).collected = sched.collected
      BY <1>4, LeftFacts
    <3> HIDE DEF r
    <3>3. s = r
      BY <2>2
    <3> HIDE DEF s
    <3>4. QED
      BY <3>1, <3>2, <3>3 DEF From, Same, Sound, Shape
  <2>3. CASE ~lost /\ ~known
    BY <1>4, <2>3
  <2>4. QED
    BY <2>1, <2>2, <2>3
<1>6. Calm => s \in {r, sched}
  BY <1>1, <1>2, DoneMeans
<1> HIDE DEF s
<1>7. /\ after \in Sched /\ after.registered = s.registered /\ after.numnodes = s.numnodes
      /\ after.collected = s.collected /\ after.queue = s.queue /\ after.raised = s.raised
      /\ after.nodes = s.nodes /\ after.clones = s.clones \ {w}
      /\ Idle(after) = Idle(s)
  <2>1. /\ after \in Sched /\ after.registered = s.registered /\ after.numnodes = s.numnodes
        /\ after.collected = s.collected /\ after.queue = s.queue /\ after.raised = s.raised
        /\ after.nodes = s.nodes /\ after.clones = s.clones \ {w}
        /\ after.active = s.active /\ after.next = s.next /\ after.standby = s.standby
        /\ after.current = s.current
    BY <1>5 DEF Sched
  <2>2. QED
    BY <2>1 DEF Idle
<1> HIDE DEF after, r
<1>8. Calm => Collected(after)
  BY <1>5, <1>7, CollectedKept DEF StaffInv
<1>9. ASSUME Calm, ~shuttingdown, ~TestsFinished(after), sched' = after
      PROVE  active_nodes' # {} /\ Served(active_nodes', Unheard', after)
  <2>1. Served(active_nodes, Unheard, sched)
    BY <1>9 DEF StaffInv
  <2>2. sched.collected /\ after.collected /\ (sched.queue # <<>> => w \notin Idle(sched))
    BY <1>1, <1>2, <1>5, <1>7, <1>9, <2>1, DoneTold DEF Served
  <2>3. CASE active_nodes' \cap Unheard' # {}
    BY <2>2, <2>3 DEF Served
  <2>4. ASSUME active_nodes' = active_nodes \ {w}, s.raised # None \/ ~ShouldCloneWorker(s, w),
               active_nodes' \cap Unheard' = {}
        PROVE  active_nodes' # {} /\ Covered(active_nodes', after)
    <3>1. Calm' /\ ~aborted' /\ aborted' = (after.raised # None)
      <4>1. Calm'
        BY <1>1, <1>3, <1>9 DEF Calm, Crashed
      <4>2. QED
        BY <1>1, <4>1 DEF CalmInv, Return
    <3>2. s.raised = None
      BY <1>7, <3>1
    <3>3. Idle(after) \subseteq ToSet(after.nodes) /\ ToSet(after.nodes) \subseteq active_nodes'
      <4>1. Idle(sched') \subseteq ToSet(sched'.nodes) /\ ToSet(sched'.nodes) \subseteq active_nodes'
        BY <3>1, NodesStayActive
      <4>2. QED
        BY <1>9, <4>1
    <3>4. Covered(active_nodes, sched)
      BY <1>4, <2>1, <2>4 DEF Served
    <3>5. Covered(active_nodes, s) /\ (s.queue # <<>> => w \notin Idle(s))
      <4> DEFINE steady == FALSE
                 alive == active_nodes
      <4>1. Manned(Ahead, Home, steady, alive, sched)
        BY <1>9, <3>4, CalmGuarded
      <4>2. Pending(sched, w) = {}
        BY <1>1, <1>2, <1>9, DoneMeans
      <4> HIDE DEF steady, alive
      <4>3. Covered(alive, r) /\ (r.queue # <<>> => w \notin Idle(r))
        BY <2>2, <4>1, <4>2, RemoveNodeCovers DEF r
      <4>4. QED
        BY <1>6, <1>9, <2>2, <3>4, <4>3 DEF alive
    <3>6. CASE s.queue = <<>>
      <4>1. Covered(active_nodes', after)
        BY <1>7, <3>6 DEF Covered
      <4>2. CollectionCompleted(after)
        BY <1>8, <1>9, <2>2 DEF Collected
      <4>3. ToSet(after.nodes) # {}
        BY <1>7, <1>9, <3>6, <4>2 DEF TestsFinished
      <4>4. QED
        BY <3>3, <4>1, <4>3
    <3>7. CASE s.queue # <<>>
      <4>1. w \notin s.clones
        BY <2>4, <3>2, <3>7 DEF ShouldCloneWorker
      <4>2. PICK v \in Idle(s) \cup (s.clones \cap active_nodes) : TRUE
        BY <3>5, <3>7 DEF Covered, Relief
      <4>3. v # w
        BY <3>5, <3>7, <4>1, <4>2
      <4>4. v \in Relief(active_nodes', after)
        BY <1>7, <2>4, <4>2, <4>3 DEF Relief
      <4>5. v \in active_nodes'
        BY <3>3, <4>4 DEF Relief
      <4>6. QED
        BY <4>4, <4>5 DEF Covered
    <3>8. QED
      BY <3>6, <3>7
  <2>5. QED
    BY <1>1, <2>2, <2>3, <2>4 DEF Served
<1>10. Calm => /\ Collected(after)
               /\ sched.collected => after.collected
               /\ ~shuttingdown /\ ~TestsFinished(after) /\ sched' = after =>
                    active_nodes' # {} /\ Served(active_nodes', Unheard', after)
  BY <1>5, <1>7, <1>8, <1>9
<1>11. QED
  BY <1>1, <1>3, <1>4, <1>7, <1>10, HandlerStaff

(* Whoever dies of a test is replaced as long as the session goes on.       *)
LEMMA WorkerErrorDownStaff ==
  ASSUME StaffInv, CalmInv', SpawnInv', NEW w \in Worker, WorkerErrorDown(w)
  PROVE  StaffInv'
<1> DEFINE left == RemoveNode(sched, w)
           s == Forgiven(left)
           over == failed_nodes' > config.restarts
           after == IF over /\ ~shuttingdown THEN ShutdownAll(s) ELSE s
<1>1. SessionInv /\ HomesInv /\ CalmInv
  BY DEF StaffInv, CalmInv, HomesInv
<1>2. /\ Take(w, "errordown") /\ Return(after, over) /\ Replacing(w)
      /\ UNCHANGED <<config, nextitem, running, began>>
      /\ over \/ active_nodes' \cap Unheard' # {}
  <2>1. CASE over
    BY <2>1 DEF WorkerErrorDown, Replacing
  <2>2. CASE ~over
    <3>1. over = FALSE /\ after = s
      BY <2>2
    <3> HIDE DEF after, over
    <3>2. /\ Take(w, "errordown") /\ Return(s, FALSE) /\ Replacing(w)
          /\ UNCHANGED <<config, nextitem, running, began>>
          /\ \E clone \in Worker : /\ active_nodes' = (active_nodes \ {w}) \cup {clone}
                                   /\ Become(clone, "starting")
      BY <2>2 DEF WorkerErrorDown, Replacing, over
    <3>3. \A clone \in Worker : Become(clone, "starting") => clone \in Unheard'
      BY <1>1, NewcomerUnheard
    <3>4. QED
      BY <3>1, <3>2, <3>3
  <2>3. QED
    BY <2>1, <2>2
<1>3. over \in BOOLEAN
  OBVIOUS
<1>4. sched \in Sched /\ Sound(Ahead, sched) /\ w \in active_nodes
  BY <1>1, <1>2, HeardHome
<1>5. \A v \in Worker : phase'[v] = phase[v] \/ (phase[v] = "unborn" /\ phase'[v] = "starting")
  BY <1>1, <1>2, <1>4, ReplacedHome
<1>6. phase[w] = "crashed" /\ Ahead[w] = {} /\ sched.torun[w] = <<>>
  BY <1>1, <1>2, LastOneDies
<1>7. /\ left \in Sched /\ Sound(Ahead, left) /\ left.registered = sched.registered
      /\ left.numnodes = sched.numnodes /\ left.collected = sched.collected
  <2>1. From(Ahead, Left(sched, w), left)
    BY <1>4, <1>6, RemoveNodeKeeps
  <2>2. /\ Left(sched, w).registered = sched.registered
        /\ Left(sched, w).numnodes = sched.numnodes
        /\ Left(sched, w).collected = sched.collected
    BY <1>4, LeftFacts
  <2> HIDE DEF left
  <2>3. QED
    BY <2>1, <2>2 DEF From, Same, Sound, Shape
<1> HIDE DEF left
<1>8. /\ s \in Sched /\ s.registered = left.registered /\ s.numnodes = left.numnodes
      /\ s.collected = left.collected /\ Sound(Ahead, s)
  <2>1. From(Ahead, left, [left EXCEPT !.raised = None])
    BY <1>7, RaisedKeeps
  <2>2. Sound(Ahead, s)
    BY <1>7, <2>1 DEF Forgiven, From
  <2>3. QED
    BY <1>7, <2>2 DEF Forgiven, Sched
<1> HIDE DEF s
<1>9. /\ after \in Sched /\ after.registered = s.registered /\ after.numnodes = s.numnodes
      /\ after.collected = s.collected
  <2>1. /\ ShutdownAll(s).registered = s.registered /\ ShutdownAll(s).numnodes = s.numnodes
        /\ ShutdownAll(s).collected = s.collected
    BY <1>8 DEF ShutdownAll, ShutdownEach, Sched
  <2>2. ShutdownAll(s) \in Sched
    <3>1. ToSet(s.nodes) \in SUBSET Worker
      BY <1>8, NonEmptyFacts DEF Sched
    <3>2. From(Ahead, s, ShutdownAll(s))
      BY <1>8, <3>1, ShutdownKeeps DEF ShutdownAll
    <3>3. QED
      BY <3>2 DEF From, Sound, Shape
  <2>3. QED
    BY <1>8, <2>1, <2>2
<1> HIDE DEF after, over
<1>10. Calm => Collected(after)
  BY <1>7, <1>8, <1>9, CollectedKept DEF StaffInv
<1>11. Calm => after.collected
  BY <1>6, <1>7, <1>8, <1>9 DEF StaffInv, Crashed
<1>12. Calm => /\ Collected(after)
               /\ sched.collected => after.collected
               /\ ~over /\ ~TestsFinished(after) /\ sched' = after =>
                    active_nodes' # {} /\ Served(active_nodes', Unheard', after)
  BY <1>2, <1>10, <1>11 DEF Served
<1>13. QED
  BY <1>2, <1>3, <1>5, <1>9, <1>12, HandlerStaff

LEMMA StaffNext == OnlyInTests /\ StaffInv /\ Listed /\ [Next]_vars => StaffInv'
<1> SUFFICES ASSUME OnlyInTests, StaffInv, Listed, [Next]_vars PROVE StaffInv'
  OBVIOUS
<1>1. CalmInv'
  BY CalmNext DEF StaffInv
<1>2. SpawnInv'
  BY SpawnNext DEF StaffInv, CalmInv
<1>3. CASE UNCHANGED vars
  BY <1>1, <1>2, <1>3, ProcessesStaff
<1>4. ASSUME NEW w \in Worker, WorkerStep(w) \/ Crash(w) \/ ReceiveEnd(w)
      PROVE  StaffInv'
  BY <1>1, <1>2, <1>4, ProcessesStaff
<1>5. ASSUME NEW w \in Worker, HandleEvent(w)
      PROVE  StaffInv'
  <2>1. WorkerReady(w) => StaffInv'
    BY <1>1, <1>2, WorkerReadyStaff
  <2>2. WorkerCollectionFinish(w) => StaffInv'
    BY <1>1, <1>2, WorkerCollectionFinishStaff
  <2>3. WorkerTestComplete(w) => StaffInv'
    BY <1>1, <1>2, WorkerTestCompleteStaff
  <2>4. WorkerFinished(w) => StaffInv'
    BY <1>1, <1>2, WorkerFinishedStaff
  <2>5. WorkerErrorDown(w) => StaffInv'
    BY <1>1, <1>2, WorkerErrorDownStaff
  <2>6. QED
    BY <1>5, <2>1, <2>2, <2>3, <2>4, <2>5 DEF HandleEvent
<1>6. QED
  BY <1>3, <1>4, <1>5 DEF Next, SessionOver

(* "Unexpectedly no active workers available" is not reached: neither       *)
(* while no worker dies, in any number of workers, nor where the only one   *)
(* asked for dies of its tests.                                             *)
THEOREM WorkersToTheEnd == OnlyInTests => (Spec => [](Undisturbed => NeverStranded))
<1> SUFFICES ASSUME OnlyInTests PROVE Spec => [](Undisturbed => NeverStranded)
  OBVIOUS
<1>1. StaffInv => (Undisturbed => NeverStranded)
  BY DEF StaffInv, CalmInv, NeverStranded
<1>2. StaffInv /\ Listed /\ [Next]_vars => StaffInv' /\ Listed'
  BY StaffNext, ListedNext DEF StaffInv
<1>3. QED
  BY <1>1, <1>2, StaffInit, ListedInit, PTL DEF Spec
=============================================================================
