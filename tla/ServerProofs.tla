----------------------------- MODULE ServerProofs -----------------------------
(***************************************************************************)
(* The pool, and the whole server around it, for every number of workers,  *)
(* of I/O threads, of connections and of signals, every command line and   *)
(* every set of files: no worker sleeps beside a task that nobody is going *)
(* to take, the pool outlives the threads that call it, and the settings   *)
(* are those the command line means.                                       *)
(***************************************************************************)
EXTENDS Server, ConfigProofs, FiniteSetTheorems

-------------------------------------------------------------------------------
(* The pool by itself. *)

\* The counts of Balanced are numbers.
LEMMA Counts ==
    ASSUME TypeOK
    PROVE  /\ IsFiniteSet(At("checking")) /\ Cardinality(At("checking")) \in Nat
           /\ IsFiniteSet(notifying) /\ Cardinality(notifying) \in Nat
<1>1. IsFiniteSet(At("checking"))
  BY ThreadsAssumption, FS_Subset DEF At
<1>2. IsFiniteSet(notifying)
  BY ThreadsAssumption, FS_Subset DEF TypeOK
<1> QED
  BY <1>1, <1>2, FS_CardinalityType

\* A worker that begins to look at the queue is one more, one that stops one less.
LEMMA OneMore ==
    ASSUME TypeOK, NEW w \in Workers, wpc[w] # "checking",
           wpc' = [wpc EXCEPT ![w] = "checking"]
    PROVE  Cardinality(At("checking")') = Cardinality(At("checking")) + 1
<1>1. At("checking")' = At("checking") \cup {w} /\ w \notin At("checking")
  BY DEF At, TypeOK
<1> QED
  BY <1>1, Counts, FS_AddElement

LEMMA OneLess ==
    ASSUME TypeOK, NEW w \in Workers, wpc[w] = "checking",
           NEW place, place # "checking", wpc' = [wpc EXCEPT ![w] = place]
    PROVE  Cardinality(At("checking")') = Cardinality(At("checking")) - 1
<1>1. At("checking")' = At("checking") \ {w} /\ w \in At("checking")
  BY DEF At, TypeOK
<1> QED
  BY <1>1, Counts, FS_RemoveElement

\* Every step keeps the types.
LEMMA TypeStep ==
    ASSUME TypeOK, [Next]_vars
    PROVE  TypeOK'
<1> USE DEF TypeOK, At
<1>1. ASSUME NEW s \in Submitters, NotifyOne(s) PROVE TypeOK'
  BY <1>1 DEF NotifyOne
<1>2. ASSUME NEW s \in Submitters, NEW task \in Tasks, Run(s, task) PROVE TypeOK'
  BY <1>2 DEF Run, WillNotify
<1>3. ASSUME NEW w \in Workers, Test(w) PROVE TypeOK'
  BY <1>3 DEF Test
<1>4. ASSUME NEW w \in Workers, Take(w) PROVE TypeOK'
  <2>1. Head(tasks) \in Tasks /\ tasks' \in Seq(Tasks)
    BY <1>4 DEF Take
  <2>2. At("busy")' = At("busy") \cup {w} /\ DOMAIN held = At("busy")
    BY <1>4 DEF Take
  <2>3. held' \in [At("busy")' -> Tasks]
    BY <1>4, <2>1, <2>2 DEF Take
  <2> QED
    BY <1>4, <2>1, <2>3 DEF Take
<1>5. ASSUME NEW w \in Workers, Wait(w) PROVE TypeOK'
  BY <1>5 DEF Wait
<1>6. ASSUME NEW w \in Workers, Finish(w) PROVE TypeOK'
  <2>1. At("busy")' = At("busy") \ {w} /\ DOMAIN held = At("busy") /\ w \in At("busy")
    BY <1>6 DEF Finish
  <2>2. held' \in [At("busy")' -> Tasks]
    BY <1>6, <2>1 DEF Finish
  <2> QED
    BY <1>6, <2>1, <2>2 DEF Finish
<1>7. ASSUME NEW w \in Workers, Spurious(w) PROVE TypeOK'
  BY <1>7 DEF Spurious
<1>8. CASE Stop
  BY <1>8 DEF Stop
<1>9. CASE NotifyAll
  BY <1>9 DEF NotifyAll
<1>10. CASE Join
  BY <1>10 DEF Join
<1>11. CASE UNCHANGED vars
  BY <1>11 DEF vars
<1> QED
  BY <1>1, <1>2, <1>3, <1>4, <1>5, <1>6, <1>7, <1>8, <1>9, <1>10, <1>11 DEF Next, Work

\* Every step keeps a taker for each task: the balance.
LEMMA BalanceStep ==
    ASSUME TypeOK, TypeOK', Balanced, [Next]_vars
    PROVE  Balanced'
<1> USE DEF Balanced
<1>0. /\ Cardinality(At("checking")) \in Nat /\ Cardinality(notifying) \in Nat
      /\ Cardinality(At("checking")') \in Nat /\ Cardinality(notifying') \in Nat
      /\ Len(tasks) \in Nat /\ IsFiniteSet(notifying)
  <2>1. Cardinality(At("checking")') \in Nat /\ Cardinality(notifying') \in Nat
    BY ThreadsAssumption, FS_Subset, FS_CardinalityType DEF At, TypeOK
  <2> QED
    BY <2>1, Counts DEF TypeOK
<1>1. ASSUME NEW s \in Submitters, NotifyOne(s) PROVE Balanced'
  <2>1. CASE At("waiting") = {}
    BY <1>1, <2>1 DEF NotifyOne, At
  <2>2. CASE At("waiting") # {}
    <3>1. PICK w \in At("waiting") : wpc' = [wpc EXCEPT ![w] = "checking"]
      BY <1>1, <2>2 DEF NotifyOne
    <3>2. Cardinality(At("checking")') = Cardinality(At("checking")) + 1
      BY <3>1, OneMore DEF At
    <3>3. Cardinality(notifying') = Cardinality(notifying) - 1
      BY <1>0, <1>1, FS_RemoveElement DEF NotifyOne
    <3> QED
      BY <1>0, <1>1, <2>2, <3>2, <3>3 DEF NotifyOne
  <2> QED
    BY <2>1, <2>2
<1>2. ASSUME NEW s \in Submitters, NEW task \in Tasks, Run(s, task) PROVE Balanced'
  <2>1. Cardinality(notifying') = Cardinality(notifying) + 1
    BY <1>0, <1>2, FS_AddElement DEF Run, WillNotify
  <2>2. Len(tasks') = Len(tasks) + 1
    BY <1>2 DEF Run, WillNotify, TypeOK
  <2> QED
    BY <1>0, <1>2, <2>1, <2>2 DEF Run, WillNotify, At
<1>3. ASSUME NEW w \in Workers, Test(w) PROVE Balanced'
  <2>1. CASE running
    <3>1. Cardinality(At("checking")') = Cardinality(At("checking")) + 1
      BY <1>3, <2>1, OneMore DEF Test
    <3>2. At("waiting")' = At("waiting")
      BY <1>3, <2>1 DEF Test, At, TypeOK
    <3> QED
      BY <1>0, <1>3, <3>1, <3>2 DEF Test
  <2>2. CASE ~running
    BY <1>3, <2>2 DEF Test
  <2> QED
    BY <2>1, <2>2
<1>4. ASSUME NEW w \in Workers, Take(w) PROVE Balanced'
  <2>1. Cardinality(At("checking")') = Cardinality(At("checking")) - 1
    BY <1>4, OneLess DEF Take
  <2>2. Len(tasks') = Len(tasks) - 1
    BY <1>4 DEF Take, TypeOK
  <2>3. At("waiting")' = At("waiting")
    BY <1>4 DEF Take, At, TypeOK
  <2> QED
    BY <1>0, <1>4, <2>1, <2>2, <2>3 DEF Take
<1>5. ASSUME NEW w \in Workers, Wait(w) PROVE Balanced'
  <2>1. Len(tasks') = 0
    BY <1>5 DEF Wait
  <2> QED
    BY <1>0, <2>1
<1>6. ASSUME NEW w \in Workers, Finish(w) PROVE Balanced'
  <2>1. At("waiting")' = At("waiting") /\ At("checking")' = At("checking")
    BY <1>6 DEF Finish, At, TypeOK
  <2> QED
    BY <1>6, <2>1 DEF Finish
<1>7. ASSUME NEW w \in Workers, Spurious(w) PROVE Balanced'
  <2>1. Cardinality(At("checking")') = Cardinality(At("checking")) + 1
    BY <1>7, OneMore DEF Spurious
  <2>2. At("waiting") # {}
    BY <1>7 DEF Spurious, At
  <2> QED
    BY <1>0, <1>7, <2>1, <2>2 DEF Spurious
<1>8. CASE Stop
  BY <1>8 DEF Stop
<1>9. CASE NotifyAll
  BY <1>9 DEF NotifyAll, At
<1>10. CASE Join
  BY <1>10 DEF Join, At
<1>11. CASE UNCHANGED vars
  BY <1>11 DEF vars, At
<1> QED
  BY <1>1, <1>2, <1>3, <1>4, <1>5, <1>6, <1>7, <1>8, <1>9, <1>10, <1>11 DEF Next, Work

\* Once running_ has been cleared nobody goes to sleep, and notify_all() wakes those
\* who slept before.
Awake == (owner # "up" => ~running) /\ JoinFindsAwake

LEMMA AwakeStep ==
    ASSUME TypeOK, Awake, [Next]_vars
    PROVE  Awake'
<1> USE DEF Awake, JoinFindsAwake, At
<1>1. ASSUME NEW s \in Submitters, NotifyOne(s) PROVE Awake'
  BY <1>1 DEF NotifyOne, TypeOK
<1>2. ASSUME NEW s \in Submitters, NEW task \in Tasks, Run(s, task) PROVE Awake'
  BY <1>2 DEF Run
<1>3. ASSUME NEW w \in Workers, Test(w) PROVE Awake'
  BY <1>3 DEF Test, TypeOK
<1>4. ASSUME NEW w \in Workers, Take(w) PROVE Awake'
  BY <1>4 DEF Take, TypeOK
<1>5. ASSUME NEW w \in Workers, Wait(w) PROVE Awake'
  BY <1>5 DEF Wait, TypeOK
<1>6. ASSUME NEW w \in Workers, Finish(w) PROVE Awake'
  BY <1>6 DEF Finish, TypeOK
<1>7. ASSUME NEW w \in Workers, Spurious(w) PROVE Awake'
  BY <1>7 DEF Spurious, TypeOK
<1>8. CASE Stop
  BY <1>8 DEF Stop
<1>9. CASE NotifyAll
  BY <1>9 DEF NotifyAll, TypeOK
<1>10. CASE Join
  BY <1>10 DEF Join
<1>11. CASE UNCHANGED vars
  BY <1>11 DEF vars
<1> QED
  BY <1>1, <1>2, <1>3, <1>4, <1>5, <1>6, <1>7, <1>8, <1>9, <1>10, <1>11 DEF Next, Work

\* While a worker sleeps on the condition variable, every queued task has a worker on
\* its way to the queue or a notify_one() on its way to a worker; and none sleeps when
\* the destructor joins it (ThreadPool.cpp:10-43).
THEOREM NoneSleepsBesideTask == SafeSpec => []NoneIdle
<1>1. Init => TypeOK /\ Balanced /\ Awake
  <2>1. ASSUME Init PROVE TypeOK
    BY <2>1 DEF Init, TypeOK, At
  <2>2. ASSUME Init PROVE Balanced /\ Awake
    BY <2>2 DEF Init, Balanced, Awake, JoinFindsAwake, At
  <2> QED
    BY <2>1, <2>2
<1>2. TypeOK /\ Balanced /\ Awake /\ [Next]_vars => (TypeOK /\ Balanced /\ Awake)'
  BY TypeStep, BalanceStep, AwakeStep
<1>3. Balanced /\ Awake => NoneIdle
  BY DEF NoneIdle, Awake
<1> QED
  BY <1>1, <1>2, <1>3, PTL DEF SafeSpec

-------------------------------------------------------------------------------
(* The server. *)

\* A step of a worker of the server is one of a worker of the pool.
LEMMA WorkerStepOfPool ==
    ASSUME NEW w \in Workers, WorkerStep(w) \/ WakesUp(w)
    PROVE  [Next]_vars
<1>1. CASE PoolWork(w)
  BY <1>1 DEF PoolWork, Next, Work
<1>2. CASE Route(w)
  BY <1>2 DEF Route
<1>3. CASE Answer(w)
  BY <1>3 DEF Answer, Next, Work
<1>4. CASE WakesUp(w)
  BY <1>4 DEF WakesUp, Next
<1> QED
  BY <1>1, <1>2, <1>3, <1>4 DEF WorkerStep

\* So is one of the main thread: notify_one(), the destructor, or nothing.
LEMMA MainStepOfPool ==
    ASSUME MainStep
    PROVE  [Next]_vars
<1>1. CASE Notify(0)
  BY <1>1, SubmittersAssumption DEF Notify, Next
<1>2. CASE DestroyPool
  BY <1>2 DEF DestroyPool, Next
<1>3. CASE Return
  BY <1>3 DEF Return, Next
<1>4. CASE Construct \/ Listen \/ AcceptEvent \/ Accept \/ AcceptDone \/ AcceptFails
  BY <1>4 DEF Construct, Listen, AcceptEvent, Accept, AcceptDone, AcceptFails
<1>5. CASE HandleSignal \/ JoinThread \/ QuitLoop \/ LeaveLoop \/ DestroyRouter
             \/ DestroySignalHandler
  BY <1>5 DEF HandleSignal, JoinThread, QuitLoop, LeaveLoop, DestroyRouter,
              DestroySignalHandler
<1>6. ASSUME NEW i \in Loops, StartThread(i) \/ QuitThread(i) PROVE [Next]_vars
  BY <1>6 DEF StartThread, QuitThread
<1> QED
  BY <1>1, <1>2, <1>3, <1>4, <1>5, <1>6 DEF MainStep

\* Every step of the server is a step of the pool or leaves it alone.  A request
\* comes from the loop of an accepted connection, which is one of Submitters.
LEMMA StepOfPool ==
    ASSUME Range(loopOf) \subseteq Submitters, [SNext]_allVars
    PROVE  [Next]_vars
<1>1. CASE ParseArguments
  BY <1>1 DEF ParseArguments
<1>2. CASE MainStep
  BY <1>2, MainStepOfPool
<1>3. CASE Signal
  BY <1>3 DEF Signal
<1>4. ASSUME NEW i \in Loops, IoStep(i) PROVE [Next]_vars
  <2>1. i \in Submitters
    BY SubmittersAssumption DEF Loops
  <2> QED
    BY <1>4, <2>1 DEF IoStep, EnterLoop, LeaveThread, Notify, Next
<1>5. ASSUME NEW w \in Workers, WorkerStep(w) \/ WakesUp(w) PROVE [Next]_vars
  BY <1>5, WorkerStepOfPool
<1>6. ASSUME NEW c \in Tasks, Connect(c) PROVE [Next]_vars
  BY <1>6 DEF Connect
<1>7. ASSUME NEW c \in Tasks, Request(c) PROVE [Next]_vars
  <2>1. loopOf[c] \in Submitters
    BY <1>7 DEF Request, Range
  <2> QED
    BY <1>7, <2>1 DEF Request, Next
<1>8. CASE UNCHANGED allVars
  BY <1>8 DEF allVars
<1> QED
  BY <1>1, <1>2, <1>3, <1>4, <1>5, <1>6, <1>7, <1>8 DEF SNext

\* What an I/O loop is chosen by: the number of threads main() was given.
SInv == STypeOK /\ (stage \notin {"parse", "parsed", "refused"} => cfg.ioThreads \in 0 .. MaxIo)

\* The loop chosen for a connection exists: next_ modulo the number of threads.
LEMMA ChosenLoop ==
    ASSUME NEW n \in 0 .. MaxIo, NEW k \in Nat
    PROVE  (IF n = 0 THEN 0 ELSE 1 + (k % n)) \in 0 .. MaxIo
  BY SubmittersAssumption

LEMMA SInitInv == SInit => SInv
<1> SUFFICES ASSUME SInit PROVE SInv
  OBVIOUS
<1>1. TypeOK
  BY DEF SInit, Init, TypeOK, At
<1>2. DOMAIN loopOf = {} /\ Range(loopOf) = {} /\ backlog \in Seq(Tasks)
  BY DEF SInit, Range
<1>3. io \in [Loops -> {"none", "published", "looping", "told", "gone"}]
  BY DEF SInit
<1>4. /\ stage = "parse" /\ edge = FALSE /\ failed = FALSE /\ signalled = FALSE
      /\ toJoin = 0 /\ next_ = 0 /\ signals = 0 /\ routed = {} /\ strays = {}
  BY DEF SInit
<1>5. toJoin \in 0 .. MaxIo /\ next_ \in Nat /\ signals \in 0 .. MaxSignals
  BY <1>4, SubmittersAssumption
<1>6. STypeOK
  BY <1>1, <1>2, <1>3, <1>4, <1>5, Zenon DEF STypeOK
<1> QED
  BY <1>4, <1>6 DEF SInv

\* Starting and accepting.
LEMMA MainStepInv ==
    ASSUME SInv, TypeOK', MainStep
    PROVE  SInv'
<1> USE SubmittersAssumption DEF SInv, STypeOK, At
<1>1. CASE Construct
  BY <1>1 DEF Construct, vars, acceptVars, signalVars, workVars
<1>2. CASE Listen \/ AcceptEvent \/ AcceptDone \/ AcceptFails
  BY <1>2 DEF Listen, AcceptEvent, AcceptDone, AcceptFails, vars, acceptVars, signalVars,
              workVars
<1>3. CASE Accept
  <2> DEFINE chosen == IF cfg.ioThreads = 0 THEN 0 ELSE 1 + (next_ % cfg.ioThreads)
  <2>1. Head(backlog) \in Tasks /\ backlog' \in Seq(Tasks)
    BY <1>3 DEF Accept
  <2>2. chosen \in 0 .. MaxIo
    BY <1>3, ChosenLoop DEF Accept
  <2>3. loopOf' = [c \in DOMAIN loopOf \cup {Head(backlog)} |->
                      IF c = Head(backlog) THEN chosen ELSE loopOf[c]]
    BY <1>3, Zenon DEF Accept
  <2> HIDE DEF chosen
  <2>4. DOMAIN loopOf' \subseteq Tasks
    BY <2>1, <2>3
  <2>5. \A c \in DOMAIN loopOf' : loopOf'[c] \in 0 .. MaxIo
    BY <2>2, <2>3 DEF Range
  <2>6. Range(loopOf') \subseteq 0 .. MaxIo
    BY <2>5 DEF Range
  <2>7. /\ UNCHANGED <<vars, mainVars, edge, failed, signalVars, workVars>>
        /\ next_' = IF cfg.ioThreads = 0 THEN next_ ELSE next_ + 1
    BY <1>3, Zenon DEF Accept
  <2> QED
    BY <2>1, <2>4, <2>7, <2>6 DEF vars, mainVars, signalVars, workVars
<1>4. CASE HandleSignal
  <2>1. stage' = "clearing" /\ backlog' = <<>> /\ edge' = FALSE /\ signalled' = FALSE
        /\ UNCHANGED <<vars, argv, cfg, io, toJoin, failed, next_, loopOf, signals, workVars>>
        /\ stage = "loop"
    BY <1>4 DEF HandleSignal
  <2>2. backlog' \in Seq(Tasks)
    BY <2>1
  <2> QED
    BY <2>1, <2>2 DEF vars, workVars
<1>5. CASE JoinThread
  BY <1>5 DEF JoinThread, vars, acceptVars, signalVars, workVars
<1>6. CASE QuitLoop \/ LeaveLoop \/ DestroyRouter \/ DestroySignalHandler
  BY <1>6 DEF QuitLoop, LeaveLoop, DestroyRouter, DestroySignalHandler, vars,
               acceptVars, signalVars, workVars
<1>7. CASE DestroyPool
  BY <1>7 DEF DestroyPool, Stop, NotifyAll, TypeOK, mainVars, acceptVars, signalVars, workVars
<1>8. CASE Return
  BY <1>8 DEF Return, Join, acceptVars, signalVars
<1>9. CASE Notify(0)
  BY <1>9 DEF Notify, NotifyOne, TypeOK, mainVars, acceptVars, signalVars, workVars
<1>10. ASSUME NEW i \in Loops, StartThread(i) PROVE SInv'
  BY <1>10 DEF StartThread, Loops, vars, acceptVars, signalVars, workVars
<1>11. ASSUME NEW i \in Loops, QuitThread(i) PROVE SInv'
  <2>1. io' \in [Loops -> {"none", "published", "looping", "told", "gone"}]
    BY <1>11 DEF QuitThread
  <2>2. toJoin' \in 0 .. MaxIo
    BY <1>11 DEF QuitThread, Loops
  <2> QED
    BY <1>11, <2>1, <2>2 DEF QuitThread, vars, acceptVars, signalVars, workVars
<1> QED
  BY <1>1, <1>2, <1>3, <1>4, <1>7, <1>8, <1>9, <1>10, <1>5, <1>6, <1>11 DEF MainStep

\* The other threads and the outside world.
LEMMA OtherStepInv ==
    ASSUME SInv, TypeOK', [SNext]_allVars, ~MainStep
    PROVE  SInv'
<1> USE SubmittersAssumption DEF SInv, STypeOK, At
<1>1. CASE ParseArguments
  BY <1>1 DEF ParseArguments, vars, acceptVars, signalVars, workVars
<1>2. CASE Signal
  <2>1. signals' \in 0 .. MaxSignals
    BY <1>2 DEF Signal
  <2>2. signalled' \in BOOLEAN
    BY <1>2 DEF Signal
  <2>3. strays' \subseteq {"router", "loop", "instance_"}
    BY <1>2 DEF Signal
  <2>4. UNCHANGED <<vars, mainVars, acceptVars, routed>>
    BY <1>2 DEF Signal
  <2> QED
    BY <2>1, <2>2, <2>3, <2>4 DEF vars, mainVars, acceptVars
<1>3. ASSUME NEW i \in Loops, IoStep(i) PROVE SInv'
  BY <1>3 DEF IoStep, EnterLoop, LeaveThread, Notify, NotifyOne, TypeOK, Loops, vars,
              mainVars, acceptVars, signalVars, workVars
<1>4. ASSUME NEW w \in Workers, PoolWork(w) \/ WakesUp(w) PROVE SInv'
  BY <1>4 DEF PoolWork, Test, Take, Wait, WakesUp, Spurious, TypeOK,
              mainVars, acceptVars, signalVars, workVars
<1>5. ASSUME NEW w \in Workers, Route(w) PROVE SInv'
  BY <1>5 DEF Route, vars, mainVars, acceptVars, signalVars
<1>6. ASSUME NEW w \in Workers, Answer(w) PROVE SInv'
  BY <1>6 DEF Answer, Finish, TypeOK, mainVars, acceptVars, signalVars
<1>7. ASSUME NEW c \in Tasks, Connect(c) PROVE SInv'
  BY <1>7 DEF Connect, vars, mainVars, signalVars, workVars
<1>8. ASSUME NEW c \in Tasks, Request(c) PROVE SInv'
  BY <1>8 DEF Request, Run, mainVars, acceptVars, signalVars, workVars
<1>9. CASE UNCHANGED allVars
  BY <1>9 DEF allVars, vars, mainVars, acceptVars, signalVars, workVars
<1> QED
  BY <1>1, <1>2, <1>3, <1>4, <1>5, <1>6, <1>7, <1>8, <1>9 DEF SNext, WorkerStep

LEMMA SStepInv == SInv /\ [SNext]_allVars => SInv'
<1> SUFFICES ASSUME SInv, [SNext]_allVars PROVE SInv'
  OBVIOUS
<1>1. TypeOK'
  BY StepOfPool, TypeStep, SubmittersAssumption DEF SInv, STypeOK
<1> QED
  BY <1>1, MainStepInv, OtherStepInv

\* The variables of the whole program keep their types, for every number of I/O
\* threads, workers, connections and signals and every command line; above all the
\* loop of a connection is one that exists (TcpServer.cpp:39).
THEOREM ServerTypeCorrect == SSpec => []STypeOK
<1>1. SInv => STypeOK
  BY DEF SInv
<1> QED
  BY <1>1, SInitInv, SStepInv, PTL DEF SSpec

\* In the whole program, up to the end of its shutdown, no worker of the pool
\* sleeps beside a request that nobody is going to take; and ~ThreadPool joins none that
\* sleeps, wherever each was when running_ was cleared (ThreadPool.cpp:10-19).
THEOREM ServerNoneIdle == SSpec => []NoneIdle
<1>1. SInit => Balanced /\ Awake
  BY DEF SInit, Init, Balanced, Awake, JoinFindsAwake, At
<1>2. SInv /\ SInv' /\ Balanced /\ Awake /\ [SNext]_allVars => Balanced' /\ Awake'
  BY StepOfPool, BalanceStep, AwakeStep, SubmittersAssumption DEF SInv, STypeOK
<1>3. Balanced /\ Awake => NoneIdle
  BY DEF NoneIdle, Awake
<1> QED
  BY <1>1, <1>2, <1>3, SInitInv, SStepInv, PTL DEF SSpec

-------------------------------------------------------------------------------
(* The listening socket. *)

\* There is a backlog only from the loop on, until the shutdown empties it.
BacklogInv ==
    /\ stage \in {"parse", "parsed", "refused", "threads"} => backlog = <<>>
    /\ NoLostConnection

LEMMA BacklogStep ==
    ASSUME SInv, BacklogInv, [SNext]_allVars
    PROVE  BacklogInv'
<1> USE DEF BacklogInv, NoLostConnection
<1>1. CASE ParseArguments
  BY <1>1 DEF ParseArguments, acceptVars
<1>2. CASE Construct \/ Listen
  BY <1>2 DEF Construct, Listen, acceptVars
<1>3. CASE AcceptEvent
  BY <1>3 DEF AcceptEvent
<1>4. CASE Accept
  <2>1. stage = "accepting" /\ stage' = stage
    BY <1>4, Zenon DEF Accept, mainVars
  <2> QED
    BY <2>1
<1>5. CASE AcceptDone
  BY <1>5 DEF AcceptDone, acceptVars
<1>6. CASE AcceptFails
  BY <1>6 DEF AcceptFails
<1>7. ASSUME NEW c \in Tasks, Connect(c) PROVE BacklogInv'
  BY <1>7 DEF Connect, mainVars
<1>8. CASE HandleSignal \/ JoinThread \/ QuitLoop \/ LeaveLoop \/ DestroyRouter
             \/ DestroySignalHandler \/ Return
  BY <1>8 DEF HandleSignal, JoinThread, QuitLoop, LeaveLoop, DestroyRouter,
              DestroySignalHandler, Return
<1>9. ASSUME NEW i \in Loops, StartThread(i) \/ QuitThread(i) PROVE BacklogInv'
  BY <1>9 DEF StartThread, QuitThread, acceptVars
<1>10. CASE DestroyPool \/ Notify(0)
  BY <1>10 DEF DestroyPool, Notify, mainVars, acceptVars
<1>11. CASE UNCHANGED <<stage, backlog, edge, failed>>
  BY <1>11
<1>12. [SNext]_allVars => \/ ParseArguments \/ MainStep \/ \E c \in Tasks : Connect(c)
                          \/ UNCHANGED <<stage, backlog, edge, failed>>
  BY DEF SNext, Signal, IoStep, EnterLoop, LeaveThread, Notify, WorkerStep, PoolWork, Route,
         Answer, WakesUp, Request, allVars, mainVars, acceptVars
<1> QED
  BY <1>1, <1>2, <1>3, <1>4, <1>5, <1>6, <1>7, <1>8, <1>9, <1>10, <1>11, <1>12 DEF MainStep

\* Although epoll reports the listening socket once for each time it becomes readable,
\* whenever main's loop is back to its wait and accept() has not failed, a connection
\* that waits is one that epoll has still to report (Acceptor.cpp:51-66).
THEOREM ServerNoLostConnection == SSpec => []NoLostConnection
<1>1. SInit => BacklogInv
  BY DEF SInit, BacklogInv, NoLostConnection
<1>2. BacklogInv => NoLostConnection
  BY DEF BacklogInv
<1> QED
  BY <1>1, <1>2, BacklogStep, SInitInv, SStepInv, PTL DEF SSpec

-------------------------------------------------------------------------------
(* The command line. *)

\* Before the threads are started argv is one of CommandLines, and what main() has
\* is what the parser has made of it.
ArgumentsInv ==
    /\ stage \in {"parse", "parsed", "refused"} => argv \in Seq(STRING)
    /\ stage = "parsed"  => Parse(argv).ok /\ cfg = Parse(argv).cfg
    /\ stage = "refused" => ~Parse(argv).ok

LEMMA ArgumentsStep ==
    ASSUME ArgumentsInv, [SNext]_allVars
    PROVE  ArgumentsInv'
<1> USE DEF ArgumentsInv
<1>1. CASE ParseArguments
  <2>1. PICK result : result = Parse(argv)
    OBVIOUS
  <2>2. /\ stage = "parse" /\ argv' = argv /\ cfg' = result.cfg
        /\ stage' = IF result.ok THEN "parsed" ELSE "refused"
    BY <1>1, <2>1 DEF ParseArguments
  <2>3. Parse(argv') = result
    BY <2>1, <2>2
  <2> QED
    BY <2>1, <2>2, <2>3
<1>2. CASE MainStep
  <2>1. stage' \notin {"parse", "parsed", "refused"} \/ UNCHANGED <<stage, argv, cfg>>
    BY <1>2 DEF MainStep, Construct, Listen, AcceptEvent, Accept, AcceptDone, AcceptFails,
                HandleSignal, JoinThread, QuitLoop, LeaveLoop, DestroyRouter,
                DestroySignalHandler, DestroyPool, Return, Notify, StartThread, QuitThread,
                mainVars
  <2> QED
    BY <2>1
<1>3. CASE UNCHANGED <<stage, argv, cfg>>
  BY <1>3
<1>4. [SNext]_allVars => ParseArguments \/ MainStep \/ UNCHANGED <<stage, argv, cfg>>
  BY DEF SNext, Signal, IoStep, EnterLoop, LeaveThread, Notify, WorkerStep, PoolWork, Route,
         Answer, WakesUp, Connect, Request, allVars, mainVars
<1> QED
  BY <1>1, <1>2, <1>3, <1>4

\* Whatever the command line and the files are: the program goes on just when every
\* other word is an option, and if no value looks like --config its settings are what
\* line and files mean (Config.cpp:9-48).
THEOREM ServerConfigResolved == SSpec => []ConfigResolved
<1>1. SInit => ArgumentsInv
  BY CommandLinesAssumption DEF SInit, ArgumentsInv
<1>2. ArgumentsInv /\ [SNext]_allVars => ArgumentsInv'
  BY ArgumentsStep
<1>3. ArgumentsInv => ConfigResolved
  BY ParseMeans DEF ArgumentsInv, ConfigResolved
<1> QED
  BY <1>1, <1>2, <1>3, PTL DEF SSpec

-------------------------------------------------------------------------------
(* The shutdown. *)

Early == {"parse", "parsed", "refused"}
Late  == {"leaving", "left", "unrouted", "stopping", "returned"}

\* Who can be inside run() at which stage, and how far the pool's destructor is.
CallersInv ==
    /\ stage \in Early => \A i \in Loops : io[i] = "none"
    /\ \A i \in Loops : io[i] # "none" => i =< cfg.ioThreads
    /\ \A i \in Loops : i \in notifying => io[i] \in {"looping", "told"}
    /\ 0 \in notifying => stage \in {"loop", "leaving"}
    /\ stage \in Late => \A i \in Loops : io[i] \in {"none", "gone"}
    /\ owner # "up" => stage \in {"stopping", "returned"}

\* The main thread: before its loop, in it, and taking the program down.
LEMMA MainStepCallers ==
    ASSUME SInv, CallersInv, MainStep
    PROVE  CallersInv'
<1> USE DEF CallersInv, Early, Late
<1>0. /\ io \in [Loops -> {"none", "published", "looping", "told", "gone"}]
      /\ 0 \notin Loops /\ Loops \subseteq Nat
      /\ stage \notin Early => cfg.ioThreads \in Nat
  BY SubmittersAssumption DEF SInv, STypeOK, Loops
<1>1. CASE Construct \/ Listen \/ AcceptEvent \/ AcceptDone \/ AcceptFails
  BY <1>1 DEF Construct, Listen, AcceptEvent, AcceptDone, AcceptFails, vars
<1>2. CASE Accept
  <2>1. UNCHANGED <<vars, mainVars>>
    BY <1>2, Zenon DEF Accept
  <2> QED
    BY <2>1 DEF vars, mainVars
<1>3. CASE HandleSignal
  BY <1>3 DEF HandleSignal, vars
<1>4. CASE JoinThread
  BY <1>4 DEF JoinThread, vars
<1>5. CASE QuitLoop
  <2>1. \A i \in Loops : io[i] \in {"none", "gone"}
    BY <1>0, <1>5 DEF QuitLoop, Loops
  <2> QED
    BY <1>0, <1>5, <2>1 DEF QuitLoop, vars
<1>6. CASE LeaveLoop \/ DestroyRouter \/ DestroySignalHandler
  BY <1>6 DEF LeaveLoop, DestroyRouter, DestroySignalHandler, vars
<1>7. CASE DestroyPool
  BY <1>7 DEF DestroyPool, Stop, NotifyAll, mainVars
<1>8. CASE Return
  BY <1>8 DEF Return, Join
<1>9. CASE Notify(0)
  BY <1>9 DEF Notify, NotifyOne, mainVars
<1>10. ASSUME NEW i \in Loops, StartThread(i) PROVE CallersInv'
  BY <1>0, <1>10 DEF StartThread, vars
<1>11. ASSUME NEW i \in Loops, QuitThread(i) PROVE CallersInv'
  BY <1>0, <1>11 DEF QuitThread, vars
<1> QED
  BY <1>1, <1>2, <1>3, <1>4, <1>5, <1>6, <1>7, <1>8, <1>9, <1>10, <1>11 DEF MainStep

\* The other threads: a request is handed over only in a loop that turns.
LEMMA OtherStepCallers ==
    ASSUME SInv, CallersInv, [SNext]_allVars, ~MainStep
    PROVE  CallersInv'
<1> USE DEF CallersInv, Early, Late
<1>0. /\ io \in [Loops -> {"none", "published", "looping", "told", "gone"}]
      /\ 0 \notin Loops
      /\ Range(loopOf) \subseteq Loops \cup {0}
  BY SubmittersAssumption DEF SInv, STypeOK, Loops
<1>1. CASE ParseArguments
  BY <1>0, <1>1 DEF ParseArguments, vars
<1>2. CASE Signal
  BY <1>2 DEF Signal, vars, mainVars
<1>3. ASSUME NEW i \in Loops, IoStep(i) PROVE CallersInv'
  BY <1>0, <1>3 DEF IoStep, EnterLoop, LeaveThread, Notify, NotifyOne, vars, mainVars
<1>4. ASSUME NEW w \in Workers, WorkerStep(w) \/ WakesUp(w) PROVE CallersInv'
  BY <1>4 DEF WorkerStep, PoolWork, Test, Take, Wait, WakesUp, Spurious, Route, Answer, Finish,
              mainVars, vars
<1>5. ASSUME NEW c \in Tasks, Connect(c) PROVE CallersInv'
  BY <1>5 DEF Connect, vars, mainVars
<1>6. ASSUME NEW c \in Tasks, Request(c) PROVE CallersInv'
  <2>1. loopOf[c] \in Loops \cup {0}
    BY <1>0, <1>6 DEF Request, Range
  <2>2. Turning(loopOf[c]) /\ notifying' = notifying \cup {loopOf[c]}
    BY <1>6 DEF Request, Run, WillNotify
  <2>3. UNCHANGED <<owner, mainVars>>
    BY <1>6 DEF Request, Run
  <2> QED
    BY <1>0, <2>1, <2>2, <2>3 DEF Turning, mainVars
<1>7. CASE UNCHANGED allVars
  BY <1>7 DEF allVars, vars, mainVars
<1> QED
  BY <1>1, <1>2, <1>3, <1>4, <1>5, <1>6, <1>7 DEF SNext

LEMMA InitCallers == SInit => CallersInv
<1> SUFFICES ASSUME SInit PROVE CallersInv
  OBVIOUS
<1>1. stage = "parse" /\ notifying = {} /\ owner = "up" /\ \A i \in Loops : io[i] = "none"
  BY DEF SInit, Init
<1> QED
  BY <1>1 DEF CallersInv, Early, Late

\* ~ThreadPool does not keep another thread out of run(); the order of the shutdown
\* does (main.cpp:28-39, TcpServer.cpp:76-84): for every number of I/O threads, no
\* thread is inside run() or could come to it once the pool's destructor has begun.
THEOREM ServerPoolOutlivesCallers == SSpec => []PoolOutlivesCallers
<1>1. SInv /\ CallersInv => PoolOutlivesCallers
  <2> SUFFICES ASSUME SInv, CallersInv, owner # "up" PROVE PoolOutlivesCallers
    BY DEF PoolOutlivesCallers
  <2>1. 0 \notin Loops /\ Submitters = Loops \cup {0} /\ notifying \subseteq Submitters
        /\ Range(loopOf) \subseteq Loops \cup {0}
    BY SubmittersAssumption DEF SInv, STypeOK, TypeOK, Loops
  <2>2. stage \in {"stopping", "returned"} /\ \A i \in Loops : io[i] \in {"none", "gone"}
    BY DEF CallersInv, Late
  <2>3. notifying = {}
    BY <2>1, <2>2 DEF CallersInv
  <2>4. \A i \in Loops \cup {0} : ~Turning(i)
    BY <2>1, <2>2 DEF Turning
  <2>5. \A c \in DOMAIN loopOf : loopOf[c] \in Loops \cup {0}
    BY <2>1 DEF Range
  <2> QED
    BY <2>3, <2>4, <2>5 DEF PoolOutlivesCallers
<1>2. SInv /\ CallersInv /\ [SNext]_allVars => CallersInv'
  BY MainStepCallers, OtherStepCallers
<1> QED
  BY <1>1, <1>2, InitCallers, SInitInv, SStepInv, PTL DEF SSpec
===============================================================================
