-------------------------------- MODULE Server --------------------------------
(***************************************************************************)
(* main() from the command line to its return (reactor/src/main.cpp), with *)
(* the parts it puts together: ConfigParser, TcpServer and its Acceptor,   *)
(* the EventLoopThreads, ThreadPool (ThreadPool.tla, which this extends)   *)
(* and SignalHandler; and the order in which all this is taken down.       *)
(*                                                                         *)
(* The connections stay open and bring one request each; what else happens *)
(* to a connection is ConnectionLifetime.tla's, and a loop from inside is  *)
(* EventLoop.tla's.  Nothing is modelled of a run once it has used an      *)
(* object that is gone.                                                    *)
(***************************************************************************)
EXTENDS ThreadPool, Config

CONSTANTS MaxIo,        \* BOUND: the I/O threads at most
          MaxSignals,   \* BOUND: how often SIGINT or SIGTERM is delivered
          CommandLines  \* BOUND: what the program may be started with

ASSUME SubmittersAssumption ==
    MaxIo \in Nat /\ MaxSignals \in Nat /\ Submitters = 0 .. MaxIo
ASSUME CommandLinesAssumption == CommandLines \subseteq Seq(STRING)

VARIABLES
    stage,     \* main(): "parse", "parsed", "refused", "threads", "loop", "accepting",
               \* "clearing", "joining", "leaving", "left", "unrouted", "stopping",
               \* "returned"
    argv, cfg,
    io,        \* I/O thread i: "none", "published", "looping", "told" or "gone"
    toJoin,    \* the thread whose destructor runs in subLoops_.clear(), or 0
    \* The Acceptor and TcpServer.
    backlog,   \* connections that wait for accept()
    edge,      \* the listening socket is on epoll's ready list
    failed,    \* the last loop over accept() has ended with an error
    next_,
    loopOf,    \* the loop of each accepted connection, 0 for main's
    \* SignalHandler.
    signals,   \* how many have been delivered
    signalled, \* its eventfd is readable
    \* The workers.
    routed,    \* those that are done with router and staticHandler
    strays     \* what has been used after its end: "router", "loop" or "instance_"

mainVars   == <<stage, argv, cfg, io, toJoin>>
acceptVars == <<backlog, edge, failed, next_, loopOf>>
signalVars == <<signals, signalled>>
workVars   == <<routed, strays>>
allVars    == <<vars, mainVars, acceptVars, signalVars, workVars>>

Loops == 1 .. MaxIo

SInit ==
    /\ Init
    /\ stage = "parse" /\ argv \in CommandLines /\ cfg = Default
    /\ io = [i \in Loops |-> "none"] /\ toJoin = 0
    /\ backlog = <<>> /\ edge = FALSE /\ failed = FALSE /\ next_ = 0 /\ loopOf = <<>>
    /\ signals = 0 /\ signalled = FALSE /\ routed = {} /\ strays = {}

\* The pool and the SignalHandler have been constructed.
PoolUp == stage \notin {"parse", "parsed", "refused", "threads"}

\* The thread of loop i is in loop(), which quit() ends only after the batch, and
\* not inside run(): it can call back.
Turning(i) ==
    /\ i \notin notifying
    /\ IF i = 0 THEN stage \in {"loop", "leaving"} ELSE io[i] \in {"looping", "told"}

-------------------------------------------------------------------------------
(* main() before its loop. *)

ParseArguments ==
    /\ stage = "parse"
    /\ LET result == Parse(argv) IN
         /\ stage' = IF result.ok THEN "parsed" ELSE "refused"
         /\ cfg' = result.cfg
    /\ UNCHANGED <<vars, argv, io, toJoin, acceptVars, signalVars, workVars>>

\* BOUND: the numbers of threads that this instance has.
Construct ==
    /\ stage = "parsed"
    /\ cfg.ioThreads \in 0 .. MaxIo /\ cfg.workerThreads = Cardinality(Workers)
    /\ stage' = "threads" /\ argv' = <<>>
    /\ UNCHANGED <<vars, cfg, io, toJoin, acceptVars, signalVars, workVars>>

\* One EventLoopThread after the other; each constructor waits for its loop.
StartThread(i) ==
    /\ stage = "threads" /\ i =< cfg.ioThreads
    /\ io[i] = "none" /\ \A j \in 1 .. i - 1 : io[j] # "none"
    /\ io' = [io EXCEPT ![i] = "published"]
    /\ UNCHANGED <<vars, stage, argv, cfg, toJoin, acceptVars, signalVars, workVars>>

\* server.start() and loop.loop().
Listen ==
    /\ stage = "threads" /\ \A i \in 1 .. cfg.ioThreads : io[i] # "none"
    /\ stage' = "loop"
    /\ UNCHANGED <<vars, argv, cfg, io, toJoin, acceptVars, signalVars, workVars>>

-------------------------------------------------------------------------------
(* Accepting connections. *)

\* The kernel completes a connection to the listening socket.
Connect(c) ==
    /\ stage \in {"loop", "accepting"}
    /\ c \notin DOMAIN loopOf \cup Range(backlog)
    /\ backlog' = Append(backlog, c) /\ edge' = TRUE
    /\ UNCHANGED <<vars, mainVars, failed, next_, loopOf, signalVars, workVars>>

\* The edge is reported, and the listening channel called.
AcceptEvent ==
    /\ stage = "loop" /\ edge /\ 0 \notin notifying
    /\ stage' = "accepting" /\ edge' = FALSE /\ failed' = FALSE
    /\ UNCHANGED <<vars, argv, cfg, io, toJoin, backlog, next_, loopOf, signalVars,
                   workVars>>

\* accept() returns a connection, and the callback picks its loop in turn.
Accept ==
    /\ stage = "accepting" /\ backlog # <<>>
    /\ backlog' = Tail(backlog)
    /\ LET chosen == IF cfg.ioThreads = 0 THEN 0 ELSE 1 + (next_ % cfg.ioThreads)
       IN  loopOf' = [c \in DOMAIN loopOf \cup {Head(backlog)} |->
                        IF c = Head(backlog) THEN chosen ELSE loopOf[c]]
    /\ next_' = IF cfg.ioThreads = 0 THEN next_ ELSE next_ + 1
    /\ UNCHANGED <<vars, mainVars, edge, failed, signalVars, workVars>>

\* Mistake: the loop over accept() may end with connections left.
AcceptStops ==
    /\ stage = "accepting"
    /\ stage' = "loop"
    /\ UNCHANGED <<vars, argv, cfg, io, toJoin, acceptVars, signalVars, workVars>>

\* EAGAIN.
AcceptDone ==
    /\ stage = "accepting" /\ backlog = <<>>
    /\ stage' = "loop"
    /\ UNCHANGED <<vars, argv, cfg, io, toJoin, acceptVars, signalVars, workVars>>

\* Any other error is logged: no descriptor left, a connection aborted.
AcceptFails ==
    /\ stage = "accepting" /\ backlog # <<>>
    /\ stage' = "loop" /\ failed' = TRUE
    /\ UNCHANGED <<vars, argv, cfg, io, toJoin, backlog, edge, next_, loopOf, signalVars,
                   workVars>>

-------------------------------------------------------------------------------
(* Serving requests. *)

\* The thread enters loop(): looping_ = true, whatever quit() has said.
EnterLoop(i) ==
    /\ io[i] = "published"
    /\ io' = [io EXCEPT ![i] = "looping"]
    /\ UNCHANGED <<vars, stage, argv, cfg, toJoin, acceptVars, signalVars, workVars>>

\* The message callback of c hands its request to the pool.
Request(c) ==
    /\ c \in DOMAIN loopOf /\ Turning(loopOf[c]) /\ Run(loopOf[c], c)
    /\ UNCHANGED <<mainVars, acceptVars, signalVars, workVars>>

\* run() goes on to its notify_one().
Notify(i) ==
    /\ NotifyOne(i)
    /\ UNCHANGED <<mainVars, acceptVars, signalVars, workVars>>

\* router.route() and staticHandler.handle().
Route(w) ==
    /\ wpc[w] = "busy" /\ w \notin routed
    /\ routed' = routed \cup {w}
    /\ strays' = IF stage \in {"unrouted", "stopping"} THEN strays \cup {"router"} ELSE strays
    /\ UNCHANGED <<vars, mainVars, acceptVars, signalVars>>

\* queueInLoop() of the response, in the loop of the connection; then the task is
\* destroyed with what may be the last shared_ptr.
Answer(w) ==
    /\ w \in routed /\ Finish(w)
    /\ routed' = routed \ {w}
    /\ LET i == loopOf[held[w]]
       IN  strays' = IF i > 0 /\ io[i] = "gone" THEN strays \cup {"loop"} ELSE strays
    /\ UNCHANGED <<mainVars, acceptVars, signalVars>>

PoolWork(w) ==
    /\ PoolUp /\ (Test(w) \/ Take(w) \/ Wait(w))
    /\ UNCHANGED <<mainVars, acceptVars, signalVars, workVars>>

WorkerStep(w) == PoolWork(w) \/ Route(w) \/ Answer(w)

WakesUp(w) == Spurious(w) /\ UNCHANGED <<mainVars, acceptVars, signalVars, workVars>>

-------------------------------------------------------------------------------
(* Shutting down. *)

\* SIGINT or SIGTERM; onSignal() writes to the eventfd of instance_.
Signal ==
    /\ PoolUp /\ stage # "returned" /\ signals < MaxSignals
    /\ signals' = signals + 1
    /\ IF stage = "stopping" THEN strays' = strays \cup {"instance_"} /\ UNCHANGED signalled
       ELSE signalled' = TRUE /\ UNCHANGED strays
    /\ UNCHANGED <<vars, mainVars, acceptVars, routed>>

\* handleRead(), and shutdown() as far as subLoops_.clear(): no connection is
\* accepted any more, and connections_ is emptied.
HandleSignal ==
    /\ stage = "loop" /\ signalled /\ 0 \notin notifying
    /\ stage' = "clearing" /\ signalled' = FALSE
    /\ backlog' = <<>> /\ edge' = FALSE
    /\ UNCHANGED <<vars, argv, cfg, io, toJoin, failed, next_, loopOf, signals, workVars>>

\* ~EventLoopThread of the next one: quit(), which a thread that has not entered
\* loop() does not heed.
QuitThread(i) ==
    /\ stage = "clearing" /\ i =< cfg.ioThreads
    /\ io[i] # "gone" /\ \A j \in 1 .. i - 1 : io[j] = "gone"
    /\ stage' = "joining" /\ toJoin' = i
    /\ io' = [io EXCEPT ![i] = IF @ = "looping" THEN "told" ELSE @]
    /\ UNCHANGED <<vars, argv, cfg, acceptVars, signalVars, workVars>>

\* The thread leaves loop() and destroys its EventLoop, the timers of its
\* connections included.
LeaveThread(i) ==
    /\ io[i] = "told" /\ i \notin notifying
    /\ io' = [io EXCEPT ![i] = "gone"]
    /\ UNCHANGED <<vars, stage, argv, cfg, toJoin, acceptVars, signalVars, workVars>>

JoinThread ==
    /\ stage = "joining" /\ io[toJoin] = "gone"
    /\ stage' = "clearing" /\ toJoin' = 0
    /\ UNCHANGED <<vars, argv, cfg, io, acceptVars, signalVars, workVars>>

\* Mistake: shutdown() does not join the threads of the I/O loops.
QuitLoopEarly ==
    /\ stage \in {"clearing", "joining"}
    /\ stage' = "leaving"
    /\ UNCHANGED <<vars, argv, cfg, io, toJoin, acceptVars, signalVars, workVars>>

\* shutdown() is over; loop.quit().
QuitLoop ==
    /\ stage = "clearing" /\ \A i \in 1 .. cfg.ioThreads : io[i] = "gone"
    /\ stage' = "leaving"
    /\ UNCHANGED <<vars, argv, cfg, io, toJoin, acceptVars, signalVars, workVars>>

\* The rest of the batch and the functors, and loop() returns.
LeaveLoop ==
    /\ stage = "leaving" /\ 0 \notin notifying
    /\ stage' = "left"
    /\ UNCHANGED <<vars, argv, cfg, io, toJoin, acceptVars, signalVars, workVars>>

\* The locals of main() are destroyed, the last one first.
DestroyRouter ==
    /\ stage = "left" /\ stage' = "unrouted"
    /\ UNCHANGED <<vars, argv, cfg, io, toJoin, acceptVars, signalVars, workVars>>

DestroySignalHandler ==
    /\ stage = "unrouted" /\ stage' = "stopping"
    /\ UNCHANGED <<vars, argv, cfg, io, toJoin, acceptVars, signalVars, workVars>>

\* ~ThreadPool.
DestroyPool ==
    /\ stage = "stopping" /\ (Stop \/ NotifyAll)
    /\ UNCHANGED <<mainVars, acceptVars, signalVars, workVars>>

\* The pool has stopped: its queue goes, with the connections the tasks hold, and
\* then the server and main's loop.
Return ==
    /\ stage = "stopping" /\ Join
    /\ stage' = "returned"
    /\ strays' = IF \E c \in Range(tasks) : loopOf[c] > 0 THEN strays \cup {"loop"} ELSE strays
    /\ UNCHANGED <<argv, cfg, io, toJoin, acceptVars, signalVars, routed>>

-------------------------------------------------------------------------------
MainStep ==
    \/ Construct \/ Listen \/ AcceptEvent \/ Accept \/ AcceptDone
    \/ AcceptFails \/ HandleSignal \/ JoinThread \/ QuitLoop \/ LeaveLoop
    \/ DestroyRouter \/ DestroySignalHandler \/ DestroyPool \/ Return
    \/ Notify(0) \/ \E i \in Loops : StartThread(i) \/ QuitThread(i)

IoStep(i) == EnterLoop(i) \/ LeaveThread(i) \/ Notify(i)

SNext ==
    /\ strays = {}
    /\ \/ ParseArguments \/ MainStep \/ Signal
       \/ \E i \in Loops : IoStep(i)
       \/ \E w \in Workers : WorkerStep(w) \/ WakesUp(w)
       \/ \E c \in Tasks : Connect(c) \/ Request(c)

\* Every thread goes on once the program has been started with arguments it takes;
\* clients, signals and errors need not come.
SSpec ==
    /\ SInit /\ [][SNext]_allVars
    /\ WF_allVars(strays = {} /\ MainStep)
    /\ \A i \in Loops : WF_allVars(strays = {} /\ IoStep(i))
    /\ \A w \in Workers : WF_allVars(strays = {} /\ WorkerStep(w))

-------------------------------------------------------------------------------
(* Properties. *)

\* The type invariant.
STypeOK ==
    /\ TypeOK
    /\ stage \in {"parse", "parsed", "refused", "threads", "loop", "accepting", "clearing",
                 "joining", "leaving", "left", "unrouted", "stopping", "returned"}
    /\ io \in [Loops -> {"none", "published", "looping", "told", "gone"}]
    /\ toJoin \in 0 .. MaxIo /\ backlog \in Seq(Tasks)
    /\ edge \in BOOLEAN /\ failed \in BOOLEAN /\ signalled \in BOOLEAN
    /\ next_ \in Nat /\ signals \in 0 .. MaxSignals
    /\ DOMAIN loopOf \subseteq Tasks /\ Range(loopOf) \subseteq 0 .. MaxIo
    /\ routed \subseteq At("busy")
    /\ strays \subseteq {"router", "loop", "instance_"}

\* The program refuses a command line just when a word that should be an option is
\* none; otherwise its settings are those the line and the files mean, with the line
\* before the files wherever it names them.  Options and keys are those of the help and
\* of reactor/README.md, but for the ones that TrueOption and TrueKey name: the code
\* refuses --worker and -m and ignores log_level, listen_backlog and max_connections.
ConfigResolved ==
    /\ stage = "refused" => ~Accepted(argv)
    /\ stage = "parsed"  => Accepted(argv) /\ (Plain(argv) => cfg = Meaning(argv))

\* When the destructor of the pool begins no thread is inside run(), nor will one
\* call it: shutdown() has joined the I/O threads, and main's loop has been left.
PoolOutlivesCallers ==
    owner # "up" => notifying = {} /\ \A c \in DOMAIN loopOf : ~Turning(loopOf[c])

\* The listening socket is edge-triggered, and yet no connection waits of which
\* nobody will be told, but for those that an error of accept() has left behind.
NoLostConnection == stage = "loop" /\ backlog # <<>> => edge \/ failed

Serving == stage \in {"loop", "accepting"}

\* A request that has been handed to the pool is answered while the server serves.
RequestServed ==
    \A c \in Tasks : (c \in Range(tasks)) ~> (c \in done \/ ~Serving \/ strays # {})

\* A shutdown that begins when every I/O thread has entered its loop ends: the
\* loops are left and joined, no worker sleeps through its wakeup, main() returns.
ShutdownCompletes ==
    (stage = "clearing" /\ \A i \in 1 .. cfg.ioThreads : io[i] # "published")
      ~> (stage = "returned" \/ strays # {})

\* Nothing is used after its destruction: what the order of the shutdown is for.
ShutdownClean == strays = {}
===============================================================================
