-------------------------- MODULE ConnectionLifetime --------------------------
(***************************************************************************)
(* A TCP connection from accept() to close(): TcpServer::start's callback, *)
(* TcpConnection, Channel, the callbacks main() installs, one I/O loop and *)
(* the worker threads.                                                     *)
(*                                                                         *)
(* A connection lives as long as someone holds a shared_ptr to it, and the *)
(* holders are state of the model: connections_, a timer's callback, a     *)
(* functor, a task.  Each callback of the I/O thread is one step: the      *)
(* acceptor and the workers meet it only at the queues.  The queue and the *)
(* wakeup are EventLoop.tla's; here the loop turns when there is something *)
(* to do.  A request is a token; what parsing says of it is left open.     *)
(***************************************************************************)
EXTENDS Integers, Sequences, FiniteSets, Functions

CONSTANTS Conns,      \* the connections, numbered as accept() returns them
          Workers,    \* the threads of the ThreadPool
          MaxConns,   \* maxConnections_
          MaxReqs,    \* BOUND: MaxReqs[c], the requests the peer of c sends at most;
                      \* a peer that sends none does nothing at all
          None

ASSUME LimitAssumption == MaxConns \in Nat \ {0} /\ MaxReqs \in [Conns -> Nat]
ASSUME ConnsAssumption == Conns \subseteq Nat /\ None \notin Conns

Talkers == {c \in Conns : MaxReqs[c] > 0}

VARIABLES
    \* The peer and the kernel.
    sent,         \* requests the peer has sent
    inbox,        \* requests in the receive queue of the socket
    eof,          \* the peer has closed its half
    rst,          \* the peer has reset the connection
    room,         \* the send queue of the socket has room
    edge,         \* epoll's ready list
    \* TcpServer and TcpConnection.
    accepted, refused,
    connections,  \* connections_
    count,        \* connectionCount_
    closed,       \* closed_
    added,        \* Channel::added_
    interest,     \* Channel::events_
    input,        \* requests left in inputBuffer_
    outbuf,       \* the connections whose outputBuffer_ is not empty
    \* The loop's TimerQueue: armed connections, and those whose time has come.
    armed, late,
    \* The I/O loop.
    lpc,          \* "wait", "events", "functors", or "undefined" after a use of
                  \* a destroyed Channel
    revents,      \* what epoll_wait reported, less what has been dispatched
    timerDue,     \* the timerfd has been reported and not been dispatched
    cur,          \* the connection whose Channel::handleEvent is on the stack
    pending, temp, called,   \* pendingFunctors_, temp, how many of temp have run
    \* The ThreadPool: tasks_, and what each worker is at.
    tasks, worker

peerVars   == <<sent, inbox, eof, rst, room>>
serverVars == <<accepted, refused, connections, count>>
connVars   == <<closed, added, interest, input, outbuf>>
timerVars  == <<armed, late>>
loopVars   == <<lpc, revents, timerDue, cur, temp, called>>
poolVars   == <<tasks, worker>>
vars == <<peerVars, edge, serverVars, connVars, timerVars, loopVars, pending,
          poolVars>>

\* A functor and the connections it has captured; the guards one step queues
\* are one entry.
Functor == [kind : {"establish", "send", "guard"}, conns : SUBSET Conns]
F(k, S) == [kind |-> k, conns |-> S]

Idle == [phase |-> "idle", conn |-> None]

Init ==
    /\ sent = [c \in Conns |-> 0] /\ inbox = [c \in Conns |-> 0]
    /\ eof = {} /\ rst = {} /\ room = Conns /\ edge = {}
    /\ accepted = {} /\ refused = {} /\ connections = {} /\ count = 0
    /\ closed = {} /\ added = {} /\ interest = [c \in Conns |-> {}]
    /\ input = [c \in Conns |-> 0] /\ outbuf = {}
    /\ armed = {} /\ late = {}
    /\ lpc = "wait" /\ revents = [c \in Conns |-> {}] /\ timerDue = FALSE /\ cur = None
    /\ pending = <<>> /\ temp = <<>> /\ called = 0
    /\ tasks = <<>> /\ worker = [w \in Workers |-> Idle]

-------------------------------------------------------------------------------
(* Lifetime. *)

\* The shared_ptrs to c: temp keeps its functors until the loop's turn is over,
\* a worker keeps its task until it has taken the next turn.
Held(c) ==
    \/ c \in connections \/ c \in armed
    \/ \E f \in Range(pending) \cup Range(temp) : c \in f.conns
    \/ c \in Range(tasks) \/ \E w \in Workers : worker[w].conn = c

\* The TcpConnection exists, and with it its Channel and its descriptor.
Alive(c) == c \in accepted /\ Held(c)

Registered(c) == Alive(c) /\ c \in added

-------------------------------------------------------------------------------
(* The kernel. *)

\* The events that hold of the socket now.  ERR stands for EPOLLERR|EPOLLHUP.
Level(c) ==
    (IF inbox[c] > 0 \/ c \in eof \cup rst THEN {"IN"} ELSE {})
      \cup (IF c \in room \cup rst THEN {"OUT"} ELSE {})
      \cup (IF c \in rst THEN {"ERR"} ELSE {})

\* ERR needs no subscription.
Reportable(c) == Level(c) \cap (interest[c] \cup {"ERR"})

\* Mistake: a channel that is registered already is not modified.
RegisterOnce(c, mask, level) ==
    /\ added' = added \cup {c}
    /\ interest' = IF c \in added THEN interest ELSE [interest EXCEPT ![c] = mask]
    /\ edge' = IF level \cap (mask \cup {"ERR"}) # {} THEN edge \cup {c} ELSE edge

\* EPOLL_CTL_ADD or _MOD with a mask that holds already is an edge.
Register(c, mask, level) ==
    /\ added' = added \cup {c}
    /\ interest' = [interest EXCEPT ![c] = mask]
    /\ edge' = IF level \cap (mask \cup {"ERR"}) # {} THEN edge \cup {c} ELSE edge

Unregister(S) ==
    /\ added' = added \ S
    /\ interest' = [c \in Conns |-> IF c \in S THEN {} ELSE interest[c]]
    /\ edge' = edge \ S

Edge(c) == edge' = IF Registered(c) THEN edge \cup {c} ELSE edge

PeerSends(c) ==
    /\ Alive(c) /\ c \notin eof \cup rst /\ sent[c] < MaxReqs[c]
    /\ sent' = [sent EXCEPT ![c] = @ + 1]
    /\ inbox' = [inbox EXCEPT ![c] = @ + 1]
    /\ Edge(c)
    /\ UNCHANGED <<eof, rst, room>>

PeerCloses(c) ==
    /\ Alive(c) /\ c \in Talkers \ (eof \cup rst)
    /\ eof' = eof \cup {c} /\ Edge(c)
    /\ UNCHANGED <<sent, inbox, rst, room>>

\* A reset discards what has not been read.
PeerResets(c) ==
    /\ Alive(c) /\ c \in Talkers \ rst
    /\ rst' = rst \cup {c} /\ inbox' = [inbox EXCEPT ![c] = 0] /\ Edge(c)
    /\ UNCHANGED <<sent, eof, room>>

PeerReads(c) ==
    /\ Alive(c) /\ c \notin room \cup rst
    /\ room' = room \cup {c} /\ Edge(c)
    /\ UNCHANGED <<sent, inbox, eof, rst>>

Peer(c) ==
    /\ PeerSends(c) \/ PeerCloses(c) \/ PeerResets(c) \/ PeerReads(c)
    /\ UNCHANGED <<serverVars, connVars, timerVars, loopVars, pending, poolVars>>

-------------------------------------------------------------------------------
(* The acceptor's thread. *)

\* accept() returns c.
Arrives(c) ==
    /\ c \notin accepted \cup refused
    /\ \A d \in Conns \ (accepted \cup refused) : c =< d

Refuse(c) ==
    /\ Arrives(c) /\ count >= MaxConns
    /\ refused' = refused \cup {c}
    /\ UNCHANGED <<peerVars, edge, accepted, connections, count, connVars, timerVars,
                   loopVars, pending, poolVars>>

Accept(c) ==
    /\ Arrives(c) /\ count < MaxConns
    /\ count' = count + 1
    /\ accepted' = accepted \cup {c} /\ connections' = connections \cup {c}
    /\ pending' = Append(pending, F("establish", {c}))
    /\ UNCHANGED <<peerVars, edge, refused, connVars, timerVars, loopVars, poolVars>>

-------------------------------------------------------------------------------
(* What the callbacks of the I/O thread are made of. *)

\* Mistake: closed_ is not tested, and a connection is closed more than once.
HandleCloseAgain(S, queued) ==
    /\ closed' = closed \cup S
    /\ connections' = connections \ S
    /\ count' = count - Cardinality(S)
    /\ pending' = pending \o queued \o (IF S = {} THEN <<>> ELSE <<F("guard", S)>>)
    /\ Unregister(S)

\* Mistake: destroy() queues no guard.
HandleCloseUnguarded(S, queued) ==
    LET first == S \ closed IN
    /\ closed' = closed \cup first
    /\ connections' = connections \ first
    /\ count' = count - Cardinality(first)
    /\ pending' = pending \o queued
    /\ Unregister(first)

\* handleClose() for each of S: closed_.exchange(true), then onDestroy_ (the
\* server forgets the connection), disableAll(), and a guard is queued behind
\* the functors queued before.  On a closed connection it does nothing.
HandleClose(S, queued) ==
    LET first == S \ closed IN
    /\ closed' = closed \cup first
    /\ connections' = connections \ first
    /\ count' = count - Cardinality(first)
    /\ pending' = pending \o queued
                  \o (IF first = {} THEN <<>> ELSE <<F("guard", first)>>)
    /\ Unregister(first)

\* Mistake: a timer whose time has come is reset or cancelled too late.
SetTimersLate(arm, disarm) ==
    /\ armed' = (armed \cup arm) \ disarm
    /\ UNCHANGED late

\* resetTimer() for arm; the closeCallback_ of those in disarm cancels theirs.
SetTimers(arm, disarm) ==
    /\ armed' = (armed \cup arm) \ disarm
    /\ late' = late \ (arm \cup disarm)

\* The callback of c for event e is over; the handler of c may have more to do.
Dispatched(c, e) ==
    LET rest == revents[c] \ {e} IN
    /\ revents' = [revents EXCEPT ![c] = rest]
    /\ cur' = IF rest = {} THEN None ELSE c

\* Channel::handleEvent takes the events in this order, one channel at a time.
Handling(c, e) ==
    /\ lpc = "events" /\ cur \in {None, c} /\ Alive(c)
    /\ e \in revents[c]
    /\ e = "OUT" => "IN" \notin revents[c]
    /\ e = "ERR" => revents[c] = {"ERR"}

NoClose == UNCHANGED <<closed, connections, count, pending, timerVars>>

-------------------------------------------------------------------------------
(* The I/O thread: the ready channels. *)

\* epoll_wait returns because of ready channels, a timer or a wakeup.
Poll ==
    LET scanned == {c \in edge : Registered(c)} IN
    /\ lpc = "wait"
    /\ (\E c \in scanned : Reportable(c) # {}) \/ late # {} \/ pending # <<>>
    /\ revents' = [c \in Conns |-> IF c \in scanned THEN Reportable(c) ELSE {}]
    /\ edge' = {}
    /\ timerDue' = (late # {})
    /\ lpc' = "events"
    /\ UNCHANGED <<peerVars, serverVars, connVars, timerVars, cur, pending, temp, called,
                   poolVars>>

\* Mistake: an end of file is not told from an empty socket.
EndedByReset(c) == IF c \in rst THEN {c} ELSE {}

\* readFd has met the end of file or an error.
Ended(c) == IF c \in eof \cup rst THEN {c} ELSE {}

\* TcpConnection::handleRead with main's message callback.  The socket is read
\* until it is empty; one request is parsed; end of file or an error closes.
HandleRead(c) ==
    /\ Handling(c, "IN")
    /\ inbox' = [inbox EXCEPT ![c] = 0]
    /\ LET got == input[c] + inbox[c] IN
       \E outcome \in IF got = 0 THEN {"nothing"}
                      ELSE {"incomplete", "bad", "unsupported", "complete"} :
         LET S == IF outcome = "bad" THEN {c} ELSE Ended(c) IN
         /\ input' = [input EXCEPT ![c] = IF outcome \in {"unsupported", "complete"}
                                          THEN got - 1 ELSE got]
         /\ tasks' = IF outcome = "complete" THEN Append(tasks, c) ELSE tasks
         /\ HandleClose(S, IF outcome \in {"bad", "unsupported"}
                           THEN <<F("send", {c})>> ELSE <<>>)
         /\ SetTimers(IF outcome = "complete" THEN {c} ELSE {}, S \ closed)
    /\ Dispatched(c, "IN")
    /\ UNCHANGED <<sent, eof, rst, room, accepted, refused, outbuf, lpc, timerDue, temp,
                   called, worker>>

\* TcpConnection::handleWrite: the peer is gone, or the output fills the send
\* queue again, or it fits and ends the interest in OUT.
HandleWrite(c) ==
    /\ Handling(c, "OUT")
    /\ \/ /\ c \in outbuf \cap rst
          /\ HandleClose({c}, <<>>) /\ SetTimers({}, {c} \ closed)
          /\ UNCHANGED <<outbuf, room>>
       \/ /\ c \in outbuf \ rst
          /\ room' = room \ {c}
          /\ UNCHANGED <<outbuf, added, interest, edge>> /\ NoClose
       \/ /\ c \in outbuf => c \in room \ rst
          /\ outbuf' = outbuf \ {c}
          /\ IF c \in added THEN Register(c, interest[c] \ {"OUT"}, Level(c))
                            ELSE UNCHANGED <<added, interest, edge>>
          /\ UNCHANGED room /\ NoClose
    /\ Dispatched(c, "OUT")
    /\ UNCHANGED <<sent, inbox, eof, rst, accepted, refused, input, lpc, timerDue, temp,
                   called, poolVars>>

\* errorCallback_ is handleClose.
HandleError(c) ==
    /\ Handling(c, "ERR")
    /\ HandleClose({c}, <<>>) /\ SetTimers({}, {c} \ closed)
    /\ Dispatched(c, "ERR")
    /\ UNCHANGED <<peerVars, accepted, refused, input, outbuf, lpc, timerDue, temp, called,
                   poolVars>>

\* The Channel* in events_ is dangling: nothing is assumed of the loop then.
HandleDangling(c) ==
    /\ lpc = "events" /\ cur \in {None, c} /\ revents[c] # {} /\ ~Alive(c)
    /\ lpc' = "undefined"
    /\ UNCHANGED <<peerVars, edge, serverVars, connVars, timerVars, revents, timerDue, cur,
                   pending, temp, called, poolVars>>

\* TimerQueue::handleRead: the timers whose time has come are taken out of
\* timers_, run forceClose() and are destroyed with the vector that holds them.
HandleTimers ==
    /\ lpc = "events" /\ cur = None /\ timerDue
    /\ timerDue' = FALSE
    /\ HandleClose(late, <<>>) /\ SetTimers({}, late)
    /\ UNCHANGED <<peerVars, accepted, refused, input, outbuf, lpc, revents, cur, temp, called,
                   poolVars>>

TimePasses(c) ==
    /\ c \in armed \ late
    /\ late' = late \cup {c}
    /\ UNCHANGED <<peerVars, edge, serverVars, connVars, armed, loopVars, pending, poolVars>>

-------------------------------------------------------------------------------
(* The I/O thread: the pending functors. *)

Swap ==
    /\ lpc = "events" /\ ~timerDue /\ \A c \in Conns : revents[c] = {}
    /\ temp' = pending /\ pending' = <<>> /\ called' = 0
    /\ lpc' = "functors"
    /\ UNCHANGED <<peerVars, edge, serverVars, connVars, timerVars, revents, timerDue, cur,
                   poolVars>>

\* The functor of kind k for c is the next of temp.
Calling(k, c) ==
    /\ lpc = "functors" /\ called < Len(temp) /\ temp[called + 1] = F(k, {c})
    /\ called' = called + 1
    /\ UNCHANGED <<sent, inbox, eof, rst, accepted, refused, input, lpc, revents, timerDue,
                   cur, temp, poolVars>>

\* Mistake: the idle timer is started by the first request only.
EstablishUntimed(c) ==
    /\ Calling("establish", c)
    /\ Register(c, interest[c] \cup {"IN"}, Level(c))
    /\ UNCHANGED <<room, connections, count, closed, outbuf, pending, timerVars>>

\* connectEstablished() with main's connection callback, which starts the timer.
Establish(c) ==
    /\ Calling("establish", c)
    /\ Register(c, interest[c] \cup {"IN"}, Level(c))
    /\ SetTimers({c}, {})
    /\ UNCHANGED <<room, connections, count, closed, outbuf, pending>>

\* send(): with output waiting it only appends; otherwise the socket takes all
\* of it, or part or nothing (and enableWriting follows), or reports an error.
Send(c) ==
    /\ Calling("send", c)
    /\ \/ /\ c \in outbuf
          /\ UNCHANGED <<room, outbuf, added, interest, edge>> /\ NoClose
       \/ /\ c \notin outbuf \cup rst /\ c \in room
          /\ UNCHANGED <<room, outbuf, added, interest, edge>> /\ NoClose
       \/ /\ c \notin outbuf \cup rst
          /\ room' = room \ {c} /\ outbuf' = outbuf \cup {c}
          /\ Register(c, interest[c] \cup {"OUT"}, Level(c) \ {"OUT"}) /\ NoClose
       \/ /\ c \in rst \ outbuf
          /\ HandleClose({c}, <<>>) /\ SetTimers({}, {c} \ closed)
          /\ UNCHANGED <<room, outbuf>>

Guard ==
    /\ lpc = "functors" /\ called < Len(temp) /\ temp[called + 1].kind = "guard"
    /\ called' = called + 1
    /\ UNCHANGED <<peerVars, edge, serverVars, connVars, timerVars, lpc, revents, timerDue, cur,
                   pending, temp, poolVars>>

\* The turn of the loop ends and temp is destroyed with its functors.
FunctorsDone ==
    /\ lpc = "functors" /\ called = Len(temp)
    /\ temp' = <<>> /\ called' = 0 /\ lpc' = "wait"
    /\ UNCHANGED <<peerVars, edge, serverVars, connVars, timerVars, revents, timerDue, cur,
                   pending, poolVars>>

-------------------------------------------------------------------------------
(* The workers: main's task, from the queue to the destruction of the task. *)

WorkerStep(w, from, next, c) ==
    /\ worker[w].phase = from
    /\ worker' = [worker EXCEPT ![w] = [phase |-> next, conn |-> c]]
    /\ UNCHANGED <<peerVars, edge, serverVars, connVars, timerVars, loopVars>>

TakeTask(w) ==
    /\ tasks # <<>>
    /\ WorkerStep(w, "idle", "run", Head(tasks))
    /\ tasks' = Tail(tasks)
    /\ UNCHANGED pending

\* Mistake: the response to a connection that has closed is not queued.
RespondIfOpen(w) ==
    /\ WorkerStep(w, "run", "done", worker[w].conn)
    /\ pending' = IF worker[w].conn \in closed THEN pending
                  ELSE Append(pending, F("send", {worker[w].conn}))
    /\ UNCHANGED tasks

Respond(w) ==
    /\ WorkerStep(w, "run", "done", worker[w].conn)
    /\ pending' = Append(pending, F("send", {worker[w].conn}))
    /\ UNCHANGED tasks

DropTask(w) ==
    /\ WorkerStep(w, "done", "idle", None)
    /\ UNCHANGED <<tasks, pending>>

-------------------------------------------------------------------------------
Handler(c) == HandleRead(c) \/ HandleWrite(c) \/ HandleError(c) \/ HandleDangling(c)

LoopStep ==
    \/ Poll \/ HandleTimers \/ Swap \/ Guard \/ FunctorsDone
    \/ \E c \in Conns : Handler(c) \/ Establish(c) \/ Send(c)

Work(w) == TakeTask(w) \/ Respond(w) \/ DropTask(w)

Next ==
    \/ LoopStep
    \/ \E w \in Workers : Work(w)
    \/ \E c \in Conns : Accept(c) \/ Refuse(c) \/ Peer(c) \/ TimePasses(c)

\* The threads keep running and the clock advances.  The peers need do nothing.
Fairness ==
    /\ WF_vars(LoopStep)
    /\ \A w \in Workers : WF_vars(Work(w))
    /\ \A c \in Conns : WF_vars(TimePasses(c))

Spec == Init /\ [][Next]_vars /\ Fairness

-------------------------------------------------------------------------------
(* Properties. *)

\* The type invariant.
TypeOK ==
    /\ sent \in [Conns -> Nat] /\ inbox \in [Conns -> Nat]
    /\ \A c \in Conns : inbox[c] + input[c] =< sent[c]
    /\ eof \subseteq Conns /\ rst \subseteq Conns /\ room \subseteq Conns
    /\ edge \subseteq Conns
    /\ accepted \subseteq Conns /\ refused \subseteq Conns /\ connections \subseteq Conns
    /\ count \in Int
    /\ closed \subseteq Conns /\ added \subseteq Conns
    /\ interest \in [Conns -> SUBSET {"IN", "OUT"}]
    /\ input \in [Conns -> Nat] /\ outbuf \subseteq Conns
    /\ armed \subseteq Conns /\ late \subseteq armed
    /\ lpc \in {"wait", "events", "functors", "undefined"}
    /\ revents \in [Conns -> SUBSET {"IN", "OUT", "ERR"}]
    /\ timerDue \in BOOLEAN /\ cur \in Conns \cup {None}
    /\ pending \in Seq(Functor) /\ temp \in Seq(Functor) /\ called \in 0 .. Len(temp)
    /\ tasks \in Seq(Conns)
    /\ worker \in [Workers -> [phase : {"idle", "run", "done"}, conn : Conns \cup {None}]]

IsOpen(c) == c \in accepted \ closed

\* connectionCount_ counts exactly the open connections, which are the ones the
\* server holds, and stays within maxConnections_, whoever closes them and
\* however often.
CountIsOpen ==
    /\ connections = accepted \ closed
    /\ count = Cardinality(connections) /\ count =< MaxConns

\* An established connection is never without a running idle timer: a peer that
\* goes silent cannot hold its descriptor forever.
OpenHasTimer == \A c \in added : IsOpen(c) => c \in armed

\* Output that waits in outputBuffer_ is subscribed to EPOLLOUT: send() relies on
\* it when it appends and returns.
OutputSubscribed == \A c \in outbuf : IsOpen(c) => "OUT" \in interest[c]

\* Edge-triggered epoll is not left with data nobody will be told of: unread
\* input, an end of file and room for waiting output of an open connection are
\* on the ready list or reported already.
NoLostEdge ==
    \A c \in added :
        /\ IsOpen(c)
        /\ Reportable(c) \ (IF c \in outbuf THEN {} ELSE {"OUT"}) # {}
        => c \in edge \/ revents[c] # {}

\* No dispatch reaches a destroyed Channel.  destroy() queues a guard so that a
\* TcpConnection is destroyed after the loop over events_.
NoDangling == \A c \in Conns : revents[c] # {} => Alive(c)

\* What the guard does achieve: a connection that is closed while events of it are
\* undispatched lives until they are dispatched.  A Channel can dangle only if its
\* connection has been registered again after it was closed, which send() can do.
GuardedUntilDispatched ==
    \A c \in Conns : revents[c] # {} => Alive(c) \/ c \in closed \cap added

\* The response to a request that was dispatched to the pool is handed to
\* send(): no task and no functor is lost.
RequestAnswered ==
    \A c \in Talkers :
        c \in Range(tasks) ~> \/ lpc = "undefined"
                             \/ \E i \in 1 .. called : temp[i] = F("send", {c})

\* Where c is in the life that ConnectionContract gives it.
Stage == [c \in Conns |-> CASE c \in refused              -> "refused"
                            [] c \notin accepted \cup refused -> "new"
                            [] IsOpen(c)                  -> "open"
                            [] c \in closed /\ Held(c)    -> "closing"
                            [] OTHER                      -> "released"]

Contract == INSTANCE ConnectionContract WITH stage <- Stage, dead <- lpc = "undefined"

\* No step of the loop, the acceptor or a worker departs from the life of a
\* connection as the contract has it: none is refused early, opened over the
\* limit, or destroyed while it is open.  And that life ends: every accepted
\* connection is closed and its descriptor released, whatever its peer does.
ImplementsContract == Contract!Spec

\* The same without the liveness of the contract.
ImplementsContractSafely == Contract!SafeSpec
===============================================================================
