----------------------- MODULE ConnectionLifetimeProofs ------------------------
(***************************************************************************)
(* For every number of connections, workers and requests and every limit:  *)
(* connectionCount_ counts the open connections, each of them has its idle *)
(* timer, no edge of epoll is lost, and ConnectionLifetime implements the  *)
(* safety part of ConnectionContract.                                      *)
(***************************************************************************)
EXTENDS ConnectionLifetime, SequenceTheorems, FiniteSetTheorems, TLAPS

-------------------------------------------------------------------------------
(* The inductive invariant. *)

\* What the invariants rest on.  Only accepted connections are referred to, and
\* what a request leaves behind (a task, a worker, a response) or an event belongs
\* to one that has been established.
References ==
    /\ accepted \cap refused = {}
    /\ added \cup closed \subseteq accepted /\ armed \cup outbuf \subseteq accepted
    /\ \A f \in Range(pending) \cup Range(temp) :
          /\ f.conns \subseteq accepted
          /\ f.kind = "send" => f.conns \subseteq added \cup closed
    /\ Range(tasks) \subseteq added \cup closed
    /\ \A w \in Workers : worker[w].phase # "idle" => worker[w].conn \in added \cup closed
    /\ \A c \in Conns : revents[c] # {} => c \in added \cup closed /\ lpc \in {"events", "undefined"}

\* NoLostEdge event by event.
EdgeForEvent ==
    \A c \in added : IsOpen(c) =>
        \A e \in Reportable(c) \ (IF c \in outbuf THEN {} ELSE {"OUT"}) :
            c \in edge \/ e \in revents[c]

\* The inductive invariant.
IInv ==
    /\ TypeOK /\ References /\ IsFiniteSet(connections) /\ CountIsOpen
    /\ OpenHasTimer /\ OutputSubscribed /\ EdgeForEvent

-------------------------------------------------------------------------------
\* The functors after one has been queued.
LEMMA RangeAppended ==
    ASSUME NEW S
    PROVE  \A q \in Seq(S), f \in S :
              Append(q, f) \in Seq(S) /\ Range(Append(q, f)) = Range(q) \cup {f}
<1> SUFFICES ASSUME NEW q \in Seq(S), NEW f \in S
             PROVE  Append(q, f) \in Seq(S) /\ Range(Append(q, f)) = Range(q) \cup {f}
  OBVIOUS
<1>1. Append(q, f) = q \o <<f>> /\ <<f>> \in Seq(S)
  BY AppendIsConcat
<1>2. Range(<<f>>) = {f}
  BY DEF Range
<1>3. Range(q \o <<f>>) = Range(q) \cup Range(<<f>>)
  BY <1>1, RangeConcatenation
<1> QED
  BY <1>1, <1>2, <1>3, AppendProperties

LEMMA FunctorQueued ==
    \A q \in Seq(Functor), f \in Functor :
        Append(q, f) \in Seq(Functor) /\ Range(Append(q, f)) = Range(q) \cup {f}
BY RangeAppended

\* A worker takes one of the tasks and leaves the others.
LEMMA RangeTaken ==
    ASSUME NEW S, NEW q \in Seq(S), q # <<>>
    PROVE  /\ Head(q) \in S /\ Tail(q) \in Seq(S)
           /\ Range(q) = Range(Tail(q)) \cup {Head(q)}
<1>1. /\ Head(q) \in S /\ Tail(q) \in Seq(S) /\ Len(Tail(q)) = Len(q) - 1
      /\ \A i \in 1 .. Len(Tail(q)) : Tail(q)[i] = q[i + 1]
      /\ Len(q) \in Nat \ {0} /\ Head(q) = q[1]
  BY HeadTailProperties, EmptySeq
<1>2. Range(q) = {q[i] : i \in 1 .. Len(q)}
  BY RangeEquality
<1>3. Range(Tail(q)) = {Tail(q)[i] : i \in 1 .. Len(Tail(q))}
  BY <1>1, RangeEquality
<1>4. ASSUME NEW i \in 1 .. Len(q) PROVE q[i] \in Range(Tail(q)) \cup {Head(q)}
  <2>1. CASE i = 1
    BY <1>1, <2>1
  <2>2. CASE i # 1
    <3>1. i - 1 \in 1 .. Len(Tail(q)) /\ Tail(q)[i - 1] = q[i]
      BY <1>1, <2>2
    <3> QED
      BY <1>3, <3>1
  <2> QED
    BY <2>1, <2>2
<1>5. Range(Tail(q)) \cup {Head(q)} \subseteq Range(q)
  BY <1>1, <1>2, <1>3
<1> QED
  BY <1>1, <1>2, <1>4, <1>5

\* An empty server.
LEMMA InitInv == Init => IInv
<1> SUFFICES ASSUME Init PROVE IInv
  OBVIOUS
<1>1. /\ <<>> \in Seq(Functor) /\ <<>> \in Seq(Conns) /\ Len(<<>>) = 0 /\ Range(<<>>) = {}
      /\ pending = <<>> /\ temp = <<>> /\ tasks = <<>>
  BY EmptySeq DEF Init, Range
<1>2. TypeOK
  <2>1. /\ sent \in [Conns -> Nat] /\ inbox \in [Conns -> Nat] /\ input \in [Conns -> Nat]
        /\ \A c \in Conns : inbox[c] + input[c] =< sent[c]
        /\ interest \in [Conns -> SUBSET {"IN", "OUT"}]
        /\ revents \in [Conns -> SUBSET {"IN", "OUT", "ERR"}]
    BY DEF Init
  <2>2. worker \in [Workers -> [phase : {"idle", "run", "done"}, conn : Conns \cup {None}]]
    BY DEF Init, Idle
  <2>3. /\ eof = {} /\ rst = {} /\ room = Conns /\ edge = {}
        /\ accepted = {} /\ refused = {} /\ connections = {} /\ count = 0
        /\ closed = {} /\ added = {} /\ outbuf = {} /\ armed = {} /\ late = {}
        /\ lpc = "wait" /\ timerDue = FALSE /\ cur = None /\ called = 0
    BY DEF Init
  <2>4. /\ pending \in Seq(Functor) /\ temp \in Seq(Functor) /\ tasks \in Seq(Conns)
        /\ called \in 0 .. Len(temp)
    BY <1>1, <2>3
  <2>5. /\ count \in Int /\ cur \in Conns \cup {None}
        /\ lpc \in {"wait", "events", "functors", "undefined"}
        /\ eof \subseteq Conns /\ rst \subseteq Conns /\ room \subseteq Conns /\ edge \subseteq Conns
        /\ accepted \subseteq Conns /\ refused \subseteq Conns /\ connections \subseteq Conns
        /\ closed \subseteq Conns /\ added \subseteq Conns /\ outbuf \subseteq Conns
        /\ armed \subseteq Conns /\ late \subseteq armed
    BY <2>3
  <2>6. timerDue \in BOOLEAN
    BY <2>3
  <2> QED
    BY <2>1, <2>2, <2>4, <2>5, <2>6, Zenon DEF TypeOK
<1>3. References
  BY <1>1 DEF Init, References, Idle
<1>4. IsFiniteSet(connections) /\ CountIsOpen
  BY FS_EmptySet, LimitAssumption DEF Init, CountIsOpen
<1>5. OpenHasTimer /\ OutputSubscribed /\ EdgeForEvent
  BY DEF Init, OpenHasTimer, OutputSubscribed, EdgeForEvent
<1> QED
  BY <1>2, <1>3, <1>4, <1>5 DEF IInv

-------------------------------------------------------------------------------
(* What a step is made of. *)

\* handleClose() for each of S, all of them known to the server.
LEMMA HandleCloseDoes ==
    ASSUME IInv, NEW S \in SUBSET accepted, NEW queued \in Seq(Functor),
           HandleClose(S, queued), NEW first, first = S \ closed
    PROVE  /\ closed' = closed \cup first
           /\ connections' = accepted \ closed' /\ IsFiniteSet(connections')
           /\ count' = Cardinality(connections') /\ count' =< MaxConns
           /\ count' \in Int
           /\ added' = added \ first /\ edge' = edge \ first
           /\ interest' \in [Conns -> SUBSET {"IN", "OUT"}]
           /\ \A c \in Conns \ first : interest'[c] = interest[c]
           /\ pending' \in Seq(Functor)
           /\ Range(pending') = Range(pending) \cup Range(queued)
                                  \cup (IF first = {} THEN {} ELSE {F("guard", first)})
<1>1. /\ closed' = closed \cup first /\ connections' = connections \ first
      /\ count' = count - Cardinality(first)
      /\ pending' = (pending \o queued) \o (IF first = {} THEN <<>> ELSE <<F("guard", first)>>)
      /\ added' = added \ first /\ edge' = edge \ first
      /\ interest' = [c \in Conns |-> IF c \in first THEN {} ELSE interest[c]]
  BY DEF HandleClose, Unregister
<1>2. /\ connections = accepted \ closed /\ first \subseteq connections /\ first \subseteq Conns
      /\ IsFiniteSet(connections) /\ count = Cardinality(connections) /\ count =< MaxConns
  BY DEF IInv, TypeOK, CountIsOpen
<1>3. /\ IsFiniteSet(connections \ first)
      /\ Cardinality(connections \ first) = count - Cardinality(first)
      /\ Cardinality(first) \in Nat /\ count \in Nat
  <2>1. IsFiniteSet(first) /\ connections \cap first = first
    BY <1>2, FS_Subset
  <2>2. Cardinality(first) \in Nat /\ Cardinality(connections) \in Nat
    BY <1>2, <2>1, FS_CardinalityType
  <2>3. /\ IsFiniteSet(connections \ first)
        /\ Cardinality(connections \ first)
             = Cardinality(connections) - Cardinality(connections \cap first)
    BY <1>2, FS_Difference
  <2> QED
    BY <1>2, <2>1, <2>2, <2>3
<1>4. interest' \in [Conns -> SUBSET {"IN", "OUT"}]
      /\ \A c \in Conns \ first : interest'[c] = interest[c]
  BY <1>1 DEF IInv, TypeOK
<1>5. /\ pending' \in Seq(Functor)
      /\ Range(pending') = Range(pending) \cup Range(queued)
                             \cup (IF first = {} THEN {} ELSE {F("guard", first)})
  <2>1. pending \o queued \in Seq(Functor)
        /\ Range(pending \o queued) = Range(pending) \cup Range(queued)
    <3>1. pending \in Seq(Functor)
      BY DEF IInv, TypeOK
    <3> QED
      BY <3>1, ConcatProperties, RangeConcatenation
  <2>2. CASE first = {}
    <3>1. pending' = pending \o queued
      BY <1>1, <2>1, <2>2, ConcatEmptySeq
    <3> QED
      BY <2>1, <2>2, <3>1
  <2>3. CASE first # {}
    <3> DEFINE q == pending \o queued
               g == F("guard", first)
    <3>1. g \in Functor
      BY <1>2 DEF F, Functor
    <3>2. pending' = q \o <<g>>
      BY <1>1, <2>3
    <3> HIDE DEF q, g
    <3>3. pending' = Append(q, g) /\ q \in Seq(Functor)
      BY <2>1, <3>1, <3>2, AppendIsConcat DEF q
    <3>4. Append(q, g) \in Seq(Functor) /\ Range(Append(q, g)) = Range(q) \cup {g}
      BY <3>1, <3>3, FunctorQueued, Zenon
    <3> QED
      BY <2>1, <2>3, <3>3, <3>4 DEF q, g
  <2> QED
    BY <2>2, <2>3
<1>6. /\ connections' = accepted \ closed' /\ IsFiniteSet(connections')
      /\ count' = Cardinality(connections') /\ count' \in Int /\ count' =< MaxConns
  BY <1>1, <1>2, <1>3, LimitAssumption
<1> QED
  BY <1>1, <1>4, <1>5, <1>6

\* What a step leaves of the invariant when it leaves alone what that speaks of.
LEMMA Kept ==
    ASSUME IInv
    PROVE  /\ UNCHANGED <<accepted, connections, count, closed>>
                 => (IsFiniteSet(connections) /\ CountIsOpen)'
           /\ UNCHANGED <<accepted, closed, added, armed>> => OpenHasTimer'
           /\ UNCHANGED <<accepted, closed, outbuf, interest>> => OutputSubscribed'
           /\ UNCHANGED <<accepted, closed, added, outbuf, edge, revents, inbox, eof, rst,
                          room, interest>> => EdgeForEvent'
<1>1. UNCHANGED <<accepted, connections, count, closed>>
         => (IsFiniteSet(connections) /\ CountIsOpen)'
  BY DEF IInv, CountIsOpen
<1>2. UNCHANGED <<accepted, closed, added, armed>> => OpenHasTimer'
  BY DEF IInv, OpenHasTimer, IsOpen
<1>3. UNCHANGED <<accepted, closed, outbuf, interest>> => OutputSubscribed'
  BY DEF IInv, OutputSubscribed, IsOpen
<1>4. UNCHANGED <<accepted, closed, added, outbuf, edge, revents, inbox, eof, rst, room,
                  interest>> => EdgeForEvent'
  BY DEF IInv, EdgeForEvent, IsOpen, Reportable, Level
<1> QED
  BY <1>1, <1>2, <1>3, <1>4

\* An open connection is known to the server, and so it exists.
LEMMA OpenIsAlive == ASSUME IInv, NEW c, IsOpen(c) PROVE c \in connections /\ Alive(c)
BY DEF IInv, CountIsOpen, IsOpen, Alive, Held

\* epoll_wait reports every event of the ready list.
LEMMA PollInv == IInv /\ Poll => IInv'
<1> SUFFICES ASSUME IInv, Poll PROVE IInv'
  OBVIOUS
<1> USE DEF peerVars, serverVars, connVars, timerVars, poolVars
<1>1. /\ lpc = "wait" /\ lpc' = "events" /\ edge' = {} /\ timerDue' = (late # {})
      /\ revents' = [c \in Conns |-> IF c \in edge /\ Registered(c) THEN Reportable(c) ELSE {}]
  BY DEF Poll, IInv, TypeOK
<1>2. UNCHANGED <<sent, inbox, eof, rst, room, accepted, refused, connections, count, closed,
                  added, interest, input, outbuf, armed, late, cur, pending, temp, called,
                  tasks, worker>>
  BY DEF Poll
<1>3. TypeOK'
  <2>1. revents' \in [Conns -> SUBSET {"IN", "OUT", "ERR"}]
    BY <1>1 DEF Reportable, Level
  <2>2. timerDue' \in BOOLEAN
    BY <1>1
  <2> QED
    BY <1>1, <1>2, <2>1, <2>2 DEF IInv, TypeOK
<1>4. References'
  BY <1>1, <1>2 DEF IInv, References, Registered
<1>5. EdgeForEvent'
  <2> SUFFICES ASSUME NEW c \in added, IsOpen(c),
                      NEW e \in Reportable(c) \ (IF c \in outbuf THEN {} ELSE {"OUT"})
               PROVE  e \in revents'[c]
    BY <1>2 DEF EdgeForEvent, IsOpen, Reportable, Level
  <2>1. c \in Conns /\ revents[c] = {}
    BY <1>1 DEF IInv, TypeOK, References
  <2>2. c \in edge
    BY <2>1 DEF IInv, EdgeForEvent
  <2>3. Registered(c)
    BY OpenIsAlive DEF Registered
  <2> QED
    BY <1>1, <2>1, <2>2, <2>3
<1> QED
  BY <1>2, <1>3, <1>4, <1>5, Kept DEF IInv

\* What changes only the place of the loop, a list of timers or a queue.
LEMMA SwapInv == IInv /\ Swap => IInv'
<1> SUFFICES ASSUME IInv, Swap PROVE IInv'
  OBVIOUS
<1> USE DEF peerVars, serverVars, connVars, timerVars, poolVars
<1>1. /\ temp' = pending /\ pending' = <<>> /\ called' = 0 /\ lpc' = "functors"
      /\ \A c \in Conns : revents[c] = {}
      /\ UNCHANGED <<sent, inbox, eof, rst, room, edge, accepted, refused, connections, count,
                     closed, added, interest, input, outbuf, armed, late, revents, timerDue,
                     cur, tasks, worker>>
  BY DEF Swap
<1>2. <<>> \in Seq(Functor) /\ Range(<<>>) = {}
  BY EmptySeq DEF Range
<1>3. TypeOK'
  <2>1. pending' \in Seq(Functor) /\ temp' \in Seq(Functor) /\ called' \in 0 .. Len(temp')
    BY <1>1, <1>2, LenProperties DEF IInv, TypeOK
  <2> QED
    BY <1>1, <2>1 DEF IInv, TypeOK
<1>4. References'
  BY <1>1, <1>2 DEF IInv, References
<1> QED
  BY <1>1, <1>3, <1>4, Kept DEF IInv

LEMMA GuardInv == IInv /\ Guard => IInv'
<1> SUFFICES ASSUME IInv, Guard PROVE IInv'
  OBVIOUS
<1> USE DEF peerVars, serverVars, connVars, timerVars, poolVars
<1>1. /\ called < Len(temp) /\ called' = called + 1
      /\ UNCHANGED <<sent, inbox, eof, rst, room, edge, accepted, refused, connections, count,
                     closed, added, interest, input, outbuf, armed, late, lpc, revents, timerDue,
                     cur, pending, temp, tasks, worker>>
  BY DEF Guard
<1>2. TypeOK'
  <2>1. called' \in 0 .. Len(temp')
    BY <1>1, LenProperties DEF IInv, TypeOK
  <2> QED
    BY <1>1, <2>1 DEF IInv, TypeOK
<1>3. References'
  BY <1>1 DEF IInv, References
<1> QED
  BY <1>1, <1>2, <1>3, Kept DEF IInv

LEMMA FunctorsDoneInv == IInv /\ FunctorsDone => IInv'
<1> SUFFICES ASSUME IInv, FunctorsDone PROVE IInv'
  OBVIOUS
<1> USE DEF peerVars, serverVars, connVars, timerVars, poolVars
<1>1. /\ lpc = "functors" /\ temp' = <<>> /\ called' = 0 /\ lpc' = "wait"
      /\ UNCHANGED <<sent, inbox, eof, rst, room, edge, accepted, refused, connections, count,
                     closed, added, interest, input, outbuf, armed, late, revents, timerDue,
                     cur, pending, tasks, worker>>
  BY DEF FunctorsDone
<1>2. <<>> \in Seq(Functor) /\ Range(<<>>) = {} /\ Len(<<>>) = 0
  BY EmptySeq DEF Range
<1>3. TypeOK'
  <2>1. temp' \in Seq(Functor) /\ called' \in 0 .. Len(temp')
    BY <1>1, <1>2
  <2> QED
    BY <1>1, <2>1 DEF IInv, TypeOK
<1>4. References'
  BY <1>1, <1>2 DEF IInv, References
<1> QED
  BY <1>1, <1>3, <1>4, Kept DEF IInv

LEMMA TimePassesInv == ASSUME NEW c \in Conns PROVE IInv /\ TimePasses(c) => IInv'
<1> SUFFICES ASSUME IInv, TimePasses(c) PROVE IInv'
  OBVIOUS
<1> USE DEF peerVars, serverVars, connVars, loopVars, poolVars
<1>1. /\ c \in armed /\ late' = late \cup {c}
      /\ UNCHANGED <<sent, inbox, eof, rst, room, edge, accepted, refused, connections, count,
                     closed, added, interest, input, outbuf, armed, lpc, revents, timerDue,
                     cur, pending, temp, called, tasks, worker>>
  BY DEF TimePasses
<1>2. TypeOK'
  BY <1>1 DEF IInv, TypeOK
<1>3. References'
  BY <1>1 DEF IInv, References
<1> QED
  BY <1>1, <1>2, <1>3, Kept DEF IInv

LEMMA HandleDanglingInv == ASSUME NEW c \in Conns PROVE IInv /\ HandleDangling(c) => IInv'
<1> SUFFICES ASSUME IInv, HandleDangling(c) PROVE IInv'
  OBVIOUS
<1> USE DEF peerVars, serverVars, connVars, timerVars, poolVars
<1>1. /\ lpc' = "undefined"
      /\ UNCHANGED <<sent, inbox, eof, rst, room, edge, accepted, refused, connections, count,
                     closed, added, interest, input, outbuf, armed, late, revents, timerDue,
                     cur, pending, temp, called, tasks, worker>>
  BY DEF HandleDangling
<1>2. TypeOK'
  BY <1>1 DEF IInv, TypeOK
<1>3. References'
  BY <1>1 DEF IInv, References
<1> QED
  BY <1>1, <1>2, <1>3, Kept DEF IInv

-------------------------------------------------------------------------------
(* The acceptor, the peers and the workers. *)

LEMMA RefuseInv == ASSUME NEW c \in Conns PROVE IInv /\ Refuse(c) => IInv'
<1> SUFFICES ASSUME IInv, Refuse(c) PROVE IInv'
  OBVIOUS
<1> USE DEF peerVars, connVars, timerVars, loopVars, poolVars
<1>1. /\ c \notin accepted /\ refused' = refused \cup {c}
      /\ UNCHANGED <<sent, inbox, eof, rst, room, edge, accepted, connections, count,
                     closed, added, interest, input, outbuf, armed, late, lpc, revents, timerDue,
                     cur, pending, temp, called, tasks, worker>>
  BY DEF Refuse, Arrives
<1>2. TypeOK'
  BY <1>1 DEF IInv, TypeOK
<1>3. References'
  BY <1>1 DEF IInv, References
<1> QED
  BY <1>1, <1>2, <1>3, Kept DEF IInv

LEMMA AcceptInv == ASSUME NEW c \in Conns PROVE IInv /\ Accept(c) => IInv'
<1> SUFFICES ASSUME IInv, Accept(c) PROVE IInv'
  OBVIOUS
<1> USE DEF peerVars, connVars, timerVars, loopVars, poolVars
<1>1. /\ c \notin accepted \cup refused /\ count < MaxConns /\ count' = count + 1
      /\ accepted' = accepted \cup {c} /\ connections' = connections \cup {c}
      /\ pending' = Append(pending, F("establish", {c}))
      /\ UNCHANGED <<sent, inbox, eof, rst, room, edge, refused,
                     closed, added, interest, input, outbuf, armed, late, lpc, revents, timerDue,
                     cur, temp, called, tasks, worker>>
  BY DEF Accept, Arrives
<1>2. c \notin closed /\ c \notin added /\ c \notin outbuf
  BY <1>1 DEF IInv, References
<1>3. /\ pending' \in Seq(Functor)
      /\ Range(pending') = Range(pending) \cup {F("establish", {c})}
  <2> DEFINE g == F("establish", {c})
  <2>1. g \in Functor
    BY DEF F, Functor
  <2>2. pending \in Seq(Functor) /\ pending' = Append(pending, g)
    BY <1>1 DEF IInv, TypeOK
  <2> HIDE DEF g
  <2>3. Append(pending, g) \in Seq(Functor) /\ Range(Append(pending, g)) = Range(pending) \cup {g}
    BY <2>1, <2>2, FunctorQueued, Zenon
  <2> QED
    BY <2>2, <2>3 DEF g
<1>4. TypeOK'
  <2>1. count' \in Int /\ accepted' \subseteq Conns /\ connections' \subseteq Conns
    BY <1>1 DEF IInv, TypeOK
  <2> QED
    BY <1>1, <1>3, <2>1 DEF IInv, TypeOK
<1>5. References'
  <2>0. F("establish", {c}).conns = {c} /\ F("establish", {c}).kind = "establish"
    BY DEF F
  <2>1. \A f \in Range(pending') \cup Range(temp') :
           /\ f.conns \subseteq accepted'
           /\ f.kind = "send" => f.conns \subseteq added' \cup closed'
    BY <1>1, <1>3, <2>0 DEF IInv, References
  <2> QED
    BY <1>1, <2>1 DEF IInv, References
<1>6. (IsFiniteSet(connections) /\ CountIsOpen)'
  <2>1. c \notin connections /\ IsFiniteSet(connections) /\ Cardinality(connections) \in Nat
    BY <1>1, FS_CardinalityType DEF IInv, CountIsOpen
  <2>2. IsFiniteSet(connections') /\ Cardinality(connections') = Cardinality(connections) + 1
    BY <1>1, <2>1, FS_AddElement
  <2>3. connections' = accepted' \ closed'
    BY <1>1, <1>2 DEF IInv, CountIsOpen
  <2> QED
    BY <1>1, <2>1, <2>2, <2>3, LimitAssumption DEF IInv, CountIsOpen
<1>7. OpenHasTimer' /\ OutputSubscribed' /\ EdgeForEvent'
  BY <1>1, <1>2
     DEF IInv, OpenHasTimer, OutputSubscribed, EdgeForEvent, IsOpen, Reportable, Level
<1> QED
  BY <1>4, <1>5, <1>6, <1>7 DEF IInv

\* Whatever the peer does to an open connection puts it on the ready list.
LEMMA PeerInv == ASSUME NEW c \in Conns PROVE IInv /\ Peer(c) => IInv'
<1> SUFFICES ASSUME IInv, Peer(c) PROVE IInv'
  OBVIOUS
<1> USE DEF serverVars, connVars, timerVars, loopVars, poolVars
<1>1. UNCHANGED <<accepted, refused, connections, count, closed, added, interest, input, outbuf,
                  armed, late, lpc, revents, timerDue, cur, pending, temp, called, tasks, worker>>
  BY DEF Peer
<1>2. /\ edge' = IF Registered(c) THEN edge \cup {c} ELSE edge
      /\ eof' \in {eof, eof \cup {c}} /\ rst' \in {rst, rst \cup {c}}
      /\ room' \in {room, room \cup {c}}
      /\ sent' \in [Conns -> Nat] /\ inbox' \in [Conns -> Nat]
      /\ \A d \in Conns \ {c} : inbox'[d] = inbox[d]
      /\ \A d \in Conns : inbox'[d] + input[d] =< sent'[d]
  <2>0. /\ sent \in [Conns -> Nat] /\ inbox \in [Conns -> Nat] /\ input \in [Conns -> Nat]
        /\ \A d \in Conns : inbox[d] + input[d] =< sent[d]
    BY DEF IInv, TypeOK
  <2>1. CASE PeerSends(c)
    BY <2>0, <2>1 DEF PeerSends, Edge
  <2>2. CASE PeerCloses(c)
    BY <2>0, <2>2 DEF PeerCloses, Edge
  <2>3. CASE PeerResets(c)
    BY <2>0, <2>3 DEF PeerResets, Edge
  <2>4. CASE PeerReads(c)
    BY <2>0, <2>4 DEF PeerReads, Edge
  <2> QED
    BY <2>1, <2>2, <2>3, <2>4 DEF Peer
<1>3. TypeOK'
  BY <1>1, <1>2 DEF IInv, TypeOK
<1>4. References'
  BY <1>1 DEF IInv, References
<1>5. EdgeForEvent'
  <2> SUFFICES ASSUME NEW d \in added, IsOpen(d),
                      NEW e \in Reportable(d)' \ (IF d \in outbuf THEN {} ELSE {"OUT"})
               PROVE  d \in edge' \/ e \in revents[d]
    BY <1>1 DEF EdgeForEvent, IsOpen
  <2>1. d \in Conns
    BY DEF IInv, TypeOK
  <2>2. CASE d = c
    BY <1>2, <2>2, OpenIsAlive DEF Registered
  <2>3. CASE d # c
    <3>1. Reportable(d)' = Reportable(d)
      BY <1>1, <1>2, <2>1, <2>3 DEF Reportable, Level
    <3> QED
      BY <1>2, <3>1 DEF IInv, EdgeForEvent
  <2> QED
    BY <2>2, <2>3
<1> QED
  BY <1>1, <1>3, <1>4, <1>5, Kept DEF IInv

LEMMA WorkInv == ASSUME NEW w \in Workers PROVE IInv /\ Work(w) => IInv'
<1> SUFFICES ASSUME IInv, Work(w) PROVE IInv'
  OBVIOUS
<1> USE DEF peerVars, serverVars, connVars, timerVars, loopVars
<1>1. UNCHANGED <<sent, inbox, eof, rst, room, edge, accepted, refused, connections, count,
                  closed, added, interest, input, outbuf, armed, late, lpc, revents, timerDue,
                  cur, temp, called>>
  BY DEF Work, TakeTask, Respond, DropTask, WorkerStep
<1>2. /\ pending \in Seq(Functor) /\ tasks \in Seq(Conns)
      /\ worker \in [Workers -> [phase : {"idle", "run", "done"}, conn : Conns \cup {None}]]
  BY DEF IInv, TypeOK
<1> DEFINE Refers(f) == /\ f.conns \subseteq accepted
                        /\ f.kind = "send" => f.conns \subseteq added \cup closed
<1>3. /\ \A f \in Range(pending) \cup Range(temp) : Refers(f)
      /\ Range(tasks) \subseteq added \cup closed
      /\ \A v \in Workers : worker[v].phase # "idle" => worker[v].conn \in added \cup closed
      /\ added \cup closed \subseteq accepted /\ accepted \subseteq Conns
  BY DEF IInv, References, TypeOK
<1>4. /\ pending' \in Seq(Functor) /\ tasks' \in Seq(Conns)
      /\ worker' \in [Workers -> [phase : {"idle", "run", "done"}, conn : Conns \cup {None}]]
      /\ \A f \in Range(pending') : Refers(f)
      /\ Range(tasks') \subseteq added \cup closed
      /\ \A v \in Workers : worker'[v].phase # "idle" => worker'[v].conn \in added \cup closed
  <2>1. CASE TakeTask(w)
    <3>1. /\ tasks # <<>> /\ tasks' = Tail(tasks) /\ pending' = pending
          /\ worker' = [worker EXCEPT ![w] = [phase |-> "run", conn |-> Head(tasks)]]
      BY <2>1 DEF TakeTask, WorkerStep
    <3>2. /\ Head(tasks) \in Conns /\ Tail(tasks) \in Seq(Conns)
          /\ Range(tasks) = Range(Tail(tasks)) \cup {Head(tasks)}
      BY <1>2, <3>1, RangeTaken
    <3> QED
      BY <1>2, <1>3, <3>1, <3>2
  <2>2. CASE Respond(w)
    <3> DEFINE c == worker[w].conn
               g == F("send", {c})
    <3>1. /\ worker[w].phase = "run" /\ tasks' = tasks /\ pending' = Append(pending, g)
          /\ worker' = [worker EXCEPT ![w] = [phase |-> "done", conn |-> c]]
      BY <2>2 DEF Respond, WorkerStep
    <3>2. c \in added \cup closed
      BY <1>3, <3>1
    <3>3. g \in Functor /\ Refers(g)
      BY <1>3, <3>2 DEF F, Functor
    <3> HIDE DEF g
    <3>4. pending' \in Seq(Functor) /\ Range(pending') = Range(pending) \cup {g}
      <4>1. Append(pending, g) \in Seq(Functor)
            /\ Range(Append(pending, g)) = Range(pending) \cup {g}
        BY <1>2, <3>3, FunctorQueued, Zenon
      <4> QED
        BY <3>1, <4>1
    <3>5. /\ worker' \in [Workers -> [phase : {"idle", "run", "done"}, conn : Conns \cup {None}]]
          /\ \A v \in Workers : worker'[v].phase # "idle" => worker'[v].conn \in added \cup closed
      BY <1>2, <1>3, <3>1, <3>2
    <3>6. \A f \in Range(pending') : Refers(f)
      BY <1>3, <3>3, <3>4
    <3> QED
      BY <1>2, <1>3, <3>1, <3>4, <3>5, <3>6
  <2>3. CASE DropTask(w)
    BY <1>2, <1>3, <2>3 DEF DropTask, WorkerStep
  <2> QED
    BY <2>1, <2>2, <2>3 DEF Work
<1>5. TypeOK'
  BY <1>1, <1>4 DEF IInv, TypeOK
<1>6. References'
  <2>1. \A f \in Range(pending') \cup Range(temp') : Refers(f)
    BY <1>1, <1>3, <1>4
  <2> QED
    BY <1>1, <1>4, <2>1 DEF IInv, References
<1> QED
  BY <1>1, <1>5, <1>6, Kept DEF IInv

-------------------------------------------------------------------------------
(* The callbacks of the I/O thread. *)

\* What is left of the invariant when connections are closed: those that stay
\* open were open and lose nothing.
LEMMA ClosingKeeps ==
    ASSUME IInv, NEW S \in SUBSET accepted, NEW queued \in Seq(Functor),
           HandleClose(S, queued), accepted' = accepted,
           \A f \in Range(queued) : f.conns \subseteq accepted /\ f.conns \subseteq added \cup closed
    PROVE  /\ (IsFiniteSet(connections) /\ CountIsOpen)'
           /\ count' \in Int /\ connections' \subseteq Conns /\ closed' \subseteq Conns
           /\ added' \subseteq Conns /\ edge' \subseteq Conns /\ pending' \in Seq(Functor)
           /\ interest' \in [Conns -> SUBSET {"IN", "OUT"}]
           /\ \A d \in accepted' \ closed' :
                 /\ IsOpen(d) /\ d \notin S /\ interest'[d] = interest[d]
                 /\ d \in added' => d \in added
                 /\ d \in edge => d \in edge'
           /\ added \cup closed \subseteq added' \cup closed'
           /\ added' \cup closed' \subseteq accepted
           /\ \A f \in Range(pending') :
                 /\ f.conns \subseteq accepted
                 /\ f.kind = "send" => f.conns \subseteq added' \cup closed'
<1> DEFINE first == S \ closed
<1>1. /\ closed' = closed \cup first
      /\ connections' = accepted \ closed' /\ IsFiniteSet(connections')
      /\ count' = Cardinality(connections') /\ count' =< MaxConns
      /\ count' \in Int
      /\ added' = added \ first /\ edge' = edge \ first
      /\ interest' \in [Conns -> SUBSET {"IN", "OUT"}]
      /\ \A c \in Conns \ first : interest'[c] = interest[c]
      /\ pending' \in Seq(Functor)
      /\ Range(pending') = Range(pending) \cup Range(queued)
                                  \cup (IF first = {} THEN {} ELSE {F("guard", first)})
  BY HandleCloseDoes
<1>2. /\ accepted \subseteq Conns /\ added \cup closed \subseteq accepted /\ edge \subseteq Conns
      /\ \A f \in Range(pending) :
            /\ f.conns \subseteq accepted
            /\ f.kind = "send" => f.conns \subseteq added \cup closed
  BY DEF IInv, TypeOK, References
<1>3. F("guard", first).conns = first /\ F("guard", first).kind = "guard"
  BY DEF F
<1>4. \A f \in Range(pending') :
                 /\ f.conns \subseteq accepted
                 /\ f.kind = "send" => f.conns \subseteq added' \cup closed'
  <2> HIDE DEF first
  <2> SUFFICES ASSUME NEW f \in Range(pending')
               PROVE  /\ f.conns \subseteq accepted
                      /\ f.kind = "send" => f.conns \subseteq added \cup closed
    BY <1>1
  <2>1. CASE f \in Range(pending)
    BY <1>2, <2>1
  <2>2. CASE f \in Range(queued)
    BY <2>2
  <2>3. CASE f = F("guard", first)
    BY <1>3, <2>3 DEF first
  <2> QED
    BY <1>1, <2>1, <2>2, <2>3
<1>5. (IsFiniteSet(connections) /\ CountIsOpen)'
  BY <1>1 DEF CountIsOpen
<1>6. /\ \A d \in accepted' \ closed' :
            /\ IsOpen(d) /\ d \notin S /\ interest'[d] = interest[d]
            /\ d \in added' => d \in added
            /\ d \in edge => d \in edge'
      /\ added \cup closed \subseteq added' \cup closed' /\ added' \cup closed' \subseteq accepted
      /\ connections' \subseteq Conns /\ closed' \subseteq Conns
      /\ added' \subseteq Conns /\ edge' \subseteq Conns
  BY <1>1, <1>2 DEF IsOpen
<1> QED
  BY <1>1, <1>4, <1>5, <1>6

\* The connection of an event that is being dispatched.
LEMMA HandlingRefers ==
    ASSUME IInv, NEW c \in Conns, NEW e, Handling(c, e), Dispatched(c, e)
    PROVE  /\ c \in accepted /\ c \in added \cup closed /\ revents[c] # {} /\ lpc = "events"
           /\ revents' \in [Conns -> SUBSET {"IN", "OUT", "ERR"}]
           /\ revents'[c] = revents[c] \ {e}
           /\ \A d \in Conns : revents'[d] \subseteq revents[d]
           /\ \A d \in Conns \ {c} : revents'[d] = revents[d]
           /\ cur' \in Conns \cup {None}
BY DEF IInv, TypeOK, References, Handling, Dispatched, Alive

LEMMA NothingQueued == <<>> \in Seq(Functor) /\ Range(<<>>) = {}
BY EmptySeq DEF Range

\* An idle timer closes its connection and is gone.
LEMMA HandleTimersInv == IInv /\ HandleTimers => IInv'
<1> SUFFICES ASSUME IInv, HandleTimers PROVE IInv'
  OBVIOUS
<1> USE DEF peerVars, poolVars
<1>1. /\ timerDue' = FALSE /\ HandleClose(late, <<>>)
      /\ armed' = armed \ late /\ late' = {}
      /\ UNCHANGED <<sent, inbox, eof, rst, room, accepted, refused, input, outbuf, lpc, revents,
                     cur, temp, called, tasks, worker>>
  BY DEF HandleTimers, SetTimers
<1>2. late \subseteq armed /\ armed \subseteq accepted
  BY DEF IInv, TypeOK, References
<1>3. /\ (IsFiniteSet(connections) /\ CountIsOpen)'
      /\ count' \in Int /\ connections' \subseteq Conns /\ closed' \subseteq Conns
      /\ added' \subseteq Conns /\ edge' \subseteq Conns /\ pending' \in Seq(Functor)
      /\ interest' \in [Conns -> SUBSET {"IN", "OUT"}]
      /\ \A d \in accepted' \ closed' :
            /\ IsOpen(d) /\ d \notin late /\ interest'[d] = interest[d]
            /\ d \in added' => d \in added
            /\ d \in edge => d \in edge'
      /\ added \cup closed \subseteq added' \cup closed' /\ added' \cup closed' \subseteq accepted
      /\ \A f \in Range(pending') :
            /\ f.conns \subseteq accepted
            /\ f.kind = "send" => f.conns \subseteq added' \cup closed'
  BY <1>1, <1>2, NothingQueued, ClosingKeeps
<1>4. TypeOK'
  <2>1. timerDue' \in BOOLEAN /\ armed' \subseteq Conns /\ late' \subseteq armed'
    BY <1>1 DEF IInv, TypeOK
  <2> QED
    BY <1>1, <1>3, <2>1 DEF IInv, TypeOK
<1>5. References'
  BY <1>1, <1>3 DEF IInv, References
<1>6. OpenHasTimer' /\ OutputSubscribed'
  BY <1>1, <1>3 DEF IInv, OpenHasTimer, OutputSubscribed, IsOpen
<1>7. EdgeForEvent'
  BY <1>1, <1>3 DEF IInv, EdgeForEvent, IsOpen, Reportable, Level
<1> QED
  BY <1>3, <1>4, <1>5, <1>6, <1>7 DEF IInv

\* What a channel's callback does when all it does is to close its connection.
LEMMA ClosingInv ==
    ASSUME IInv, NEW c \in Conns, NEW e, Handling(c, e), Dispatched(c, e),
           HandleClose({c}, <<>>), SetTimers({}, {c} \ closed),
           UNCHANGED <<sent, inbox, eof, rst, room, accepted, refused, input, outbuf, lpc,
                       timerDue, temp, called, tasks, worker>>
    PROVE  IInv'
<1>1. /\ c \in accepted /\ c \in added \cup closed /\ revents[c] # {}
      /\ revents' \in [Conns -> SUBSET {"IN", "OUT", "ERR"}]
      /\ \A d \in Conns : revents'[d] \subseteq revents[d]
      /\ \A d \in Conns \ {c} : revents'[d] = revents[d]
      /\ cur' \in Conns \cup {None}
  BY HandlingRefers
<1>2. /\ (IsFiniteSet(connections) /\ CountIsOpen)'
      /\ count' \in Int /\ connections' \subseteq Conns /\ closed' \subseteq Conns
      /\ added' \subseteq Conns /\ edge' \subseteq Conns /\ pending' \in Seq(Functor)
      /\ interest' \in [Conns -> SUBSET {"IN", "OUT"}]
      /\ \A d \in accepted' \ closed' :
            /\ IsOpen(d) /\ d \notin {c} /\ interest'[d] = interest[d]
            /\ d \in added' => d \in added
            /\ d \in edge => d \in edge'
      /\ added \cup closed \subseteq added' \cup closed' /\ added' \cup closed' \subseteq accepted
      /\ \A f \in Range(pending') :
            /\ f.conns \subseteq accepted
            /\ f.kind = "send" => f.conns \subseteq added' \cup closed'
  BY <1>1, NothingQueued, ClosingKeeps
<1>3. /\ armed' = armed \ ({c} \ closed) /\ late' = late \ ({c} \ closed)
  BY DEF SetTimers
<1>4. TypeOK'
  <2>1. armed' \subseteq Conns /\ late' \subseteq armed'
    BY <1>3 DEF IInv, TypeOK
  <2> QED
    BY <1>1, <1>2, <2>1 DEF IInv, TypeOK
<1>5. References'
  BY <1>1, <1>2, <1>3 DEF IInv, References
<1>6. OpenHasTimer' /\ OutputSubscribed'
  BY <1>2, <1>3 DEF IInv, OpenHasTimer, OutputSubscribed, IsOpen
<1>7. EdgeForEvent'
  <2> SUFFICES ASSUME NEW d \in added', d \in accepted' \ closed',
                      NEW x \in Reportable(d)' \ (IF d \in outbuf THEN {} ELSE {"OUT"})
               PROVE  d \in edge' \/ x \in revents'[d]
    BY DEF EdgeForEvent, IsOpen
  <2>1. d \in Conns \ {c} /\ d \in added /\ IsOpen(d) /\ Reportable(d)' = Reportable(d)
    BY <1>2 DEF Reportable, Level
  <2> QED
    BY <1>1, <1>2, <2>1 DEF IInv, EdgeForEvent
<1> QED
  BY <1>2, <1>4, <1>5, <1>6, <1>7 DEF IInv

LEMMA HandleErrorInv == ASSUME NEW c \in Conns PROVE IInv /\ HandleError(c) => IInv'
<1> SUFFICES ASSUME IInv, HandleError(c) PROVE IInv'
  OBVIOUS
<1>1. /\ Handling(c, "ERR") /\ Dispatched(c, "ERR")
      /\ HandleClose({c}, <<>>) /\ SetTimers({}, {c} \ closed)
      /\ UNCHANGED <<sent, inbox, eof, rst, room, accepted, refused, input, outbuf, lpc,
                     timerDue, temp, called, tasks, worker>>
  BY DEF HandleError, peerVars, poolVars
<1> QED
  BY <1>1, ClosingInv

\* The socket has been read until it is empty: what is left to report of an open
\* connection is room for output.
LEMMA HandleReadInv == ASSUME NEW c \in Conns PROVE IInv /\ HandleRead(c) => IInv'
<1> SUFFICES ASSUME IInv, HandleRead(c) PROVE IInv'
  OBVIOUS
<1> DEFINE got == input[c] + inbox[c]
<1>1. PICK outcome \in {"nothing", "incomplete", "bad", "unsupported", "complete"} :
         LET S == IF outcome = "bad" THEN {c} ELSE Ended(c) IN
         /\ got = 0 => outcome = "nothing"
         /\ input' = [input EXCEPT ![c] = IF outcome \in {"unsupported", "complete"}
                                          THEN got - 1 ELSE got]
         /\ tasks' = IF outcome = "complete" THEN Append(tasks, c) ELSE tasks
         /\ HandleClose(S, IF outcome \in {"bad", "unsupported"}
                           THEN <<F("send", {c})>> ELSE <<>>)
         /\ SetTimers(IF outcome = "complete" THEN {c} ELSE {}, S \ closed)
  BY DEF HandleRead
<1> DEFINE S == IF outcome = "bad" THEN {c} ELSE Ended(c)
           queued == IF outcome \in {"bad", "unsupported"} THEN <<F("send", {c})>> ELSE <<>>
           arm == IF outcome = "complete" THEN {c} ELSE {}
<1>2. /\ Handling(c, "IN") /\ Dispatched(c, "IN")
      /\ inbox' = [inbox EXCEPT ![c] = 0]
      /\ HandleClose(S, queued) /\ SetTimers(arm, S \ closed)
      /\ UNCHANGED <<sent, eof, rst, room, accepted, refused, outbuf, lpc, timerDue, temp,
                     called, worker>>
  BY <1>1 DEF HandleRead
<1>3. /\ c \in accepted /\ c \in added \cup closed /\ revents[c] # {} /\ lpc = "events"
      /\ revents' \in [Conns -> SUBSET {"IN", "OUT", "ERR"}]
      /\ revents'[c] = revents[c] \ {"IN"}
      /\ \A d \in Conns : revents'[d] \subseteq revents[d]
      /\ \A d \in Conns \ {c} : revents'[d] = revents[d]
      /\ cur' \in Conns \cup {None}
  BY <1>2, HandlingRefers
<1>4. /\ S \in SUBSET accepted /\ S \subseteq {c} /\ Ended(c) \subseteq S
  BY <1>3 DEF Ended
<1>5. /\ queued \in Seq(Functor)
      /\ \A f \in Range(queued) : f.conns \subseteq accepted /\ f.conns \subseteq added \cup closed
  <2>1. CASE queued = <<>>
    BY <2>1, NothingQueued
  <2>2. CASE queued = <<F("send", {c})>>
    <3> DEFINE g == F("send", {c})
    <3>1. g \in Functor /\ g.conns = {c}
      BY DEF F, Functor
    <3> HIDE DEF g
    <3>2. Range(<<g>>) = {g} /\ <<g>> \in Seq(Functor)
      BY <3>1 DEF Range
    <3>3. queued = <<g>>
      BY <2>2 DEF g
    <3> HIDE DEF queued
    <3> QED
      BY <1>3, <3>1, <3>2, <3>3
  <2>3. queued = <<>> \/ queued = <<F("send", {c})>>
    BY Zenon
  <2> HIDE DEF queued
  <2> QED
    BY <2>1, <2>2, <2>3
<1> HIDE DEF S, queued
<1>6. /\ (IsFiniteSet(connections) /\ CountIsOpen)'
      /\ count' \in Int /\ connections' \subseteq Conns /\ closed' \subseteq Conns
      /\ added' \subseteq Conns /\ edge' \subseteq Conns /\ pending' \in Seq(Functor)
      /\ interest' \in [Conns -> SUBSET {"IN", "OUT"}]
      /\ \A d \in accepted' \ closed' :
            /\ IsOpen(d) /\ d \notin S /\ interest'[d] = interest[d]
            /\ d \in added' => d \in added
            /\ d \in edge => d \in edge'
      /\ added \cup closed \subseteq added' \cup closed' /\ added' \cup closed' \subseteq accepted
      /\ \A f \in Range(pending') :
            /\ f.conns \subseteq accepted
            /\ f.kind = "send" => f.conns \subseteq added' \cup closed'
  BY <1>2, <1>4, <1>5, ClosingKeeps
<1>7. /\ armed' = (armed \cup arm) \ (S \ closed) /\ late' = late \ (arm \cup (S \ closed))
      /\ arm \subseteq {c}
  BY <1>2 DEF SetTimers
<1>8. /\ input' \in [Conns -> Nat] /\ inbox' \in [Conns -> Nat]
      /\ \A d \in Conns : inbox'[d] + input'[d] =< sent[d]
  <2>1. /\ sent \in [Conns -> Nat] /\ inbox \in [Conns -> Nat] /\ input \in [Conns -> Nat]
        /\ \A d \in Conns : inbox[d] + input[d] =< sent[d]
    BY DEF IInv, TypeOK
  <2>2. got \in Nat
    BY <2>1
  <2> DEFINE left == IF outcome \in {"unsupported", "complete"} THEN got - 1 ELSE got
  <2>3. left \in Nat /\ left =< got
    <3>1. outcome \in {"unsupported", "complete"} => got # 0
      BY <1>1
    <3> HIDE DEF got
    <3> QED
      BY <2>2, <3>1
  <2>4. input' = [input EXCEPT ![c] = left]
    BY <1>1
  <2> HIDE DEF left
  <2> QED
    BY <1>2, <2>1, <2>3, <2>4
<1>9. tasks' \in Seq(Conns) /\ Range(tasks') \subseteq added \cup closed
  <2>0. tasks \in Seq(Conns) /\ Range(tasks) \subseteq added \cup closed
    BY DEF IInv, TypeOK, References
  <2>1. Append(tasks, c) \in Seq(Conns) /\ Range(Append(tasks, c)) = Range(tasks) \cup {c}
    BY <2>0, RangeAppended
  <2> QED
    BY <1>1, <1>3, <2>0, <2>1
<1>10. TypeOK'
  <2>1. armed' \subseteq Conns /\ late' \subseteq armed'
    BY <1>7 DEF IInv, TypeOK
  <2> QED
    BY <1>2, <1>3, <1>6, <1>8, <1>9, <2>1 DEF IInv, TypeOK
<1>11. References'
  <2>1. armed' \cup outbuf' \subseteq accepted'
    BY <1>2, <1>3, <1>7 DEF IInv, References
  <2> QED
    BY <1>2, <1>3, <1>6, <1>9, <2>1 DEF IInv, References
<1>12. OpenHasTimer' /\ OutputSubscribed'
  BY <1>2, <1>6, <1>7 DEF IInv, OpenHasTimer, OutputSubscribed, IsOpen
<1>13. EdgeForEvent'
  <2> SUFFICES ASSUME NEW d \in added', d \in accepted' \ closed',
                      NEW x \in Reportable(d)' \ (IF d \in outbuf THEN {} ELSE {"OUT"})
               PROVE  d \in edge' \/ x \in revents'[d]
    BY <1>2 DEF EdgeForEvent, IsOpen
  <2>1. d \in Conns /\ d \notin S /\ d \in added /\ IsOpen(d)
    BY <1>6 DEF IInv, TypeOK
  <2>2. x \in Reportable(d) /\ (d = c => x # "IN")
    <3>1. CASE d = c
      <4>1. c \notin eof \cup rst
        BY <1>4, <2>1, <3>1 DEF Ended
      <4>2. inbox'[c] = 0
        BY <1>2 DEF IInv, TypeOK
      <4> QED
        BY <1>2, <1>6, <3>1, <4>1, <4>2 DEF Reportable, Level
    <3>2. CASE d # c
      <4>1. inbox'[d] = inbox[d]
        BY <1>2, <2>1, <3>2 DEF IInv, TypeOK
      <4> QED
        BY <1>2, <1>6, <3>2, <4>1 DEF Reportable, Level
    <3> QED
      BY <3>1, <3>2
  <2>3. d \in edge \/ x \in revents[d]
    BY <2>1, <2>2 DEF IInv, EdgeForEvent
  <2> QED
    BY <1>3, <1>6, <2>1, <2>2, <2>3
<1> QED
  BY <1>6, <1>10, <1>11, <1>12, <1>13 DEF IInv

\* EPOLL_CTL_MOD looks at the socket: whatever the new mask can report is on the
\* ready list.
LEMMA RegisterDoes ==
    ASSUME IInv, NEW c \in Conns, NEW mask \in SUBSET {"IN", "OUT"}, NEW level,
           Register(c, mask, level)
    PROVE  /\ added' = added \cup {c}
           /\ interest' \in [Conns -> SUBSET {"IN", "OUT"}]
           /\ interest'[c] = mask /\ \A d \in Conns \ {c} : interest'[d] = interest[d]
           /\ edge \subseteq edge' /\ edge' \subseteq Conns
           /\ level \cap (mask \cup {"ERR"}) # {} => c \in edge'
BY DEF Register, IInv, TypeOK

\* Waiting output is written until the send queue is full or nothing is left.
LEMMA HandleWriteInv == ASSUME NEW c \in Conns PROVE IInv /\ HandleWrite(c) => IInv'
<1> SUFFICES ASSUME IInv, HandleWrite(c) PROVE IInv'
  OBVIOUS
<1>1. /\ Handling(c, "OUT") /\ Dispatched(c, "OUT")
      /\ UNCHANGED <<sent, inbox, eof, rst, accepted, refused, input, lpc, timerDue, temp,
                     called, tasks, worker>>
  BY DEF HandleWrite, poolVars
<1>2. /\ c \in accepted /\ c \in added \cup closed /\ revents[c] # {} /\ lpc = "events"
      /\ revents' \in [Conns -> SUBSET {"IN", "OUT", "ERR"}]
      /\ revents'[c] = revents[c] \ {"OUT"}
      /\ \A d \in Conns : revents'[d] \subseteq revents[d]
      /\ \A d \in Conns \ {c} : revents'[d] = revents[d]
      /\ cur' \in Conns \cup {None}
  BY <1>1, HandlingRefers
<1>3. CASE /\ HandleClose({c}, <<>>) /\ SetTimers({}, {c} \ closed)
           /\ UNCHANGED <<outbuf, room>>
  BY <1>1, <1>3, ClosingInv
<1>4. CASE /\ c \notin rst /\ room' = room \ {c}
           /\ UNCHANGED <<outbuf, added, interest, edge>> /\ NoClose
  <2>1. UNCHANGED <<outbuf, added, interest, edge, closed, connections, count, pending, armed,
                    late>>
    BY <1>4 DEF NoClose, timerVars
  <2>2. TypeOK'
    BY <1>1, <1>2, <1>4, <2>1 DEF IInv, TypeOK
  <2>3. References'
    BY <1>1, <1>2, <2>1 DEF IInv, References
  <2>4. EdgeForEvent'
    <3> SUFFICES ASSUME NEW d \in added, IsOpen(d),
                        NEW x \in Reportable(d)' \ (IF d \in outbuf THEN {} ELSE {"OUT"})
                 PROVE  d \in edge \/ x \in revents'[d]
      BY <1>1, <2>1 DEF EdgeForEvent, IsOpen
    <3>1. x \in Reportable(d) /\ (d = c => x # "OUT")
      BY <1>1, <1>4, <2>1 DEF Reportable, Level
    <3>2. d \in Conns /\ (d \in edge \/ x \in revents[d])
      BY <3>1 DEF IInv, EdgeForEvent, TypeOK
    <3> QED
      BY <1>2, <3>1, <3>2
  <2> QED
    BY <1>1, <2>1, <2>2, <2>3, <2>4, Kept DEF IInv
<1>5. CASE /\ outbuf' = outbuf \ {c}
           /\ IF c \in added THEN Register(c, interest[c] \ {"OUT"}, Level(c))
                             ELSE UNCHANGED <<added, interest, edge>>
           /\ UNCHANGED room /\ NoClose
  <2>1. UNCHANGED <<room, closed, connections, count, pending, armed, late>>
    BY <1>5 DEF NoClose, timerVars
  <2>2. /\ added' = added /\ interest' \in [Conns -> SUBSET {"IN", "OUT"}]
        /\ \A d \in Conns \ {c} : interest'[d] = interest[d]
        /\ edge \subseteq edge' /\ edge' \subseteq Conns
        /\ c \in added /\ Reportable(c)' # {} => c \in edge'
    <3>1. CASE c \in added
      <4>1. interest[c] \ {"OUT"} \in SUBSET {"IN", "OUT"}
        BY DEF IInv, TypeOK
      <4>2. /\ added' = added \cup {c}
            /\ interest' \in [Conns -> SUBSET {"IN", "OUT"}]
            /\ interest'[c] = interest[c] \ {"OUT"}
            /\ \A d \in Conns \ {c} : interest'[d] = interest[d]
            /\ edge \subseteq edge' /\ edge' \subseteq Conns
            /\ Level(c) \cap ((interest[c] \ {"OUT"}) \cup {"ERR"}) # {} => c \in edge'
        BY <1>5, <3>1, <4>1, RegisterDoes
      <4>3. Reportable(c)' = Level(c) \cap ((interest[c] \ {"OUT"}) \cup {"ERR"})
        BY <1>1, <2>1, <4>2 DEF Reportable, Level
      <4> QED
        BY <3>1, <4>2, <4>3
    <3>2. CASE c \notin added
      BY <1>5, <3>2 DEF IInv, TypeOK
    <3> QED
      BY <3>1, <3>2
  <2>3. TypeOK'
    <3>1. outbuf' \subseteq Conns
      BY <1>5 DEF IInv, TypeOK
    <3> QED
      BY <1>1, <1>2, <2>1, <2>2, <3>1 DEF IInv, TypeOK
  <2>4. References'
    BY <1>1, <1>2, <1>5, <2>1, <2>2 DEF IInv, References
  <2>5. OutputSubscribed'
    BY <1>1, <1>5, <2>1, <2>2 DEF IInv, TypeOK, OutputSubscribed, IsOpen
  <2>6. EdgeForEvent'
    <3> SUFFICES ASSUME NEW d \in added, IsOpen(d),
                        NEW x \in Reportable(d)' \ (IF d \in outbuf' THEN {} ELSE {"OUT"})
                 PROVE  d \in edge' \/ x \in revents'[d]
      BY <1>1, <2>1, <2>2 DEF EdgeForEvent, IsOpen
    <3>1. CASE d = c
      BY <2>2, <3>1
    <3>2. CASE d # c
      <4>1. d \in Conns /\ Reportable(d)' = Reportable(d) /\ (d \in outbuf' <=> d \in outbuf)
        BY <1>1, <1>5, <2>1, <2>2, <3>2 DEF IInv, TypeOK, Reportable, Level
      <4> QED
        BY <1>2, <2>2, <3>2, <4>1 DEF IInv, EdgeForEvent
    <3> QED
      BY <3>1, <3>2
  <2> QED
    BY <1>1, <2>1, <2>2, <2>3, <2>4, <2>5, <2>6, Kept DEF IInv
<1> QED
  BY <1>3, <1>4, <1>5 DEF HandleWrite

\* The functor that is called is one of temp.
LEMMA CallingRefers ==
    ASSUME IInv, NEW c \in Conns, NEW k, Calling(k, c)
    PROVE  /\ c \in accepted /\ (k = "send" => c \in added \cup closed)
           /\ called' \in 0 .. Len(temp)
<1>1. /\ called < Len(temp) /\ temp[called + 1] = F(k, {c}) /\ called' = called + 1
  BY DEF Calling
<1>2. /\ temp \in Seq(Functor) /\ called \in 0 .. Len(temp) /\ Len(temp) \in Nat
  BY LenProperties DEF IInv, TypeOK
<1>3. called + 1 \in 1 .. Len(temp) /\ called' \in 0 .. Len(temp)
  BY <1>1, <1>2
<1>4. F(k, {c}) \in Range(temp)
  BY <1>1, <1>2, <1>3, RangeEquality
<1>5. F(k, {c}).conns = {c} /\ F(k, {c}).kind = k
  BY DEF F
<1> QED
  BY <1>3, <1>4, <1>5 DEF IInv, References

\* connectEstablished() subscribes to input and starts the idle timer.
LEMMA EstablishInv == ASSUME NEW c \in Conns PROVE IInv /\ Establish(c) => IInv'
<1> SUFFICES ASSUME IInv, Establish(c) PROVE IInv'
  OBVIOUS
<1>1. /\ Register(c, interest[c] \cup {"IN"}, Level(c))
      /\ armed' = armed \cup {c} /\ late' = late \ {c}
      /\ UNCHANGED <<sent, inbox, eof, rst, room, accepted, refused, connections, count, closed,
                     input, outbuf, lpc, revents, timerDue, cur, pending, temp, tasks, worker>>
  BY DEF Establish, Calling, SetTimers, poolVars
<1>2. c \in accepted /\ called' \in 0 .. Len(temp)
  BY CallingRefers DEF Establish
<1> DEFINE mask == interest[c] \cup {"IN"}
<1>3. mask \in SUBSET {"IN", "OUT"}
  BY DEF IInv, TypeOK
<1>4. /\ added' = added \cup {c}
      /\ interest' \in [Conns -> SUBSET {"IN", "OUT"}]
      /\ interest'[c] = mask /\ \A d \in Conns \ {c} : interest'[d] = interest[d]
      /\ edge \subseteq edge' /\ edge' \subseteq Conns
      /\ Level(c) \cap (mask \cup {"ERR"}) # {} => c \in edge'
  BY <1>1, <1>3, RegisterDoes
<1>5. TypeOK'
  <2>1. armed' \subseteq Conns /\ late' \subseteq armed' /\ added' \subseteq Conns
    BY <1>1, <1>4 DEF IInv, TypeOK
  <2> QED
    BY <1>1, <1>2, <1>4, <2>1 DEF IInv, TypeOK
<1>6. References'
  <2>1. added' \cup closed' \subseteq accepted' /\ armed' \cup outbuf' \subseteq accepted'
    BY <1>1, <1>2, <1>4 DEF IInv, References
  <2>2. added \cup closed \subseteq added' \cup closed'
    BY <1>1, <1>4
  <2> QED
    BY <1>1, <2>1, <2>2 DEF IInv, References
<1>7. OpenHasTimer' /\ OutputSubscribed'
  BY <1>1, <1>4 DEF IInv, TypeOK, OpenHasTimer, OutputSubscribed, IsOpen
<1>8. EdgeForEvent'
  <2> SUFFICES ASSUME NEW d \in added \cup {c}, IsOpen(d),
                      NEW x \in Reportable(d)' \ (IF d \in outbuf THEN {} ELSE {"OUT"})
               PROVE  d \in edge' \/ x \in revents[d]
    BY <1>1, <1>4 DEF EdgeForEvent, IsOpen
  <2>1. CASE d = c
    <3>1. Reportable(c)' = Level(c) \cap (mask \cup {"ERR"})
      BY <1>1, <1>4 DEF Reportable, Level
    <3> QED
      BY <1>4, <2>1, <3>1
  <2>2. CASE d # c
    <3>1. d \in Conns /\ d \in added
      BY <2>2 DEF IInv, TypeOK
    <3>2. Reportable(d)' = Reportable(d)
      BY <1>1, <1>4, <2>2, <3>1 DEF Reportable, Level
    <3> QED
      BY <1>4, <3>1, <3>2 DEF IInv, EdgeForEvent
  <2> QED
    BY <2>1, <2>2
<1> QED
  BY <1>1, <1>5, <1>6, <1>7, <1>8, Kept DEF IInv

\* send() keeps what does not fit and subscribes to output.
LEMMA SendInv == ASSUME NEW c \in Conns PROVE IInv /\ Send(c) => IInv'
<1> SUFFICES ASSUME IInv, Send(c) PROVE IInv'
  OBVIOUS
<1>1. UNCHANGED <<sent, inbox, eof, rst, accepted, refused, input, lpc, revents, timerDue,
                  cur, temp, tasks, worker>>
  BY DEF Send, Calling, poolVars
<1>2. c \in accepted /\ c \in added \cup closed /\ called' \in 0 .. Len(temp)
  BY CallingRefers DEF Send
<1>3. CASE UNCHANGED <<room, outbuf, added, interest, edge>> /\ NoClose
  <2>1. UNCHANGED <<room, outbuf, added, interest, edge, closed, connections, count, pending,
                    armed, late>>
    BY <1>3 DEF NoClose, timerVars
  <2>2. TypeOK'
    BY <1>1, <1>2, <2>1 DEF IInv, TypeOK
  <2>3. References'
    BY <1>1, <2>1 DEF IInv, References
  <2> QED
    BY <1>1, <2>1, <2>2, <2>3, Kept DEF IInv
<1>4. CASE /\ c \notin outbuf \cup rst
           /\ room' = room \ {c} /\ outbuf' = outbuf \cup {c}
           /\ Register(c, interest[c] \cup {"OUT"}, Level(c) \ {"OUT"}) /\ NoClose
  <2> DEFINE mask == interest[c] \cup {"OUT"}
             level == Level(c) \ {"OUT"}
  <2>1. UNCHANGED <<closed, connections, count, pending, armed, late>>
    BY <1>4 DEF NoClose, timerVars
  <2>2. mask \in SUBSET {"IN", "OUT"} /\ Register(c, mask, level)
    BY <1>4 DEF IInv, TypeOK
  <2> HIDE DEF level
  <2>3. /\ added' = added \cup {c}
        /\ interest' \in [Conns -> SUBSET {"IN", "OUT"}]
        /\ interest'[c] = mask /\ \A d \in Conns \ {c} : interest'[d] = interest[d]
        /\ edge \subseteq edge' /\ edge' \subseteq Conns
        /\ level \cap (mask \cup {"ERR"}) # {} => c \in edge'
    BY <2>2, RegisterDoes
  <2>4. TypeOK'
    <3>1. added' \subseteq Conns /\ outbuf' \subseteq Conns /\ room' \subseteq Conns
      BY <1>4, <2>3 DEF IInv, TypeOK
    <3> QED
      BY <1>1, <1>2, <2>1, <2>3, <3>1 DEF IInv, TypeOK
  <2>5. References'
    <3>1. added' \cup closed' \subseteq accepted' /\ armed' \cup outbuf' \subseteq accepted'
      BY <1>1, <1>2, <1>4, <2>1, <2>3 DEF IInv, References
    <3>2. added \cup closed \subseteq added' \cup closed'
      BY <2>1, <2>3
    <3> QED
      BY <1>1, <2>1, <3>1, <3>2 DEF IInv, References
  <2>6. OpenHasTimer'
    BY <1>1, <1>2, <2>1, <2>3 DEF IInv, OpenHasTimer, IsOpen
  <2>7. OutputSubscribed'
    BY <1>1, <1>4, <2>1, <2>3 DEF IInv, TypeOK, OutputSubscribed, IsOpen
  <2>8. EdgeForEvent'
    <3> SUFFICES ASSUME NEW d \in added \cup {c}, IsOpen(d),
                        NEW x \in Reportable(d)' \ (IF d \in outbuf' THEN {} ELSE {"OUT"})
                 PROVE  d \in edge' \/ x \in revents[d]
      BY <1>1, <2>1, <2>3 DEF EdgeForEvent, IsOpen
    <3>1. CASE d = c
      <4>1. Level(c)' = level
        BY <1>1, <1>4 DEF Level, level
      <4>2. Reportable(c)' = level \cap (mask \cup {"ERR"})
        BY <2>3, <4>1 DEF Reportable
      <4> QED
        BY <2>3, <3>1, <4>2
    <3>2. CASE d # c
      <4>1. d \in Conns /\ d \in added /\ (d \in outbuf' <=> d \in outbuf)
        BY <1>4, <3>2 DEF IInv, TypeOK
      <4>2. Reportable(d)' = Reportable(d)
        BY <1>1, <1>4, <2>3, <3>2, <4>1 DEF Reportable, Level
      <4> QED
        BY <2>3, <4>1, <4>2 DEF IInv, EdgeForEvent
    <3> QED
      BY <3>1, <3>2
  <2> QED
    BY <1>1, <2>1, <2>4, <2>5, <2>6, <2>7, <2>8, Kept DEF IInv
<1>5. CASE /\ HandleClose({c}, <<>>) /\ SetTimers({}, {c} \ closed)
           /\ UNCHANGED <<room, outbuf>>
  <2>1. /\ (IsFiniteSet(connections) /\ CountIsOpen)'
        /\ count' \in Int /\ connections' \subseteq Conns /\ closed' \subseteq Conns
        /\ added' \subseteq Conns /\ edge' \subseteq Conns /\ pending' \in Seq(Functor)
        /\ interest' \in [Conns -> SUBSET {"IN", "OUT"}]
        /\ \A d \in accepted' \ closed' :
              /\ IsOpen(d) /\ d \notin {c} /\ interest'[d] = interest[d]
              /\ d \in added' => d \in added
              /\ d \in edge => d \in edge'
        /\ added \cup closed \subseteq added' \cup closed' /\ added' \cup closed' \subseteq accepted
        /\ \A f \in Range(pending') :
              /\ f.conns \subseteq accepted
              /\ f.kind = "send" => f.conns \subseteq added' \cup closed'
    BY <1>1, <1>2, <1>5, NothingQueued, ClosingKeeps
  <2>2. /\ armed' = armed \ ({c} \ closed) /\ late' = late \ ({c} \ closed)
    BY <1>5 DEF SetTimers
  <2>3. TypeOK'
    <3>1. armed' \subseteq Conns /\ late' \subseteq armed'
      BY <2>2 DEF IInv, TypeOK
    <3> QED
      BY <1>1, <1>2, <1>5, <2>1, <3>1 DEF IInv, TypeOK
  <2>4. References'
    BY <1>1, <1>5, <2>1, <2>2 DEF IInv, References
  <2>5. OpenHasTimer' /\ OutputSubscribed'
    BY <1>5, <2>1, <2>2 DEF IInv, OpenHasTimer, OutputSubscribed, IsOpen
  <2>6. EdgeForEvent'
    BY <1>1, <1>5, <2>1 DEF IInv, EdgeForEvent, IsOpen, Reportable, Level
  <2> QED
    BY <2>1, <2>3, <2>4, <2>5, <2>6 DEF IInv
<1> QED
  BY <1>3, <1>4, <1>5 DEF Send

-------------------------------------------------------------------------------
(* The theorems. *)

LEMMA StepInv == IInv /\ [Next]_vars => IInv'
<1> SUFFICES ASSUME IInv, [Next]_vars PROVE IInv'
  OBVIOUS
<1>1. CASE LoopStep
  <2>1. CASE Poll \/ HandleTimers \/ Swap \/ Guard \/ FunctorsDone
    BY <2>1, PollInv, HandleTimersInv, SwapInv, GuardInv, FunctorsDoneInv
  <2>2. ASSUME NEW c \in Conns, Handler(c) \/ Establish(c) \/ Send(c) PROVE IInv'
    BY <2>2, HandleReadInv, HandleWriteInv, HandleErrorInv, HandleDanglingInv, EstablishInv, SendInv
       DEF Handler
  <2> QED
    BY <1>1, <2>1, <2>2 DEF LoopStep
<1>2. ASSUME NEW w \in Workers, Work(w) PROVE IInv'
  BY <1>2, WorkInv
<1>3. ASSUME NEW c \in Conns, Accept(c) \/ Refuse(c) \/ Peer(c) \/ TimePasses(c) PROVE IInv'
  BY <1>3, AcceptInv, RefuseInv, PeerInv, TimePassesInv
<1>4. CASE UNCHANGED vars
  <2>1. UNCHANGED <<sent, inbox, eof, rst, room, edge, accepted, refused, connections, count,
                    closed, added, interest, input, outbuf, armed, late, lpc, revents, timerDue,
                    cur, temp, called, pending, tasks, worker>>
    BY <1>4 DEF vars, peerVars, serverVars, connVars, timerVars, loopVars, poolVars
  <2>2. TypeOK'
    BY <2>1 DEF IInv, TypeOK
  <2>3. References'
    BY <2>1 DEF IInv, References
  <2> QED
    BY <2>1, <2>2, <2>3, Kept DEF IInv
<1> QED
  BY <1>1, <1>2, <1>3, <1>4 DEF Next

\* Every reachable state satisfies the inductive invariant.
THEOREM Invariance == Spec => []IInv
BY InitInv, StepInv, PTL DEF Spec

\* Every variable keeps the range its C++ type and its uses give it, in
\* particular no more input is waiting than the peer has sent.
THEOREM TypeCorrect == Spec => []TypeOK
<1>1. IInv => TypeOK
  BY DEF IInv
<1> QED
  BY <1>1, Invariance, PTL

\* connectionCount_ is the number of the open connections, which are the ones
\* the server holds, and never exceeds maxConnections_, however many closers race.
THEOREM CountIsExact == Spec => []CountIsOpen
<1>1. IInv => CountIsOpen
  BY DEF IInv
<1> QED
  BY <1>1, Invariance, PTL

\* No established connection is left without its idle timer.
THEOREM NoOpenWithoutTimer == Spec => []OpenHasTimer
<1>1. IInv => OpenHasTimer
  BY DEF IInv
<1> QED
  BY <1>1, Invariance, PTL

\* Output that waits is subscribed to EPOLLOUT, so handleWrite() will be called.
THEOREM WaitingOutputIsWatched == Spec => []OutputSubscribed
<1>1. IInv => OutputSubscribed
  BY DEF IInv
<1> QED
  BY <1>1, Invariance, PTL

\* Edge-triggered epoll loses no edge of an open connection: unread input, an end
\* of file and room for waiting output are on the ready list or reported already.
THEOREM NoEdgeIsLost == Spec => []NoLostEdge
<1>1. IInv => NoLostEdge
  <2> SUFFICES ASSUME IInv, NEW c \in added, IsOpen(c),
                      NEW e \in Reportable(c) \ (IF c \in outbuf THEN {} ELSE {"OUT"})
               PROVE  c \in edge \/ revents[c] # {}
    BY DEF NoLostEdge
  <2>1. c \in edge \/ e \in revents[c]
    BY DEF IInv, EdgeForEvent
  <2> QED
    BY <2>1
<1> QED
  BY <1>1, Invariance, PTL

-------------------------------------------------------------------------------
(* The refinement of ConnectionContract. *)

StageFacts ==
    /\ Stage \in [Conns -> {"new", "refused", "open", "closing", "released"}]
    /\ \A c \in Conns :
          /\ Stage[c] = "new"     <=> c \notin accepted \cup refused
          /\ Stage[c] = "refused" <=> c \in refused
          /\ Stage[c] = "open"    <=> IsOpen(c)
          /\ Stage[c] = "closing" <=> c \in closed /\ Held(c)
          /\ c \in closed /\ ~Held(c) => Stage[c] = "released"

\* The arms of Stage exclude each other.
LEMMA StageCases == IInv => StageFacts
<1> SUFFICES ASSUME IInv PROVE StageFacts
  OBVIOUS
<1>1. accepted \cap refused = {} /\ closed \subseteq accepted
  BY DEF IInv, References
<1>2. ASSUME NEW c \in Conns
      PROVE  /\ Stage[c] \in {"new", "refused", "open", "closing", "released"}
             /\ Stage[c] = "new"     <=> c \notin accepted \cup refused
             /\ Stage[c] = "refused" <=> c \in refused
             /\ Stage[c] = "open"    <=> IsOpen(c)
             /\ Stage[c] = "closing" <=> c \in closed /\ Held(c)
             /\ c \in closed /\ ~Held(c) => Stage[c] = "released"
  <2>1. CASE c \in refused
    BY <1>1, <2>1 DEF Stage, IsOpen
  <2>2. CASE c \notin accepted \cup refused
    BY <1>1, <2>2 DEF Stage, IsOpen
  <2>3. CASE c \in accepted \ closed
    BY <1>1, <2>3 DEF Stage, IsOpen
  <2>4. CASE c \in closed
    BY <1>1, <2>4 DEF Stage, IsOpen
  <2> QED
    BY <2>1, <2>2, <2>3, <2>4
<1>3. Stage = [c \in Conns |-> Stage[c]]
  BY DEF Stage
<1> QED
  BY <1>2, <1>3 DEF StageFacts

LEMMA StageCasesNext == IInv' => StageFacts'
BY StageCases, PTL

\* The contract counts as the server does.
LEMMA SameCount == Contract!Cardinality(Contract!Open) = Cardinality(Contract!Open)
BY DEF Cardinality, Contract!Cardinality

\* The open connections of the contract are those connectionCount_ counts.
LEMMA OpenIsCounted == ASSUME IInv PROVE Contract!Open = connections /\ Cardinality(Contract!Open) = count
BY StageCases DEF StageFacts, Contract!Open, IInv, TypeOK, CountIsOpen, IsOpen

\* What is closed is held on, and what has been let go stays so.
Closes ==
    /\ closed \subseteq closed' /\ \A c \in closed' \ closed : Held(c)'
    /\ \A c \in closed : Held(c)' => Held(c)

\* A step that opens and refuses nothing.
OpensNone ==
    /\ UNCHANGED <<accepted, refused>>
    /\ lpc' = lpc \/ (lpc # "undefined" /\ lpc' # "undefined")

\* It closes open connections and lets closed ones go.
LEMMA SettleStep ==
    ASSUME IInv, IInv', OpensNone, Closes
    PROVE  Contract!Next \/ UNCHANGED Contract!vars
<1> USE DEF OpensNone, Closes
<1> DEFINE S == closed' \ closed
           R == {c \in closed : Held(c) /\ ~Held(c)'}
<1>1. StageFacts /\ StageFacts'
  BY StageCases, StageCasesNext
<1>2. closed' \subseteq accepted /\ accepted \subseteq Conns /\ accepted \cap refused = {}
  BY DEF IInv, References, TypeOK
<1>3. S \in SUBSET Contract!Open
  BY <1>1, <1>2 DEF Contract!Open, StageFacts, IsOpen
<1>4. R \in SUBSET {c \in Conns : Stage[c] = "closing"}
  BY <1>1, <1>2 DEF StageFacts
<1>5. Stage' = [c \in Conns |-> IF c \in S THEN "closing" ELSE IF c \in R THEN "released" ELSE Stage[c]]
  <2>1. ASSUME NEW c \in Conns
        PROVE  Stage'[c] = IF c \in S THEN "closing" ELSE IF c \in R THEN "released" ELSE Stage[c]
    <3>1. CASE c \in S
      BY <1>1, <3>1 DEF StageFacts
    <3>2. CASE c \in R
      BY <1>1, <3>2 DEF StageFacts
    <3>3. CASE c \in closed \ R
      <4>1. Held(c) <=> Held(c)'
        BY <3>3
      <4> QED
        BY <1>1, <3>3, <4>1 DEF StageFacts
    <3>4. CASE c \notin closed'
      <4>1. c \notin closed /\ c \notin S /\ c \notin R
        BY <3>4
      <4> QED
        BY <1>1, <3>4, <4>1 DEF StageFacts, IsOpen
    <3> QED
      BY <3>1, <3>2, <3>3, <3>4
  <2>2. Stage' = [c \in Conns |-> Stage'[c]]
    BY <1>1 DEF StageFacts
  <2> HIDE DEF S, R
  <2> QED
    BY <2>1, <2>2
<1>6. (lpc' = "undefined") = (lpc = "undefined")
  <2>1. CASE lpc' = lpc
    BY <2>1
  <2>2. CASE lpc # "undefined" /\ lpc' # "undefined"
    BY <2>2
  <2> QED
    BY <2>1, <2>2
<1>7. CASE S \cup R = {}
  <2>1. Stage' = Stage
    BY <1>1, <1>5, <1>7 DEF StageFacts
  <2> QED
    BY <1>6, <2>1 DEF Contract!vars
<1>8. CASE S \cup R # {}
  <2> HIDE DEF S, R
  <2>1. Contract!Settle
    BY <1>3, <1>4, <1>5, <1>6, <1>8 DEF Contract!Settle
  <2> QED
    BY <2>1 DEF Contract!Next
<1> QED
  BY <1>7, <1>8

\* Who is held after a step was held before, if every reference the step adds is
\* to a connection that was.
LEMMA HeldBefore ==
    ASSUME NEW c, Held(c)',
           c \in connections' => Held(c), c \in armed' => Held(c),
           \A f \in Range(pending') \cup Range(temp') : c \in f.conns => Held(c),
           c \in Range(tasks') => Held(c),
           \A w \in Workers : worker'[w].conn = c => Held(c)
    PROVE  Held(c)
BY DEF Held

\* handleClose() queues a guard that holds what it closes.
LEMMA ClosingSettles ==
    ASSUME IInv, NEW S \in SUBSET accepted, NEW queued \in Seq(Functor),
           HandleClose(S, queued), UNCHANGED <<temp, worker>>,
           \A f \in Range(queued) : \A c \in f.conns : Held(c),
           \A c \in armed' : Held(c), \A c \in Range(tasks') : Held(c)
    PROVE  Closes
<1> DEFINE first == S \ closed
           g == F("guard", first)
<1>1. /\ closed' = closed \cup first /\ connections' = accepted \ closed'
      /\ Range(pending') = Range(pending) \cup Range(queued)
                             \cup (IF first = {} THEN {} ELSE {g})
  BY HandleCloseDoes
<1>2. g.conns = first
  BY DEF F
<1>3. ASSUME NEW c \in first PROVE Held(c)'
  <2> HIDE DEF g
  <2>1. first # {} /\ g \in Range(pending') /\ c \in g.conns
    BY <1>1, <1>2, <1>3
  <2> QED
    BY <2>1 DEF Held
<1>4. ASSUME NEW c \in closed, Held(c)' PROVE Held(c)
  <2> HIDE DEF g
  <2>1. c \notin connections' /\ c \notin g.conns
    BY <1>1, <1>2
  <2>2. ASSUME NEW f \in Range(pending') \cup Range(temp'), c \in f.conns PROVE Held(c)
    <3>1. CASE f \in Range(pending) \cup Range(temp)
      BY <2>2, <3>1 DEF Held
    <3>2. CASE f \in Range(queued)
      BY <2>2, <3>2
    <3>3. f # g
      BY <2>1, <2>2
    <3> QED
      BY <1>1, <3>1, <3>2, <3>3
  <2>3. \A w \in Workers : worker'[w].conn = c => Held(c)
    BY DEF Held
  <2> QED
    BY <1>4, <2>1, <2>2, <2>3, HeldBefore
<1> QED
  BY <1>1, <1>3, <1>4 DEF Closes

\* A step that closes nothing and keeps every reference or drops some.
LEMMA DroppingSettles ==
    ASSUME connections' \subseteq connections, \A c \in armed' : Held(c),
           \A f \in Range(pending') \cup Range(temp') : \A c \in f.conns : Held(c),
           \A c \in Range(tasks') : Held(c),
           \A w \in Workers : \A c \in Conns : worker'[w].conn = c => Held(c),
           closed' = closed, closed \subseteq Conns
    PROVE  Closes
<1>1. ASSUME NEW c \in closed, Held(c)' PROVE Held(c)
  <2>1. (c \in connections' => Held(c)) /\ (c \in armed' => Held(c))
    BY DEF Held
  <2> QED
    BY <1>1, <2>1, HeldBefore
<1> QED
  BY <1>1 DEF Closes

LEMMA HeldByReference ==
    /\ \A c \in connections \cup armed \cup Range(tasks) : Held(c)
    /\ \A f \in Range(pending) \cup Range(temp) : \A c \in f.conns : Held(c)
    /\ \A w \in Workers : Held(worker[w].conn)
BY DEF Held

LEMMA QuietSettles ==
    ASSUME IInv, Poll \/ Swap \/ Guard \/ FunctorsDone
                   \/ \E c \in Conns : Peer(c) \/ TimePasses(c) \/ Establish(c)
    PROVE  OpensNone /\ Closes
<1> USE DEF peerVars, serverVars, connVars, timerVars, loopVars, poolVars
<1>1. UNCHANGED <<accepted, refused, connections, closed, tasks, worker>>
  BY DEF Poll, Swap, Guard, FunctorsDone, Peer, TimePasses, Establish, Calling
<1>2. lpc' = lpc \/ (lpc # "undefined" /\ lpc' # "undefined")
  BY DEF Poll, Swap, Guard, FunctorsDone, Peer, TimePasses, Establish, Calling
<1>3. Range(<<>>) = {}
  BY NothingQueued
<1>4. Range(pending') \cup Range(temp') \subseteq Range(pending) \cup Range(temp)
  BY <1>3 DEF Poll, Swap, Guard, FunctorsDone, Peer, TimePasses, Establish, Calling
<1>5. \A c \in armed' : Held(c)
  <2>1. CASE armed' = armed
    BY <2>1, HeldByReference
  <2>2. ASSUME NEW c \in Conns, Establish(c) PROVE Held(c) /\ armed' = armed \cup {c}
    <3>1. armed' = armed \cup {c}
      BY <2>2 DEF Establish, SetTimers
    <3>2. /\ called < Len(temp) /\ temp[called + 1] = F("establish", {c})
      BY <2>2 DEF Establish, Calling
    <3>3. /\ temp \in Seq(Functor) /\ called \in 0 .. Len(temp) /\ Len(temp) \in Nat
      BY LenProperties DEF IInv, TypeOK
    <3>4. F("establish", {c}) \in Range(temp)
      <4>1. called + 1 \in 1 .. Len(temp)
        BY <3>2, <3>3
      <4> QED
        BY <3>2, <3>3, <4>1, RangeEquality
    <3>5. F("establish", {c}).conns = {c}
      BY DEF F
    <3> QED
      BY <3>1, <3>4, <3>5 DEF Held
  <2>3. armed' = armed \/ \E c \in Conns : Establish(c)
    BY DEF Poll, Swap, Guard, FunctorsDone, Peer, TimePasses
  <2> QED
    BY <2>1, <2>2, <2>3, HeldByReference
<1>6. closed \subseteq Conns
  BY DEF IInv, TypeOK
<1>7. Closes
  <2>1. /\ \A f \in Range(pending') \cup Range(temp') : \A c \in f.conns : Held(c)
        /\ \A c \in Range(tasks') : Held(c)
        /\ \A w \in Workers : \A c \in Conns : worker'[w].conn = c => Held(c)
    BY <1>1, <1>4, HeldByReference
  <2> QED
    BY <1>1, <1>5, <1>6, <2>1, DroppingSettles
<1> QED
  BY <1>1, <1>2, <1>7 DEF OpensNone

LEMMA WorkSettles == ASSUME IInv, NEW w \in Workers, Work(w) PROVE OpensNone /\ Closes
<1> USE DEF peerVars, serverVars, connVars, timerVars, loopVars
<1>1. UNCHANGED <<accepted, refused, connections, closed, armed, temp, lpc>>
  BY DEF Work, TakeTask, Respond, DropTask, WorkerStep
<1>2. /\ pending \in Seq(Functor) /\ tasks \in Seq(Conns) /\ closed \subseteq Conns
      /\ worker \in [Workers -> [phase : {"idle", "run", "done"}, conn : Conns \cup {None}]]
  BY DEF IInv, TypeOK
<1>3. /\ \A f \in Range(pending') : \A c \in f.conns : Held(c)
      /\ \A c \in Range(tasks') : Held(c)
      /\ \A v \in Workers : \A c \in Conns : worker'[v].conn = c => Held(c)
  <2>1. CASE TakeTask(w)
    <3>1. /\ tasks # <<>> /\ tasks' = Tail(tasks) /\ pending' = pending
          /\ worker' = [worker EXCEPT ![w] = [phase |-> "run", conn |-> Head(tasks)]]
      BY <2>1 DEF TakeTask, WorkerStep
    <3>2. Range(tasks) = Range(Tail(tasks)) \cup {Head(tasks)}
      BY <1>2, <3>1, RangeTaken
    <3>3. \A c \in Range(Tail(tasks)) \cup {Head(tasks)} : Held(c)
      BY <3>2, HeldByReference
    <3>4. \A v \in Workers : worker'[v].conn = IF v = w THEN Head(tasks) ELSE worker[v].conn
      BY <1>2, <3>1
    <3> QED
      BY <3>1, <3>3, <3>4, HeldByReference
  <2>2. CASE Respond(w)
    <3> DEFINE g == F("send", {worker[w].conn})
    <3>1. /\ worker[w].phase = "run" /\ tasks' = tasks /\ pending' = Append(pending, g)
          /\ worker' = [worker EXCEPT ![w] = [phase |-> "done", conn |-> worker[w].conn]]
      BY <2>2 DEF Respond, WorkerStep
    <3>2. worker[w].conn \in Conns
      BY <3>1 DEF IInv, TypeOK, References
    <3>3. g \in Functor /\ g.conns = {worker[w].conn}
      BY <3>2 DEF F, Functor
    <3> HIDE DEF g
    <3>4. Range(Append(pending, g)) = Range(pending) \cup {g}
      BY <1>2, <3>3, FunctorQueued, Zenon
    <3>5. \A v \in Workers : worker'[v].conn = worker[v].conn
      BY <1>2, <3>1
    <3>6. \A f \in Range(pending') : \A c \in f.conns : Held(c)
      BY <3>1, <3>3, <3>4, HeldByReference
    <3> QED
      BY <3>1, <3>5, <3>6, HeldByReference
  <2>3. CASE DropTask(w)
    <3>1. /\ tasks' = tasks /\ pending' = pending
          /\ worker' = [worker EXCEPT ![w] = [phase |-> "idle", conn |-> None]]
      BY <2>3 DEF DropTask, WorkerStep
    <3>2. \A v \in Workers : worker'[v].conn = IF v = w THEN None ELSE worker[v].conn
      BY <1>2, <3>1
    <3> QED
      BY <3>1, <3>2, HeldByReference, ConnsAssumption
  <2> QED
    BY <2>1, <2>2, <2>3 DEF Work
<1>4. Closes
  <2>1. \A f \in Range(pending') \cup Range(temp') : \A c \in f.conns : Held(c)
    BY <1>1, <1>3, HeldByReference
  <2>2. \A c \in armed' : Held(c)
    BY <1>1, HeldByReference
  <2> QED
    BY <1>1, <1>2, <1>3, <2>1, <2>2, DroppingSettles
<1> QED
  BY <1>1, <1>4 DEF OpensNone

\* A callback that closes one connection or none at all, and has no request.
LEMMA CloserSettles ==
    ASSUME IInv, NEW S \in SUBSET accepted, UNCHANGED <<accepted, refused, lpc, temp, worker, tasks>>,
           armed' \subseteq armed,
           HandleClose(S, <<>>) \/ UNCHANGED <<closed, connections, pending>>
    PROVE  OpensNone /\ Closes
<1>1. CASE HandleClose(S, <<>>)
  <2>1. /\ \A c \in armed' : Held(c)
        /\ \A c \in Range(tasks') : Held(c)
        /\ \A f \in Range(<<>>) : \A c \in f.conns : Held(c)
    BY HeldByReference, NothingQueued
  <2> QED
    BY <1>1, <2>1, NothingQueued, ClosingSettles DEF OpensNone
<1>2. CASE UNCHANGED <<closed, connections, pending>>
  <2>1. /\ \A f \in Range(pending') \cup Range(temp') : \A c \in f.conns : Held(c)
        /\ \A c \in Range(tasks') : Held(c)
        /\ \A c \in armed' : Held(c)
        /\ \A w \in Workers : \A c \in Conns : worker'[w].conn = c => Held(c)
    BY <1>2, HeldByReference
  <2>2. closed \subseteq Conns
    BY DEF IInv, TypeOK
  <2> QED
    BY <1>2, <2>1, <2>2, DroppingSettles DEF OpensNone
<1> QED
  BY <1>1, <1>2

LEMMA HandleReadSettles ==
    ASSUME IInv, NEW c \in Conns, HandleRead(c) PROVE OpensNone /\ Closes
<1>1. PICK outcome \in {"nothing", "incomplete", "bad", "unsupported", "complete"} :
         LET S == IF outcome = "bad" THEN {c} ELSE Ended(c) IN
         /\ tasks' = IF outcome = "complete" THEN Append(tasks, c) ELSE tasks
         /\ HandleClose(S, IF outcome \in {"bad", "unsupported"}
                           THEN <<F("send", {c})>> ELSE <<>>)
         /\ SetTimers(IF outcome = "complete" THEN {c} ELSE {}, S \ closed)
  BY DEF HandleRead
<1> DEFINE S == IF outcome = "bad" THEN {c} ELSE Ended(c)
           g == F("send", {c})
           queued == IF outcome \in {"bad", "unsupported"} THEN <<g>> ELSE <<>>
<1>2. /\ Alive(c) /\ HandleClose(S, queued) /\ armed' \subseteq armed \cup {c}
      /\ UNCHANGED <<accepted, refused, lpc, temp, worker>>
  BY <1>1 DEF HandleRead, Handling, SetTimers
<1>3. Held(c) /\ c \in accepted
  BY <1>2 DEF Alive
<1>4. S \in SUBSET accepted
  BY <1>3 DEF Ended
<1>5. queued \in Seq(Functor) /\ \A f \in Range(queued) : \A d \in f.conns : Held(d)
  <2>1. g \in Functor /\ g.conns = {c}
    BY DEF F, Functor
  <2> HIDE DEF g
  <2>2. Range(<<g>>) = {g} /\ <<g>> \in Seq(Functor)
    BY <2>1 DEF Range
  <2>3. queued = <<>> \/ queued = <<g>>
    BY Zenon
  <2> HIDE DEF queued
  <2>4. CASE queued = <<>>
    BY <2>4, NothingQueued
  <2>5. CASE queued = <<g>>
    BY <1>3, <2>1, <2>2, <2>5
  <2> QED
    BY <2>3, <2>4, <2>5
<1>6. \A d \in armed' : Held(d)
  BY <1>2, <1>3, HeldByReference
<1>7. \A d \in Range(tasks') : Held(d)
  <2>1. tasks \in Seq(Conns)
    BY DEF IInv, TypeOK
  <2>2. Range(Append(tasks, c)) = Range(tasks) \cup {c}
    BY <2>1, RangeAppended
  <2> QED
    BY <1>1, <1>3, <2>2, HeldByReference
<1> HIDE DEF S, queued
<1> QED
  BY <1>2, <1>4, <1>5, <1>6, <1>7, ClosingSettles DEF OpensNone

LEMMA CallbackSettles ==
    ASSUME IInv, HandleTimers \/ \E c \in Conns : HandleWrite(c) \/ HandleError(c) \/ Send(c)
    PROVE  OpensNone /\ Closes
<1> USE DEF peerVars, serverVars, connVars, timerVars, loopVars, poolVars
<1>1. CASE HandleTimers
  <2>1. late \in SUBSET accepted
    BY DEF IInv, TypeOK, References
  <2>2. /\ HandleClose(late, <<>>) /\ armed' \subseteq armed
        /\ UNCHANGED <<accepted, refused, lpc, temp, worker, tasks>>
    BY <1>1 DEF HandleTimers, SetTimers
  <2> QED
    BY <2>1, <2>2, CloserSettles
<1>2. ASSUME NEW c \in Conns, HandleWrite(c) \/ HandleError(c) \/ Send(c)
      PROVE  OpensNone /\ Closes
  <2>1. {c} \in SUBSET accepted
    BY <1>2, CallingRefers DEF HandleWrite, HandleError, Send, Handling, Alive
  <2>2. UNCHANGED <<accepted, refused, lpc, temp, worker, tasks>>
    BY <1>2 DEF HandleWrite, HandleError, Send, Calling
  <2>3. \/ HandleClose({c}, <<>>) /\ SetTimers({}, {c} \ closed)
        \/ NoClose
    BY <1>2 DEF HandleWrite, HandleError, Send
  <2>4. armed' \subseteq armed /\ (HandleClose({c}, <<>>) \/ UNCHANGED <<closed, connections, pending>>)
    BY <2>3 DEF SetTimers, NoClose
  <2> QED
    BY <2>1, <2>2, <2>4, CloserSettles
<1> QED
  BY <1>1, <1>2

\* accept() opens a connection, or refuses it when maxConnections_ are open.
LEMMA ArrivalMoves ==
    ASSUME IInv, IInv', NEW c \in Conns, Accept(c) \/ Refuse(c)
    PROVE  Contract!Next
<1> USE DEF peerVars, connVars, timerVars, loopVars, poolVars
<1>1. /\ c \notin accepted \cup refused
      /\ UNCHANGED <<closed, armed, temp, tasks, worker, lpc>>
  BY DEF Accept, Refuse, Arrives
<1>2. StageFacts /\ StageFacts'
  BY StageCases, StageCasesNext
<1>3. Cardinality(Contract!Open) = count /\ count =< MaxConns /\ count \in Int /\ MaxConns \in Nat
  BY OpenIsCounted, LimitAssumption DEF IInv, CountIsOpen, TypeOK
<1>4. c \notin closed /\ closed \subseteq accepted /\ accepted \subseteq Conns
  BY <1>1 DEF IInv, References, TypeOK
<1>5. ASSUME NEW to, Stage'[c] = to,
             \A d \in Conns \ {c} : (d \in accepted' <=> d \in accepted)
                                    /\ (d \in refused' <=> d \in refused)
                                    /\ (Held(d)' <=> Held(d))
      PROVE  Stage' = [Stage EXCEPT ![c] = to]
  <2>1. ASSUME NEW d \in Conns \ {c} PROVE Stage'[d] = Stage[d]
    <3>1. CASE d \in closed /\ ~Held(d)
      BY <1>1, <1>2, <1>5, <3>1 DEF StageFacts
    <3>2. CASE d \in closed /\ Held(d)
      BY <1>1, <1>2, <1>5, <3>2 DEF StageFacts
    <3>3. CASE d \in accepted \ closed
      BY <1>1, <1>2, <1>5, <3>3 DEF StageFacts, IsOpen
    <3>4. CASE d \notin accepted /\ d \in refused
      BY <1>2, <1>5, <3>4 DEF StageFacts
    <3>5. CASE d \notin accepted /\ d \notin refused
      BY <1>2, <1>5, <3>5 DEF StageFacts
    <3> QED
      BY <1>4, <3>1, <3>2, <3>3, <3>4, <3>5
  <2>2. Stage \in [Conns -> {"new", "refused", "open", "closing", "released"}]
        /\ Stage' \in [Conns -> {"new", "refused", "open", "closing", "released"}]
    BY <1>2 DEF StageFacts
  <2> QED
    BY <1>5, <2>1, <2>2
<1>6. (lpc' = "undefined") = (lpc = "undefined")
  BY <1>1
<1>7. Stage[c] = "new"
  BY <1>1, <1>2 DEF StageFacts
<1>8. CASE Accept(c)
  <2> DEFINE g == F("establish", {c})
  <2>1. /\ count < MaxConns /\ accepted' = accepted \cup {c} /\ refused' = refused
        /\ connections' = connections \cup {c} /\ pending' = Append(pending, g)
    BY <1>8 DEF Accept
  <2>2. g \in Functor /\ g.conns = {c} /\ pending \in Seq(Functor)
    BY DEF F, Functor, IInv, TypeOK
  <2> HIDE DEF g
  <2>3. Range(Append(pending, g)) = Range(pending) \cup {g}
    BY <2>2, FunctorQueued, Zenon
  <2>4. \A d \in Conns \ {c} : Held(d)' <=> Held(d)
    <3> SUFFICES ASSUME NEW d \in Conns \ {c} PROVE Held(d)' <=> Held(d)
      OBVIOUS
    <3>1. d \notin g.conns
      BY <2>2
    <3>2. (\E f \in Range(pending') \cup Range(temp') : d \in f.conns)
            <=> (\E f \in Range(pending) \cup Range(temp) : d \in f.conns)
      BY <1>1, <2>1, <2>3, <3>1
    <3> QED
      BY <1>1, <2>1, <3>2 DEF Held
  <2>5. Stage'[c] = "open"
    BY <1>1, <1>2, <1>4, <2>1 DEF StageFacts, IsOpen
  <2>6. Stage' = [Stage EXCEPT ![c] = "open"]
    BY <1>5, <2>1, <2>4, <2>5
  <2>7. Contract!Move(c, "new", "open")
    BY <1>6, <1>7, <2>6, Zenon DEF Contract!Move
  <2>8. Cardinality(Contract!Open) < MaxConns
    BY <1>3, <2>1
  <2>9. Contract!Accept(c)
    BY <2>7, <2>8, SameCount DEF Contract!Accept
  <2> QED
    BY <2>9 DEF Contract!Next
<1>9. CASE Refuse(c)
  <2>1. /\ count >= MaxConns /\ refused' = refused \cup {c} /\ accepted' = accepted
        /\ connections' = connections /\ pending' = pending
    BY <1>9 DEF Refuse
  <2>2. \A d \in Conns : Held(d)' <=> Held(d)
    BY <1>1, <2>1 DEF Held
  <2>3. Stage'[c] = "refused"
    BY <1>2, <2>1 DEF StageFacts
  <2>4. Stage' = [Stage EXCEPT ![c] = "refused"]
    BY <1>5, <2>1, <2>2, <2>3
  <2>5. Contract!Move(c, "new", "refused")
    BY <1>6, <1>7, <2>4, Zenon DEF Contract!Move
  <2>6. Cardinality(Contract!Open) = MaxConns
    BY <1>3, <2>1
  <2>7. Contract!Refuse(c)
    BY <2>5, <2>6, SameCount DEF Contract!Refuse
  <2> QED
    BY <2>7 DEF Contract!Next
<1> QED
  BY <1>8, <1>9

LEMMA StageUnchanged ==
    UNCHANGED <<accepted, refused, connections, closed, armed, pending, temp, tasks, worker>>
      => Stage' = Stage
<1> SUFFICES ASSUME UNCHANGED <<accepted, refused, connections, closed, armed, pending, temp,
                                tasks, worker>>
             PROVE  Stage' = Stage
  OBVIOUS
<1>1. \A c : (Held(c)' <=> Held(c)) /\ (IsOpen(c)' <=> IsOpen(c))
  BY DEF Held, IsOpen
<1> QED
  BY <1>1 DEF Stage

LEMMA StepRefines == IInv /\ IInv' /\ [Next]_vars => [Contract!Next]_(Contract!vars)
<1> SUFFICES ASSUME IInv, IInv', [Next]_vars
             PROVE  Contract!Next \/ UNCHANGED Contract!vars
  OBVIOUS
<1>1. CASE OpensNone /\ Closes
  BY <1>1, SettleStep
<1>2. ASSUME NEW c \in Conns, HandleDangling(c) PROVE Contract!Next
  <2>1. /\ lpc = "events" /\ lpc' = "undefined"
        /\ UNCHANGED <<accepted, refused, connections, closed, armed, pending, temp, tasks, worker>>
    BY <1>2 DEF HandleDangling, serverVars, connVars, timerVars, poolVars
  <2>2. Stage' = Stage
    BY <2>1, StageUnchanged
  <2>3. (lpc = "undefined") = FALSE /\ (lpc' = "undefined") = TRUE
    BY <2>1
  <2>4. Contract!Die
    BY <2>1, <2>2, <2>3 DEF Contract!Die
  <2> QED
    BY <2>4 DEF Contract!Next
<1>3. CASE LoopStep
  <2>1. ASSUME NEW c \in Conns, Handler(c) \/ Establish(c) \/ Send(c)
        PROVE  (OpensNone /\ Closes) \/ HandleDangling(c)
    BY <2>1, HandleReadSettles, CallbackSettles, QuietSettles DEF Handler
  <2>2. CASE Poll \/ HandleTimers \/ Swap \/ Guard \/ FunctorsDone
    BY <1>1, <2>2, QuietSettles, CallbackSettles
  <2> QED
    BY <1>1, <1>2, <1>3, <2>1, <2>2 DEF LoopStep
<1>4. ASSUME NEW w \in Workers, Work(w) PROVE OpensNone /\ Closes
  BY <1>4, WorkSettles
<1>5. ASSUME NEW c \in Conns, Accept(c) \/ Refuse(c) \/ Peer(c) \/ TimePasses(c)
      PROVE  Contract!Next \/ (OpensNone /\ Closes)
  BY <1>5, ArrivalMoves, QuietSettles
<1>6. CASE UNCHANGED vars
  <2>1. UNCHANGED <<accepted, refused, connections, closed, armed, pending, temp, tasks, worker,
                    lpc>>
    BY <1>6 DEF vars, serverVars, connVars, timerVars, loopVars, poolVars
  <2>2. Stage' = Stage
    BY <2>1, StageUnchanged
  <2>3. (lpc' = "undefined") = (lpc = "undefined")
    BY <2>1
  <2> QED
    BY <2>2, <2>3 DEF Contract!vars
<1> QED
  BY <1>1, <1>3, <1>4, <1>5, <1>6 DEF Next

LEMMA InitRefines == Init => Contract!Init
<1> SUFFICES ASSUME Init PROVE Contract!Init
  OBVIOUS
<1>1. Stage = [c \in Conns |-> "new"]
  <2>1. accepted = {} /\ refused = {} /\ closed = {}
    BY DEF Init
  <2> QED
    BY <2>1 DEF Stage, IsOpen
<1>2. (lpc = "undefined") = FALSE
  BY DEF Init
<1> QED
  BY <1>1, <1>2 DEF Contract!Init

\* Accepting, serving and closing a connection is what ConnectionContract says:
\* none is refused below the limit, opened above it or released while it is open,
\* whatever the interleaving of the loop, the acceptor, the workers and the peers.
THEOREM Refinement == Spec => ImplementsContractSafely
<1>1. Spec => Contract!Init /\ [][Contract!Next]_(Contract!vars)
  BY InitInv, StepInv, InitRefines, StepRefines, PTL DEF Spec
<1> QED
  BY <1>1 DEF ImplementsContractSafely, Contract!SafeSpec


-------------------------------------------------------------------------------
(* The guard. *)

\* A closed connection with undispatched events is held by its guard, which cannot
\* be swapped out before they are dispatched, unless it is registered again.
Guarded ==
    \A c \in Conns : revents[c] # {} =>
        \/ c \notin closed \/ c \in added
        \/ \E f \in Range(pending) : c \in f.conns

\* What the guard needs of a close.
LEMMA CloseQueues ==
    ASSUME IInv, NEW S \in SUBSET accepted, NEW queued \in Seq(Functor),
           HandleClose(S, queued)
    PROVE  /\ closed' = closed \cup (S \ closed) /\ added' = added \ (S \ closed)
           /\ \A f \in Range(pending) : f \in Range(pending')
           /\ S \ closed # {} => F("guard", S \ closed) \in Range(pending')
<1> DEFINE first == S \ closed
           g == F("guard", first)
<1>1. /\ closed' = closed \cup first /\ connections' = accepted \ closed'
      /\ Range(pending') = Range(pending) \cup Range(queued)
                             \cup (IF first = {} THEN {} ELSE {g})
  BY HandleCloseDoes
<1>2. added' = added \ first
  BY DEF HandleClose, Unregister
<1> HIDE DEF first, g
<1>3. /\ closed' = closed \cup first /\ added' = added \ first
      /\ \A f \in Range(pending) : f \in Range(pending')
      /\ first # {} => g \in Range(pending')
  BY <1>1, <1>2
<1> QED
  BY <1>3, Zenon DEF first, g

\* Every close queues a guard, and no close dispatches anything new.
LEMMA ClosingGuards ==
    ASSUME IInv, Guarded, NEW S \in SUBSET accepted, NEW queued \in Seq(Functor),
           HandleClose(S, queued), \A c \in Conns : revents'[c] # {} => revents[c] # {}
    PROVE  Guarded'
<1>1. PICK first : first = S \ closed
  OBVIOUS
<1>2. /\ closed' = closed \cup first /\ added' = added \ first
      /\ \A f \in Range(pending) : f \in Range(pending')
      /\ first # {} => F("guard", first) \in Range(pending')
  BY <1>1, CloseQueues, Zenon
<1>3. F("guard", first).conns = first
  BY DEF F
<1> SUFFICES ASSUME NEW c \in Conns, revents'[c] # {}
             PROVE  c \notin closed' \/ c \in added' \/ \E f \in Range(pending') : c \in f.conns
  BY DEF Guarded
<1>4. CASE c \in first
  BY <1>2, <1>3, <1>4
<1>5. CASE c \notin first
  BY <1>2, <1>5 DEF Guarded
<1> QED
  BY <1>4, <1>5

\* A step that takes away none of the reasons keeps them.
LEMMA OthersGuard ==
    ASSUME Guarded, \A c \in Conns : revents'[c] # {} => revents[c] # {},
           closed' = closed, added \subseteq added', Range(pending) \subseteq Range(pending')
    PROVE  Guarded'
BY DEF Guarded

LEMMA HandleReadGuards ==
    ASSUME IInv, Guarded, NEW c \in Conns, HandleRead(c) PROVE Guarded'
<1>1. PICK outcome \in {"nothing", "incomplete", "bad", "unsupported", "complete"} :
         LET S == IF outcome = "bad" THEN {c} ELSE Ended(c) IN
         HandleClose(S, IF outcome \in {"bad", "unsupported"}
                        THEN <<F("send", {c})>> ELSE <<>>)
  BY DEF HandleRead
<1> DEFINE S == IF outcome = "bad" THEN {c} ELSE Ended(c)
           g == F("send", {c})
           queued == IF outcome \in {"bad", "unsupported"} THEN <<g>> ELSE <<>>
<1>2. Handling(c, "IN") /\ Dispatched(c, "IN") /\ HandleClose(S, queued)
  BY <1>1 DEF HandleRead
<1>3. S \in SUBSET accepted
  BY <1>2 DEF Handling, Alive, Ended
<1>4. queued \in Seq(Functor)
  <2>1. g \in Functor
    BY DEF F, Functor
  <2> HIDE DEF g
  <2>2. <<g>> \in Seq(Functor) /\ <<>> \in Seq(Functor)
    BY <2>1, NothingQueued
  <2> QED
    BY <2>2
<1>5. \A d \in Conns : revents'[d] # {} => revents[d] # {}
  BY <1>2, HandlingRefers
<1> HIDE DEF S, queued
<1> QED
  BY <1>2, <1>3, <1>4, <1>5, ClosingGuards

LEMMA CallbackGuards ==
    ASSUME IInv, Guarded, NEW c \in Conns, HandleWrite(c) \/ HandleError(c) PROVE Guarded'
<1>1. {c} \in SUBSET accepted
  BY DEF HandleWrite, HandleError, Handling, Alive
<1>2. \A d \in Conns : revents'[d] # {} => revents[d] # {}
  BY HandlingRefers DEF HandleWrite, HandleError
<1>3. CASE HandleClose({c}, <<>>)
  BY <1>1, <1>2, <1>3, NothingQueued, ClosingGuards
<1>4. CASE HandleWrite(c) /\ ~HandleClose({c}, <<>>)
  <2>1. closed' = closed /\ pending' = pending
    BY <1>4 DEF HandleWrite, NoClose
  <2>2. added \subseteq added'
    BY <1>4 DEF HandleWrite, Register
  <2> QED
    BY <1>2, <2>1, <2>2, OthersGuard
<1>5. CASE HandleError(c)
  BY <1>3, <1>5 DEF HandleError
<1> QED
  BY <1>3, <1>4, <1>5

\* No event is undispatched when functors are called.
LEMMA FunctorsGuard ==
    ASSUME IInv, Guard \/ FunctorsDone \/ Swap \/ \E c \in Conns : Establish(c) \/ Send(c)
    PROVE  Guarded'
<1>1. UNCHANGED revents
  BY DEF Guard, FunctorsDone, Swap, Establish, Send, Calling
<1>2. \A c \in Conns : revents[c] = {}
  <2>1. CASE Swap
    BY <2>1 DEF Swap
  <2>2. CASE ~Swap
    <3>1. lpc = "functors"
      BY <2>2 DEF Guard, FunctorsDone, Establish, Send, Calling
    <3> QED
      BY <3>1 DEF IInv, References
  <2> QED
    BY <2>1, <2>2
<1> QED
  BY <1>1, <1>2 DEF Guarded

\* The other threads only append to pendingFunctors_.
LEMMA OutsideGuards ==
    ASSUME IInv, Guarded,
           \/ \E w \in Workers : Work(w)
           \/ \E c \in Conns : Accept(c) \/ Refuse(c) \/ Peer(c) \/ TimePasses(c) \/ HandleDangling(c)
    PROVE  Guarded'
<1> USE DEF connVars, loopVars
<1>1. UNCHANGED <<revents, closed, added>>
  BY DEF Work, TakeTask, Respond, DropTask, WorkerStep, Accept, Refuse, Peer, TimePasses, HandleDangling
<1>2. pending \in Seq(Functor)
  BY DEF IInv, TypeOK
<1>3. ASSUME NEW w \in Workers, Respond(w) PROVE Range(pending) \subseteq Range(pending')
  <2> DEFINE g == F("send", {worker[w].conn})
  <2>1. worker[w].conn \in Conns /\ pending' = Append(pending, g)
    BY <1>3 DEF Respond, WorkerStep, IInv, TypeOK, References
  <2>2. g \in Functor
    BY <2>1 DEF F, Functor
  <2> HIDE DEF g
  <2>3. Range(Append(pending, g)) = Range(pending) \cup {g}
    BY <1>2, <2>2, FunctorQueued, Zenon
  <2> QED
    BY <2>1, <2>3
<1>4. ASSUME NEW c \in Conns, Accept(c) PROVE Range(pending) \subseteq Range(pending')
  <2> DEFINE g == F("establish", {c})
  <2>1. g \in Functor /\ pending' = Append(pending, g)
    BY <1>4 DEF Accept, F, Functor
  <2> HIDE DEF g
  <2>2. Range(Append(pending, g)) = Range(pending) \cup {g}
    BY <1>2, <2>1, FunctorQueued, Zenon
  <2> QED
    BY <2>1, <2>2
<1>5. pending' = pending \/ (\E w \in Workers : Respond(w)) \/ (\E c \in Conns : Accept(c))
  BY DEF Work, TakeTask, DropTask, Refuse, Peer, TimePasses, HandleDangling
<1>6. Range(pending) \subseteq Range(pending')
  BY <1>3, <1>4, <1>5
<1> QED
  BY <1>1, <1>6, OthersGuard

LEMMA GuardedStep == IInv /\ Guarded /\ [Next]_vars => Guarded'
<1> SUFFICES ASSUME IInv, Guarded, [Next]_vars PROVE Guarded'
  OBVIOUS
<1>1. CASE Poll
  BY <1>1 DEF Poll, Guarded, Registered, connVars
<1>2. CASE HandleTimers
  <2>1. late \in SUBSET accepted
    BY DEF IInv, TypeOK, References
  <2>2. HandleClose(late, <<>>) /\ revents' = revents
    BY <1>2 DEF HandleTimers
  <2> QED
    BY <2>1, <2>2, NothingQueued, ClosingGuards
<1>3. CASE UNCHANGED vars
  BY <1>3 DEF Guarded, vars, connVars, loopVars
<1>4. ASSUME NEW c \in Conns, HandleRead(c) \/ HandleWrite(c) \/ HandleError(c) PROVE Guarded'
  BY <1>4, HandleReadGuards, CallbackGuards
<1> QED
  BY <1>1, <1>2, <1>3, <1>4, FunctorsGuard, OutsideGuards DEF Next, LoopStep, Handler

\* What is left of "no dispatch reaches a destroyed Channel" (TcpConnection.cpp:142):
\* for every number of connections, workers and requests, a connection with an event
\* that has not been dispatched exists, unless it was registered after it was closed.
THEOREM GuardHolds == Spec => []GuardedUntilDispatched
<1>1. Init => Guarded
  BY DEF Init, Guarded
<1>2. IInv /\ Guarded => GuardedUntilDispatched
  <2> SUFFICES ASSUME IInv, Guarded, NEW c \in Conns, revents[c] # {}
               PROVE  Alive(c) \/ c \in closed \cap added
    BY DEF GuardedUntilDispatched
  <2>1. c \in added \cup closed /\ c \in accepted
    BY DEF IInv, References
  <2>2. CASE c \notin closed
    BY <2>1, <2>2, OpenIsAlive DEF IsOpen
  <2>3. ASSUME NEW f \in Range(pending), c \in f.conns PROVE Alive(c)
    BY <2>1, <2>3, HeldByReference DEF Alive
  <2> QED
    BY <2>1, <2>2, <2>3 DEF Guarded
<1> QED
  BY <1>1, <1>2, Invariance, GuardedStep, PTL DEF Spec
===============================================================================
