------------------------------ MODULE EchoServers ------------------------------
(***************************************************************************)
(* The four servers the reactor grew out of (demo/demo-*/server.cpp), which*)
(* differ in how they wait, and their clients (client.cpp).  Each is one   *)
(* thread: a round begins when select, poll or epoll_wait returns, and     *)
(* handles each reported descriptor with one or more system calls, between *)
(* which the clients go on.  Data is counted in servers' buffers of 1024   *)
(* bytes.                                                                  *)
(***************************************************************************)
EXTENDS Naturals, Sequences, FiniteSets, SequencesExt

CONSTANTS Clients,   \* the clients, also the descriptors accept() returns for them
          Listener,  \* fd, or listenfd
          Kinds,     \* the servers to look at, of "select", "poll", "LT", "ET"
          Slots,     \* descriptors beside the listener that fit in fds[] or an fd_set
          Talkers    \* BOUND: the clients that send, once each

ASSUME ClientsAssumption == Listener \notin Clients
ASSUME KindsAssumption == Kinds \subseteq {"select", "poll", "LT", "ET"}
ASSUME SlotsAssumption == Slots \in Nat

\* BOUND: an empty line, one that fits in a buffer, one that needs two.
Sizes == 0 .. 2

VARIABLES
    kind,     \* the server that runs
    status,   \* "fresh" until it first waits, "up", "exited", "killed" by SIGPIPE,
              \* or "overrun" after a write behind an array
    \* The client: "away", "typing", "waiting" for a reply, "stuck" waiting for the
    \* reply to an empty line, or "gone"; and the clients that have sent.
    client, sent,
    \* The sockets.
    queued,   \* connections that wait for accept()
    inbox,    \* data the server has not read
    fin,      \* the client's end has been closed
    rst,      \* a reset that has not been reported by read() yet
    replies,  \* data the client has not read
    edge,     \* epoll's ready list, for "ET"
    \* The server.
    open,     \* the descriptors it has accepted and not closed
    interest, \* readfds, or what is registered with epoll, less the listener
    fds,      \* poll's array from its second entry on, nfds - 1 long
    ready,    \* what has been reported in this round and not been looked at
    answer    \* <<c, n>> between demo-epoll-ET's last read() and its send(), else <<>>

sockets == <<queued, inbox, fin, rst, replies, edge>>
server  == <<open, interest, fds, ready, answer>>
vars    == <<kind, status, client, sent, sockets, server>>

Init ==
    /\ kind \in Kinds /\ status = "fresh"
    /\ client = [c \in Clients |-> "away"] /\ sent = {}
    /\ queued = {} /\ inbox = [c \in Clients |-> 0] /\ fin = {} /\ rst = {}
    /\ replies = [c \in Clients |-> 0] /\ edge = {}
    /\ open = {} /\ interest = {} /\ fds = <<>> /\ ready = {} /\ answer = <<>>

Up == status \in {"fresh", "up"}

Watched == IF kind = "poll" THEN Range(fds) ELSE interest

-------------------------------------------------------------------------------
(* The clients. *)

Notify(d) == edge' = IF d \in Watched \cup {Listener} THEN edge \cup {d} ELSE edge

\* socket() and connect(): the kernel completes the connection by itself.
Connect(c) ==
    /\ client[c] = "away"
    /\ client' = [client EXCEPT ![c] = "typing"]
    /\ queued' = queued \cup {c} /\ Notify(Listener)
    /\ UNCHANGED <<kind, status, sent, inbox, fin, rst, replies, server>>

\* getline() and send(); only demo-select's client does not wait for a reply.
Send(c, n) ==
    /\ client[c] = "typing" /\ c \in Talkers \ sent
    /\ sent' = sent \cup {c}
    /\ client' = [client EXCEPT ![c] = IF kind = "select" THEN "typing"
                                       ELSE IF n = 0 THEN "stuck" ELSE "waiting"]
    /\ inbox' = [inbox EXCEPT ![c] = @ + n]
    /\ IF n > 0 THEN Notify(c) ELSE UNCHANGED edge
    /\ UNCHANGED <<kind, status, queued, fin, rst, replies, server>>

\* recv() returns with data, of this reply or of the rest of the one before.
Receive(c) ==
    /\ client[c] \in {"waiting", "stuck"} /\ replies[c] > 0
    /\ replies' = [replies EXCEPT ![c] = @ - 1]
    /\ client' = [client EXCEPT ![c] = "typing"]
    /\ UNCHANGED <<kind, status, sent, queued, inbox, fin, rst, edge, server>>

\* close(): after a "q", or when the process ends.  With data unread it is a reset,
\* and what the server has not read may be discarded.
Leave(c) ==
    /\ client[c] \in {"typing", "waiting", "stuck"}
    /\ client' = [client EXCEPT ![c] = "gone"]
    /\ IF replies[c] > 0
       THEN /\ rst' = rst \cup {c} /\ UNCHANGED fin
            /\ \E left \in {0, inbox[c]} : inbox' = [inbox EXCEPT ![c] = left]
       ELSE fin' = fin \cup {c} /\ UNCHANGED <<rst, inbox>>
    /\ replies' = [replies EXCEPT ![c] = 0]
    /\ Notify(c)
    /\ UNCHANGED <<kind, status, sent, queued, server>>

-------------------------------------------------------------------------------
(* Waiting. *)

Pending(d) == IF d = Listener THEN queued # {} ELSE inbox[d] > 0 \/ d \in fin \cup rst

Round(reported) ==
    /\ ready = {} /\ reported # {}
    /\ ready' = reported /\ status' = "up"
    /\ UNCHANGED <<kind, client, sent, queued, inbox, fin, rst, replies>>
    /\ UNCHANGED <<open, interest, fds, answer>>

\* select(), poll() and epoll_wait() report all that holds; only the 5 s timeout
\* returns without any.
WaitLevel ==
    /\ kind # "ET"
    /\ Round({d \in Watched \cup {Listener} : Pending(d)})
    /\ UNCHANGED edge

WaitEdge ==
    /\ kind = "ET"
    /\ Round({d \in edge : Pending(d)})
    /\ edge' = {}

\* timeout.tv_usec is never set: select() may refuse it, and the server leaves.
SelectFails ==
    /\ kind = "select" /\ status = "fresh"
    /\ status' = "exited"
    /\ UNCHANGED <<kind, client, sent, sockets, server>>

-------------------------------------------------------------------------------
(* Accepting. *)

\* The descriptors of S are accepted, and watched unless there is no room.
Admit(S) ==
    /\ queued' = queued \ S /\ open' = open \cup S
    /\ UNCHANGED <<kind, client, sent, inbox, fin, rst, replies, answer>>

Overrun == status' = "overrun" /\ UNCHANGED <<interest, fds, edge, ready>>

\* FD_SET, and the reads wait for a round without a new connection.
SelectAccept(c) ==
    /\ kind = "select" /\ Listener \in ready /\ c \in queued
    /\ Admit({c})
    /\ IF Cardinality(open) = Slots THEN Overrun
       ELSE interest' = interest \cup {c} /\ ready' = {} /\ UNCHANGED <<status, fds, edge>>

\* The new entry has the revents that were in the array: it may be looked at too.
PollAccept(c) ==
    /\ kind = "poll" /\ Listener \in ready /\ c \in queued
    /\ Admit({c})
    /\ IF Len(fds) = Slots THEN Overrun
       ELSE /\ fds' = Append(fds, c)
            /\ ready' \in {ready \ {Listener}, (ready \ {Listener}) \cup {c}}
            /\ UNCHANGED <<status, interest, edge>>

LTAccept(c) ==
    /\ kind = "LT" /\ Listener \in ready /\ c \in queued
    /\ Admit({c})
    /\ interest' = interest \cup {c} /\ ready' = ready \ {Listener}
    /\ UNCHANGED <<status, fds, edge>>

\* Mistake: one connection is accepted for one edge.
ETAcceptOne ==
    /\ kind = "ET" /\ Listener \in ready
    /\ \E c \in queued :
         /\ Admit({c}) /\ interest' = interest \cup {c}
         /\ edge' = IF Pending(c) THEN edge \cup {c} ELSE edge
    /\ ready' = ready \ {Listener}
    /\ UNCHANGED <<status, fds>>

\* accept() until there is none; what has arrived already is an edge.
ETAccept ==
    /\ kind = "ET" /\ Listener \in ready
    /\ Admit(queued)
    /\ interest' = interest \cup queued
    /\ edge' = edge \cup {c \in queued : Pending(c)}
    /\ ready' = ready \ {Listener}
    /\ UNCHANGED <<status, fds>>

-------------------------------------------------------------------------------
(* Reading. *)

\* close() of the descriptors of S, with FD_CLR or EPOLL_CTL_DEL.
Close(S) ==
    /\ open' = open \ S /\ interest' = interest \ S /\ edge' = edge \ S
    /\ UNCHANGED fds

\* Mistake: the last entry is dropped and not moved.
PollCloseLast(c) ==
    /\ open' = open \ {c}
    /\ fds' = Front(fds)
    /\ UNCHANGED <<interest, edge>>

\* close(), and the last entry takes the place of this one.
PollClose(c) ==
    /\ open' = open \ {c}
    /\ fds' = [i \in 1 .. Len(fds) - 1 |-> IF fds[i] = c THEN Last(fds) ELSE fds[i]]
    /\ UNCHANGED <<interest, edge>>

\* send() to a connection that has been reset may raise SIGPIPE, for which none of
\* the servers has a handler.
Signalled(c) == status' \in IF c \in rst THEN {status, "killed"} ELSE {status}

KeepsOpen == UNCHANGED <<open, interest, fds, edge>>

Got(c, n) == inbox' = [inbox EXCEPT ![c] = @ - n] /\ UNCHANGED fin

\* send(): a client that has gone answers with a reset.
Echo(c, n) ==
    IF client[c] = "gone" THEN rst' = rst \cup {c} /\ UNCHANGED replies
    ELSE replies' = [replies EXCEPT ![c] = @ + n] /\ UNCHANGED rst

\* read() reports a reset once, and an end of file from then on.
Reported(c) == rst' = rst \ {c} /\ fin' = fin \cup {c} /\ UNCHANGED <<inbox, replies>>

Nothing == UNCHANGED <<inbox, fin, rst, replies>>

Handle(k, c) ==
    /\ kind = k /\ c \in ready
    /\ ready' = ready \ {c}
    /\ UNCHANGED <<kind, client, sent, queued, answer>>

\* demo-select reads and does not answer: there is nothing a client could leave
\* unread, so that read() meets no reset.
SelectRead(c) ==
    /\ Handle("select", c) /\ Listener \notin ready
    /\ \/ inbox[c] > 0 /\ Got(c, 1) /\ UNCHANGED <<rst, replies>> /\ KeepsOpen
       \/ inbox[c] = 0 /\ c \in fin /\ Nothing /\ Close({c})
    /\ UNCHANGED status

PollRead(c) ==
    /\ Handle("poll", c)
    /\ \/ inbox[c] > 0 /\ Got(c, 1) /\ Echo(c, 1) /\ Signalled(c) /\ KeepsOpen
       \/ inbox[c] = 0 /\ c \in rst /\ Reported(c) /\ KeepsOpen /\ UNCHANGED status
       \/ inbox[c] = 0 /\ c \in fin \ rst /\ Nothing /\ PollClose(c) /\ UNCHANGED status
       \/ ~Pending(c) /\ Nothing /\ KeepsOpen /\ UNCHANGED status

\* Mistake: an end of file is taken for an error that will pass.
LTReadKeeps(c) ==
    /\ Handle("LT", c)
    /\ \/ inbox[c] > 0 /\ Got(c, 1) /\ Echo(c, 1) /\ Signalled(c) /\ KeepsOpen
       \/ inbox[c] = 0 /\ Nothing /\ KeepsOpen /\ UNCHANGED status

LTRead(c) ==
    /\ Handle("LT", c)
    /\ \/ inbox[c] > 0 /\ Got(c, 1) /\ Echo(c, 1) /\ Signalled(c) /\ KeepsOpen
       \/ inbox[c] = 0 /\ Nothing /\ Close({c}) /\ UNCHANGED status

\* read() until it fails or ends, into a buffer for one of them.  The loop is one
\* step: what comes in between is read by it, and its edge is one that epoll_wait
\* drops when it finds nothing pending.  An end of file or an error closes.
ETRead(c) ==
    /\ kind = "ET" /\ c \in ready
    /\ ready' = ready \ {c}
    /\ Got(c, inbox[c])
    /\ status' = IF inbox[c] > 1 THEN "overrun" ELSE status
    /\ answer' = IF inbox[c] > 0 THEN <<c, inbox[c]>> ELSE <<>>
    /\ IF c \in fin \cup rst THEN Close({c}) ELSE KeepsOpen
    /\ UNCHANGED <<kind, client, sent, queued, rst, replies>>

\* The one reply.  A descriptor that is closed already refuses it, and is closed once
\* more for nothing; on a connection that has been reset send() fails, and the server
\* closes it unless SIGPIPE has killed it; the reset that a client which has gone
\* answers with is an event.
ETSend ==
    /\ answer # <<>>
    /\ LET c == answer[1] IN
       \/ c \notin open /\ KeepsOpen /\ UNCHANGED <<status, rst, replies>>
       \/ c \in open \cap rst /\ Close({c}) /\ Signalled(c) /\ UNCHANGED <<rst, replies>>
       \/ /\ c \in open \ rst /\ Echo(c, answer[2])
          /\ edge' = IF client[c] = "gone" THEN edge \cup {c} ELSE edge
          /\ UNCHANGED <<status, open, interest, fds>>
    /\ answer' = <<>>
    /\ UNCHANGED <<kind, client, sent, queued, inbox, fin, ready>>

-------------------------------------------------------------------------------
\* One thread: nothing else is done between the read() and the send() of a reply.
ServerStep ==
    \/ /\ answer = <<>>
       /\ \/ WaitLevel \/ WaitEdge \/ ETAccept
          \/ \E c \in Clients :
               \/ SelectAccept(c) \/ PollAccept(c) \/ LTAccept(c)
               \/ SelectRead(c) \/ PollRead(c) \/ LTRead(c) \/ ETRead(c)
    \/ ETSend

ClientStep(c) == Connect(c) \/ Receive(c) \/ Leave(c) \/ \E n \in Sizes : Send(c, n)

Next == Up /\ (ServerStep \/ SelectFails \/ \E c \in Clients : ClientStep(c))

\* The server keeps running and a reply that has come is read; nothing else is
\* expected of the clients.
Spec ==
    /\ Init /\ [][Next]_vars
    /\ WF_vars(Up /\ ServerStep)
    /\ \A c \in Clients : WF_vars(Up /\ Receive(c))

-------------------------------------------------------------------------------
(* Properties. *)

\* As long as it runs, a server waits for exactly the descriptors it has open, each of
\* them once, however the array of pollfds is compacted and whatever is closed in a
\* round.  What a write behind an array leaves is RoomForAll.
WatchedIsOpen == Up => Watched = open /\ IsInjective(fds)

\* demo-poll takes any number of connections: none is written behind fds[].
\* The code does not keep this: it compares nfds with nothing.
RoomForAll == kind = "poll" => status # "overrun"

\* demo-epoll-ET, which is told of a descriptor once, leaves none behind of which it
\* will not be told again: what is pending is on the ready list or in this round.
NoLostEdge ==
    Up /\ kind = "ET" => \A d \in open \cup {Listener} : Pending(d) => d \in edge \cup ready

\* What a client has sent is read, and (but by demo-select) answered.
Served ==
    \A c \in Clients :
        (inbox[c] > 0) ~> ((inbox[c] = 0 /\ client[c] # "waiting") \/ ~Up)

\* A client that leaves does not keep its descriptor busy, even when the first
\* read() after a reset closes nothing.
Departed == \A c \in Clients : (client[c] = "gone") ~> (c \notin open \cup queued \/ ~Up)
===============================================================================
