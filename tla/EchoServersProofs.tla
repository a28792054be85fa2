--------------------------- MODULE EchoServersProofs ---------------------------
(***************************************************************************)
(* What EchoServers promises of its tables of descriptors, for any number  *)
(* of clients, any size of the tables and each of the four servers.        *)
(***************************************************************************)
EXTENDS EchoServers, TLAPS

-------------------------------------------------------------------------------
(* The inductive invariant. *)

\* What WatchedIsOpen rests on: a connection is in one queue or in the server; what is
\* reported is still open when it is looked at; and epoll's ready list has nothing
\* of a descriptor that has been closed.
Descriptors ==
    /\ queued \subseteq Clients /\ open \subseteq Clients /\ queued \cap open = {}
    /\ \A c \in Clients : client[c] = "away" => c \notin queued \cup open
    /\ ready \subseteq open \cup {Listener}
    /\ kind = "ET" => edge \subseteq open \cup {Listener}
    /\ answer # <<>> => answer[1] \notin ready

Tables ==
    /\ kind \in Kinds /\ interest \subseteq Clients /\ fds \in Seq(Clients)
    /\ client \in [Clients -> {"away", "typing", "waiting", "stuck", "gone"}]
    /\ kind # "poll" => fds = <<>>
    /\ answer # <<>> => kind = "ET"

IInv == Tables /\ Descriptors /\ WatchedIsOpen

-------------------------------------------------------------------------------
(* The array of pollfds. *)

\* What the proofs need of the operators of the library.
LEMMA Entries ==
    ASSUME NEW s \in Seq(Clients)
    PROVE  /\ Len(s) \in Nat /\ DOMAIN s = 1 .. Len(s)
           /\ \A i \in 1 .. Len(s) : s[i] \in Clients
           /\ \A x : x \in Range(s) <=> \E i \in 1 .. Len(s) : s[i] = x
           /\ IsInjective(s) <=> \A i, j \in 1 .. Len(s) : s[i] = s[j] => i = j
  BY DEF Range, IsInjective

\* A connection that is not in the array is appended: it is in it once, and the
\* others are where they were.
LEMMA AppendWatches ==
    ASSUME NEW s \in Seq(Clients), NEW c \in Clients, c \notin Range(s), IsInjective(s)
    PROVE  /\ Append(s, c) \in Seq(Clients) /\ Len(Append(s, c)) = Len(s) + 1
           /\ Range(Append(s, c)) = Range(s) \cup {c}
           /\ IsInjective(Append(s, c))
<1> DEFINE t == Append(s, c)
<1>1. /\ t \in Seq(Clients) /\ Len(t) = Len(s) + 1 /\ Len(s) \in Nat
      /\ t[Len(s) + 1] = c /\ \A i \in 1 .. Len(s) : t[i] = s[i]
  OBVIOUS
<1> HIDE DEF t
<1>2. \A i \in 1 .. Len(t) : i \in 1 .. Len(s) \/ i = Len(s) + 1
  BY <1>1
<1>3. \A i \in 1 .. Len(s) : i \in 1 .. Len(t) /\ s[i] # c
  BY <1>1, Entries
<1>4. Len(s) + 1 \in 1 .. Len(t)
  BY <1>1
<1>5. Range(t) = Range(s) \cup {c}
  <2>1. ASSUME NEW x \in Range(t) PROVE x \in Range(s) \cup {c}
    BY <1>1, <1>2, <2>1, Entries
  <2>2. ASSUME NEW x \in Range(s) \cup {c} PROVE x \in Range(t)
    BY <1>1, <1>3, <1>4, <2>2, Entries
  <2> QED BY <2>1, <2>2
<1>6. IsInjective(t)
  <2> SUFFICES ASSUME NEW i \in 1 .. Len(t), NEW j \in 1 .. Len(t), t[i] = t[j] PROVE i = j
    BY <1>1, Entries
  <2> QED BY <1>1, <1>2, <1>3, Entries
<1> QED BY <1>1, <1>5, <1>6 DEF t

Compacted(s, c) == [i \in 1 .. Len(s) - 1 |-> IF s[i] = c THEN Last(s) ELSE s[i]]

\* The last entry takes the place of the one that is closed: that one is in the
\* array no more and each other still is, once.
LEMMA CompactionKeeps ==
    ASSUME NEW s \in Seq(Clients), NEW c \in Range(s), IsInjective(s)
    PROVE  /\ Compacted(s, c) \in Seq(Clients) /\ Len(Compacted(s, c)) =< Len(s)
           /\ Range(Compacted(s, c)) = Range(s) \ {c}
           /\ IsInjective(Compacted(s, c))
<1> DEFINE t == Compacted(s, c)
<1>1. PICK k \in 1 .. Len(s) : s[k] = c
  BY Entries
<1>2. Len(s) \in Nat \ {0} /\ Len(s) - 1 \in Nat /\ Last(s) = s[Len(s)] /\ Len(s) \in 1 .. Len(s)
  BY <1>1, Entries DEF Last
<1>3. \A i \in 1 .. Len(s) - 1 : i \in 1 .. Len(s) /\ i # Len(s)
  BY <1>2
<1>4. \A i \in 1 .. Len(s) : i \in 1 .. Len(s) - 1 \/ i = Len(s)
  BY <1>2
<1>5. \A i \in 1 .. Len(s) - 1 : t[i] = IF i = k THEN s[Len(s)] ELSE s[i]
  <2> SUFFICES ASSUME NEW i \in 1 .. Len(s) - 1 PROVE t[i] = IF i = k THEN s[Len(s)] ELSE s[i]
    OBVIOUS
  <2>1. t[i] = IF s[i] = c THEN s[Len(s)] ELSE s[i]
    BY <1>2 DEF Compacted
  <2>2. s[i] = c <=> i = k
    BY <1>1, <1>3, Entries
  <2> QED BY <2>1, <2>2
<1>6. t \in [1 .. Len(s) - 1 -> Clients]
  BY <1>2, <1>3, Entries DEF Compacted
<1>7. t \in Seq(Clients) /\ Len(t) = Len(s) - 1 /\ Len(t) =< Len(s)
  <2>1. t \in Seq(Clients)
    BY <1>2, <1>6
  <2>2. DOMAIN t = 1 .. Len(s) - 1 /\ DOMAIN t = 1 .. Len(t) /\ Len(t) \in Nat
    BY <1>6, <2>1
  <2> QED BY <1>2, <2>1, <2>2
<1> HIDE DEF t
<1>8. Range(t) = Range(s) \ {c}
  <2>1. ASSUME NEW x \in Range(t) PROVE x \in Range(s) \ {c}
    <3>1. PICK i \in 1 .. Len(s) - 1 : t[i] = x
      BY <1>7, Entries
    <3>2. i \in 1 .. Len(s) /\ i # Len(s) /\ x = (IF i = k THEN s[Len(s)] ELSE s[i])
      BY <1>3, <1>5, <3>1
    <3>3. \A a \in 1 .. Len(s) : s[a] \in Range(s) /\ (a # k => s[a] # c)
      BY <1>1, Entries
    <3> QED BY ONLY <1>2, <3>2, <3>3, k \in 1 .. Len(s)
  <2>2. ASSUME NEW x \in Range(s) \ {c} PROVE x \in Range(t)
    <3>1. PICK i \in 1 .. Len(s) : s[i] = x
      BY Entries
    <3>2. i # k
      BY <1>1, <3>1
    <3>3. CASE i = Len(s)
      <4>1. k \in 1 .. Len(s) - 1
        BY <1>4, <3>2, <3>3
      <4> QED BY <1>5, <1>7, <3>1, <3>3, <4>1, Entries
    <3>4. CASE i # Len(s)
      <4>1. i \in 1 .. Len(s) - 1
        BY <1>4, <3>4
      <4> QED BY <1>5, <1>7, <3>1, <3>2, <4>1, Entries
    <3> QED BY <3>3, <3>4
  <2> QED BY <2>1, <2>2
<1>9. IsInjective(t)
  <2> SUFFICES ASSUME NEW i \in 1 .. Len(s) - 1, NEW j \in 1 .. Len(s) - 1, t[i] = t[j] PROVE i = j
    BY <1>7, Entries
  <2>1. t[i] = (IF i = k THEN s[Len(s)] ELSE s[i]) /\ t[j] = (IF j = k THEN s[Len(s)] ELSE s[j])
    BY <1>5
  <2>2. i \in 1 .. Len(s) /\ i # Len(s) /\ j \in 1 .. Len(s) /\ j # Len(s)
    BY <1>3
  <2>3. \A a, b \in 1 .. Len(s) : s[a] = s[b] => a = b
    BY Entries
  <2> QED BY ONLY t[i] = t[j], <1>2, <2>1, <2>2, <2>3
<1> QED BY <1>7, <1>8, <1>9 DEF t
-------------------------------------------------------------------------------
(* The inductive invariant. *)

LEMMA InitInv == Init => IInv
<1> SUFFICES ASSUME Init PROVE IInv
  OBVIOUS
<1>1. <<>> \in Seq(Clients) /\ Len(<<>>) = 0 /\ \A i : i \notin 1 .. 0
  OBVIOUS
<1>2. Range(<<>>) = {} /\ IsInjective(<<>>)
  BY <1>1, Entries
<1> QED
  BY <1>1, <1>2 DEF Init, IInv, Tables, Descriptors, WatchedIsOpen, Watched

\* A step of a client: it changes neither the tables nor what is reported, and a
\* connection comes into the queue of accept() only from a client that was away.
LEMMA ClientStepInv ==
    ASSUME IInv, Up, NEW c \in Clients, ClientStep(c)
    PROVE  IInv'
<1> USE DEF IInv
<1>1. ASSUME Connect(c) PROVE IInv'
  BY <1>1 DEF Connect, server, Tables, Descriptors, WatchedIsOpen, Watched, Notify, Up
<1>2. ASSUME Receive(c) PROVE IInv'
  BY <1>2 DEF Receive, server, Tables, Descriptors, WatchedIsOpen, Watched, Up
<1>3. ASSUME Leave(c) PROVE IInv'
  BY <1>3 DEF Leave, server, Tables, Descriptors, WatchedIsOpen, Watched, Notify, Up
<1>4. ASSUME NEW n \in Sizes, Send(c, n) PROVE IInv'
  BY <1>4 DEF Send, server, Tables, Descriptors, WatchedIsOpen, Watched, Notify, Up
<1> QED BY <1>1, <1>2, <1>3, <1>4 DEF ClientStep

\* A round begins: what is reported is watched, hence open.
LEMMA WaitInv ==
    ASSUME IInv, Up, answer = <<>>, WaitLevel \/ WaitEdge
    PROVE  IInv'
<1> USE DEF IInv
<1>1. ASSUME WaitLevel PROVE IInv'
  BY <1>1 DEF WaitLevel, Round, Tables, Descriptors, WatchedIsOpen, Watched, Up
<1>2. ASSUME WaitEdge PROVE IInv'
  BY <1>2 DEF WaitEdge, Round, Tables, Descriptors, WatchedIsOpen, Watched, Up
<1> QED BY <1>1, <1>2

\* demo-select leaves, with its tables as they are.
LEMMA FailInv ==
    ASSUME IInv, Up, SelectFails
    PROVE  IInv'
  BY DEF IInv, SelectFails, sockets, server, Tables, Descriptors, WatchedIsOpen, Watched, Up

\* accept(): what leaves the queue is open from then on, and watched, unless the
\* server has written behind its array.
LEMMA AcceptInv ==
    ASSUME IInv, Up, answer = <<>>, NEW c \in Clients,
           SelectAccept(c) \/ PollAccept(c) \/ LTAccept(c)
    PROVE  IInv'
<1> USE DEF IInv
<1>1. ASSUME SelectAccept(c) PROVE IInv'
  BY <1>1 DEF SelectAccept, Admit, Overrun, Tables, Descriptors, WatchedIsOpen, Watched, Up
<1>2. ASSUME PollAccept(c) PROVE IInv'
  <2>1. kind = "poll" /\ kind' = "poll" /\ c \in queued /\ open' = open \cup {c} /\ Watched = Range(fds)
    BY <1>2 DEF PollAccept, Admit, Watched
  <2>2. CASE Len(fds) = Slots
    BY <1>2, <2>1, <2>2 DEF PollAccept, Admit, Overrun, Tables, Descriptors, WatchedIsOpen, Up
  <2>3. CASE Len(fds) # Slots
    <3>1. fds' = Append(fds, c) /\ status' = status
      BY <1>2, <2>3 DEF PollAccept
    <3>2. fds \in Seq(Clients) /\ IsInjective(fds) /\ Range(fds) = open /\ c \notin open
      BY <2>1 DEF Tables, Descriptors, WatchedIsOpen
    <3>3. fds' \in Seq(Clients) /\ Range(fds') = open' /\ IsInjective(fds')
      BY <2>1, <3>1, <3>2, AppendWatches
    <3>4. WatchedIsOpen'
      BY <2>1, <3>3 DEF WatchedIsOpen, Watched
    <3>5. Tables'
      BY <1>2, <2>1, <2>3, <3>3 DEF PollAccept, Admit, Tables
    <3>6. Descriptors'
      BY <1>2, <2>1, <2>3 DEF PollAccept, Admit, Descriptors
    <3> QED BY <3>4, <3>5, <3>6
  <2> QED BY <2>2, <2>3
<1>3. ASSUME LTAccept(c) PROVE IInv'
  BY <1>3 DEF LTAccept, Admit, Tables, Descriptors, WatchedIsOpen, Watched, Up
<1> QED BY <1>1, <1>2, <1>3

\* accept() until there is none: the whole queue is open and registered.
LEMMA ETAcceptInv ==
    ASSUME IInv, Up, answer = <<>>, ETAccept
    PROVE  IInv'
  BY DEF IInv, ETAccept, Admit, Tables, Descriptors, WatchedIsOpen, Watched, Up

\* What all that is done after a read() keeps: the queue and the client stay, and
\* the descriptor is not looked at again in this round.
Reads(c) ==
    /\ c \in ready /\ ready' = ready \ {c}
    /\ UNCHANGED <<kind, client, queued>>
    /\ answer' # <<>> => kind = "ET" /\ answer'[1] = c

\* Nothing is closed.
LEMMA KeepsOpenInv ==
    ASSUME IInv, Up, NEW c \in Clients, Reads(c), KeepsOpen
    PROVE  IInv'
  BY DEF IInv, Reads, KeepsOpen, Tables, Descriptors, WatchedIsOpen, Watched, Up

\* One of the servers without an array closes the descriptor.
LEMMA CloseInv ==
    ASSUME IInv, Up, NEW c \in Clients, Reads(c), kind # "poll", Close({c})
    PROVE  IInv'
  BY DEF IInv, Reads, Close, Tables, Descriptors, WatchedIsOpen, Watched, Up

\* demo-poll closes it, and compacts the array.
LEMMA PollCloseInv ==
    ASSUME IInv, Up, NEW c \in Clients, Reads(c), kind = "poll", PollClose(c)
    PROVE  IInv'
<1>1. /\ fds \in Seq(Clients) /\ IsInjective(fds) /\ Range(fds) = open
      /\ c \in open
  BY ClientsAssumption DEF IInv, Reads, Tables, Descriptors, WatchedIsOpen, Watched
<1>2. fds' = Compacted(fds, c) /\ open' = open \ {c}
  BY DEF PollClose, Compacted
<1>3. fds' \in Seq(Clients) /\ Range(fds') = open' /\ IsInjective(fds')
  BY <1>1, <1>2, CompactionKeeps
<1>4. WatchedIsOpen'
  BY <1>3 DEF Reads, WatchedIsOpen, Watched
<1>5. Tables'
  BY <1>3 DEF IInv, Reads, PollClose, Tables
<1>6. Descriptors'
  BY <1>2 DEF IInv, Reads, Descriptors
<1> QED BY <1>4, <1>5, <1>6 DEF IInv

LEMMA ReadInv ==
    ASSUME IInv, Up, answer = <<>>, NEW c \in Clients,
           SelectRead(c) \/ PollRead(c) \/ LTRead(c) \/ ETRead(c)
    PROVE  IInv'
<1>1. ASSUME SelectRead(c) PROVE IInv'
  <2>1. Reads(c) /\ kind # "poll" /\ (KeepsOpen \/ Close({c}))
    BY <1>1 DEF SelectRead, Handle, Reads, IInv, Tables
  <2> QED BY <2>1, KeepsOpenInv, CloseInv
<1>2. ASSUME PollRead(c) PROVE IInv'
  <2>1. Reads(c) /\ kind = "poll" /\ (KeepsOpen \/ PollClose(c))
    BY <1>2 DEF PollRead, Handle, Reads, IInv, Tables
  <2> QED BY <2>1, KeepsOpenInv, PollCloseInv
<1>3. ASSUME LTRead(c) PROVE IInv'
  <2>1. Reads(c) /\ kind # "poll" /\ (KeepsOpen \/ Close({c}))
    BY <1>3 DEF LTRead, Handle, Reads, IInv, Tables
  <2> QED BY <2>1, KeepsOpenInv, CloseInv
<1>4. ASSUME ETRead(c) PROVE IInv'
  <2>1. Reads(c) /\ kind # "poll" /\ (KeepsOpen \/ Close({c}))
    BY <1>4 DEF ETRead, Reads
  <2> QED BY <2>1, KeepsOpenInv, CloseInv
<1> QED BY <1>1, <1>2, <1>3, <1>4

\* The send() of demo-epoll-ET: at most the descriptor is closed, which has left the
\* round with its read().
LEMMA SendInv ==
    ASSUME IInv, Up, ETSend
    PROVE  IInv'
<1> DEFINE c == answer[1]
<1>1. /\ kind = "ET" /\ answer' = <<>> /\ c \notin ready
      /\ UNCHANGED <<kind, client, queued, ready>>
  BY DEF IInv, Tables, Descriptors, ETSend
<1>2. CASE UNCHANGED <<open, interest, fds>> /\ edge' \subseteq edge \cup open
  BY <1>1, <1>2 DEF IInv, Tables, Descriptors, WatchedIsOpen, Watched, Up
<1>3. CASE Close({c})
  BY <1>1, <1>3 DEF Close, IInv, Tables, Descriptors, WatchedIsOpen, Watched, Up
<1> QED BY <1>2, <1>3 DEF ETSend, KeepsOpen

LEMMA StutterInv == IInv /\ UNCHANGED vars => IInv'
  BY DEF IInv, vars, sockets, server, Tables, Descriptors, WatchedIsOpen, Watched, Up

\* The invariant holds in every state, for any clients and any size of the tables.
THEOREM Invariance == Spec => []IInv
<1>1. IInv /\ [Next]_vars => IInv'
  <2> SUFFICES ASSUME IInv, [Next]_vars PROVE IInv'
    OBVIOUS
  <2>1. CASE UNCHANGED vars
    BY <2>1, StutterInv
  <2>2. CASE Next
    <3>1. Up
      BY <2>2 DEF Next
    <3>2. CASE answer = <<>> /\ (WaitLevel \/ WaitEdge)
      BY <3>1, <3>2, WaitInv
    <3>3. CASE SelectFails
      BY <3>1, <3>3, FailInv
    <3>4. CASE answer = <<>> /\ ETAccept
      BY <3>1, <3>4, ETAcceptInv
    <3>5. CASE answer = <<>> /\ \E c \in Clients : SelectAccept(c) \/ PollAccept(c) \/ LTAccept(c)
      BY <3>1, <3>5, AcceptInv
    <3>6. CASE answer = <<>> /\ \E c \in Clients :
                 SelectRead(c) \/ PollRead(c) \/ LTRead(c) \/ ETRead(c)
      BY <3>1, <3>6, ReadInv
    <3>7. CASE ETSend
      BY <3>1, <3>7, SendInv
    <3>8. CASE \E c \in Clients : ClientStep(c)
      BY <3>1, <3>8, ClientStepInv
    <3> QED BY <2>2, <3>2, <3>3, <3>4, <3>5, <3>6, <3>7, <3>8 DEF Next, ServerStep
  <2> QED BY <2>1, <2>2
<1> QED BY <1>1, InitInv, PTL DEF Spec

\* As long as it runs, each of the demo servers waits for exactly the descriptors it
\* has open, each of them once, however connections are accepted, reset and closed in
\* a round and however demo-poll compacts its array.  That a table has room for them is
\* not said: a write behind its end is where the statement stops.
THEOREM EveryServerWatchesItsOpen == Spec => []WatchedIsOpen
<1>1. IInv => WatchedIsOpen
  BY DEF IInv
<1> QED BY <1>1, Invariance, PTL

-------------------------------------------------------------------------------
(* The edges of demo-epoll-ET. *)

\* A client that has gone has left an end of file or a reset behind: there is no
\* reply to it that would bring an event after the last read.
EdgeInv ==
    /\ kind = "ET" => /\ inbox \in [Clients -> Nat]
                      /\ \A c \in Clients : client[c] = "gone" => c \in fin \cup rst
    /\ NoLostEdge

LEMMA ClientEdges ==
    ASSUME IInv, EdgeInv, Up, NEW c \in Clients, ClientStep(c), kind = "ET"
    PROVE  EdgeInv'
<1> USE DEF EdgeInv, NoLostEdge, Pending
<1>0. /\ Watched = open /\ open \subseteq Clients /\ Listener \notin Clients
      /\ client \in [Clients -> {"away", "typing", "waiting", "stuck", "gone"}]
  BY ClientsAssumption DEF IInv, Tables, Descriptors, WatchedIsOpen
<1>1. ASSUME Connect(c) PROVE EdgeInv'
  BY <1>0, <1>1 DEF Connect, Notify, server, Up
<1>2. ASSUME Receive(c) PROVE EdgeInv'
  BY <1>0, <1>2 DEF Receive, server, Up
<1>3. ASSUME Leave(c) PROVE EdgeInv'
  BY <1>0, <1>3 DEF Leave, Notify, server, Up
<1>4. ASSUME NEW n \in Sizes, Send(c, n) PROVE EdgeInv'
  BY <1>0, <1>4 DEF Send, Notify, server, Up, Sizes
<1> QED BY <1>1, <1>2, <1>3, <1>4 DEF ClientStep

LEMMA ReadEdges ==
    ASSUME IInv, EdgeInv, Up, NEW c \in Clients, ETRead(c)
    PROVE  EdgeInv'
<1>0. /\ kind = "ET" /\ kind' = kind /\ open \subseteq Clients /\ Listener \notin Clients
      /\ ready' = ready \ {c} /\ UNCHANGED <<client, queued, fin, rst>>
      /\ inbox' = [inbox EXCEPT ![c] = 0]
  <2>1. /\ kind = "ET" /\ kind' = kind /\ ready' = ready \ {c}
        /\ UNCHANGED <<client, queued, fin, rst>>
        /\ inbox' = [inbox EXCEPT ![c] = @ - inbox[c]]
    BY Zenon DEF ETRead, Got
  <2>2. open \subseteq Clients /\ Listener \notin Clients
    BY ClientsAssumption DEF IInv, Descriptors
  <2>3. inbox \in [Clients -> Nat]
    BY <2>1 DEF EdgeInv
  <2>4. inbox[c] - inbox[c] = 0
    BY <2>3
  <2> QED BY <2>1, <2>2, <2>4
<1>1. CASE c \in fin \cup rst
  <2>1. open' = open \ {c} /\ edge' = edge \ {c}
    BY <1>1 DEF ETRead, Close
  <2> QED BY <1>0, <2>1 DEF EdgeInv, NoLostEdge, Pending, Up, ETRead
<1>2. CASE c \notin fin \cup rst
  <2>1. open' = open /\ edge' = edge
    BY <1>2 DEF ETRead, KeepsOpen
  <2> QED BY <1>0, <1>2, <2>1 DEF EdgeInv, NoLostEdge, Pending, Up, ETRead
<1> QED BY <1>1, <1>2

\* What send() leaves behind is a reply, a closed descriptor, or a reset with an edge.
LEMMA SendEdges ==
    ASSUME IInv, EdgeInv, Up, ETSend
    PROVE  EdgeInv'
<1> DEFINE c == answer[1]
<1>1. /\ kind = "ET" /\ kind' = kind /\ open \subseteq Clients /\ Listener \notin Clients
      /\ UNCHANGED <<client, queued, fin, inbox, ready>>
  BY ClientsAssumption DEF IInv, Tables, Descriptors, ETSend
<1>2. CASE c \notin open /\ KeepsOpen /\ rst' = rst
  BY <1>1, <1>2 DEF KeepsOpen, EdgeInv, NoLostEdge, Pending, Up
<1>3. CASE c \in open /\ Close({c}) /\ rst' = rst
  BY <1>1, <1>3 DEF Close, EdgeInv, NoLostEdge, Pending, Up
<1>4. CASE /\ Echo(c, answer[2]) /\ open' = open
           /\ edge' = IF client[c] = "gone" THEN edge \cup {c} ELSE edge
  <2>1. rst' = IF client[c] = "gone" THEN rst \cup {c} ELSE rst
    BY <1>4 DEF Echo
  <2> QED BY <1>1, <1>4, <2>1 DEF EdgeInv, NoLostEdge, Pending, Up
<1> QED BY <1>2, <1>3, <1>4 DEF ETSend

LEMMA EdgeStep ==
    ASSUME IInv, EdgeInv, [Next]_vars
    PROVE  EdgeInv'
<1>1. CASE UNCHANGED vars
  BY <1>1 DEF EdgeInv, NoLostEdge, Pending, Up, vars, sockets, server
<1>2. CASE kind # "ET"
  <2>1. kind' = kind
    BY DEF Next, ServerStep, SelectFails, ClientStep, Connect, Receive, Leave, Send, WaitLevel,
           WaitEdge, Round, ETAccept, SelectAccept, PollAccept, LTAccept, Admit, SelectRead,
           PollRead, LTRead, ETRead, ETSend, Handle, vars
  <2> QED BY <1>2, <2>1 DEF EdgeInv, NoLostEdge
<1>3. CASE Next /\ kind = "ET"
  <2>0. Up /\ open \subseteq Clients /\ Listener \notin Clients /\ queued \subseteq Clients
    BY <1>3, ClientsAssumption DEF Next, IInv, Descriptors
  <2>1. CASE WaitEdge
    BY <2>0, <2>1 DEF WaitEdge, Round, EdgeInv, NoLostEdge, Pending, Up
  <2>2. CASE ETAccept
    BY <2>0, <2>2 DEF ETAccept, Admit, EdgeInv, NoLostEdge, Pending, Up
  <2>3. ASSUME NEW c \in Clients, ETRead(c) PROVE EdgeInv'
    BY <2>0, <2>3, ReadEdges
  <2>4. ASSUME NEW c \in Clients, ClientStep(c) PROVE EdgeInv'
    BY <1>3, <2>0, <2>4, ClientEdges
  <2>5. CASE ETSend
    BY <2>0, <2>5, SendEdges
  <2>6. \/ WaitEdge \/ ETAccept \/ ETSend \/ \E c \in Clients : ETRead(c) \/ ClientStep(c)
    BY <1>3 DEF Next, ServerStep, SelectFails, WaitLevel, SelectAccept, PollAccept, LTAccept,
                SelectRead, PollRead, LTRead, Handle
  <2> QED BY <2>1, <2>2, <2>3, <2>4, <2>5, <2>6
<1> QED BY <1>1, <1>2, <1>3

\* For any number of clients, and whatever they do between the system calls of a
\* round, demo-epoll-ET leaves no descriptor with data, an end of file, a reset or a
\* connection behind without an event to come (demo-epoll-ET/server.cpp:35-96).
THEOREM EdgeServerForgetsNone == Spec => []NoLostEdge
<1>1. Init => EdgeInv
  BY DEF Init, EdgeInv, NoLostEdge, Pending
<1>2. IInv /\ EdgeInv /\ [Next]_vars => EdgeInv'
  BY EdgeStep
<1>3. EdgeInv => NoLostEdge
  BY DEF EdgeInv
<1> QED BY <1>1, <1>2, <1>3, Invariance, PTL DEF Spec
===============================================================================
