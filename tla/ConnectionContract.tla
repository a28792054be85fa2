-------------------------- MODULE ConnectionContract --------------------------
(***************************************************************************)
(* What TcpServer promises about each accepted descriptor: at most         *)
(* MaxConns are open at once, one is refused only when that many are, an   *)
(* open one is closed before it is released, and it is released in the end *)
(* unless the I/O thread dies first.  ConnectionLifetime.tla implements it.   *)
(***************************************************************************)
EXTENDS Naturals, FiniteSets

CONSTANTS Conns, MaxConns

VARIABLES stage,   \* "new", "refused", "open", "closing" or "released"
          dead     \* the I/O thread's behaviour is undefined from here on

vars == <<stage, dead>>

Open == {c \in Conns : stage[c] = "open"}

Init == stage = [c \in Conns |-> "new"] /\ dead = FALSE

Move(c, from, to) ==
    /\ stage[c] = from
    /\ stage' = [stage EXCEPT ![c] = to]
    /\ UNCHANGED dead

Accept(c)  == Cardinality(Open) < MaxConns /\ Move(c, "new", "open")
Refuse(c)  == Cardinality(Open) = MaxConns /\ Move(c, "new", "refused")

\* Connections are closed, and closed ones are released.  One pass of the timer
\* queue does both to several: it closes the open ones whose time has come and
\* drops its references to the others.
Settle ==
    /\ \E S \in SUBSET Open, R \in SUBSET {c \in Conns : stage[c] = "closing"} :
         /\ S \cup R # {}
         /\ stage' = [c \in Conns |-> IF c \in S THEN "closing"
                                     ELSE IF c \in R THEN "released" ELSE stage[c]]
    /\ UNCHANGED dead

Die == ~dead /\ dead' = TRUE /\ UNCHANGED stage

Next ==
    \/ Settle \/ Die
    \/ \E c \in Conns : Accept(c) \/ Refuse(c)

EventuallyReleased == \A c \in Conns : (stage[c] = "open") ~> (stage[c] = "released" \/ dead)

SafeSpec == Init /\ [][Next]_vars

Spec == SafeSpec /\ EventuallyReleased
===============================================================================
