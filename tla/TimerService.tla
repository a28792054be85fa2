----------------------------- MODULE TimerService ------------------------------
(***************************************************************************)
(* What TimerQueue promises: a timer runs when its time has come and not   *)
(* before, once unless it repeats, and it is taken in the end unless it is *)
(* cancelled first.  A cancel is in time as long as the timer has not been *)
(* taken for the first time: it is recorded in cancelled, and the timer    *)
(* never runs.  A later one is not part of the service, and has no effect. *)
(* TimerQueue.tla implements this module.                                  *)
(***************************************************************************)
EXTENDS Naturals

CONSTANTS Ids, Intervals, MaxDelay

VARIABLES clock,
          waiting,   \* [id -> [due, every]], the timers not taken
          taken,     \* [id -> every], those taken for this round that have not run
          used,      \* the ids handed out
          ran,       \* those that have been taken at least once
          cancelled  \* those that have been cancelled in time

vars == <<clock, waiting, taken, used, ran, cancelled>>

Init ==
    /\ clock = 0 /\ waiting = <<>> /\ taken = <<>> /\ used = {}
    /\ ran = {} /\ cancelled = {}

With(f, id, v) == [x \in DOMAIN f \cup {id} |-> IF x = id THEN v ELSE f[x]]
Without(f, S)  == [x \in DOMAIN f \ S |-> f[x]]

Due(id) == id \in DOMAIN waiting /\ waiting[id].due =< clock

Tick == clock' = clock + 1 /\ UNCHANGED <<waiting, taken, used, ran, cancelled>>

Add(id, due, every) ==
    /\ id \notin used
    /\ used' = used \cup {id}
    /\ waiting' = With(waiting, id, [due |-> due, every |-> every])
    /\ UNCHANGED <<clock, taken, ran, cancelled>>

Cancel(id) ==
    /\ id \in DOMAIN waiting /\ id \notin ran
    /\ waiting' = Without(waiting, {id})
    /\ cancelled' = cancelled \cup {id}
    /\ UNCHANGED <<clock, taken, used, ran>>

Take ==
    /\ DOMAIN taken = {}
    /\ LET due == {id \in DOMAIN waiting : Due(id)} IN
       /\ taken' = [id \in due |-> waiting[id].every]
       /\ waiting' = Without(waiting, due)
       /\ ran' = ran \cup due
    /\ UNCHANGED <<clock, used, cancelled>>

\* One that repeats is due again its interval after a moment that has passed.
Run(id) ==
    /\ id \in DOMAIN taken
    /\ taken' = Without(taken, {id})
    /\ \/ taken[id] = 0 /\ UNCHANGED waiting
       \/ /\ taken[id] > 0
          /\ \E t \in 0 .. clock :
               waiting' = With(waiting, id, [due |-> t + taken[id], every |-> taken[id]])
    /\ UNCHANGED <<clock, used, ran, cancelled>>

Next ==
    \/ Tick \/ Take
    \/ \E id \in Ids : Cancel(id) \/ Run(id)
    \/ \E id \in Ids, delay \in 0 .. MaxDelay, every \in Intervals :
           Add(id, clock + delay, every)

SafeSpec == Init /\ [][Next]_vars

Punctual == \A id \in Ids : Due(id) ~> ~Due(id)

Completed == \A id \in Ids : (id \in DOMAIN taken) ~> (id \notin DOMAIN taken)

Spec == SafeSpec /\ Punctual /\ Completed
===============================================================================
