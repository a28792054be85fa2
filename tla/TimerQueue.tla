------------------------------ MODULE TimerQueue ------------------------------
(***************************************************************************)
(* TimerQueue and Timer (reactor/src/TimerQueue.cpp, Timer.cpp): a multimap *)
(* of timers by expiration, an index from timer id to expiration, and one  *)
(* timerfd armed for the earliest.  Everything runs in the loop thread; a  *)
(* callback of another channel, or of a timer, may add and cancel timers.  *)
(* What runs beside it is the clock, which makes the timerfd readable.     *)
(***************************************************************************)
EXTENDS Integers, FiniteSets, FiniteSetsExt

CONSTANTS MaxTimers,   \* BOUND: calls of addTimer
          MaxTime,     \* BOUND: the clock
          MaxDelay,    \* BOUND: how far ahead a timer is set
          Intervals,   \* the values of interval; 0 is a one-shot timer
          None

ASSUME BoundsAssumption == MaxTimers \in Nat /\ MaxTime \in Nat /\ MaxDelay \in Nat
ASSUME IntervalAssumption == Intervals \subseteq Nat
ASSUME NoneAssumption == None \notin Nat

VARIABLES
    clock,      \* CLOCK_MONOTONIC
    timers,     \* timers_, a set of [id, expiration, interval]
    id2exp,     \* id2exp_
    nextId,     \* nextTimerId_
    armedFor,   \* the time timerfd_settime has set, None when it has expired
    readable,   \* the timerfd has expired and not been read since
    edge,       \* it is on epoll's ready list
    reported,   \* epoll_wait has reported it and handleRead has not begun
    firing,     \* handleRead is on the stack
    now,        \* its now
    expired,    \* the timers in its vector that have not run
    ran,        \* the ids that handleRead has collected at least once (history)
    cancelled,  \* those cancel() was called for while their timer was in timers_
                \* and had never been collected (history)
    late        \* those it was called for while a repeating timer that had been
                \* collected before was back in timers_ (history)

queueVars == <<timers, id2exp, nextId>>
fdVars    == <<armedFor, readable, edge>>
roundVars == <<reported, firing, now, expired>>
asked     == <<cancelled, late>>
vars      == <<clock, queueVars, fdVars, roundVars, ran, asked>>

Ids == 1 .. MaxTimers

Init ==
    /\ clock = 0 /\ timers = {} /\ id2exp = <<>> /\ nextId = 1
    /\ armedFor = None /\ readable = FALSE /\ edge = FALSE
    /\ reported = FALSE /\ firing = FALSE /\ now = 0 /\ expired = {}
    /\ ran = {} /\ cancelled = {} /\ late = {}

Earliest(S) == Min({t.expiration : t \in S})

\* Mistake: a timerfd that is armed already is left alone.
ResetIfDisarmed(expiration) ==
    /\ armedFor' = IF armedFor = None THEN expiration ELSE armedFor
    /\ readable' = FALSE /\ UNCHANGED edge

\* resetTimerfd: setting the timerfd also forgets an expiration nobody has read.
ResetTimerfd(expiration) ==
    armedFor' = expiration /\ readable' = FALSE /\ UNCHANGED edge

-------------------------------------------------------------------------------
(* The clock and the timerfd. *)

Tick ==
    /\ clock < MaxTime
    /\ clock' = clock + 1
    /\ UNCHANGED <<queueVars, fdVars, roundVars, ran, asked>>

Expire ==
    /\ armedFor # None /\ armedFor =< clock
    /\ armedFor' = None /\ readable' = TRUE /\ edge' = TRUE
    /\ UNCHANGED <<clock, queueVars, roundVars, ran, asked>>

\* epoll_wait, between two rounds of the loop.
Report ==
    /\ edge /\ ~reported /\ ~firing
    /\ edge' = FALSE /\ reported' = readable
    /\ UNCHANGED <<clock, queueVars, armedFor, readable, firing, now, expired, ran, asked>>

-------------------------------------------------------------------------------
(* Callbacks, of a timer or of another channel. *)

AddTimer(expiration, interval) ==
    /\ nextId =< MaxTimers
    /\ timers' = timers \cup {[id |-> nextId, expiration |-> expiration, interval |-> interval]}
    /\ nextId' = nextId + 1
    /\ IF timers = {} \/ expiration < Earliest(timers)
       THEN ResetTimerfd(expiration) ELSE UNCHANGED fdVars
    /\ id2exp' = [x \in DOMAIN id2exp \cup {nextId} |->
                     IF x = nextId THEN expiration ELSE id2exp[x]]
    /\ UNCHANGED <<clock, roundVars, ran, asked>>

\* What cancel(id) was asked, for the properties.
Asked(id) ==
    LET waits == \E t \in timers : t.id = id IN
    /\ cancelled' = IF waits /\ id \notin ran THEN cancelled \cup {id} ELSE cancelled
    /\ late' = IF waits /\ id \in ran THEN late \cup {id} ELSE late

\* Mistakes: cancel() forgets the index, or forgets the timer.
CancelKeepsIndex(id) ==
    /\ id < nextId
    /\ timers' = {t \in timers : id \notin DOMAIN id2exp \/ t.id # id}
    /\ Asked(id)
    /\ UNCHANGED <<clock, id2exp, nextId, fdVars, roundVars, ran>>

CancelKeepsTimer(id) ==
    /\ id < nextId
    /\ id2exp' = [x \in DOMAIN id2exp \ {id} |-> id2exp[x]]
    /\ Asked(id)
    /\ UNCHANGED <<clock, timers, nextId, fdVars, roundVars, ran>>

\* The timerfd is left as it is: it may expire for nothing.
Cancel(id) ==
    /\ id < nextId
    /\ IF id \in DOMAIN id2exp
       THEN /\ timers' = {t \in timers : t.id # id \/ t.expiration # id2exp[id]}
            /\ id2exp' = [x \in DOMAIN id2exp \ {id} |-> id2exp[x]]
       ELSE UNCHANGED <<timers, id2exp>>
    /\ Asked(id)
    /\ UNCHANGED <<clock, nextId, fdVars, roundVars, ran>>

-------------------------------------------------------------------------------
(* handleRead. *)

\* Mistake: a timer is taken a tick before it is due.
DueSoon == {t \in timers : t.expiration =< clock + 1}

Due == {t \in timers : t.expiration =< clock}

Collect ==
    /\ reported
    /\ reported' = FALSE /\ firing' = TRUE
    /\ readable' = FALSE
    /\ now' = clock
    /\ expired' = Due
    /\ timers' = timers \ expired'
    /\ id2exp' = [x \in DOMAIN id2exp \ {t.id : t \in expired'} |-> id2exp[x]]
    /\ ran' = ran \cup {t.id : t \in expired'}
    /\ UNCHANGED <<clock, nextId, armedFor, edge, asked>>

\* Mistake: a repeating timer goes back by its interval.
SetBack(t) == [t EXCEPT !.expiration = now - t.interval]

\* Timer::restart.
Restarted(t) == [t EXCEPT !.expiration = now + t.interval]

\* The callback of the next of them returns.
RunTimer ==
    /\ firing
    /\ \E t \in expired :
         /\ t.expiration = Earliest(expired)
         /\ expired' = expired \ {t}
         /\ timers' = IF t.interval > 0
                      THEN timers \cup {Restarted(t)}
                      ELSE timers
    /\ UNCHANGED <<clock, id2exp, nextId, fdVars, reported, firing, now, ran, asked>>

\* The vector and now go out of scope.
RoundDone ==
    /\ firing /\ expired = {}
    /\ firing' = FALSE /\ now' = 0
    /\ IF timers # {} THEN ResetTimerfd(Earliest(timers)) ELSE UNCHANGED fdVars
    /\ UNCHANGED <<clock, queueVars, reported, expired, ran, asked>>

-------------------------------------------------------------------------------
LoopStep == Report \/ Collect \/ RunTimer \/ RoundDone

Next ==
    \/ Tick \/ Expire \/ LoopStep
    \/ \E delay \in 0 .. MaxDelay, interval \in Intervals : AddTimer(clock + delay, interval)
    \/ \E id \in Ids : Cancel(id)

SafeSpec == Init /\ [][Next]_vars

\* The loop runs and the kernel makes an expired timerfd readable.
Spec == SafeSpec /\ WF_vars(LoopStep) /\ WF_vars(Expire)

-------------------------------------------------------------------------------
(* Properties. *)

\* The type invariant.
TypeOK ==
    /\ clock \in Nat /\ nextId \in 1 .. MaxTimers + 1
    /\ timers \subseteq [id : Ids, expiration : Nat, interval : Intervals]
    /\ expired \subseteq [id : Ids, expiration : Nat, interval : Intervals]
    /\ DOMAIN id2exp \subseteq Ids /\ \A id \in DOMAIN id2exp : id2exp[id] \in Nat
    /\ armedFor \in Nat \cup {None} /\ readable \in BOOLEAN /\ edge \in BOOLEAN
    /\ reported \in BOOLEAN /\ firing \in BOOLEAN /\ now \in Nat
    /\ ran \subseteq Ids /\ cancelled \subseteq Ids /\ late \subseteq Ids

\* The timerfd will be reported no later than the earliest timer is due, unless
\* handleRead is about to run anyway: no callback that adds or cancels a timer
\* leaves the queue waiting for a later one.
Covered ==
    timers = {} \/ reported \/ firing
    \/ (readable /\ edge)
    \/ (armedFor # None /\ armedFor =< Earliest(timers))

\* The index finds a waiting timer by its id where it is, and has no entry for
\* one that is gone; a repeating timer leaves the index when it first runs.
IndexExact ==
    /\ \A id \in DOMAIN id2exp : \E t \in timers : t.id = id /\ t.expiration = id2exp[id]
    /\ \A t \in timers : t.id \in DOMAIN id2exp \/ (t.interval > 0 /\ t.id \in ran)
    /\ \A t, u \in timers \cup expired : t.id = u.id => t = u

Gone(id) == \A t \in timers \cup expired : t.id # id

\* A cancel() that comes before handleRead has first collected the timer is for good:
\* the timer, repeating or not, is in no map and in no round from then on.
CancelStops == \A id \in cancelled : Gone(id)

\* "Cancels a timer": cancel() takes out any timer that is in timers_, one that
\* repeats and has run before too.  The code does not keep this: cancel() looks in
\* id2exp_, which loses a timer when it is first collected.
CancelAlways == \A id \in cancelled \cup late : Gone(id)

\* The timers of S as the service has them, by id: those that wait, and those taken.
Find(S, id)  == CHOOSE t \in S : t.id = id
IdsOf(S)     == {t.id : t \in S}
WaitingOf(S) == [id \in IdsOf(S) |->
                    [due |-> Find(S, id).expiration, every |-> Find(S, id).interval]]
TakenOf(S)   == [id \in IdsOf(S) |-> Find(S, id).interval]

Service == INSTANCE TimerService WITH
    waiting <- WaitingOf(timers), taken <- TakenOf(expired), used <- 1 .. nextId - 1

\* Multimap, index and timerfd implement the service: a timer runs when it is
\* due and not before, and none is forgotten.
ImplementsTimerService == Service!Spec

\* The safety part, for the proof.
ImplementsTimerServiceSafely == Service!SafeSpec
===============================================================================
