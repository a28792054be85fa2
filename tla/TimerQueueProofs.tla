--------------------------- MODULE TimerQueueProofs ---------------------------
(***************************************************************************)
(* For every number of timers, all delays and intervals and any clock: the *)
(* timerfd is never set for later than the earliest timer, the index is    *)
(* exact, a cancel() before a timer's first collection is final, and       *)
(* TimerQueue implements the safety part of TimerService.                  *)
(***************************************************************************)
EXTENDS TimerQueue, WellFoundedInduction, TLAPS

-------------------------------------------------------------------------------
(* The inductive invariant. *)

\* What the invariants rest on: handleRead alone holds timers that are in no map,
\* they are not in timers_ as well, and every id has been handed out.
RoundState ==
    /\ expired # {} => firing
    /\ reported => ~firing
    /\ firing => now =< clock
    /\ timers \cap expired = {}
    /\ \A t \in timers \cup expired : t.id < nextId

\* What the promise of cancel() rests on: handed out and collected ids are never new
\* again, and id2exp_ has the timers that have not been collected, and no others.
HistoryState ==
    /\ \A id \in ran \cup cancelled : id < nextId
    /\ \A t \in expired : t.id \in ran
    /\ \A id \in DOMAIN id2exp : id \notin ran
    /\ CancelStops

\* The inductive invariant.
IInv == TypeOK /\ RoundState /\ IndexExact /\ Covered /\ HistoryState

-------------------------------------------------------------------------------
Timers == [id : Ids, expiration : Nat, interval : Intervals]

\* A non-empty set of numbers has a least one.
LEMMA MinIsLeast ==
    ASSUME NEW S \in SUBSET Nat, S # {}
    PROVE  Min(S) \in S /\ \A n \in S : Min(S) =< n
<1>1. PICK m \in S : \A n \in S : ~(<<n, m>> \in OpToRel(<, Nat))
  BY NatLessThanWellFounded, WFMin, Zenon
<1>2. \A n \in S : n < m => <<n, m>> \in OpToRel(<, Nat)
  BY ZenonT(30) DEF OpToRel
<1>3. \A n \in S : ~(n < m)
  BY <1>1, <1>2, Zenon
<1>4. \A n \in S : m =< n
  BY <1>3
<1> QED
  BY <1>4 DEF Min

\* timers_.begin() of a multimap that is not empty.
LEMMA EarliestIsLeast ==
    ASSUME NEW S \in SUBSET Timers, S # {}
    PROVE  /\ Earliest(S) \in Nat
           /\ \A t \in S : Earliest(S) =< t.expiration
           /\ \E t \in S : t.expiration = Earliest(S)
<1> DEFINE E == {t.expiration : t \in S}
<1>1. E \in SUBSET Nat /\ E # {}
  BY DEF Timers
<1>2. Min(E) \in E /\ \A n \in E : Min(E) =< n
  BY <1>1, MinIsLeast
<1> QED
  BY <1>1, <1>2 DEF Earliest

\* resetTimerfd() for the new begin() of timers_: the earliest is the new timer,
\* or the one that was.
LEMMA EarliestOfAdded ==
    ASSUME NEW S \in SUBSET Timers, NEW t \in Timers
    PROVE  Earliest(S \cup {t}) = IF S = {} \/ t.expiration < Earliest(S)
                                  THEN t.expiration ELSE Earliest(S)
<1>1. t.expiration \in Nat /\ \A u \in S : u.expiration \in Nat
  BY DEF Timers
<1>2. /\ Earliest(S \cup {t}) \in Nat
      /\ \A u \in S \cup {t} : Earliest(S \cup {t}) =< u.expiration
      /\ \E u \in S \cup {t} : u.expiration = Earliest(S \cup {t})
  <2>1. S \cup {t} \in SUBSET Timers /\ S \cup {t} # {}
    OBVIOUS
  <2> QED
    BY <2>1, EarliestIsLeast
<1>3. CASE S = {}
  BY <1>2, <1>3
<1>4. CASE S # {}
  <2>1. /\ Earliest(S) \in Nat /\ \A u \in S : Earliest(S) =< u.expiration
        /\ \E u \in S : u.expiration = Earliest(S)
    BY <1>4, EarliestIsLeast
  <2>2. CASE t.expiration < Earliest(S)
    BY <1>1, <1>2, <2>1, <2>2
  <2>3. CASE ~(t.expiration < Earliest(S))
    BY <1>1, <1>2, <2>1, <2>3
  <2> QED
    BY <1>4, <2>2, <2>3
<1> QED
  BY <1>3, <1>4

\* cancel() can only make the earliest timer later.
LEMMA EarliestOfFewer ==
    ASSUME NEW S \in SUBSET Timers, NEW R \in SUBSET S, R # {}
    PROVE  Earliest(S) =< Earliest(R)
<1>1. R \in SUBSET Timers /\ S # {}
  OBVIOUS
<1> QED
  BY <1>1, EarliestIsLeast

-------------------------------------------------------------------------------
\* An empty queue.
LEMMA InitInv == Init => IInv
<1> SUFFICES ASSUME Init PROVE IInv
  OBVIOUS
<1>1. DOMAIN id2exp = {}
  BY DEF Init
<1>2. DOMAIN id2exp \subseteq Ids /\ \A id \in DOMAIN id2exp : id2exp[id] \in Nat
  BY <1>1
<1>3. /\ clock \in Nat /\ now \in Nat /\ nextId \in 1 .. MaxTimers + 1
      /\ timers = {} /\ expired = {} /\ armedFor \in Nat \cup {None}
  <2>1. /\ clock = 0 /\ now = 0 /\ nextId = 1 /\ armedFor = None
        /\ timers = {} /\ expired = {}
    BY DEF Init
  <2> QED
    BY <2>1, BoundsAssumption
<1>4. ran = {} /\ cancelled = {} /\ late = {}
  BY DEF Init
<1>5. TypeOK
  <2>1. ran \subseteq Ids /\ cancelled \subseteq Ids /\ late \subseteq Ids
    BY <1>4
  <2> QED
    BY <1>2, <1>3, <2>1, Zenon DEF Init, TypeOK
<1>6. RoundState /\ IndexExact /\ Covered
  BY <1>1 DEF Init, RoundState, IndexExact, Covered
<1>7. HistoryState
  BY <1>1, <1>3, <1>4 DEF HistoryState, CancelStops, Gone
<1> QED
  BY <1>5, <1>6, <1>7 DEF IInv

\* Every step keeps the types.
LEMMA TypeStep == IInv /\ [Next]_vars => TypeOK'
<1> SUFFICES ASSUME IInv, [Next]_vars PROVE TypeOK'
  OBVIOUS
<1> USE DEF TypeOK
<1>0. TypeOK /\ timers \in SUBSET Timers /\ expired \in SUBSET Timers
  BY DEF IInv, Timers
<1>1. CASE Tick
  BY <1>0, <1>1 DEF Tick, queueVars, fdVars, roundVars, asked
<1>2. CASE Expire
  BY <1>0, <1>2 DEF Expire, queueVars, roundVars, asked
<1>3. CASE Report
  BY <1>0, <1>3 DEF Report, queueVars, asked
<1>4. CASE Collect
  BY <1>0, <1>4 DEF Collect, Due, asked, Timers
<1>5. CASE RunTimer
  <2>1. PICK t \in expired :
          /\ expired' = expired \ {t}
          /\ timers' = IF t.interval > 0 THEN timers \cup {Restarted(t)} ELSE timers
    BY <1>5 DEF RunTimer
  <2>2. Restarted(t) \in Timers
    BY <1>0, IntervalAssumption DEF Restarted, Timers
  <2> QED
    BY <1>0, <1>5, <2>1, <2>2 DEF RunTimer, fdVars, asked, Timers
<1>6. CASE RoundDone
  <2>1. timers # {} => Earliest(timers) \in Nat
    BY <1>0, EarliestIsLeast
  <2> QED
    BY <1>0, <1>6, <2>1 DEF RoundDone, ResetTimerfd, queueVars, fdVars, asked
<1>7. ASSUME NEW delay \in 0 .. MaxDelay, NEW interval \in Intervals,
             AddTimer(clock + delay, interval)
      PROVE  TypeOK'
  <2>1. clock + delay \in Nat /\ nextId \in Ids /\ nextId' \in 1 .. MaxTimers + 1
    BY <1>0, <1>7, BoundsAssumption DEF AddTimer, Ids
  <2>2. DOMAIN id2exp' \subseteq Ids /\ \A id \in DOMAIN id2exp' : id2exp'[id] \in Nat
    BY <1>0, <1>7, <2>1 DEF AddTimer
  <2>3. armedFor' \in Nat \cup {None} /\ readable' \in BOOLEAN /\ edge' \in BOOLEAN
    BY <1>0, <1>7, <2>1 DEF AddTimer, ResetTimerfd, fdVars
  <2>4. timers' \subseteq [id : Ids, expiration : Nat, interval : Intervals]
    BY <1>0, <1>7, <2>1 DEF AddTimer
  <2> QED
    BY <1>0, <1>7, <2>1, <2>2, <2>3, <2>4 DEF AddTimer, roundVars, asked
<1>8. ASSUME NEW id \in Ids, Cancel(id) PROVE TypeOK'
  BY <1>0, <1>8 DEF Cancel, Asked, fdVars, roundVars
<1>9. CASE UNCHANGED vars
  BY <1>0, <1>9 DEF vars, queueVars, fdVars, roundVars, asked
<1> QED
  BY <1>1, <1>2, <1>3, <1>4, <1>5, <1>6, <1>7, <1>8, <1>9 DEF Next, LoopStep

\* Every step keeps what handleRead holds apart from what the maps hold.
LEMMA RoundStep == IInv /\ [Next]_vars => RoundState'
<1> SUFFICES ASSUME IInv, [Next]_vars PROVE RoundState'
  OBVIOUS
<1> USE DEF RoundState
<1>0. TypeOK /\ RoundState /\ IndexExact
      /\ timers \in SUBSET Timers /\ expired \in SUBSET Timers
  BY DEF IInv, TypeOK, Timers
<1>1. CASE Tick
  BY <1>0, <1>1 DEF Tick, queueVars, fdVars, roundVars, asked, TypeOK
<1>2. CASE Expire
  BY <1>0, <1>2 DEF Expire, queueVars, roundVars, asked
<1>3. CASE Report
  BY <1>0, <1>3 DEF Report, queueVars, asked
<1>4. CASE Collect
  BY <1>0, <1>4 DEF Collect, Due, TypeOK
<1>5. CASE RunTimer
  <2>1. PICK t \in expired :
          /\ expired' = expired \ {t}
          /\ timers' = IF t.interval > 0 THEN timers \cup {Restarted(t)} ELSE timers
    BY <1>5 DEF RunTimer
  <2>2. Restarted(t).id = t.id
    BY <1>0 DEF Restarted, Timers
  <2>3. Restarted(t) \notin expired \ {t}
    BY <1>0, <2>2 DEF IndexExact
  <2> QED
    BY <1>0, <1>5, <2>1, <2>2, <2>3 DEF RunTimer, fdVars, asked
<1>6. CASE RoundDone
  BY <1>0, <1>6 DEF RoundDone, queueVars, asked, TypeOK
<1>7. ASSUME NEW delay \in 0 .. MaxDelay, NEW interval \in Intervals,
             AddTimer(clock + delay, interval)
      PROVE  RoundState'
  BY <1>0, <1>7 DEF AddTimer, roundVars, Timers, Ids, TypeOK
<1>8. ASSUME NEW id \in Ids, Cancel(id) PROVE RoundState'
  BY <1>0, <1>8 DEF Cancel, Asked, fdVars, roundVars
<1>9. CASE UNCHANGED vars
  BY <1>0, <1>9 DEF vars, queueVars, fdVars, roundVars, asked
<1> QED
  BY <1>1, <1>2, <1>3, <1>4, <1>5, <1>6, <1>7, <1>8, <1>9 DEF Next, LoopStep

\* Every step keeps the index exact.
LEMMA IndexStep == IInv /\ [Next]_vars => IndexExact'
<1> SUFFICES ASSUME IInv, [Next]_vars PROVE IndexExact'
  OBVIOUS
<1> USE DEF IndexExact
<1>0. TypeOK /\ RoundState /\ IndexExact /\ \A t \in expired : t.id \in ran
      /\ timers \in SUBSET Timers /\ expired \in SUBSET Timers
  BY DEF IInv, TypeOK, Timers, HistoryState
<1>1. CASE Tick
  BY <1>0, <1>1 DEF Tick, queueVars, fdVars, roundVars, asked
<1>2. CASE Expire
  BY <1>0, <1>2 DEF Expire, queueVars, roundVars, asked
<1>3. CASE Report
  BY <1>0, <1>3 DEF Report, queueVars, asked
<1>4. CASE Collect
  <2>1. /\ Due \subseteq timers /\ timers' = timers \ Due /\ expired' = Due
        /\ id2exp' = [x \in DOMAIN id2exp \ {t.id : t \in Due} |-> id2exp[x]]
    BY <1>4 DEF Collect, Due
  <2>2. \A id \in DOMAIN id2exp' : \E t \in timers' : t.id = id /\ t.expiration = id2exp'[id]
    BY <1>0, <2>1
  <2>3. ran \subseteq ran'
    BY <1>4 DEF Collect
  <2> QED
    BY <1>0, <2>1, <2>2, <2>3
<1>5. CASE RunTimer
  <2>1. PICK t \in expired :
          /\ expired' = expired \ {t}
          /\ timers' = IF t.interval > 0 THEN timers \cup {Restarted(t)} ELSE timers
    BY <1>5 DEF RunTimer
  <2>2. Restarted(t).id = t.id /\ Restarted(t).interval = t.interval
    BY <1>0 DEF Restarted, Timers
  <2>3. \A u \in timers \cup (expired \ {t}) : u.id # t.id
    BY <1>0 DEF RoundState
  <2> QED
    BY <1>0, <1>5, <2>1, <2>2, <2>3 DEF RunTimer, fdVars, asked
<1>6. CASE RoundDone
  BY <1>0, <1>6 DEF RoundDone, queueVars, asked
<1>7. ASSUME NEW delay \in 0 .. MaxDelay, NEW interval \in Intervals,
             AddTimer(clock + delay, interval)
      PROVE  IndexExact'
  <2>1. \A t \in timers \cup expired : t.id # nextId
    BY <1>0 DEF RoundState, Timers, Ids, TypeOK
  <2> DEFINE t == [id |-> nextId, expiration |-> clock + delay, interval |-> interval]
  <2>2. /\ timers' = timers \cup {t} /\ expired' = expired
        /\ id2exp' = [x \in DOMAIN id2exp \cup {nextId} |->
                         IF x = nextId THEN clock + delay ELSE id2exp[x]]
    BY <1>7 DEF AddTimer, roundVars
  <2>3. t.id = nextId /\ t.expiration = clock + delay
    OBVIOUS
  <2>4. DOMAIN id2exp' = DOMAIN id2exp \cup {nextId} /\ id2exp'[nextId] = clock + delay
        /\ \A id \in DOMAIN id2exp : id # nextId /\ id2exp'[id] = id2exp[id]
    BY <1>0, <2>1, <2>2
  <2> HIDE DEF t
  <2>5. \A id \in DOMAIN id2exp' : \E u \in timers' : u.id = id /\ u.expiration = id2exp'[id]
    BY <1>0, <2>2, <2>3, <2>4
  <2>6. \A u \in timers' : u.id \in DOMAIN id2exp' \/ (u.interval > 0 /\ u.id \in ran')
    BY <1>0, <1>7, <2>2, <2>3, <2>4 DEF AddTimer
  <2>7. \A u, v \in timers' \cup expired' : u.id = v.id => u = v
    BY <1>0, <2>1, <2>2, <2>3
  <2> QED
    BY <2>5, <2>6, <2>7
<1>8. ASSUME NEW id \in Ids, Cancel(id) PROVE IndexExact'
  <2>1. CASE id \in DOMAIN id2exp
    <3>1. \A t \in timers : t.id = id => t.expiration = id2exp[id]
      BY <1>0, <2>1
    <3>2. timers' = {t \in timers : t.id # id}
      BY <1>8, <2>1, <3>1 DEF Cancel
    <3> QED
      BY <1>0, <1>8, <2>1, <3>2 DEF Cancel, roundVars
  <2>2. CASE id \notin DOMAIN id2exp
    BY <1>0, <1>8, <2>2 DEF Cancel, roundVars
  <2> QED
    BY <2>1, <2>2
<1>9. CASE UNCHANGED vars
  BY <1>0, <1>9 DEF vars, queueVars, fdVars, roundVars, asked
<1> QED
  BY <1>1, <1>2, <1>3, <1>4, <1>5, <1>6, <1>7, <1>8, <1>9 DEF Next, LoopStep

\* Every step leaves the timerfd set for the earliest timer, or about to be.
LEMMA CoveredStep == IInv /\ [Next]_vars => Covered'
<1> SUFFICES ASSUME IInv, [Next]_vars PROVE Covered'
  OBVIOUS
<1> USE DEF Covered
<1>0. TypeOK /\ RoundState /\ Covered
      /\ timers \in SUBSET Timers /\ expired \in SUBSET Timers
  BY DEF IInv, TypeOK, Timers
<1>1. CASE Tick
  BY <1>0, <1>1 DEF Tick, queueVars, fdVars, roundVars, asked
<1>2. CASE Expire
  BY <1>0, <1>2 DEF Expire
<1>3. CASE Report
  BY <1>0, <1>3 DEF Report, queueVars, asked
<1>4. CASE Collect
  BY <1>4 DEF Collect
<1>5. CASE RunTimer
  BY <1>5 DEF RunTimer
<1>6. CASE RoundDone
  <2>1. CASE timers = {}
    BY <1>6, <2>1 DEF RoundDone, queueVars, asked
  <2>2. CASE timers # {}
    <3>1. armedFor' = Earliest(timers) /\ timers' = timers
      BY <1>6, <2>2 DEF RoundDone, ResetTimerfd, queueVars
    <3>2. Earliest(timers) \in Nat
      BY <1>0, <2>2, EarliestIsLeast
    <3>3. Earliest(timers') = Earliest(timers)
      BY <3>1
    <3> QED
      BY <3>1, <3>2, <3>3, NoneAssumption
  <2> QED
    BY <2>1, <2>2
<1>7. ASSUME NEW delay \in 0 .. MaxDelay, NEW interval \in Intervals,
             AddTimer(clock + delay, interval)
      PROVE  Covered'
  <2> DEFINE t == [id |-> nextId, expiration |-> clock + delay, interval |-> interval]
  <2>1. t \in Timers /\ t.expiration = clock + delay /\ clock + delay \in Nat
    BY <1>0, <1>7, BoundsAssumption DEF TypeOK, AddTimer, Timers, Ids
  <2>2. timers' = timers \cup {t} /\ reported' = reported /\ firing' = firing
    BY <1>7 DEF AddTimer, roundVars
  <2>3. Earliest(timers') = IF timers = {} \/ clock + delay < Earliest(timers)
                            THEN clock + delay ELSE Earliest(timers)
    BY <1>0, <2>1, <2>2, EarliestOfAdded
  <2>4. CASE timers = {} \/ clock + delay < Earliest(timers)
    <3>1. armedFor' = clock + delay
      BY <1>7, <2>4 DEF AddTimer, ResetTimerfd
    <3> QED
      BY <2>1, <2>3, <2>4, <3>1, NoneAssumption
  <2>5. CASE timers # {} /\ ~(clock + delay < Earliest(timers))
    BY <1>0, <1>7, <2>2, <2>3, <2>5 DEF AddTimer, fdVars
  <2> QED
    BY <2>4, <2>5
<1>8. ASSUME NEW id \in Ids, Cancel(id) PROVE Covered'
  <2>1. timers' \in SUBSET timers
    BY <1>8 DEF Cancel
  <2>2. timers' # {} => /\ Earliest(timers) =< Earliest(timers')
                        /\ Earliest(timers) \in Nat /\ Earliest(timers') \in Nat
    BY <1>0, <2>1, EarliestOfFewer, EarliestIsLeast
  <2> QED
    BY <1>0, <1>8, <2>1, <2>2 DEF Cancel, fdVars, roundVars, TypeOK
<1>9. CASE UNCHANGED vars
  BY <1>0, <1>9 DEF vars, queueVars, fdVars, roundVars, asked
<1> QED
  BY <1>1, <1>2, <1>3, <1>4, <1>5, <1>6, <1>7, <1>8, <1>9 DEF Next, LoopStep

\* Every step keeps what was cancelled in time out of the maps and of the round.
LEMMA HistoryStep == IInv /\ [Next]_vars => HistoryState'
<1> SUFFICES ASSUME IInv, [Next]_vars PROVE HistoryState'
  OBVIOUS
<1> USE DEF HistoryState, CancelStops, Gone
<1>0. TypeOK /\ RoundState /\ IndexExact /\ HistoryState
      /\ timers \in SUBSET Timers /\ expired \in SUBSET Timers
  BY DEF IInv, TypeOK, Timers
<1>1. CASE Tick
  BY <1>0, <1>1 DEF Tick, queueVars, fdVars, roundVars, asked
<1>2. CASE Expire
  BY <1>0, <1>2 DEF Expire, queueVars, roundVars, asked
<1>3. CASE Report
  BY <1>0, <1>3 DEF Report, queueVars, asked
<1>4. CASE Collect
  BY <1>0, <1>4 DEF Collect, Due, RoundState, asked
<1>5. CASE RunTimer
  <2>1. PICK t \in expired :
          /\ expired' = expired \ {t}
          /\ timers' = IF t.interval > 0 THEN timers \cup {Restarted(t)} ELSE timers
    BY <1>5 DEF RunTimer
  <2>2. Restarted(t).id = t.id
    BY <1>0 DEF Restarted, Timers
  <2> QED
    BY <1>0, <1>5, <2>1, <2>2 DEF RunTimer, fdVars, asked
<1>6. CASE RoundDone
  BY <1>0, <1>6 DEF RoundDone, queueVars, asked
<1>7. ASSUME NEW delay \in 0 .. MaxDelay, NEW interval \in Intervals,
             AddTimer(clock + delay, interval)
      PROVE  HistoryState'
  <2>1. nextId \in Ids /\ nextId' = nextId + 1 /\ UNCHANGED <<expired, ran, cancelled>>
    BY <1>0, <1>7 DEF AddTimer, roundVars, asked, TypeOK, Ids
  <2>2. \A t \in timers' : t \in timers \/ t.id = nextId
    BY <1>7 DEF AddTimer
  <2>3. DOMAIN id2exp' = DOMAIN id2exp \cup {nextId}
    BY <1>7 DEF AddTimer
  <2>4. \A id \in ran \cup cancelled : id \in Ids /\ id # nextId /\ id < nextId'
    BY <1>0, <2>1 DEF TypeOK, Ids
  <2> QED
    BY <1>0, <2>1, <2>2, <2>3, <2>4
<1>8. ASSUME NEW id \in Ids, Cancel(id) PROVE HistoryState'
  <2>1. /\ timers' \subseteq timers /\ DOMAIN id2exp' \subseteq DOMAIN id2exp
        /\ UNCHANGED <<ran, nextId, expired>>
    BY <1>8 DEF Cancel, roundVars
  <2>2. ASSUME id \in cancelled' \ cancelled PROVE Gone(id)'
    <3>1. id \notin ran /\ \E t \in timers : t.id = id
      BY <1>8, <2>2 DEF Cancel, Asked
    <3>2. id \in DOMAIN id2exp /\ \A t \in timers : t.id = id => t.expiration = id2exp[id]
      BY <1>0, <3>1 DEF IndexExact
    <3>3. \A t \in timers' : t.id # id
      BY <1>8, <3>2 DEF Cancel
    <3>4. \A t \in expired' : t.id # id
      BY <1>0, <2>1, <3>1
    <3> QED
      BY <3>3, <3>4
  <2> QED
    BY <1>0, <1>8, <2>1, <2>2 DEF Cancel, Asked
<1>9. CASE UNCHANGED vars
  BY <1>0, <1>9 DEF vars, queueVars, fdVars, roundVars, asked
<1> QED
  BY <1>1, <1>2, <1>3, <1>4, <1>5, <1>6, <1>7, <1>8, <1>9 DEF Next, LoopStep

\* The inductive invariant holds in every reachable state.
THEOREM Invariance == SafeSpec => []IInv
<1>1. IInv /\ [Next]_vars => IInv'
  BY TypeStep, RoundStep, IndexStep, CoveredStep, HistoryStep DEF IInv
<1> QED
  BY <1>1, InitInv, PTL DEF SafeSpec

\* The two maps, the timerfd and the round of handleRead() keep their types, for any
\* number of timers and any clock.
THEOREM TypeCorrect == SafeSpec => []TypeOK
<1>1. IInv => TypeOK
  BY DEF IInv
<1> QED
  BY <1>1, Invariance, PTL

\* No addTimer(), cancel() or expiry leaves the loop asleep past the earliest timer.
THEOREM EarliestIsCovered == SafeSpec => []Covered
<1>1. IInv => Covered
  BY DEF IInv
<1> QED
  BY <1>1, Invariance, PTL

\* id2exp_ and timers_ agree, so that cancel() removes the timer it is asked to.
THEOREM IndexStaysExact == SafeSpec => []IndexExact
<1>1. IInv => IndexExact
  BY DEF IInv
<1> QED
  BY <1>1, Invariance, PTL

\* A cancel() that comes before the timer was first collected takes it out of
\* timers_ for good: no later round has it, whether it repeats or not.
THEOREM CancelIsFinal == SafeSpec => []CancelStops
<1>1. IInv => CancelStops
  BY DEF IInv, HistoryState
<1> QED
  BY <1>1, Invariance, PTL

-------------------------------------------------------------------------------
(* The refinement.  A timer is known to the service by its id. *)

Unique(S) == \A t, u \in S : t.id = u.id => t = u

\* The service finds a timer by its id.
LEMMA FindIs ==
    ASSUME NEW S, Unique(S), NEW t \in S
    PROVE  Find(S, t.id) = t
  BY DEF Find, Unique

\* What is left when some have been removed, and what has been added.
LEMMA FindAmongFewer ==
    ASSUME NEW S, Unique(S), NEW R \in SUBSET S
    PROVE  /\ IdsOf(S \ R) = IdsOf(S) \ IdsOf(R)
           /\ \A id \in IdsOf(S \ R) : Find(S \ R, id) = Find(S, id)
           /\ \A id \in IdsOf(R) : Find(R, id) = Find(S, id)
<1>1. Unique(S \ R) /\ Unique(R)
  BY DEF Unique
<1>2. IdsOf(S \ R) = IdsOf(S) \ IdsOf(R)
  BY DEF IdsOf, Unique
<1>3. ASSUME NEW id \in IdsOf(S \ R) PROVE Find(S \ R, id) = Find(S, id)
  <2>1. PICK t \in S \ R : t.id = id
    BY DEF IdsOf
  <2> QED
    BY <1>1, <2>1, FindIs
<1>4. ASSUME NEW id \in IdsOf(R) PROVE Find(R, id) = Find(S, id)
  <2>1. PICK t \in R : t.id = id
    BY DEF IdsOf
  <2> QED
    BY <1>1, <2>1, FindIs
<1> QED
  BY <1>2, <1>3, <1>4

LEMMA FindAmongMore ==
    ASSUME NEW S, NEW t, Unique(S \cup {t}), t \notin S
    PROVE  /\ IdsOf(S \cup {t}) = IdsOf(S) \cup {t.id} /\ t.id \notin IdsOf(S)
           /\ Find(S \cup {t}, t.id) = t
           /\ \A id \in IdsOf(S) : Find(S \cup {t}, id) = Find(S, id)
<1>1. IdsOf(S \cup {t}) = IdsOf(S) \cup {t.id} /\ t.id \notin IdsOf(S)
  BY DEF IdsOf, Unique
<1>2. Find(S \cup {t}, t.id) = t
  BY FindIs
<1>3. ASSUME NEW id \in IdsOf(S) PROVE Find(S \cup {t}, id) = Find(S, id)
  <2>1. PICK u \in S : u.id = id
    BY DEF IdsOf
  <2>2. Unique(S)
    BY DEF Unique
  <2> QED
    BY <2>1, <2>2, FindIs
<1> QED
  BY <1>1, <1>2, <1>3

\* Removing timers removes their ids from the map, adding one adds its id.
LEMMA MapsOfFewer ==
    ASSUME NEW S, Unique(S), NEW R \in SUBSET S
    PROVE  /\ WaitingOf(S \ R) = Service!Without(WaitingOf(S), IdsOf(R))
           /\ TakenOf(S \ R) = Service!Without(TakenOf(S), IdsOf(R))
<1> DEFINE D == IdsOf(S) \ IdsOf(R)
<1>1. IdsOf(S \ R) = D /\ \A id \in D : Find(S \ R, id) = Find(S, id)
  BY FindAmongFewer
<1>2. \A id \in IdsOf(S) : WaitingOf(S)[id] = [due |-> Find(S, id).expiration,
                                               every |-> Find(S, id).interval]
  BY DEF WaitingOf
<1>3. WaitingOf(S \ R) = [id \in D |-> WaitingOf(S)[id]]
  BY <1>1, <1>2 DEF WaitingOf
<1>4. TakenOf(S \ R) = [id \in D |-> TakenOf(S)[id]]
  BY <1>1 DEF TakenOf
<1>5. DOMAIN WaitingOf(S) = IdsOf(S) /\ DOMAIN TakenOf(S) = IdsOf(S)
  BY DEF WaitingOf, TakenOf
<1> QED
  BY <1>3, <1>4, <1>5 DEF Service!Without

LEMMA MapOfMore ==
    ASSUME NEW S, NEW t, Unique(S \cup {t}), t \notin S
    PROVE  WaitingOf(S \cup {t}) = Service!With(WaitingOf(S), t.id,
                                       [due |-> t.expiration, every |-> t.interval])
<1> DEFINE D == IdsOf(S) \cup {t.id}
<1> DEFINE entry == [due |-> t.expiration, every |-> t.interval]
<1>1. /\ IdsOf(S \cup {t}) = D /\ t.id \notin IdsOf(S) /\ Find(S \cup {t}, t.id) = t
      /\ \A id \in IdsOf(S) : Find(S \cup {t}, id) = Find(S, id)
  BY FindAmongMore
<1>2. DOMAIN WaitingOf(S) = IdsOf(S)
      /\ \A id \in IdsOf(S) : WaitingOf(S)[id] = [due |-> Find(S, id).expiration,
                                                  every |-> Find(S, id).interval]
  BY DEF WaitingOf
<1>3. \A id \in D : [due |-> Find(S \cup {t}, id).expiration,
                     every |-> Find(S \cup {t}, id).interval]
                  = IF id = t.id THEN entry ELSE WaitingOf(S)[id]
  BY <1>1, <1>2
<1>4. WaitingOf(S \cup {t}) = [id \in D |-> IF id = t.id THEN entry ELSE WaitingOf(S)[id]]
  BY <1>1, <1>3 DEF WaitingOf
<1> QED
  BY <1>2, <1>4 DEF Service!With

\* An empty queue is a service without timers.
LEMMA InitRefines == Init => Service!Init
<1> SUFFICES ASSUME Init PROVE Service!Init
  OBVIOUS
<1>1. timers = {} /\ expired = {} /\ nextId = 1 /\ clock = 0 /\ ran = {} /\ cancelled = {}
  BY DEF Init
<1>2. WaitingOf({}) = <<>> /\ TakenOf({}) = <<>>
  BY DEF WaitingOf, TakenOf, IdsOf
<1>3. 1 .. nextId - 1 = {}
  BY <1>1
<1> QED
  BY <1>1, <1>2, <1>3 DEF Service!Init

\* Every step of the queue is a step of the service or changes nothing of it.
LEMMA StepRefines == IInv /\ [Next]_vars => [Service!Next]_(Service!vars)
<1> SUFFICES ASSUME IInv, [Next]_vars PROVE [Service!Next]_(Service!vars)
  OBVIOUS
<1>0. /\ TypeOK /\ RoundState /\ IndexExact /\ HistoryState
      /\ timers \in SUBSET Timers /\ expired \in SUBSET Timers
      /\ Unique(timers) /\ Unique(expired)
  BY DEF IInv, TypeOK, Timers, IndexExact, Unique
<1>1. Unique(timers') /\ Unique(expired')
  BY IndexStep DEF IndexExact, Unique
<1>2. CASE Tick
  BY <1>2 DEF Tick, queueVars, roundVars, asked, Service!Next, Service!Tick
<1>3. ASSUME UNCHANGED <<clock, timers, expired, nextId, ran, cancelled>> PROVE UNCHANGED Service!vars
  BY <1>3 DEF Service!vars
<1>4. CASE Expire \/ Report \/ RoundDone
  BY <1>3, <1>4 DEF Expire, Report, RoundDone, queueVars, roundVars, asked
<1>5. CASE Collect
  <2> DEFINE due == {id \in DOMAIN WaitingOf(timers) : Service!Due(id)}
  <2>1. /\ timers' = timers \ Due /\ expired' = Due /\ Due \subseteq timers
        /\ ran' = ran \cup IdsOf(Due)
        /\ UNCHANGED <<clock, nextId, cancelled>>
    BY <1>5 DEF Collect, Due, IdsOf, asked
  <2>2. expired = {}
    BY <1>0, <1>5 DEF Collect, RoundState
  <2>3. due = IdsOf(Due)
    <3>1. ASSUME NEW t \in timers
          PROVE  t.id \in DOMAIN WaitingOf(timers) /\ WaitingOf(timers)[t.id].due = t.expiration
      BY <1>0, FindIs DEF WaitingOf, IdsOf
    <3>2. \A id \in DOMAIN WaitingOf(timers) : \E t \in timers : t.id = id
      BY DEF WaitingOf, IdsOf
    <3>3. \A t \in timers : t.id \in due <=> t \in Due
      BY <3>1 DEF Service!Due, Due
    <3> QED
      BY <3>2, <3>3 DEF Due, IdsOf
  <2>4. DOMAIN TakenOf(expired) = {}
    BY <2>2 DEF TakenOf, IdsOf
  <2>5. TakenOf(expired') = [id \in due |-> WaitingOf(timers)[id].every]
    <3>1. expired' = Due /\ due = IdsOf(Due) /\ IdsOf(Due) \subseteq IdsOf(timers)
      BY <2>1, <2>3 DEF IdsOf
    <3>2. \A id \in IdsOf(Due) : Find(Due, id) = Find(timers, id)
      BY <1>0, <2>1, FindAmongFewer
    <3>3. \A id \in IdsOf(timers) : WaitingOf(timers)[id].every = Find(timers, id).interval
      BY DEF WaitingOf
    <3> HIDE DEF due
    <3> QED
      BY <3>1, <3>2, <3>3 DEF TakenOf
  <2>6. WaitingOf(timers') = Service!Without(WaitingOf(timers), due)
    BY <1>0, <2>1, <2>3, MapsOfFewer
  <2> QED
    BY <2>1, <2>3, <2>4, <2>5, <2>6 DEF Service!Next, Service!Take
<1>6. CASE RunTimer
  <2>1. PICK t \in expired :
          /\ expired' = expired \ {t}
          /\ timers' = IF t.interval > 0 THEN timers \cup {Restarted(t)} ELSE timers
    BY <1>6 DEF RunTimer
  <2>2. UNCHANGED <<clock, nextId, ran, cancelled>> /\ t.id \in Ids /\ t.interval \in Nat /\ now \in 0 .. clock
    <3>1. /\ clock' = clock /\ nextId' = nextId /\ now \in 0 .. clock
          /\ ran' = ran /\ cancelled' = cancelled
      BY <1>0, <1>6 DEF RunTimer, TypeOK, RoundState, asked
    <3>2. t.id \in Ids /\ t.interval \in Nat
      BY <1>0, IntervalAssumption DEF Timers
    <3> QED
      BY <3>1, <3>2
  <2>3. /\ t.id \in DOMAIN TakenOf(expired) /\ TakenOf(expired)[t.id] = t.interval
    BY <1>0, FindIs DEF TakenOf, IdsOf
  <2>4. TakenOf(expired') = Service!Without(TakenOf(expired), {t.id})
    <3>1. IdsOf({t}) = {t.id} /\ {t} \in SUBSET expired
      BY DEF IdsOf
    <3> QED
      BY <1>0, <2>1, <3>1, MapsOfFewer
  <2>5. CASE t.interval > 0
    <3> DEFINE u == Restarted(t)
    <3>1. u.id = t.id /\ u.interval = t.interval /\ u.expiration = now + t.interval
      BY <1>0 DEF Restarted, Timers
    <3>2. u \notin timers
      BY <1>0, <3>1 DEF IndexExact, RoundState
    <3>3. WaitingOf(timers') = Service!With(WaitingOf(timers), t.id,
                                   [due |-> now + t.interval, every |-> t.interval])
      BY <1>1, <2>1, <2>5, <3>1, <3>2, MapOfMore
    <3> HIDE DEF u
    <3>4. Service!Run(t.id)
      BY <2>2, <2>3, <2>4, <2>5, <3>3 DEF Service!Run
    <3> QED
      BY <2>2, <3>4 DEF Service!Next
  <2>6. CASE ~(t.interval > 0)
    <3>1. Service!Run(t.id)
      BY <2>1, <2>2, <2>3, <2>4, <2>6 DEF Service!Run
    <3> QED
      BY <2>2, <3>1 DEF Service!Next
  <2> QED
    BY <2>5, <2>6
<1>7. ASSUME NEW delay \in 0 .. MaxDelay, NEW interval \in Intervals,
             AddTimer(clock + delay, interval)
      PROVE  Service!Next
  <2> DEFINE t == [id |-> nextId, expiration |-> clock + delay, interval |-> interval]
  <2>1. /\ timers' = timers \cup {t} /\ UNCHANGED <<clock, expired, ran, cancelled>>
        /\ nextId \in Ids /\ nextId' = nextId + 1
    BY <1>0, <1>7 DEF AddTimer, roundVars, asked, TypeOK, Ids
  <2>2. t \notin timers /\ t.id = nextId /\ t.expiration = clock + delay /\ t.interval = interval
    BY <1>0, <2>1 DEF RoundState, TypeOK, Ids
  <2> HIDE DEF t
  <2>3. WaitingOf(timers') = Service!With(WaitingOf(timers), nextId,
                                 [due |-> clock + delay, every |-> interval])
    BY <1>1, <2>1, <2>2, MapOfMore
  <2>4. nextId \notin 1 .. nextId - 1
        /\ 1 .. nextId' - 1 = (1 .. nextId - 1) \cup {nextId}
    BY <2>1 DEF Ids
  <2>5. Service!Add(nextId, clock + delay, interval)
    BY <2>1, <2>3, <2>4 DEF Service!Add
  <2> QED
    BY <2>1, <2>5 DEF Service!Next
<1>8. ASSUME NEW id \in Ids, Cancel(id) PROVE [Service!Next]_(Service!vars)
  <2>1. UNCHANGED <<clock, expired, nextId, ran>>
    BY <1>8 DEF Cancel, roundVars
  <2>2. CASE id \in DOMAIN id2exp
    <3>1. PICK t \in timers : t.id = id /\ t.expiration = id2exp[id]
      BY <1>0, <2>2 DEF IndexExact
    <3>2. timers' = timers \ {t}
      BY <1>0, <1>8, <2>2, <3>1 DEF Cancel, Unique
    <3>3. WaitingOf(timers') = Service!Without(WaitingOf(timers), {id})
      <4>1. IdsOf({t}) = {id} /\ {t} \in SUBSET timers
        BY <3>1 DEF IdsOf
      <4> QED
        BY <1>0, <3>2, <4>1, MapsOfFewer
    <3>4. id \in DOMAIN WaitingOf(timers)
      BY <3>1 DEF WaitingOf, IdsOf
    <3>5. id \notin ran /\ cancelled' = cancelled \cup {id}
      BY <1>0, <1>8, <2>2, <3>1 DEF HistoryState, Cancel, Asked
    <3> QED
      BY <2>1, <3>3, <3>4, <3>5 DEF Service!Next, Service!Cancel
  <2>3. CASE id \notin DOMAIN id2exp
    <3>1. timers' = timers
      BY <1>8, <2>3 DEF Cancel
    <3>2. cancelled' = cancelled
      BY <1>0, <1>8, <2>3 DEF Cancel, Asked, IndexExact
    <3> QED
      BY <1>3, <2>1, <3>1, <3>2
  <2> QED
    BY <2>2, <2>3
<1>9. CASE UNCHANGED vars
  BY <1>3, <1>9 DEF vars, queueVars, roundVars, asked
<1> QED
  BY <1>2, <1>4, <1>5, <1>6, <1>7, <1>8, <1>9 DEF Next, LoopStep

\* The safety of TimerService: a timer is taken when it is due and not before, once
\* unless it repeats; and each cancel() of a timer that waits and has never been
\* collected is the service's Cancel, which records it and takes the timer out.
THEOREM Refinement == SafeSpec => ImplementsTimerServiceSafely
<1>1. Service!Init /\ [][Service!Next]_(Service!vars) => ImplementsTimerServiceSafely
  BY DEF ImplementsTimerServiceSafely, Service!SafeSpec
<1> QED
  BY <1>1, InitRefines, StepRefines, Invariance, PTL DEF SafeSpec
===============================================================================
