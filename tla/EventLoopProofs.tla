--------------------------- MODULE EventLoopProofs ----------------------------
(***************************************************************************)
(* For every number of threads, channels and functors and every first size *)
(* of events_: EventLoop keeps its type and loses no wakeup, and it        *)
(* implements FunctorQueue's safety part.  The loop that an EventLoopThread*)
(* runs is an EventLoop like any other: the same holds under its owner,    *)
(* for whom a published loop stays alive until the destructor begins.      *)
(***************************************************************************)
EXTENDS EventLoopThread, SequenceTheorems, FiniteSetTheorems, TLAPS

-------------------------------------------------------------------------------
(* The inductive invariant. *)

\* What the invariants rest on: where the loop thread is decides what it holds,
\* and a positive counter is an entry of the ready list or of events_.
LoopState ==
    /\ batch # {} => pc = "events"
    /\ temp # <<>> => pc = "functors"
    /\ calling = (pc = "functors")
    /\ efd => WakeCh \in ready \cup batch

\* The inductive invariant.
IInv == TypeOK /\ LoopState /\ NoLostWakeup /\ NoLostQuit /\ EventsBounded

-------------------------------------------------------------------------------
\* A non-empty batch is no larger than the set of all channels, which bounds
\* what a doubled events_ can be (EventLoop.cpp:36-38).
LEMMA BatchSize ==
    ASSUME NEW got \in SUBSET AllChannels, got # {}
    PROVE  Cardinality(got) \in Nat \ {0} /\ Cardinality(got) =< Cardinality(AllChannels)
           /\ Cardinality(AllChannels) \in Nat
<1>1. IsFiniteSet(AllChannels)
  BY ChannelsAssumption, FS_Singleton, FS_Union DEF AllChannels
<1>2. IsFiniteSet(got) /\ Cardinality(got) =< Cardinality(AllChannels)
  BY <1>1, FS_Subset
<1>3. Cardinality(got) \in Nat /\ Cardinality(got) # 0
  BY <1>2, FS_CardinalityType, FS_EmptySet
<1> QED
  BY <1>1, <1>2, <1>3, FS_CardinalityType

\* The head and the tail of a concatenation are those of a non-empty first part.
LEMMA HeadTailConcat ==
    ASSUME NEW S, NEW s \in Seq(S), NEW t \in Seq(S), s # <<>>
    PROVE  Head(s \o t) = Head(s) /\ Tail(s \o t) = Tail(s) \o t
<1>1. s \o t \in Seq(S) /\ s \o t # <<>> /\ Len(s) \in Nat \ {0} /\ Len(t) \in Nat
      /\ Len(s \o t) = Len(s) + Len(t)
  BY ConcatProperties, ConcatEqualIffEmpty, EmptySeq, LenProperties
<1>2. Head(s \o t) = Head(s)
  BY <1>1, ConcatProperties
<1>3. Tail(s) \in Seq(S) /\ Tail(s \o t) \in Seq(S) /\ Len(Tail(s)) = Len(s) - 1
      /\ Len(Tail(s \o t)) = Len(s) + Len(t) - 1
  BY <1>1, HeadTailProperties
<1>4. Tail(s) \o t \in Seq(S) /\ Len(Tail(s) \o t) = Len(s) + Len(t) - 1
  BY <1>1, <1>3, ConcatProperties
<1>5. ASSUME NEW i \in 1 .. Len(s) + Len(t) - 1
      PROVE  Tail(s \o t)[i] = (Tail(s) \o t)[i]
  <2>1. Tail(s \o t)[i] = (s \o t)[i + 1]
    BY <1>1, <1>3, HeadTailProperties
  <2>2. (s \o t)[i + 1] = IF i + 1 <= Len(s) THEN s[i + 1] ELSE t[i + 1 - Len(s)]
    BY <1>1, ConcatProperties
  <2>3. (Tail(s) \o t)[i] = IF i <= Len(s) - 1 THEN Tail(s)[i] ELSE t[i - (Len(s) - 1)]
    BY <1>1, <1>3, ConcatProperties
  <2>4. i <= Len(s) - 1 => Tail(s)[i] = s[i + 1]
    BY <1>1, <1>3, HeadTailProperties
  <2> QED
    BY <1>1, <2>1, <2>2, <2>3, <2>4
<1> QED
  BY <1>2, <1>3, <1>4, <1>5, SeqEqual

\* The initial state of a constructed EventLoop satisfies the invariant.
LEMMA InitInv == Init => IInv
<1> SUFFICES ASSUME Init PROVE IInv
  OBVIOUS
<1>1. <<>> \in Seq(Functors)
  BY EmptySeq
<1>2. TypeOK
  BY <1>1, CapAssumption DEF Init, TypeOK
<1>3. LoopState
  BY DEF Init, LoopState
<1>4. NoLostWakeup /\ NoLostQuit /\ EventsBounded
  BY DEF Init, NoLostWakeup, NoLostQuit, EventsBounded
<1> QED
  BY <1>2, <1>3, <1>4 DEF IInv

\* What wakeup() establishes: the eventfd is readable and on the ready list.
LEMMA WakeupSignals ==
    ASSUME IInv, Wakeup
    PROVE  /\ efd' = TRUE /\ WakeCh \in ready' /\ ready' \subseteq AllChannels
           /\ Signalled'
  BY DEF IInv, TypeOK, Wakeup, Signalled, AllChannels

\* Every step of any thread keeps the invariant: one step per action.
LEMMA StepInv == IInv /\ [Next]_vars => IInv'
<1> SUFFICES ASSUME IInv, [Next]_vars PROVE IInv'
  OBVIOUS
<1> USE DEF IInv
<1>1. CASE Enter
  BY <1>1 DEF Enter, TypeOK, LoopState, NoLostWakeup, NoLostQuit, EventsBounded,
              Signalled, Waking, queueVars, pollVars
<1>2. CASE Test
  BY <1>2 DEF Test, TypeOK, LoopState, NoLostWakeup, NoLostQuit, EventsBounded,
              Signalled, Waking, queueVars, pollVars
<1>3. CASE Poll
  <2>1. PICK got \in (SUBSET Readable) \ {{}} :
          /\ Cardinality(got) =< cap
          /\ batch' = got
          /\ ready' = Readable \ got
          /\ cap' = IF Cardinality(got) = cap THEN 2 * cap ELSE cap
    BY <1>3 DEF Poll, Grown
  <2>2. got \in SUBSET AllChannels /\ got # {} /\ Readable \subseteq AllChannels
    BY DEF Readable, TypeOK
  <2>3. Cardinality(got) \in Nat \ {0} /\ Cardinality(AllChannels) \in Nat
        /\ Cardinality(got) =< Cardinality(AllChannels)
    BY <2>2, BatchSize
  <2>4. cap' \in Nat \ {0} /\ EventsBounded'
    BY <2>1, <2>3 DEF EventsBounded, TypeOK, AllChannels
  <2>5. efd => WakeCh \in ready' \cup batch'
    BY <2>1, <1>3 DEF LoopState, Readable, Poll, Grown
  <2> QED
    BY <1>3, <2>1, <2>2, <2>4, <2>5
       DEF Poll, Grown, TypeOK, LoopState, NoLostWakeup, NoLostQuit, queueVars
<1>4. CASE Timeout
  BY <1>4 DEF Timeout, TypeOK, LoopState, NoLostWakeup, NoLostQuit, EventsBounded,
              queueVars, pollVars
<1>5. CASE Interrupted
  BY <1>5 DEF Interrupted, TypeOK, LoopState, NoLostWakeup, NoLostQuit, EventsBounded,
              Signalled, Waking, queueVars, pollVars
<1>6. ASSUME NEW c \in AllChannels, Dispatch(c) PROVE IInv'
  BY <1>6 DEF Dispatch, TypeOK, LoopState, NoLostWakeup, NoLostQuit, EventsBounded,
              loopVars, queueVars
<1>7. CASE Swap
  BY <1>7 DEF Swap, TypeOK, LoopState, NoLostWakeup, NoLostQuit, EventsBounded, pollVars
<1>8. CASE RunFunctor
  <2>1. Head(temp) \in Functors /\ Tail(temp) \in Seq(Functors)
    BY <1>8, HeadTailProperties DEF RunFunctor, TypeOK
  <2>2. executed' \in Seq(Functors)
    BY <1>8, <2>1, AppendProperties DEF RunFunctor, TypeOK
  <2> QED
    BY <1>8, <2>1, <2>2
       DEF RunFunctor, TypeOK, LoopState, NoLostWakeup, NoLostQuit, EventsBounded,
           Signalled, Waking, loopVars, pollVars
<1>9. CASE FunctorsDone
  BY <1>9 DEF FunctorsDone, TypeOK, LoopState, NoLostWakeup, NoLostQuit, EventsBounded,
              Signalled, Waking, queueVars, pollVars
<1>10. ASSUME NEW f \in Functors, LoopQueue(f) PROVE IInv'
  <2>1. pending' \in Seq(Functors) /\ pending' # <<>>
    BY <1>10, AppendProperties DEF LoopQueue, TypeOK
  <2>2. pc' = pc /\ (pc = "events" \/ (pc = "functors" /\ calling))
    BY <1>10 DEF LoopQueue, InCallback, LoopState, loopVars
  <2>3. CASE pc = "events"
    BY <1>10, <2>1, <2>2, <2>3
       DEF LoopQueue, Wakeup, TypeOK, LoopState, NoLostWakeup, NoLostQuit, EventsBounded,
           loopVars, AllChannels
  <2>4. CASE calling
    BY <1>10, <2>1, <2>2, <2>4, WakeupSignals
       DEF LoopQueue, TypeOK, LoopState, NoLostWakeup, NoLostQuit, EventsBounded, loopVars
  <2> QED
    BY <2>2, <2>3, <2>4
<1>11. CASE LoopQuit
  BY <1>11, WakeupSignals
     DEF LoopQuit, TypeOK, LoopState, NoLostWakeup, NoLostQuit, EventsBounded, queueVars
<1>12. ASSUME NEW t \in Others, Quit(t) PROVE IInv'
  <2>1. Waking'
    BY <1>12 DEF Quit, WillWake, Waking, TypeOK
  <2> QED
    BY <1>12, <2>1 DEF Quit, WillWake, TypeOK, LoopState, NoLostWakeup, NoLostQuit, EventsBounded,
                       Signalled, queueVars, pollVars
<1>13. ASSUME NEW t \in Others, WakeLoop(t) PROVE IInv'
  BY <1>13, WakeupSignals
     DEF WakeLoop, TypeOK, LoopState, NoLostWakeup, NoLostQuit, EventsBounded,
         loopVars, queueVars
<1>14. ASSUME NEW t \in Others, NEW f \in Functors, QueueInLoop(t, f) PROVE IInv'
  <2>1. Waking' /\ pending' \in Seq(Functors)
    BY <1>14, AppendProperties DEF QueueInLoop, WillWake, Waking, TypeOK
  <2> QED
    BY <1>14, <2>1 DEF QueueInLoop, WillWake, TypeOK, LoopState, NoLostWakeup, NoLostQuit,
                       EventsBounded, Signalled, loopVars, pollVars
<1>15. ASSUME NEW c \in Channels, Arrive(c) PROVE IInv'
  BY <1>15 DEF Arrive, TypeOK, LoopState, NoLostWakeup, NoLostQuit, EventsBounded,
               Signalled, Waking, loopVars, queueVars, AllChannels
<1>16. CASE UNCHANGED vars
  BY <1>16 DEF vars, TypeOK, LoopState, NoLostWakeup, NoLostQuit, EventsBounded,
               Signalled, Waking, loopVars, queueVars, pollVars
<1> QED
  BY <1>1, <1>2, <1>3, <1>4, <1>5, <1>6, <1>7, <1>8, <1>9, <1>10, <1>11, <1>12, <1>13,
     <1>14, <1>15, <1>16 DEF Next, LoopStep, ThreadStep

\* The strengthened invariant holds in every reachable state of the loop.
THEOREM Invariance == SafeSpec => []IInv
  BY InitInv, StepInv, PTL DEF SafeSpec

\* The types, for every instance.
THEOREM TypeCorrect == SafeSpec => []TypeOK
<1>1. IInv => TypeOK
  BY DEF IInv
<1> QED
  BY <1>1, Invariance, PTL

\* No interleaving of queueInLoop() with the loop leaves functors waiting for
\* the timeout of epoll_wait.
THEOREM WakeupsKept == SafeSpec => []NoLostWakeup
<1>1. IInv => NoLostWakeup
  BY DEF IInv
<1> QED
  BY <1>1, Invariance, PTL

\* No interleaving of quit() with an entered loop leaves it asleep.
THEOREM QuitsKept == SafeSpec => []NoLostQuit
<1>1. IInv => NoLostQuit
  BY DEF IInv
<1> QED
  BY <1>1, Invariance, PTL

\* events_ stops growing.
THEOREM EventsStayBounded == SafeSpec => []EventsBounded
<1>1. IInv => EventsBounded
  BY DEF IInv
<1> QED
  BY <1>1, Invariance, PTL
-------------------------------------------------------------------------------
\* Moving functors from pendingFunctors_ to temp, or calling the first of temp,
\* does not change the order in which they were accepted.
LEMMA AcceptedOrder ==
    ASSUME TypeOK
    PROVE  accepted = executed \o (temp \o pending)
  BY ConcatAssociative DEF TypeOK, accepted

\* Queueing appends to the abstract queue, whatever temp still holds.
LEMMA AppendToPending ==
    ASSUME TypeOK, NEW f \in Functors, Fresh(f), pending' = Append(pending, f),
           UNCHANGED <<temp, executed, pc>>
    PROVE  Queue!Submit(f)
<1>1. temp \o Append(pending, f) = Append(temp \o pending, f)
  <2>1. /\ Append(pending, f) = pending \o <<f>>
        /\ Append(temp \o pending, f) = (temp \o pending) \o <<f>>
        /\ <<f>> \in Seq(Functors) /\ temp \o pending \in Seq(Functors)
    BY AppendIsConcat, ConcatProperties DEF TypeOK
  <2> QED
    BY <2>1, ConcatAssociative DEF TypeOK
<1>2. f \notin Range(executed \o (temp \o pending))
  BY AcceptedOrder DEF Fresh
<1>3. temp' \o pending' = Append(temp \o pending, f)
  BY <1>1
<1>4. executed' = executed /\ ((pc # "exited")' <=> pc # "exited")
  OBVIOUS
<1> QED
  BY <1>2, <1>3, <1>4 DEF Queue!Submit, Range, Queue!Range

\* A constructed loop is an empty queue.
LEMMA InitRefines == Init => Queue!Init
<1> SUFFICES ASSUME Init PROVE Queue!Init
  OBVIOUS
<1>1. <<>> \o <<>> = <<>>
  BY EmptySeq, ConcatEmptySeq
<1> QED
  BY <1>1 DEF Init, Queue!Init

\* Every step of the loop is a step of the queue or changes nothing of it.
LEMMA StepRefines == IInv /\ [Next]_vars => [Queue!Next]_(Queue!vars)
<1> SUFFICES ASSUME IInv, [Next]_vars PROVE [Queue!Next]_(Queue!vars)
  OBVIOUS
<1>T. TypeOK /\ LoopState
  BY DEF IInv
<1>1. ASSUME UNCHANGED queueVars, (pc' = "exited") <=> (pc = "exited")
      PROVE  UNCHANGED Queue!vars
  BY <1>1 DEF queueVars, Queue!vars
<1>2. CASE Enter \/ Poll \/ Timeout \/ Interrupted \/ FunctorsDone
  BY <1>1, <1>2 DEF Enter, Poll, Timeout, Interrupted, FunctorsDone
<1>3. CASE LoopQuit
  BY <1>1, <1>3 DEF LoopQuit
<1>4. CASE Test
  <2>1. CASE looping
    BY <1>1, <1>4, <2>1 DEF Test
  <2>2. CASE ~looping
    BY <1>4, <2>2 DEF Test, queueVars, Queue!Next, Queue!Stop
  <2> QED
    BY <2>1, <2>2
<1>5. ASSUME NEW c \in AllChannels, Dispatch(c) PROVE UNCHANGED Queue!vars
  BY <1>1, <1>5 DEF Dispatch, loopVars
<1>6. CASE Swap
  <2>1. temp = <<>> /\ pc = "events" /\ pc' = "functors" /\ temp' = pending
        /\ pending' = <<>> /\ executed' = executed
    BY <1>T, <1>6 DEF Swap, LoopState
  <2>2. <<>> \o pending = pending /\ pending \o <<>> = pending
    BY <1>T, ConcatEmptySeq DEF TypeOK
  <2> QED
    BY <2>1, <2>2 DEF Queue!vars
<1>7. CASE RunFunctor
  <2> DEFINE q == temp \o pending
  <2>1. /\ pc = "functors" /\ pc' = pc /\ temp # <<>> /\ pending' = pending
        /\ temp' = Tail(temp) /\ executed' = Append(executed, Head(temp))
    BY <1>7 DEF RunFunctor, loopVars
  <2>2. q \in Seq(Functors) /\ q # <<>>
    BY <1>T, <2>1, ConcatProperties, ConcatEqualIffEmpty DEF TypeOK
  <2>3. Head(q) = Head(temp) /\ Tail(q) = Tail(temp) \o pending
    BY <1>T, <2>1, HeadTailConcat DEF TypeOK
  <2> QED
    BY <2>1, <2>2, <2>3 DEF Queue!Next, Queue!Execute
<1>8. ASSUME NEW f \in Functors, LoopQueue(f) PROVE Queue!Submit(f)
  BY <1>T, <1>8, AppendToPending DEF LoopQueue, loopVars
<1>9. ASSUME NEW t \in Others, NEW f \in Functors, QueueInLoop(t, f) PROVE Queue!Submit(f)
  BY <1>T, <1>9, AppendToPending DEF QueueInLoop, WillWake, loopVars
<1>10. ASSUME NEW t \in Others, Quit(t) \/ WakeLoop(t) PROVE UNCHANGED Queue!vars
  BY <1>1, <1>10 DEF Quit, WillWake, WakeLoop, loopVars
<1>11. ASSUME NEW c \in Channels, Arrive(c) PROVE UNCHANGED Queue!vars
  BY <1>1, <1>11 DEF Arrive, loopVars
<1>12. CASE UNCHANGED vars
  BY <1>1, <1>12 DEF vars, loopVars
<1> QED
  BY <1>2, <1>3, <1>4, <1>5, <1>6, <1>7, <1>8, <1>9, <1>10, <1>11, <1>12
     DEF Next, LoopStep, ThreadStep, Queue!Next

\* Mutex, swap and wakeups implement the abstract queue: each functor is called
\* once, in the order of queueInLoop(), while the loop has not been left.
THEOREM Refinement == SafeSpec => ImplementsFunctorQueueSafely
<1>1. Queue!Init /\ [][Queue!Next]_(Queue!vars) => ImplementsFunctorQueueSafely
  BY DEF ImplementsFunctorQueueSafely, Queue!SafeSpec
<1> QED
  BY <1>1, InitRefines, StepRefines, Invariance, PTL DEF SafeSpec

-------------------------------------------------------------------------------
(* The loop of an EventLoopThread. *)

\* The thread and its owner do with the loop only what EventLoop allows.
LEMMA StepOfLoop == [TNext]_allVars => [Next]_vars
<1> SUFFICES ASSUME [TNext]_allVars PROVE [Next]_vars
  OBVIOUS
<1>1. CASE MainLoopNext
  BY <1>1 DEF MainLoopNext
<1>2. CASE Publish
  BY <1>2 DEF Publish
<1>3. CASE LoopRuns
  BY <1>3 DEF LoopRuns, Next
<1>4. CASE LoopCallback
  BY <1>4, OwnerAssumption DEF LoopCallback, Next
<1>5. CASE Return
  BY <1>5 DEF Return
<1>6. CASE Constructed
  BY <1>6 DEF Constructed
<1>7. CASE DestructorQuits
  BY <1>7, OwnerAssumption DEF DestructorQuits, Next, ThreadStep
<1>8. CASE Wakes
  BY <1>8 DEF Wakes, Next, ThreadStep
<1>9. CASE Joins
  BY <1>9 DEF Joins
<1>10. ASSUME NEW f \in ThreadFunctors, OwnerQueues(f) PROVE [Next]_vars
  BY <1>10, OwnerAssumption DEF OwnerQueues, Next, ThreadStep
<1>11. CASE ChannelEvent
  BY <1>11 DEF ChannelEvent, Next
<1>12. CASE UNCHANGED allVars
  BY <1>12 DEF allVars
<1> QED
  BY <1>1, <1>2, <1>3, <1>4, <1>5, <1>6, <1>7, <1>8, <1>9, <1>10, <1>11, <1>12
     DEF TNext

\* Until the destructor begins nobody quits the loop, so that the thread stays in
\* loop(): this is what keeps its EventLoop alive for the owner.
OwnerInv ==
    /\ owner \in {"constructing", "using"} =>
         /\ pc # "exited" /\ (pc # "init" => looping)
         /\ loop_ = "loop" => alive
    /\ owner = "using" => loop_ \in {"loop", "garbage"}
    /\ loop_ \in {"null", "garbage", "loop"}

\* A step of the loop that quits nothing leaves the loop in loop().
LEMMA LoopGoesOn ==
    ASSUME pc # "exited", pc # "init" => looping,
           LoopStep \/ Timeout \/ Interrupted \/ (\E f \in Functors : LoopQueue(f))
    PROVE  pc' # "exited" /\ (pc' # "init" => looping')
<1>1. CASE LoopStep
  BY <1>1 DEF LoopStep, Enter, Test, Poll, Swap, RunFunctor, FunctorsDone, Dispatch, loopVars
<1>2. CASE Timeout \/ Interrupted
  BY <1>2 DEF Timeout, Interrupted
<1>3. ASSUME NEW f \in Functors, LoopQueue(f) PROVE pc' # "exited" /\ (pc' # "init" => looping')
  BY <1>3 DEF LoopQueue, loopVars
<1> QED
  BY <1>1, <1>2, <1>3

\* Every step keeps the owner's view: one step per action.
LEMMA OwnerStep == OwnerInv /\ [TNext]_allVars => OwnerInv'
<1> SUFFICES ASSUME OwnerInv, [TNext]_allVars PROVE OwnerInv'
  OBVIOUS
<1> USE DEF OwnerInv
<1>1. CASE MainLoopNext
  BY <1>1 DEF MainLoopNext, threadVars
<1>2. CASE Publish
  BY <1>2 DEF Publish, vars, loopVars
<1>3. CASE LoopRuns
  BY <1>3, LoopGoesOn DEF LoopRuns, threadVars
<1>4. CASE LoopCallback
  BY <1>4, LoopGoesOn, OwnerAssumption DEF LoopCallback, threadVars
<1>5. CASE Return
  BY <1>5 DEF Return, vars, loopVars
<1>6. CASE Constructed
  BY <1>6 DEF Constructed, vars, loopVars
<1>7. CASE DestructorQuits
  BY <1>7 DEF DestructorQuits
<1>8. CASE Wakes
  BY <1>8 DEF Wakes, WakeLoop, loopVars
<1>9. CASE Joins
  BY <1>9 DEF Joins
<1>10. ASSUME NEW f \in ThreadFunctors, OwnerQueues(f) PROVE OwnerInv'
  BY <1>10 DEF OwnerQueues, QueueInLoop, loopVars, threadVars
<1>11. CASE ChannelEvent
  BY <1>11 DEF ChannelEvent, Arrive, loopVars, threadVars
<1>12. CASE UNCHANGED allVars
  BY <1>12 DEF allVars, threadVars, vars, loopVars
<1> QED
  BY <1>1, <1>2, <1>3, <1>4, <1>5, <1>6, <1>7, <1>8, <1>9, <1>10, <1>11, <1>12
     DEF TNext

\* No wakeup and no quit is lost on the loop of a thread either, whatever its
\* owner does: the invariant of EventLoop holds under an EventLoopThread.
THEOREM ThreadWakeupsKept == TSpec => [](NoLostWakeup /\ NoLostQuit /\ EventsBounded)
<1>1. TInit => IInv
  BY InitInv DEF TInit
<1>2. IInv /\ [TNext]_allVars => IInv'
  BY StepOfLoop, StepInv
<1>3. IInv => NoLostWakeup /\ NoLostQuit /\ EventsBounded
  BY DEF IInv
<1> QED
  BY <1>1, <1>2, <1>3, PTL DEF TSpec

\* The loop of a thread keeps the promise of queueInLoop() too: what its owner, its
\* callbacks and other threads queue is called in one order, each functor once, from
\* the constructor of the EventLoopThread to the return of its thread.
THEOREM ThreadRefinement == TSpec => [](TypeOK) /\ ImplementsFunctorQueueSafely
<1>1. TInit => IInv /\ Queue!Init
  BY InitInv, InitRefines DEF TInit
<1>2. IInv /\ [TNext]_allVars => IInv' /\ [Queue!Next]_(Queue!vars)
  BY StepOfLoop, StepInv, StepRefines
<1>3. IInv => TypeOK
  BY DEF IInv
<1>4. Queue!Init /\ [][Queue!Next]_(Queue!vars) => ImplementsFunctorQueueSafely
  BY DEF ImplementsFunctorQueueSafely, Queue!SafeSpec
<1> QED
  BY <1>1, <1>2, <1>3, <1>4, PTL DEF TSpec

\* Until the destructor begins, a loop that has been published stays alive for its
\* owner, and a constructor that found loop_ null has waited for it: for every number
\* of threads, functors and channels.  A loop_ that was garbage at first is excepted
\* in the formula, as it is not waited for.
THEOREM PublishedLoopIsKept == TSpec => []PublishedLoopLives
<1>1. TInit => OwnerInv
  BY DEF TInit, MainLoop, NewThread, OwnerInv, Init
<1>2. OwnerInv => PublishedLoopLives
  BY DEF OwnerInv, PublishedLoopLives
<1> QED
  BY <1>1, <1>2, OwnerStep, PTL DEF TSpec
===============================================================================
