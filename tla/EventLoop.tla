------------------------------ MODULE EventLoop -------------------------------
(***************************************************************************)
(* EventLoop (reactor/src/EventLoop.cpp): one thread runs loop(), any      *)
(* thread calls queueInLoop() and quit().                                  *)
(*                                                                         *)
(* A step of the loop thread is what it does between two points where the  *)
(* other threads can be seen: a test of looping_, a return of epoll_wait,  *)
(* the callback of one ready channel, the swap of pendingFunctors_ under   *)
(* mutex_, the call of one functor.  The two statements of queueInLoop()   *)
(* and of quit() in another thread are two steps, because the loop thread  *)
(* may run between them.  A callback of the loop thread may call           *)
(* queueInLoop() and quit() too: there the two statements are one step.    *)
(*                                                                         *)
(* epoll is edge-triggered, so the kernel's ready list is a set a channel  *)
(* enters on an event and leaves when epoll_wait reports it.  Which ready  *)
(* channels a call reports when events_ is too small is left open.         *)
(***************************************************************************)
EXTENDS Naturals, Sequences, FiniteSets, Functions

CONSTANTS Functors,   \* the callbacks handed to queueInLoop, each at most once
          Others,     \* the threads other than the loop thread
          Channels,   \* the channels registered beside wakeupChannel_
          WakeCh,     \* wakeupChannel_
          InitCap     \* the size events_ is constructed with

ASSUME ChannelsAssumption == WakeCh \notin Channels /\ IsFiniteSet(Channels)
ASSUME CapAssumption == InitCap \in Nat \ {0}

VARIABLES
    pc,        \* where the loop thread is
    looping,   \* looping_
    quit,      \* quit_
    calling,   \* callingPendingFunctors_
    pending,   \* pendingFunctors_
    temp,      \* the vector pendingFunctors_ was swapped into, less what has run
    executed,  \* the functors called so far (history)
    ready,     \* the kernel's ready list
    efd,       \* the counter of wakeupFd_ is not zero
    batch,     \* events_: channels reported by epoll_wait, not yet dispatched
    cap,       \* events_.size()
    tpc        \* tpc[t]: "wake" between the two statements of queueInLoop or quit

loopVars  == <<pc, looping, quit, calling>>
queueVars == <<pending, temp, executed>>
pollVars  == <<ready, efd, batch, cap>>
vars      == <<loopVars, queueVars, pollVars, tpc>>

AllChannels == Channels \cup {WakeCh}

\* Every functor accepted so far, in the order of acceptance.
accepted == executed \o temp \o pending

Fresh(f) == f \notin Range(accepted)

Init ==
    /\ pc = "init" /\ looping = FALSE /\ quit = FALSE /\ calling = FALSE
    /\ pending = <<>> /\ temp = <<>> /\ executed = <<>>
    /\ ready = {} /\ efd = FALSE /\ batch = {} /\ cap = InitCap
    /\ tpc = [t \in Others |-> "idle"]

\* epoll_wait reports a channel on the ready list if it is still readable:
\* a second write to wakeupFd_ leaves an entry that the first read empties.
Readable == {c \in ready : c = WakeCh => efd}

\* wakeup(): the write makes the counter positive and is an edge each time.
Wakeup == efd' = TRUE /\ ready' = ready \cup {WakeCh}

-------------------------------------------------------------------------------
(* The loop thread. *)

Enter ==
    /\ pc = "init"
    /\ pc' = "test" /\ looping' = TRUE
    /\ UNCHANGED <<quit, calling, queueVars, pollVars, tpc>>

Test ==
    /\ pc = "test"
    /\ pc' = IF looping THEN "wait" ELSE "exited"
    /\ UNCHANGED <<looping, quit, calling, queueVars, pollVars, tpc>>

\* Mistake: events_ never grows.
NeverGrown(got) == cap

\* A full array is doubled.
Grown(got) == IF Cardinality(got) = cap THEN 2 * cap ELSE cap

\* epoll_wait returns at most events_.size() channels.
Poll ==
    /\ pc = "wait"
    /\ \E got \in (SUBSET Readable) \ {{}} :
         /\ Cardinality(got) =< cap
         /\ got = Readable \/ Cardinality(got) = cap
         /\ batch' = got
         /\ ready' = Readable \ got
         /\ cap' = Grown(got)
    /\ pc' = "events"
    /\ UNCHANGED <<looping, quit, calling, queueVars, efd, tpc>>

\* Mistake: an idle loop halves events_, down to nothing.
TimeoutShrinks ==
    /\ pc = "wait" /\ Readable = {}
    /\ cap' = cap \div 2 /\ pc' = "events"
    /\ UNCHANGED <<looping, quit, calling, queueVars, ready, efd, batch, tpc>>

\* The 5 s pass without an event: the loop goes on to the pending functors.
Timeout ==
    /\ pc = "wait" /\ Readable = {}
    /\ pc' = "events"
    /\ UNCHANGED <<looping, quit, calling, queueVars, pollVars, tpc>>

\* EINTR is returned only when there is nothing to report: continue.
Interrupted ==
    /\ pc = "wait" /\ Readable = {}
    /\ pc' = "test"
    /\ UNCHANGED <<looping, quit, calling, queueVars, pollVars, tpc>>

\* The callback of one reported channel returns; handleWakeup() reads wakeupFd_.
Dispatch(c) ==
    /\ pc = "events" /\ c \in batch
    /\ batch' = batch \ {c}
    /\ efd' = (efd /\ c # WakeCh)
    /\ UNCHANGED <<loopVars, queueVars, ready, cap, tpc>>

\* Mistake: the pending functors are copied and not swapped out.
SwapCopies ==
    /\ pc = "events" /\ batch = {}
    /\ temp' = pending
    /\ calling' = TRUE /\ pc' = "functors"
    /\ UNCHANGED <<looping, quit, pending, executed, pollVars, tpc>>

Swap ==
    /\ pc = "events" /\ batch = {}
    /\ temp' = pending /\ pending' = <<>>
    /\ calling' = TRUE /\ pc' = "functors"
    /\ UNCHANGED <<looping, quit, executed, pollVars, tpc>>

\* The functor at hand returns.
RunFunctor ==
    /\ pc = "functors" /\ temp # <<>>
    /\ executed' = Append(executed, Head(temp))
    /\ temp' = Tail(temp)
    /\ UNCHANGED <<loopVars, pending, pollVars, tpc>>

FunctorsDone ==
    /\ pc = "functors" /\ temp = <<>>
    /\ calling' = FALSE /\ pc' = "test"
    /\ UNCHANGED <<looping, quit, queueVars, pollVars, tpc>>

\* A channel callback or a functor is running in the loop thread.
InCallback == batch \ {WakeCh} # {} \/ temp # <<>>

\* queueInLoop() in the loop thread: wakeup() only while functors are called.
LoopQueue(f) ==
    /\ InCallback /\ Fresh(f)
    /\ pending' = Append(pending, f)
    /\ IF calling THEN Wakeup ELSE UNCHANGED <<efd, ready>>
    /\ UNCHANGED <<loopVars, temp, executed, batch, cap, tpc>>

\* quit() in the loop thread, as the signal handler's callback calls it.
LoopQuit ==
    /\ InCallback
    /\ quit' = TRUE /\ looping' = FALSE
    /\ Wakeup
    /\ UNCHANGED <<pc, calling, queueVars, batch, cap, tpc>>

-------------------------------------------------------------------------------
(* The other threads and the kernel. *)

\* Mistake: the thread leaves without a wakeup().
NoWake(t) == UNCHANGED tpc

\* The thread has the wakeup() still to do.
WillWake(t) == tpc' = [tpc EXCEPT ![t] = "wake"]

\* queueInLoop() in another thread, up to the unlock.
QueueInLoop(t, f) ==
    /\ tpc[t] = "idle" /\ Fresh(f)
    /\ pending' = Append(pending, f)
    /\ WillWake(t)
    /\ UNCHANGED <<loopVars, temp, executed, pollVars>>

\* quit() in another thread, up to the wakeup().
Quit(t) ==
    /\ tpc[t] = "idle" /\ ~quit
    /\ quit' = TRUE /\ looping' = FALSE
    /\ WillWake(t)
    /\ UNCHANGED <<pc, calling, queueVars, pollVars>>

\* The wakeup() either of them ends with.
WakeLoop(t) ==
    /\ tpc[t] = "wake"
    /\ Wakeup
    /\ tpc' = [tpc EXCEPT ![t] = "idle"]
    /\ UNCHANGED <<loopVars, queueVars, batch, cap>>

\* Something happens on a registered descriptor.
Arrive(c) ==
    /\ c \notin ready
    /\ ready' = ready \cup {c}
    /\ UNCHANGED <<loopVars, queueVars, efd, batch, cap, tpc>>

-------------------------------------------------------------------------------
LoopStep ==
    \/ Enter \/ Test \/ Poll \/ Swap \/ RunFunctor \/ FunctorsDone
    \/ \E c \in AllChannels : Dispatch(c)

ThreadStep(t) == Quit(t) \/ WakeLoop(t) \/ \E f \in Functors : QueueInLoop(t, f)

Next ==
    \/ LoopStep \/ Timeout \/ Interrupted \/ LoopQuit
    \/ \E f \in Functors : LoopQueue(f)
    \/ \E t \in Others : ThreadStep(t)
    \/ \E c \in Channels : Arrive(c)

SafeSpec == Init /\ [][Next]_vars

\* The loop thread keeps running, and so does a thread between two statements.
\* Nothing is assumed of the 5 s timeout, of signals or of the callers.
Fairness == WF_vars(LoopStep) /\ \A t \in Others : WF_vars(WakeLoop(t))

Spec == SafeSpec /\ Fairness

-------------------------------------------------------------------------------
(* Properties. *)

\* The type invariant.
TypeOK ==
    /\ pc \in {"init", "test", "wait", "events", "functors", "exited"}
    /\ looping \in BOOLEAN /\ quit \in BOOLEAN /\ calling \in BOOLEAN
    /\ pending \in Seq(Functors) /\ temp \in Seq(Functors)
    /\ executed \in Seq(Functors)
    /\ ready \subseteq AllChannels /\ efd \in BOOLEAN
    /\ batch \subseteq AllChannels /\ cap \in Nat \ {0}
    /\ tpc \in [Others -> {"idle", "wake"}]

Waking == \E t \in Others : tpc[t] = "wake"

\* The loop thread cannot sleep in epoll_wait from now on: the eventfd is
\* reported, or a thread is about to write to it.
Signalled == (efd /\ WakeCh \in ready) \/ Waking

\* No wakeup is lost: whenever functors are pending and the loop is not about
\* to swap them out, the next epoll_wait returns at once.  This is what the
\* condition at the end of queueInLoop() is for.
NoLostWakeup == pc # "events" /\ pending # <<>> => Signalled

\* No quit is lost on a loop inside epoll_wait: if looping_ was cleared after
\* the test, the thread is woken and does not sleep out its 5 s.
NoLostQuit == pc = "wait" /\ ~looping => Signalled

\* events_ never grows past twice the number of registered channels, or its
\* first size if that is more: the doubling is bounded by what can be ready.
EventsBounded == cap = InitCap \/ cap =< 2 * Cardinality(AllChannels)

\* A ready channel is reported in the end, even if the kernel favours others:
\* a full events_ is doubled "to avoid starvation".
EventReported == \A c \in Channels : (c \in ready) ~> (quit \/ c \in batch)

\* quit() on a loop that has been entered makes loop() return.
QuitAfterEntry == (pc # "init" /\ ~looping) ~> (pc = "exited")

\* The functors as FunctorQueue sees them: one queue, one order of calls.
Queue == INSTANCE FunctorQueue WITH
            queue <- temp \o pending, done <- executed, running <- pc # "exited"

\* The mutex, the swap and the wakeups implement a FIFO executor.
ImplementsFunctorQueue == Queue!Spec

\* Its safety part, for the proof.
ImplementsFunctorQueueSafely == Queue!SafeSpec
===============================================================================
