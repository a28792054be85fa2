--------------------------- MODULE EventLoopThread ----------------------------
(***************************************************************************)
(* EventLoopThread (reactor/src/EventLoopThread.cpp): an owner creates a   *)
(* thread whose function holds the EventLoop on its stack, waits until it  *)
(* is published in loop_, uses it through getLoop(), and in the destructor *)
(* quits it and joins the thread.  The loop itself is EventLoop.tla; the   *)
(* owner is one of its other threads, and the only one that quits it.      *)
(*                                                                         *)
(* The loop of the main thread has no EventLoopThread: it lives as long as *)
(* the others may use it, and any of them or its own callbacks may quit it.*)
(***************************************************************************)
EXTENDS EventLoop

CONSTANTS Owner,         \* the thread that creates and destroys the EventLoopThread
          ThreadFunctors \* BOUND: the functors that are queued in its loop

ASSUME OwnerAssumption == Owner \in Others /\ ThreadFunctors \subseteq Functors

VARIABLES owner,    \* "constructing", "using", "quitting", "joining" or "joined",
                    \* "none" for the main loop
          loop_,    \* the member loop_
          alive     \* the EventLoop exists: threadFunc() has not returned

threadVars == <<owner, loop_, alive>>
allVars    == <<vars, threadVars>>

MainLoop == owner = "none" /\ loop_ = "null" /\ alive = TRUE

\* The constructor does not initialise loop_: it holds whatever was there.  An
\* owner that finds garbage there does nothing more: what the program would do
\* with such a pointer is undefined.
NewThread == owner = "constructing" /\ loop_ \in {"null", "garbage"} /\ alive = FALSE

TInit == Init /\ (MainLoop \/ NewThread)

-------------------------------------------------------------------------------
(* The new thread: threadFunc(). *)

Publish ==
    /\ pc = "init" /\ ~alive
    /\ alive' = TRUE /\ loop_' = "loop"
    /\ UNCHANGED <<vars, owner>>

LoopRuns == alive /\ LoopStep /\ UNCHANGED threadVars

LoopCallback ==
    /\ alive
    /\ \/ Timeout \/ Interrupted
       \/ \E f \in ThreadFunctors : LoopQueue(f)
    /\ UNCHANGED threadVars

\* threadFunc() returns: the EventLoop on its stack is destroyed.
Return ==
    /\ owner # "none" /\ pc = "exited" /\ alive
    /\ alive' = FALSE
    /\ UNCHANGED <<vars, owner, loop_>>

-------------------------------------------------------------------------------
(* The owner. *)

\* Mistake: the constructor does not wait.
ConstructedEarly ==
    /\ owner = "constructing"
    /\ owner' = "using"
    /\ UNCHANGED <<vars, loop_, alive>>

\* The constructor's wait ends.
Constructed ==
    /\ owner = "constructing" /\ loop_ # "null"
    /\ owner' = "using"
    /\ UNCHANGED <<vars, loop_, alive>>

\* getLoop()->queueInLoop(f), first half.
OwnerQueues(f) ==
    /\ owner = "using" /\ loop_ = "loop"
    /\ QueueInLoop(Owner, f)
    /\ UNCHANGED threadVars

\* The destructor begins: quit() up to its wakeup().
DestructorQuits ==
    /\ owner = "using" /\ loop_ = "loop"
    /\ Quit(Owner)
    /\ owner' = "quitting"
    /\ UNCHANGED <<loop_, alive>>

\* The wakeup() that ends queueInLoop() and quit().  If the EventLoop is gone the
\* model's eventfd is one that nobody reads any more.
Wakes ==
    /\ \E t \in Others : WakeLoop(t)
    /\ owner' = IF owner = "quitting" THEN "joining" ELSE owner
    /\ UNCHANGED <<loop_, alive>>

Joins ==
    /\ owner = "joining" /\ loop_ = "loop" /\ ~alive
    /\ owner' = "joined"
    /\ UNCHANGED <<vars, loop_, alive>>

ChannelEvent == alive /\ (\E c \in Channels : Arrive(c)) /\ UNCHANGED threadVars

\* Everything that EventLoop allows.
MainLoopNext == owner = "none" /\ Next /\ UNCHANGED threadVars

TNext ==
    \/ MainLoopNext
    \/ Publish \/ LoopRuns \/ LoopCallback \/ Return
    \/ Constructed \/ DestructorQuits \/ Wakes \/ Joins
    \/ \E f \in ThreadFunctors : OwnerQueues(f)
    \/ ChannelEvent

\* Every thread keeps running; the owner need not ever destroy its object.
TSpec ==
    /\ TInit /\ [][TNext]_allVars
    /\ WF_allVars(Publish \/ LoopRuns \/ Return)
    /\ WF_allVars(Constructed \/ Wakes \/ Joins)

-------------------------------------------------------------------------------
(* Properties. *)

\* A loop_ that was null at first or has been published is a live loop from the
\* constructor's return until the destructor begins: the wait on the condition
\* variable, and nobody but the owner quits the loop.  What becomes of a loop_
\* that was garbage at first is OwnerHasLoop.
PublishedLoopLives == owner = "using" /\ loop_ # "garbage" => loop_ = "loop" /\ alive

\* The constructor waits "until loop_ is initialised": when it has returned,
\* getLoop() is the live loop of the thread, whatever the memory held before.  The
\* code does not keep this: with garbage in loop_ the wait ends at once.
OwnerHasLoop == owner = "using" => loop_ = "loop" /\ alive

\* quit() wakes the loop "to make it exit": the EventLoop is still there for the
\* wakeup() that quit() ends with.  The code does not keep this: the loop can leave
\* and be destroyed between the store to looping_ and the wakeup().
QuitReachesLoop == owner = "quitting" => alive

\* The destructor tells the I/O thread to exit and joins it, whenever it runs.
DestructorAlwaysReturns == (owner = "quitting") ~> (owner = "joined")
===============================================================================
