----------------------------- MODULE FunctorQueue -----------------------------
(***************************************************************************)
(* What EventLoop::queueInLoop promises its callers, whatever thread they  *)
(* are: while the loop runs, the functors handed to it are called one at a *)
(* time, each exactly once, in the order in which they were queued, and    *)
(* none waits forever.  How the loop gets there (mutex, swap, eventfd,     *)
(* epoll) is the business of EventLoop.tla, which implements this module.  *)
(***************************************************************************)
EXTENDS Sequences, Functions

CONSTANT Functors

VARIABLES queue,    \* functors not called yet, oldest first
          done,     \* functors called, in the order of the calls
          running   \* the loop has not been left

vars == <<queue, done, running>>

Init == queue = <<>> /\ done = <<>> /\ running = TRUE

Submit(f) ==
    /\ f \notin Range(done \o queue)
    /\ queue' = Append(queue, f)
    /\ UNCHANGED <<done, running>>

Execute ==
    /\ running
    /\ queue # <<>>
    /\ done' = Append(done, Head(queue))
    /\ queue' = Tail(queue)
    /\ UNCHANGED running

Stop == running /\ running' = FALSE /\ UNCHANGED <<queue, done>>

Next == Execute \/ Stop \/ \E f \in Functors : Submit(f)

SafeSpec == Init /\ [][Next]_vars

Spec == SafeSpec /\ WF_vars(Execute)
===============================================================================
