-------------------------- MODULE MCEventLoopThread ---------------------------
(* Instances of EventLoopThread for TLC. *)
EXTENDS EventLoopThread

\* BOUND: a least array, so that it is full in the first round already.
MCInitCap == 1
===============================================================================
