------------------------------ MODULE ThreadPool ------------------------------
(***************************************************************************)
(* ThreadPool (reactor/src/ThreadPool.cpp): worker threads share a queue   *)
(* under a mutex and sleep on a condition variable; the I/O threads submit *)
(* tasks with run(); the destructor stops and joins the workers.           *)
(*                                                                         *)
(* A section under mutex_ is one step.  The notify_one() of run() and the  *)
(* notify_all() of the destructor come after the unlock: steps of their    *)
(* own.  A waiting thread may also wake up for no reason.                  *)
(***************************************************************************)
EXTENDS Naturals, Sequences, FiniteSets, Functions

CONSTANTS Workers,      \* threads_
          Submitters,   \* the threads that call run()
          Tasks         \* the tasks, each submitted at most once

ASSUME ThreadsAssumption == IsFiniteSet(Workers) /\ IsFiniteSet(Submitters)

VARIABLES
    running,   \* running_
    tasks,     \* tasks_
    wpc,       \* a worker is at the "test" of running_, "checking" the predicate
               \* of the wait, "waiting", "busy" with a task, or "exited"
    held,      \* the task of each worker that is busy
    done,      \* the tasks that have been run (history)
    notifying, \* the submitters between the unlock and notify_one()
    owner      \* the destructor: "up", "stopping", "joining" or "joined"

vars == <<running, tasks, wpc, held, done, notifying, owner>>

Init ==
    /\ running = TRUE /\ tasks = <<>>
    /\ wpc = [w \in Workers |-> "test"] /\ held = <<>>
    /\ done = {} /\ notifying = {} /\ owner = "up"

At(place) == {w \in Workers : wpc[w] = place}

Submitted == Range(tasks) \cup Range(held) \cup done

-------------------------------------------------------------------------------
(* run(). *)

\* Mistakes: run() notifies only when the queue was empty, or never.
NotifyFirst(s) == notifying' = IF tasks = <<>> THEN notifying \cup {s} ELSE notifying

NoNotify(s) == UNCHANGED notifying

\* The thread has the notify_one() still to do.
WillNotify(s) == notifying' = notifying \cup {s}

Run(s, task) ==
    /\ s \notin notifying /\ task \notin Submitted
    /\ tasks' = Append(tasks, task)
    /\ WillNotify(s)
    /\ UNCHANGED <<running, wpc, held, done, owner>>

\* notify_one() wakes one waiting thread, if there is one.
NotifyOne(s) ==
    /\ s \in notifying
    /\ notifying' = notifying \ {s}
    /\ IF At("waiting") = {} THEN UNCHANGED wpc
       ELSE \E w \in At("waiting") : wpc' = [wpc EXCEPT ![w] = "checking"]
    /\ UNCHANGED <<running, tasks, held, done, owner>>

-------------------------------------------------------------------------------
(* workerLoop(). *)

\* while(running_), read without the mutex.
Test(w) ==
    /\ wpc[w] = "test"
    /\ wpc' = [wpc EXCEPT ![w] = IF running THEN "checking" ELSE "exited"]
    /\ UNCHANGED <<running, tasks, held, done, notifying, owner>>

Take(w) ==
    /\ wpc[w] = "checking" /\ tasks # <<>>
    /\ tasks' = Tail(tasks)
    /\ held' = [x \in DOMAIN held \cup {w} |-> IF x = w THEN Head(tasks) ELSE held[x]]
    /\ wpc' = [wpc EXCEPT ![w] = "busy"]
    /\ UNCHANGED <<running, done, notifying, owner>>

\* Nothing to take: return when stopped, sleep otherwise.
Wait(w) ==
    /\ wpc[w] = "checking" /\ tasks = <<>>
    /\ wpc' = [wpc EXCEPT ![w] = IF running THEN "waiting" ELSE "exited"]
    /\ UNCHANGED <<running, tasks, held, done, notifying, owner>>

Spurious(w) ==
    /\ wpc[w] = "waiting"
    /\ wpc' = [wpc EXCEPT ![w] = "checking"]
    /\ UNCHANGED <<running, tasks, held, done, notifying, owner>>

\* Mistake: a task that has been run stays with its worker.
FinishKeeps(w) ==
    /\ wpc[w] = "busy"
    /\ done' = done \cup {held[w]}
    /\ wpc' = [wpc EXCEPT ![w] = "test"]
    /\ UNCHANGED <<running, tasks, held, notifying, owner>>

Finish(w) ==
    /\ wpc[w] = "busy"
    /\ done' = done \cup {held[w]}
    /\ held' = [x \in DOMAIN held \ {w} |-> held[x]]
    /\ wpc' = [wpc EXCEPT ![w] = "test"]
    /\ UNCHANGED <<running, tasks, notifying, owner>>

-------------------------------------------------------------------------------
(* The destructor.  Nothing keeps another thread from being in run() meanwhile: *)
(* that none is, is up to the program (Server.tla).                             *)

Stop ==
    /\ owner = "up"
    /\ running' = FALSE /\ owner' = "stopping"
    /\ UNCHANGED <<tasks, wpc, held, done, notifying>>

\* Mistake: notify_one() where notify_all() is needed.
StopNotifiesOne ==
    /\ owner = "stopping" /\ owner' = "joining"
    /\ IF At("waiting") = {} THEN UNCHANGED wpc
       ELSE \E w \in At("waiting") : wpc' = [wpc EXCEPT ![w] = "checking"]
    /\ UNCHANGED <<running, tasks, held, done, notifying>>

NotifyAll ==
    /\ owner = "stopping" /\ owner' = "joining"
    /\ wpc' = [w \in Workers |-> IF wpc[w] = "waiting" THEN "checking" ELSE wpc[w]]
    /\ UNCHANGED <<running, tasks, held, done, notifying>>

\* The members are destroyed too: what is left in tasks_ is never run.
Join ==
    /\ owner = "joining" /\ At("exited") = Workers
    /\ owner' = "joined"
    /\ UNCHANGED <<running, tasks, wpc, held, done, notifying>>

-------------------------------------------------------------------------------
Work(w) == Test(w) \/ Take(w) \/ Wait(w) \/ Finish(w)

Next ==
    \/ \E s \in Submitters : NotifyOne(s) \/ \E task \in Tasks : Run(s, task)
    \/ \E w \in Workers : Work(w) \/ Spurious(w)
    \/ Stop \/ NotifyAll \/ Join

SafeSpec == Init /\ [][Next]_vars

-------------------------------------------------------------------------------
(* Properties. *)

\* The type invariant.
TypeOK ==
    /\ running \in BOOLEAN /\ tasks \in Seq(Tasks)
    /\ wpc \in [Workers -> {"test", "checking", "waiting", "busy", "exited"}]
    /\ held \in [At("busy") -> Tasks] /\ done \subseteq Tasks
    /\ notifying \subseteq Submitters
    /\ owner \in {"up", "stopping", "joining", "joined"}

\* While a worker waits, each queued task has a worker about to look or a
\* notify_one() to come.
Balanced ==
    running /\ At("waiting") # {}
    => Len(tasks) =< Cardinality(At("checking")) + Cardinality(notifying)

\* The destructor joins no worker that sleeps: running_ was cleared before its
\* notify_all(), and whoever looks at the queue from then on does not wait.
JoinFindsAwake == owner \in {"joining", "joined"} => At("waiting") = {}

\* No worker sleeps beside a task that nobody is going to take, nor while the
\* destructor waits for it.
NoneIdle == Balanced /\ JoinFindsAwake
===============================================================================
