----------------------------- MODULE FiberPool -----------------------------
(***************************************************************************)
(* FiberThreadManager and FiberThreadPool.  The constructing thread and    *)
(* num_worker - 1 threads of the pool share one queue of ready fibers.  A  *)
(* pool thread waits in its main fiber for finish_ and runs other fibers   *)
(* meanwhile; the constructing thread runs some while it waits for a       *)
(* future.  Tasks run to their end without suspending.                     *)
(***************************************************************************)
EXTENDS Naturals, FiniteSets

CONSTANTS
    Pool,      \* the threads of workers_; num_worker is one more
    Tasks,     \* what is submitted
    Main       \* the thread that constructs, submits and destroys

ASSUME ThreadsAssumption == IsFiniteSet(Pool) /\ Main \notin Pool

VARIABLES
    pc,        \* per thread: where its main fiber is
    arrived,   \* threads counted by the barrier
    finish_,
    ready,     \* fibers in the shared queue
    running,   \* per thread: the fibers (one or none) it is running
    done       \* tasks whose future is ready

vars == <<pc, arrived, finish_, ready, running, done>>

Threads == Pool \cup {Main}

\* Faulty: the constructing thread is not counted.
BarrierCount_Faulty == Cardinality(Pool)
\* The argument of thread_barrier.
BarrierCount == Cardinality(Pool) + 1

Init ==
    /\ pc = [t \in Threads |-> IF t = Main THEN "spawn" ELSE "unborn"]
    /\ arrived = {} /\ finish_ = FALSE
    /\ ready = {} /\ running = [t \in Threads |-> {}] /\ done = {}

Move(t, from, to) == pc[t] = from /\ pc' = [pc EXCEPT ![t] = to]

\* use_scheduling_algorithm by the constructor, then one std::thread each.
Spawn(t) ==
    /\ pc[Main] = "spawn"
    /\ Move(t, "unborn", "born")
    /\ UNCHANGED <<arrived, finish_, ready, running, done>>

\* use_scheduling_algorithm by a thread of the pool.
Join(t) ==
    /\ t \in Pool /\ Move(t, "born", "joined")
    /\ UNCHANGED <<arrived, finish_, ready, running, done>>

\* b->wait(): the last one to arrive lets all of them through.
Arrive(t) ==
    /\ pc[t] = IF t = Main THEN "spawn" ELSE "joined"
    /\ \A u \in Pool : t = Main => pc[u] # "unborn"
    /\ arrived' = arrived \cup {t}
    /\ pc' = IF Cardinality(arrived') = BarrierCount
             THEN [u \in Threads |-> IF u \in arrived' THEN "started" ELSE pc[u]]
             ELSE [pc EXCEPT ![t] = "barrier"]
    /\ UNCHANGED <<finish_, ready, running, done>>

\* Faulty: the wait has no predicate.
Wait_Faulty(t) ==
    /\ t \in Pool /\ running[t] = {}
    /\ Move(t, "started", "waiting") \/ Move(t, "notified", "exited")
    /\ UNCHANGED <<arrived, finish_, ready, running, done>>

\* cv->wait: the predicate is looked at under mu_, at first and when notified.
Wait(t) ==
    /\ t \in Pool /\ running[t] = {}
    /\ \E from \in {"started", "notified"} :
           Move(t, from, IF finish_ THEN "exited" ELSE "waiting")
    /\ UNCHANGED <<arrived, finish_, ready, running, done>>

Submit(k) ==
    /\ pc[Main] = "started" /\ k \notin ready \cup done /\ \A t \in Threads : k \notin running[t]
    /\ ready' = ready \cup {k}
    /\ UNCHANGED <<pc, arrived, finish_, running, done>>

\* fut.get() by the constructing thread.
Get(k) ==
    /\ \/ Move(Main, "started", "get") /\ k \in ready \cup done
       \/ running[Main] = {} /\ k \in done /\ Move(Main, "get", "started")
    /\ UNCHANGED <<arrived, finish_, ready, running, done>>

\* Faulty: a condition variable that blocks the thread and not the fiber.
RunsFibers_Faulty(t) == t = Main /\ pc[t] = "get"
\* The main fiber has given the thread to the scheduler, which prefers the
\* shared queue to a main fiber that was notified.
RunsFibers(t) == IF t = Main THEN pc[t] = "get" ELSE pc[t] \in {"waiting", "notified"}

Run(t, k) ==
    /\ RunsFibers(t) /\ running[t] = {} /\ k \in ready
    /\ ready' = ready \ {k} /\ running' = [running EXCEPT ![t] = {k}]
    /\ UNCHANGED <<pc, arrived, finish_, done>>

Complete(t) ==
    /\ running[t] # {}
    /\ done' = done \cup running[t] /\ running' = [running EXCEPT ![t] = {}]
    /\ UNCHANGED <<pc, arrived, finish_, ready>>

\* ~FiberThreadManager: finish_ under mu_, ...
Finish ==
    /\ Move(Main, "started", "notify")
    /\ finish_' = TRUE
    /\ UNCHANGED <<arrived, ready, running, done>>

\* ... then notify_all, and the threads are detached.
Notify ==
    /\ pc[Main] = "notify"
    /\ pc' = [t \in Threads |-> IF t = Main THEN "destroyed"
                                ELSE IF pc[t] = "waiting" THEN "notified" ELSE pc[t]]
    /\ UNCHANGED <<arrived, finish_, ready, running, done>>

Worker(t) == Join(t) \/ Wait(t) \/ Arrive(t) \/ Complete(t) \/ \E k \in Tasks : Run(t, k)

Next ==
    \/ \E t \in Pool : Spawn(t)
    \/ \E t \in Threads : Worker(t)
    \/ \E k \in Tasks : Submit(k) \/ Get(k)
    \/ Finish \/ Notify

Spec == Init /\ [][Next]_vars

\* Threads run; the application need not submit, wait or destroy.
FairSpec ==
    /\ Spec
    /\ \A t \in Pool : WF_vars(Spawn(t)) /\ WF_vars(Worker(t))
    /\ WF_vars(Worker(Main)) /\ WF_vars(Notify)
    /\ \A k \in Tasks : WF_vars(pc[Main] = "get" /\ Get(k))

-----------------------------------------------------------------------------
\* "sync with other threads, allow them to start processing": a thread is
\* past the barrier only when every thread has joined the shared scheduling
\* (thread_barrier in the constructor).
StartTogether ==
    (\E t \in Threads : pc[t] \notin {"unborn", "spawn", "born", "joined", "barrier"})
        => \A t \in Threads : pc[t] \notin {"unborn", "spawn", "born", "joined", "barrier"}

\* No notification is lost: once the destructor has run every thread of the
\* pool ends, also one that had not reached its wait (finish_, mu_, cv_).
ThreadsEnd == \A t \in Pool : pc[Main] = "destroyed" ~> pc[t] = "exited"

\* A submitted task is run, whether or not anyone waits for its future, unless
\* the pool is destroyed first (Submit and the fiber condition variable).
TasksRun == \A k \in Tasks : k \in ready ~> k \in done \/ finish_
=============================================================================
