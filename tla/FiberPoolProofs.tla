-------------------------- MODULE FiberPoolProofs --------------------------
(***************************************************************************)
(* The barrier of FiberThreadManager, for a pool of any size.              *)
(***************************************************************************)
EXTENDS FiberPool, FiniteSetTheorems, TLAPS

Early == {"unborn", "spawn", "born", "joined"}
Late == {"started", "waiting", "notified", "exited", "get", "notify", "destroyed"}

\* The barrier has counted exactly those that have come to it, and lets nobody
\* through before all have.
BarrierInv ==
    /\ pc \in [Threads -> Early \cup {"barrier"} \cup Late]
    /\ arrived = {t \in Threads : pc[t] \notin Early}
    /\ \/ \A t \in Threads : pc[t] \in Late
       \/ \A t \in Threads : pc[t] \notin Late

\* The count of the barrier is the number of threads.
LEMMA EveryThreadCounts ==
  ASSUME NEW S, S \subseteq Threads, Cardinality(S) = BarrierCount
  PROVE  S = Threads
<1>1. IsFiniteSet(Pool) /\ Main \notin Pool
  BY ThreadsAssumption
<1>2. IsFiniteSet(Pool \cup {Main}) /\ Cardinality(Pool \cup {Main}) = Cardinality(Pool) + 1
  BY <1>1, FS_AddElement
<1>3. IsFiniteSet(Threads) /\ Cardinality(Threads) = Cardinality(S)
  BY <1>2 DEF Threads, BarrierCount
<1> QED
  BY <1>3, FS_Subset

LEMMA BarrierInvInit == Init => BarrierInv
BY DEF Init, BarrierInv, Early, Late

\* The step at the barrier: the last one to come releases all of them.
LEMMA BarrierInvArrive ==
  ASSUME BarrierInv, NEW t \in Threads, Arrive(t)
  PROVE  BarrierInv'
<1>1. pc[t] \in Early /\ arrived' = arrived \cup {t} /\ arrived' \subseteq Threads
  BY DEF Arrive, BarrierInv, Early
<1>2. \A u \in Threads : pc[u] \notin Late
  BY <1>1 DEF BarrierInv, Early, Late
<1>3. CASE Cardinality(arrived') = BarrierCount
  <2>1. arrived' = Threads
    BY <1>1, <1>3, EveryThreadCounts
  <2>2. pc' = [u \in Threads |-> "started"]
    BY <1>3, <2>1 DEF Arrive
  <2> QED
    BY <2>1, <2>2 DEF BarrierInv, Early, Late
<1>4. CASE Cardinality(arrived') # BarrierCount
  <2>1. pc' = [pc EXCEPT ![t] = "barrier"]
    BY <1>4 DEF Arrive
  <2> QED
    BY <1>1, <1>2, <2>1 DEF BarrierInv, Early, Late
<1> QED
  BY <1>3, <1>4

\* A step within the early states ...
LEMMA BarrierInvEarly ==
  ASSUME BarrierInv, NEW t \in Threads, NEW from \in Early, NEW to \in Early,
         Move(t, from, to), arrived' = arrived
  PROVE  BarrierInv'
BY DEF BarrierInv, Move, Early, Late

\* ... or within the late ones.
LEMMA BarrierInvLate ==
  ASSUME BarrierInv, NEW t \in Threads, NEW from \in Late, NEW to \in Late,
         Move(t, from, to), arrived' = arrived
  PROVE  BarrierInv'
BY DEF BarrierInv, Move, Early, Late

LEMMA BarrierInvStep == BarrierInv /\ [Next]_vars => BarrierInv'
<1> SUFFICES ASSUME BarrierInv, [Next]_vars PROVE BarrierInv'
  OBVIOUS
<1>1. Main \in Threads /\ Pool \subseteq Threads
  BY DEF Threads
<1>2. CASE UNCHANGED <<pc, arrived>>
  BY <1>2 DEF BarrierInv
<1>3. ASSUME NEW t \in Pool, Spawn(t) PROVE BarrierInv'
  <2>1. t \in Threads /\ Move(t, "unborn", "born") /\ arrived' = arrived
    BY <1>1, <1>3 DEF Spawn
  <2> QED
    BY <2>1, BarrierInvEarly DEF Early
<1>4. ASSUME NEW t \in Threads, Worker(t) PROVE BarrierInv'
  <2>1. CASE Join(t)
    <3>1. Move(t, "born", "joined") /\ arrived' = arrived
      BY <2>1 DEF Join
    <3> QED
      BY <3>1, BarrierInvEarly DEF Early
  <2>2. CASE Wait(t)
    <3>1. PICK from \in {"started", "notified"} :
              Move(t, from, IF finish_ THEN "exited" ELSE "waiting") /\ arrived' = arrived
      BY <2>2 DEF Wait
    <3>2. CASE finish_
      BY <3>1, <3>2, <1>4, BarrierInvLate DEF Late
    <3>3. CASE ~finish_
      BY <3>1, <3>3, <1>4, BarrierInvLate DEF Late
    <3> QED
      BY <3>2, <3>3
  <2>3. CASE Arrive(t)
    BY <2>3, BarrierInvArrive
  <2>4. CASE Complete(t) \/ \E k \in Tasks : Run(t, k)
    BY <1>2, <2>4 DEF Complete, Run
  <2> QED
    BY <1>4, <2>1, <2>2, <2>3, <2>4 DEF Worker
<1>5. ASSUME NEW k \in Tasks, Submit(k) PROVE BarrierInv'
  BY <1>2, <1>5 DEF Submit
<1>6. ASSUME NEW k \in Tasks, Get(k) PROVE BarrierInv'
  BY <1>1, <1>6, BarrierInvLate DEF Get, Late
<1>7. CASE Finish
  BY <1>1, <1>7, BarrierInvLate DEF Finish, Late
<1>8. CASE Notify
  BY <1>1, <1>8 DEF Notify, BarrierInv, Early, Late
<1>9. CASE UNCHANGED vars
  BY <1>2, <1>9 DEF vars
<1> QED
  BY <1>3, <1>4, <1>5, <1>6, <1>7, <1>8, <1>9 DEF Next

\* No thread of the pool, nor the constructing one, gets past the barrier
\* before all have joined the shared scheduling.
THEOREM StartsTogether == Spec => []StartTogether
<1>1. BarrierInv => StartTogether
  BY DEF BarrierInv, StartTogether, Early, Late
<1> QED
  BY <1>1, BarrierInvInit, BarrierInvStep, PTL DEF Spec
=============================================================================
