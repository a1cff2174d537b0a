----------------------------- MODULE JobLockProofs -----------------------------
(***************************************************************************)
(* Mutual exclusion of the workers, for every instance of JobOrchestration: *)
(* each lock key behaves as the abstract lease of LeaseMutex, whatever the *)
(* workers, the broker and the callers do.                                 *)
(***************************************************************************)
EXTENDS JobProofs

-----------------------------------------------------------------------------
\* Only a keyed job waits at a lock or leaves a guard.
Keyed(w) == At(w, "lock") \/ At(w, "release") => KeyOf(w) # NoKey

\* A lease value names the worker that is inside that key's guard, and whoever
\* is inside holds the lease or has outlived it.
LockInv ==
  /\ \A w \in Workers : Inside(w) => lock[KeyOf(w)] = w \/ w \in lapsed
  /\ \A w \in Workers, k \in LockKeys : lock[k] = w => Inside(w) /\ KeyOf(w) = k
  /\ \A w \in lapsed : Inside(w) /\ lock[KeyOf(w)] # w
  /\ \A w \in Workers : Keyed(w)

\* A worker whose position and message do not change stays where it is.
LEMMA SamePlace ==
  ASSUME NEW w \in Workers, run'[w].pc = run[w].pc, run'[w].msg = run[w].msg
  PROVE  (Inside(w)' <=> Inside(w)) /\ KeyOf(w)' = KeyOf(w) /\ (Keyed(w)' <=> Keyed(w))
  BY DEF Inside, KeyOf, JobOf, Keyed, At

\* Inside the guard a worker's key is a lock.
LEMMA InsideKey ==
  ASSUME TypeOK, NEW w \in Workers, Inside(w)
  PROVE  KeyOf(w) \in LockKeys
  BY KeyType DEF Inside, KeyOf, JobOf, TypeOK, Message

\* A step that moves one worker without entering or leaving a guard.
LEMMA StaysPut ==
  ASSUME TypeOK, LockInv, NEW w \in Workers,
         UNCHANGED <<lock, lapsed>>,
         \A v \in Workers \ {w} : run'[v] = run[v],
         Inside(w)' <=> Inside(w),
         Inside(w) => KeyOf(w)' = KeyOf(w),
         Keyed(w)'
  PROVE  LockInv'
  <1> USE DEF Inside, KeyOf, JobOf, Keyed, At
  <1>1. \A v \in Workers : /\ Inside(v)' <=> Inside(v)
                           /\ Inside(v) => KeyOf(v)' = KeyOf(v)
                           /\ Keyed(v)'
    BY DEF LockInv
  <1>2. lapsed \subseteq Workers
    BY DEF TypeOK
  <1> QED
    BY <1>1, <1>2 DEF LockInv

\* The steps of a worker other than taking and releasing the lease leave the
\* leases and its place in the guard alone.
LEMMA WorkerMoves ==
  ASSUME TypeOK, LockInv, NEW w \in Workers, WorkerStep(w) \/ Receive(w),
         ~ Acquire(w), ~ Release(w)
  PROVE  /\ UNCHANGED <<lock, lapsed>>
         /\ \A v \in Workers \ {w} : run'[v] = run[v]
         /\ Inside(w)' <=> Inside(w)
         /\ Inside(w) => KeyOf(w)' = KeyOf(w)
         /\ Keyed(w)'
  <1> DEFINE Others == \A v \in Workers \ {w} : run'[v] = run[v]
             Put == /\ UNCHANGED <<lock, lapsed>>
                    /\ Inside(w)' <=> Inside(w)
                    /\ Inside(w) => KeyOf(w)' = KeyOf(w)
                    /\ Keyed(w)'
  <1>1. run[w] \in Run
    BY DEF TypeOK
  <1>2. ASSUME NEW m \in Message, ReceiveFinished(w, m) \/ ReceiveLive(w, m)
        PROVE  Others /\ Put
    <2>1. CASE ReceiveFinished(w, m)
      <3>1. run'[w].msg = m /\ run'[w].pc = "ack" /\ Others
        BY <2>1 DEF ReceiveFinished, TypeOK, IdleRun
      <3> QED
        BY <2>1, <3>1 DEF ReceiveFinished, Inside, Keyed, At
    <2>2. CASE ReceiveLive(w, m)
      <3>1. /\ run'[w].msg = m /\ Others
            /\ run'[w].pc = IF LockKey(m.job) = NoKey THEN "begin" ELSE "lock"
        BY <2>2 DEF ReceiveLive, TypeOK, IdleRun
      <3> QED
        BY <2>2, <3>1 DEF ReceiveLive, Inside, Keyed, KeyOf, JobOf, At
    <2> QED
      BY <1>2, <2>1, <2>2
  <1>3. CASE Contended(w) \/ SaveSkipped(w) \/ BeginUnhandled(w) \/ BeginRaises(w)
    <2>1. run'[w].msg = run[w].msg /\ Others
      BY <1>1, <1>3 DEF Contended, SaveSkipped, BeginUnhandled, BeginRaises, Goto, TypeOK, Run
    <2>2. \/ At(w, "lock") /\ run'[w].pc \in {"skip", "ack"}
          \/ At(w, "skip") /\ run'[w].pc = "ack"
          \/ At(w, "begin") /\ run'[w].pc = AfterGuard(w)
      BY <1>1, <1>3 DEF Contended, SaveSkipped, BeginUnhandled, BeginRaises, Goto, TypeOK, Run, At
    <2> QED
      BY <1>3, <2>1, <2>2 DEF Contended, SaveSkipped, BeginUnhandled, BeginRaises,
                              Inside, Keyed, KeyOf, JobOf, At, AfterGuard
  <1>4. CASE Begin(w)
    <2>1. run'[w].msg = run[w].msg /\ Others /\ At(w, "begin") /\ run'[w].pc = "handler"
      BY <1>1, <1>4 DEF Begin, TypeOK, Run, At
    <2> QED
      BY <1>4, <2>1 DEF Begin, Inside, Keyed, KeyOf, JobOf, At
  <1>5. ASSUME NEW kind \in FailureKind, HandlerSucceeds(w) \/ HandlerFails(w, kind)
        PROVE  Others /\ Put
    <2>1. /\ run'[w].msg = run[w].msg /\ Others
          /\ At(w, "handler") /\ run'[w].pc = AfterGuard(w)
      <3>1. CASE HandlerSucceeds(w)
        BY <1>1, <3>1 DEF HandlerSucceeds, TypeOK, Run
      <3>2. CASE HandlerFails(w, kind)
        BY <1>1, <3>2 DEF HandlerFails, TypeOK, Run
      <3> QED
        BY <1>5, <3>1, <3>2
    <2> QED
      BY <1>5, <2>1 DEF HandlerSucceeds, HandlerFails, Inside, Keyed, KeyOf, JobOf, At, AfterGuard
  <1>6. CASE Requeue(w) \/ Resend(w) \/ Ack(w)
    <2>1. Others
      BY <1>6 DEF Requeue, Resend, Ack, Goto, TypeOK
    <2>2. run'[w].pc \in {"resend", "ack", "idle"} /\ run[w].pc \in {"requeue", "resend", "ack"}
      BY <1>1, <1>6 DEF Requeue, Resend, Ack, Goto, TypeOK, Run, At, IdleRun
    <2> QED
      BY <1>6, <2>1, <2>2 DEF Requeue, Resend, Ack, Inside, Keyed, At
  <1>7. FailureKind # {}
    BY DEF FailureKind
  <1> QED
    BY <1>2, <1>3, <1>4, <1>5, <1>6, <1>7 DEF WorkerStep, Receive

\* What the five steps that touch a lease do to the worker that takes them.
LEMMA Entering ==
  ASSUME TypeOK, LockInv, NEW w \in Workers, Acquire(w)
  PROVE  /\ KeyOf(w) \in LockKeys /\ lock[KeyOf(w)] = Free
         /\ lock' = [lock EXCEPT ![KeyOf(w)] = w] /\ UNCHANGED lapsed
         /\ \A v \in Workers \ {w} : run'[v] = run[v]
         /\ ~ Inside(w) /\ Inside(w)' /\ KeyOf(w)' = KeyOf(w) /\ Keyed(w)'
  <1>1. KeyOf(w) # NoKey
    BY DEF LockInv, Keyed, Acquire
  <1>2. KeyOf(w) \in LockKeys
    BY <1>1, KeyType DEF Acquire, At, KeyOf, JobOf, TypeOK, Message
  <1>3. run'[w].pc = "begin" /\ run'[w].msg = run[w].msg /\ \A v \in Workers \ {w} : run'[v] = run[v]
    BY DEF Acquire, Goto, TypeOK, Run
  <1> QED
    BY <1>1, <1>2, <1>3 DEF Acquire, Inside, Keyed, KeyOf, JobOf, At

LEMMA Leaving ==
  ASSUME TypeOK, LockInv, NEW w \in Workers, Release(w) \/ ReleaseFails(w)
  PROVE  /\ Inside(w) /\ KeyOf(w) \in LockKeys
         /\ lapsed' = lapsed \ {w}
         /\ \A v \in Workers \ {w} : run'[v] = run[v]
         /\ ~ Inside(w)' /\ Keyed(w)'
  <1>1. Inside(w)
    BY DEF LockInv, Keyed, Release, ReleaseFails, Inside, At
  <1>2. run'[w].pc \in {"requeue", "ack"} /\ \A v \in Workers \ {w} : run'[v] = run[v]
    BY DEF Release, ReleaseFails, Goto, TypeOK, Run
  <1> QED
    BY <1>1, <1>2, InsideKey DEF Release, ReleaseFails, Inside, Keyed, At

LEMMA Dying ==
  ASSUME TypeOK, LockInv, NEW w \in Workers, Crash(w)
  PROVE  /\ lock' = [k \in LockKeys |-> IF lock[k] = w THEN Orphan ELSE lock[k]]
         /\ lapsed' = lapsed \ {w}
         /\ \A v \in Workers \ {w} : run'[v] = run[v]
         /\ ~ Inside(w)' /\ Keyed(w)'
  BY DEF Crash, IdleRun, TypeOK, Inside, Keyed, At

\* No caller touches a lease or a worker.
LEMMA CallersKeepLocks ==
  ASSUME NEW c \in Callers,
         \/ CallerStep(c) \/ CallerCrash(c)
         \/ \E j \in Jobs : EnqueueCreate(c, j) \/ RetryRead(c, j) \/ CancelRead(c, j)
                            \/ ReapRead(c, j)
  PROVE  UNCHANGED <<lock, lapsed, run>>
  BY DEF CallerStep, CallerCrash, EnqueueCreate, RetryRead, CancelRead, ReapRead,
         Dispatch, DispatchSave, CancelRevoke, CancelSave, ReapSave, SaveCopy

\* Each step keeps lease values and workers' positions in agreement.
LEMMA LockStep ==
  ASSUME TypeOK, TypeOK', LockInv, [Next]_vars
  PROVE  LockInv'
  <1> USE DEF Inside, KeyOf, JobOf, Keyed, At
  <1>1. \A v \in Workers : v # Free /\ v # Orphan
    BY OrchestrationAssumption
  <1>2. lapsed \subseteq Workers
    BY DEF TypeOK
  <1>3. ASSUME NEW w \in Workers, Acquire(w) PROVE LockInv'
    <2>1. \A k \in LockKeys : lock'[k] = IF k = KeyOf(w) THEN w ELSE lock[k]
      BY <1>3, Entering DEF TypeOK
    <2>2. \A v \in Workers \ {w} : /\ Inside(v)' <=> Inside(v)
                                   /\ KeyOf(v)' = KeyOf(v)
                                   /\ Keyed(v)' <=> Keyed(v)
      BY <1>3, Entering
    <2>3. \A v \in Workers : Inside(v) => KeyOf(v) \in LockKeys
      BY InsideKey
    <2>4. \A v \in Workers \ {w} : Inside(v) => lock[KeyOf(v)] = lock'[KeyOf(v)] \/ v \in lapsed
      BY <1>1, <1>3, <2>1, <2>3, Entering DEF LockInv
    <2> QED
      BY <1>1, <1>2, <1>3, <2>1, <2>2, <2>3, <2>4, Entering DEF LockInv
  <1>4. ASSUME NEW w \in Workers, Release(w) \/ ReleaseFails(w) PROVE LockInv'
    <2>1. \E next \in {Free, Orphan} :
            lock' = [lock EXCEPT ![KeyOf(w)] = IF @ = w THEN next ELSE @]
      BY <1>4 DEF Release, ReleaseFails
    <2> QED
      BY <1>1, <1>2, <1>4, <2>1, Leaving DEF LockInv, TypeOK
  <1>5. ASSUME NEW w \in Workers, Crash(w) PROVE LockInv'
    <2>1. \A k \in LockKeys : lock'[k] = IF lock[k] = w THEN Orphan ELSE lock[k]
      BY <1>5, Dying
    <2>2. \A v \in Workers : Inside(v) => KeyOf(v) \in LockKeys
      BY InsideKey
    <2> QED
      BY <1>1, <1>2, <1>5, <2>1, <2>2, Dying DEF LockInv
  <1>6. ASSUME NEW k \in LockKeys, LeaseExpires(k) PROVE LockInv'
    BY <1>1, <1>2, <1>6 DEF LeaseExpires, LockInv, TypeOK
  <1>7. ASSUME NEW w \in Workers, NEW k \in LockKeys, LeaseLapses(w, k) PROVE LockInv'
    BY <1>1, <1>2, <1>7 DEF LeaseLapses, LockInv, TypeOK
  <1>8. ASSUME NEW w \in Workers, WorkerStep(w) \/ Receive(w), ~ Acquire(w), ~ Release(w)
        PROVE  LockInv'
    BY <1>8, WorkerMoves, StaysPut
  <1>9. CASE UNCHANGED <<lock, lapsed, run>>
    BY <1>9 DEF LockInv
  <1>10. ASSUME NEW c \in Callers,
                \/ CallerStep(c) \/ CallerCrash(c)
                \/ \E j \in Jobs : EnqueueCreate(c, j) \/ RetryRead(c, j) \/ CancelRead(c, j)
                                   \/ ReapRead(c, j)
         PROVE  UNCHANGED <<lock, lapsed, run>>
    BY <1>10, CallersKeepLocks
  <1>11. ASSUME NEW m \in Message, Duplicate(m) \/ DropRevoked(m)
         PROVE  UNCHANGED <<lock, lapsed, run>>
    BY <1>11 DEF Duplicate, DropRevoked
  <1> QED
    BY <1>3, <1>4, <1>5, <1>6, <1>7, <1>8, <1>9, <1>10, <1>11 DEF Next, vars

LEMMA LockInitially == Init => LockInv
  BY OrchestrationAssumption DEF Init, LockInv, Inside, Keyed, At, IdleRun

\* The lease agreement holds throughout.
THEOREM LockAgreement == Spec => []LockInv
  BY LockInitially, LockStep, TypeCorrect, PTL DEF Spec

\* G1 and G3 for any number of workers and keys: two workers share the guard of
\* a key only if one of them outlived its lease.
THEOREM MutualExclusion == Spec => []ExclusiveUnlessLapsed
  <1>1. LockInv => ExclusiveUnlessLapsed
    BY DEF LockInv, ExclusiveUnlessLapsed
  <1> QED
    BY <1>1, LockAgreement, PTL

-----------------------------------------------------------------------------
\* Each key starts as a free lease.
LEMMA LeaseInit == ASSUME Init, NEW k \in LockKeys PROVE LeaseOf(k)!Init
  BY DEF Init, LeaseOf!Init, Inside, IdleRun

\* A step that moves worker w only, seen from a key it is not at before or after.
LEMMA Elsewhere ==
  ASSUME TypeOK, NEW w \in Workers, NEW k \in LockKeys,
         lock'[k] = lock[k], \A v \in Workers \ {w} : run'[v] = run[v],
         \A v \in Workers \ {w} : v \in lapsed' <=> v \in lapsed,
         lapsed' \subseteq Workers,
         ~ (Inside(w) /\ KeyOf(w) = k), ~ (Inside(w)' /\ KeyOf(w)' = k)
  PROVE  UNCHANGED LeaseOf(k)!lease
  BY DEF LeaseOf!lease, Inside, KeyOf, JobOf, TypeOK

\* Every step of the workers is, at every key, a step of the abstract lease or
\* none at all.
LEMMA LeaseStep ==
  ASSUME TypeOK, TypeOK', LockInv, [Next]_vars, NEW k \in LockKeys
  PROVE  [LeaseOf(k)!Next]_(LeaseOf(k)!lease)
  <1> USE DEF Inside, KeyOf, JobOf, Keyed, At
  <1>1. \A w \in Workers : w # Free /\ w # Orphan
    BY OrchestrationAssumption
  <1>2. lapsed \subseteq Workers
    BY DEF TypeOK
  <1>3. ASSUME NEW w \in Workers, Acquire(w) PROVE [LeaseOf(k)!Next]_(LeaseOf(k)!lease)
    <2>1. CASE KeyOf(w) = k
      <3>1. w \notin lapsed
        BY <1>3, Entering DEF LockInv
      <3>2. LeaseOf(k)!Enter(w)
        BY <1>2, <1>3, <2>1, <3>1, Entering DEF LeaseOf!Enter, TypeOK
      <3> QED
        BY <3>2 DEF LeaseOf!Next
    <2>2. CASE KeyOf(w) # k
      BY <1>2, <1>3, <2>2, Entering, Elsewhere DEF TypeOK
    <2> QED
      BY <2>1, <2>2
  <1>4. ASSUME NEW w \in Workers, Release(w) \/ ReleaseFails(w)
        PROVE  [LeaseOf(k)!Next]_(LeaseOf(k)!lease)
    <2>1. CASE KeyOf(w) = k
      <3> DEFINE In  == {v \in Workers : Inside(v) /\ KeyOf(v) = k}
                 Out == {v \in lapsed : Inside(v) /\ KeyOf(v) = k}
      <3>1. w \in In /\ In' = In \ {w} /\ Out' = Out \ {w}
        BY <1>2, <1>4, <2>1, Leaving
      <3>2. CASE Release(w)
        <4>1. lock'[k] = IF lock[k] = w THEN Free ELSE lock[k]
          BY <2>1, <3>2 DEF Release, TypeOK
        <4>2. LeaseOf(k)!Leave(w)
          BY <3>1, <4>1 DEF LeaseOf!Leave
        <4> QED
          BY <4>2 DEF LeaseOf!Next
      <3>3. CASE ReleaseFails(w)
        <4>1. lock'[k] = IF lock[k] = w THEN Orphan ELSE lock[k]
          BY <2>1, <3>3 DEF ReleaseFails, TypeOK
        <4>2. LeaseOf(k)!Die(w)
          BY <3>1, <4>1 DEF LeaseOf!Die
        <4> QED
          BY <4>2 DEF LeaseOf!Next
      <3> QED
        BY <1>4, <3>2, <3>3
    <2>2. CASE KeyOf(w) # k
      BY <1>2, <1>4, <2>2, Leaving, Elsewhere DEF Release, ReleaseFails, TypeOK
    <2> QED
      BY <2>1, <2>2
  <1>5. ASSUME NEW w \in Workers, Crash(w) PROVE [LeaseOf(k)!Next]_(LeaseOf(k)!lease)
    <2>1. CASE Inside(w) /\ KeyOf(w) = k
      <3>1. LeaseOf(k)!Die(w)
        BY <1>2, <1>5, <2>1, Dying DEF LeaseOf!Die, TypeOK
      <3> QED
        BY <3>1 DEF LeaseOf!Next
    <2>2. CASE ~ (Inside(w) /\ KeyOf(w) = k)
      <3>1. lock[k] # w
        BY <2>2 DEF LockInv
      <3> QED
        BY <1>2, <1>5, <2>2, <3>1, Dying, Elsewhere DEF TypeOK
    <2> QED
      BY <2>1, <2>2
  <1>6. ASSUME NEW l \in LockKeys, LeaseExpires(l) PROVE [LeaseOf(k)!Next]_(LeaseOf(k)!lease)
    BY <1>6 DEF LeaseExpires, LeaseOf!Next, LeaseOf!Expire, LeaseOf!lease, TypeOK
  <1>7. ASSUME NEW w \in Workers, NEW l \in LockKeys, LeaseLapses(w, l)
        PROVE  [LeaseOf(k)!Next]_(LeaseOf(k)!lease)
    <2>1. Inside(w) /\ KeyOf(w) = l
      BY <1>7 DEF LeaseLapses, LockInv
    <2>2. CASE l = k
      <3>1. LeaseOf(k)!Lapse(w)
        BY <1>2, <1>7, <2>1, <2>2 DEF LeaseLapses, LeaseOf!Lapse, TypeOK
      <3> QED
        BY <3>1 DEF LeaseOf!Next
    <2>3. CASE l # k
      BY <1>2, <1>7, <2>1, <2>3, Elsewhere DEF LeaseLapses, TypeOK
    <2> QED
      BY <2>2, <2>3
  <1>8. ASSUME NEW w \in Workers, WorkerStep(w) \/ Receive(w), ~ Acquire(w), ~ Release(w)
        PROVE  UNCHANGED LeaseOf(k)!lease
    BY <1>2, <1>8, WorkerMoves DEF LeaseOf!lease
  <1>9. ASSUME UNCHANGED <<lock, lapsed, run>> PROVE UNCHANGED LeaseOf(k)!lease
    BY <1>9 DEF LeaseOf!lease
  <1>10. ASSUME NEW c \in Callers,
                \/ CallerStep(c) \/ CallerCrash(c)
                \/ \E j \in Jobs : EnqueueCreate(c, j) \/ RetryRead(c, j) \/ CancelRead(c, j)
                                   \/ ReapRead(c, j)
         PROVE  UNCHANGED <<lock, lapsed, run>>
    BY <1>10, CallersKeepLocks
  <1>11. ASSUME NEW m \in Message, Duplicate(m) \/ DropRevoked(m)
         PROVE  UNCHANGED <<lock, lapsed, run>>
    BY <1>11 DEF Duplicate, DropRevoked
  <1> QED
    BY <1>3, <1>4, <1>5, <1>6, <1>7, <1>8, <1>9, <1>10, <1>11 DEF Next, vars

\* Refinement: at every lock key the platform implements the abstract lease, so
\* what RedisLease shows of one key is all the workers rely on.
THEOREM LeasesImplemented == Spec => LocksAreLeases
  <1>1. Init => \A k \in LockKeys : LeaseOf(k)!Init
    BY LeaseInit
  <1>2. TypeOK /\ TypeOK' /\ LockInv /\ [Next]_vars
          => [\A k \in LockKeys : [LeaseOf(k)!Next]_(LeaseOf(k)!lease)]_vars
    BY LeaseStep
  <1> QED
    BY <1>1, <1>2, TypeCorrect, LockAgreement, PTL DEF Spec, LocksAreLeases
=============================================================================
