---------------------------- MODULE ProviderProofs ----------------------------
(***************************************************************************)
(* The circuit breakers of SportsCatalog, for every number of tasks,       *)
(* processes, attempts and events: what they count does not depend on how  *)
(* many calls are under way in a process or when their answers come.       *)
(***************************************************************************)
EXTENDS SportsCatalog, TLAPS

-----------------------------------------------------------------------------
\* A breaker, whose count stops at the threshold.
Counts(b) ==
  /\ b \in Breaker /\ b.failures <= Threshold
  /\ b.state = "closed" <=> b.failures < Threshold

BreakerInv == /\ DOMAIN breaker = Processes
              /\ \A p \in Processes : Counts(breaker[p])

\* What each operation makes of a breaker.
LEMMA OperationsCount ==
  ASSUME NEW b, Counts(b)
  PROVE  /\ Counts(Seen(b)) /\ Counts(Succeeded(b)) /\ Counts(Failed(b))
         /\ b.state = "open" => Counts([b EXCEPT !.elapsed = TRUE])
  <1> USE ProviderAssumption DEF Breaker
  <1>1. Counts(Seen(b))
    BY DEF Counts, Seen
  <1>2. Counts(Succeeded(b))
    BY DEF Counts, Succeeded, ClosedBreaker
  <1>3. Counts(Failed(b))
    <2> DEFINE n == IF b.failures < Threshold THEN b.failures + 1 ELSE Threshold
    <2>1. n \in Nat /\ n <= Threshold
      BY DEF Counts
    <2>2. CASE n >= Threshold
      <3>1. Failed(b) = [state |-> "open", failures |-> n, elapsed |-> FALSE]
        BY <2>2 DEF Failed
      <3> QED
        BY <2>1, <2>2, <3>1 DEF Counts
    <2>3. CASE ~ (n >= Threshold)
      <3>1. Failed(b) = [b EXCEPT !.failures = n]
        BY <2>3 DEF Failed
      <3>2. b.state = "closed"
        BY <2>3 DEF Counts
      <3> QED
        BY <2>1, <2>3, <3>1, <3>2 DEF Counts
    <2> QED
      BY <2>2, <2>3
  <1>4. ASSUME b.state = "open"
        PROVE  Counts([b EXCEPT !.elapsed = TRUE])
    BY <1>4 DEF Counts
  <1> QED
    BY <1>1, <1>2, <1>3, <1>4

\* A step changes at most one breaker, by one of its operations.
BreakerStep ==
  \/ UNCHANGED breaker
  \/ \E p \in Processes :
       \/ breaker' = [breaker EXCEPT ![p] = Seen(@)]
       \/ breaker' = [breaker EXCEPT ![p] = Succeeded(@)]
       \/ breaker' = [breaker EXCEPT ![p] = Failed(@)]
       \/ breaker[p].state = "open" /\ breaker' = [breaker EXCEPT ![p].elapsed = TRUE]

LEMMA StepsOfBreakers ==
  ASSUME [Next]_vars
  PROVE  BreakerStep
  <1>1. \A t \in Tasks : ProcessOf[t] \in Processes
    BY CatalogAssumption
  <1>2. ASSUME NEW t \in Tasks, Read(t) \/ Refresh(t) \/ Step(t) \/ Refused(t)
        PROVE  BreakerStep
    <2>1. CASE Read(t) \/ Refresh(t) \/ Upsert(t)
      BY <1>1, <2>1 DEF Read, Refresh, Upsert, Call, BreakerStep
    <2>2. CASE Receive(t)
      BY <1>1, <2>2 DEF Receive, Succeeds, BreakerStep
    <2>3. CASE Exhaust(t)
      BY <1>1, <2>3 DEF Exhaust, GivesUp, BreakerStep
    <2>4. CASE Retry(t) \/ Refused(t)
      BY <2>4 DEF Retry, TriesAgain, Refused, Refuses, BreakerStep
    <2>5. CASE Store(t) \/ Commit(t) \/ RollBack(t) \/ Invalidate(t)
      BY <2>5 DEF Store, Commit, RollBack, Invalidate, callVars, BreakerStep
    <2> QED
      BY <1>2, <2>1, <2>2, <2>3, <2>4, <2>5 DEF Step
  <1>3. CASE Expires \/ UpstreamChanges \/ Outage
    BY <1>3 DEF Expires, UpstreamChanges, Outage, ProviderTurns, callVars, BreakerStep
  <1>4. ASSUME NEW p \in Processes, TimeOut(p)
        PROVE  BreakerStep
    BY <1>4 DEF TimeOut, Elapses, BreakerStep
  <1>5. CASE UNCHANGED vars
    BY <1>5 DEF vars, callVars, BreakerStep
  <1> QED
    BY <1>2, <1>3, <1>4, <1>5 DEF Next

LEMMA StepKeepsBreakers ==
  ASSUME BreakerInv, BreakerStep
  PROVE  BreakerInv'
  <1>1. CASE UNCHANGED breaker
    BY <1>1 DEF BreakerInv
  <1>2. ASSUME NEW p \in Processes,
               \/ breaker' = [breaker EXCEPT ![p] = Seen(@)]
               \/ breaker' = [breaker EXCEPT ![p] = Succeeded(@)]
               \/ breaker' = [breaker EXCEPT ![p] = Failed(@)]
               \/ breaker[p].state = "open" /\ breaker' = [breaker EXCEPT ![p].elapsed = TRUE]
        PROVE  BreakerInv'
    <2>1. Counts(breaker[p])
      BY DEF BreakerInv
    <2>2. Counts(breaker'[p])
      BY <1>2, <2>1, OperationsCount DEF BreakerInv
    <2>3. \A q \in Processes \ {p} : breaker'[q] = breaker[q]
      BY <1>2 DEF BreakerInv
    <2>4. DOMAIN breaker' = Processes
      BY <1>2 DEF BreakerInv
    <2>5. \A q \in Processes : Counts(breaker'[q])
      BY <2>2, <2>3 DEF BreakerInv
    <2> QED
      BY <2>4, <2>5 DEF BreakerInv, Counts
  <1> QED
    BY <1>1, <1>2 DEF BreakerStep

\* A breaker is closed exactly while fewer than the threshold of calls have failed in
\* a row, whatever calls of its process are under way.
THEOREM BreakersCount == Spec => []BreakerCounts
  <1>1. Init => BreakerInv
    BY ProviderAssumption DEF Init, CallInit, ClosedBreaker, BreakerInv, Counts, Breaker
  <1>2. BreakerInv /\ [Next]_vars => BreakerInv'
    BY StepsOfBreakers, StepKeepsBreakers
  <1>3. BreakerInv => BreakerCounts
    BY DEF BreakerInv, BreakerCounts, Counts
  <1> QED
    BY <1>1, <1>2, <1>3, PTL DEF Spec
-----------------------------------------------------------------------------
\* Type correctness

\* What a task has at each of its places.
LEMMA RecordAt ==
  ASSUME NEW r \in TaskRecords
  PROVE  /\ r.pc \in {"idle", "send", "store", "upsert", "commit", "invalidate"}
         /\ r.pc = "send" => /\ r.attempt \in 1..MaxAttempts
                             /\ \/ r.what \in {"list", "competitions"}
                                   /\ r = [pc |-> "send", what |-> r.what, attempt |-> r.attempt]
                                \/ /\ r.what = "teams" /\ r.got \in Versions /\ r.old \in Catalog
                                   /\ r = [pc |-> "send", what |-> r.what, attempt |-> r.attempt,
                                           got |-> r.got, old |-> r.old]
         /\ r.pc = "store" => r.got \in Versions
         /\ r.pc = "upsert" => r.got \in Versions /\ r.old \in Catalog
         /\ r.pc = "commit" => r.got \in Stored /\ r.teams \in Stored /\ r.old \in Catalog
  BY DEF TaskRecords, Idle

\* Events are counted down to zero.
LEMMA CountedDown ==
  ASSUME CallTypeOK, Event \/ UNCHANGED left
  PROVE  left' \in 0..MaxEvents
  BY ProviderAssumption DEF CallTypeOK, Event

\* What a call leaves to be done when it fails, and what it brings when it does not.
LEMMA Outcomes ==
  ASSUME TypeOK, NEW t \in Tasks, task[t].pc = "send"
  PROVE  Given(task[t]) \in TaskRecords /\ Answered(t) \in TaskRecords
  <1>1. task[t] \in TaskRecords /\ catalog \in Catalog /\ upstream \in Versions
    BY DEF TypeOK
  <1>2. None \in Stored /\ Versions \subseteq Stored
    BY DEF Stored
  <1>3. CASE task[t].what = "list"
    BY <1>1, <1>3 DEF Given, Answered, TaskRecords, Idle
  <1>4. CASE task[t].what = "competitions"
    BY <1>1, <1>2, <1>4 DEF Given, Answered, TaskRecords
  <1>5. CASE task[t].what = "teams"
    <2>1. task[t].got \in Versions /\ task[t].old \in Catalog
      BY <1>1, <1>5, RecordAt
    <2>2. [task[t].old EXCEPT !.teams = catalog.teams] \in Catalog
      BY <1>1, <2>1 DEF Catalog
    <2>3. Given(task[t]) = [pc |-> "commit", got |-> task[t].got, teams |-> None,
                            old |-> task[t].old]
      BY <1>5 DEF Given
    <2>4. Answered(t) = [pc |-> "commit", got |-> task[t].got, teams |-> upstream,
                         old |-> [task[t].old EXCEPT !.teams = catalog.teams]]
      BY <1>5 DEF Answered
    <2>5. Given(task[t]) \in TaskRecords
      BY <1>1, <1>2, <2>1, <2>3 DEF TaskRecords
    <2>6. Answered(t) \in TaskRecords
      BY <1>1, <1>2, <2>1, <2>2, <2>4 DEF TaskRecords
    <2> QED
      BY <2>5, <2>6
  <1> QED
    BY <1>1, <1>3, <1>4, <1>5, RecordAt

\* A call is let through or answered on the spot.
LEMMA CallTyped ==
  ASSUME TypeOK, NEW t \in Tasks, NEW call,
         call \in TaskRecords, Given(call) \in TaskRecords, Call(t, call)
  PROVE  task' \in [Tasks -> TaskRecords]
  BY DEF Call, Goto, TypeOK

LEMMA TypeStep ==
  ASSUME TypeOK, [Next]_vars, (breaker \in [Processes -> Breaker])'
  PROVE  TypeOK'
  <1> USE DEF Goto
  <1>1. \A t \in Tasks : task[t] \in TaskRecords
    BY DEF TypeOK
  <1>2. Idle \in TaskRecords
    BY DEF TaskRecords
  <1>3. ASSUME NEW t \in Tasks, Read(t) \/ Refresh(t) \/ Upsert(t)
        PROVE  TypeOK'
    <2>1. 1 \in 1..MaxAttempts
      BY ProviderAssumption
    <2>2. CASE Read(t)
      <3> DEFINE call == [pc |-> "send", what |-> "list", attempt |-> 1]
      <3>1. call \in TaskRecords /\ Given(call) \in TaskRecords
        BY <1>2, <2>1 DEF TaskRecords, Given
      <3>2. Call(t, call)
        BY <2>2 DEF Read
      <3> HIDE DEF call
      <3>3. task' \in [Tasks -> TaskRecords]
        BY <3>1, <3>2, CallTyped
      <3> QED
        BY <3>2, <3>3 DEF Call, TypeOK, CallTypeOK
    <2>3. CASE Refresh(t)
      <3> DEFINE call == [pc |-> "send", what |-> "competitions", attempt |-> 1]
      <3>1. call \in TaskRecords
        BY <2>1 DEF TaskRecords
      <3>2. Given(call) = [pc |-> "commit", got |-> None, teams |-> None, old |-> catalog]
        BY DEF Given
      <3>3. Given(call) \in TaskRecords
        BY <3>2 DEF TaskRecords, Stored, TypeOK
      <3>4. Call(t, call)
        BY <2>3 DEF Refresh
      <3> HIDE DEF call
      <3>5. task' \in [Tasks -> TaskRecords]
        BY <3>1, <3>3, <3>4, CallTyped
      <3> QED
        BY <3>4, <3>5 DEF Call, TypeOK, CallTypeOK
    <2>4. CASE Upsert(t)
      <3> DEFINE call == [pc |-> "send", what |-> "teams", attempt |-> 1,
                          got |-> task[t].got, old |-> task[t].old]
      <3>1. task[t].got \in Versions /\ task[t].old \in Catalog
        BY <1>1, <2>4, RecordAt DEF Upsert
      <3>2. call \in TaskRecords
        BY <2>1, <3>1 DEF TaskRecords
      <3>3. Given(call) = [pc |-> "commit", got |-> task[t].got, teams |-> None,
                           old |-> task[t].old]
        BY DEF Given
      <3>4. Given(call) \in TaskRecords
        BY <3>1, <3>3 DEF TaskRecords, Stored
      <3>5. Call(t, call)
        BY <2>4 DEF Upsert
      <3> HIDE DEF call
      <3>6. task' \in [Tasks -> TaskRecords]
        BY <3>2, <3>4, <3>5, CallTyped
      <3> QED
        BY <3>5, <3>6 DEF Call, TypeOK, CallTypeOK
    <2> QED
      BY <1>3, <2>2, <2>3, <2>4
  <1>4. ASSUME NEW t \in Tasks, Receive(t) \/ Exhaust(t) \/ Refused(t)
        PROVE  TypeOK'
    <2>1. Given(task[t]) \in TaskRecords /\ Answered(t) \in TaskRecords
      BY <1>4, Outcomes DEF Receive, Exhaust, Refused
    <2>2. task' \in [Tasks -> TaskRecords]
      BY <1>4, <2>1 DEF Receive, Exhaust, Refused, TypeOK
    <2>3. left' \in 0..MaxEvents
      BY <1>4, CountedDown DEF Receive, Succeeds, Exhaust, GivesUp, Trouble, Refused, Refuses, TypeOK
    <2> QED
      BY <1>4, <2>2, <2>3
         DEF Receive, Succeeds, Exhaust, GivesUp, Refused, Refuses, TypeOK, CallTypeOK
  <1>5. ASSUME NEW t \in Tasks, Retry(t)
        PROVE  TypeOK'
    <2>1. task[t].pc = "send" /\ task[t].attempt \in Nat /\ task[t].attempt < MaxAttempts
      BY <1>1, <1>5, RecordAt, ProviderAssumption DEF Retry, TriesAgain
    <2>2. task[t].attempt + 1 \in 1..MaxAttempts
      BY <2>1, ProviderAssumption
    <2>3. [task[t] EXCEPT !.attempt = @ + 1] \in TaskRecords
      <3>1. CASE task[t].what = "teams"
        <4>1. /\ task[t].got \in Versions /\ task[t].old \in Catalog
              /\ task[t] = [pc |-> "send", what |-> "teams", attempt |-> task[t].attempt,
                            got |-> task[t].got, old |-> task[t].old]
          BY <1>1, <2>1, <3>1, RecordAt
        <4>2. [task[t] EXCEPT !.attempt = @ + 1]
                = [pc |-> "send", what |-> "teams", attempt |-> task[t].attempt + 1,
                   got |-> task[t].got, old |-> task[t].old]
          BY <4>1
        <4> QED
          BY <2>2, <4>1, <4>2 DEF TaskRecords
      <3>2. CASE task[t].what # "teams"
        <4>1. /\ task[t].what \in {"list", "competitions"}
              /\ task[t] = [pc |-> "send", what |-> task[t].what, attempt |-> task[t].attempt]
          BY <1>1, <2>1, <3>2, RecordAt
        <4>2. [task[t] EXCEPT !.attempt = @ + 1]
                = [pc |-> "send", what |-> task[t].what, attempt |-> task[t].attempt + 1]
          BY <4>1
        <4> QED
          BY <2>2, <4>1, <4>2 DEF TaskRecords
      <3> QED
        BY <3>1, <3>2
    <2>4. task' \in [Tasks -> TaskRecords]
      BY <1>5, <2>3 DEF Retry, TypeOK
    <2>5. left' \in 0..MaxEvents
      BY <1>5, CountedDown DEF Retry, TriesAgain, Trouble, TypeOK
    <2> QED
      BY <1>5, <2>4, <2>5 DEF Retry, TriesAgain, TypeOK, CallTypeOK
  <1>6. ASSUME NEW t \in Tasks, Store(t) \/ RollBack(t) \/ Invalidate(t)
        PROVE  TypeOK'
    <2>1. task' \in [Tasks -> TaskRecords]
      BY <1>2, <1>6 DEF Store, RollBack, Invalidate, TypeOK
    <2>2. Store(t) => cache' \in Entry
      BY <1>1, RecordAt DEF Store, Entry
    <2> QED
      BY <1>6, <2>1, <2>2 DEF Store, RollBack, Invalidate, callVars, TypeOK, CallTypeOK
  <1>7. ASSUME NEW t \in Tasks, Commit(t)
        PROVE  TypeOK'
    <2>1. task[t].got \in Stored /\ task[t].teams \in Stored /\ task[t].old \in Catalog
      BY <1>1, <1>7, RecordAt DEF Commit
    <2>2. catalog' \in Catalog
      BY <1>7, <2>1 DEF Commit, Written, Catalog, TypeOK
    <2>3. [pc |-> "invalidate"] \in TaskRecords
      BY DEF TaskRecords
    <2>4. task' \in [Tasks -> TaskRecords]
      BY <1>2, <1>7, <2>3 DEF Commit, TypeOK
    <2> QED
      BY <1>7, <2>2, <2>4 DEF Commit, callVars, TypeOK, CallTypeOK
  <1>8. CASE Expires \/ UpstreamChanges
    BY <1>8, CatalogAssumption
       DEF Expires, UpstreamChanges, callVars, Versions, TypeOK, CallTypeOK
  <1>9. CASE Outage \/ \E p \in Processes : TimeOut(p)
    <2>1. left' \in 0..MaxEvents
      BY <1>9, CountedDown DEF Outage, ProviderTurns, TimeOut, Elapses, TypeOK
    <2> QED
      BY <1>9, <2>1 DEF Outage, ProviderTurns, TimeOut, Elapses, TypeOK, CallTypeOK
  <1>10. CASE UNCHANGED vars
    BY <1>10 DEF vars, callVars, TypeOK, CallTypeOK
  <1> QED
    BY <1>3, <1>4, <1>5, <1>6, <1>7, <1>8, <1>9, <1>10 DEF Next, Step

\* Every variable of the provider platform keeps its type, for every number of tasks,
\* processes, attempts, versions and events.
THEOREM ProviderTypes == Spec => []TypeOK
  <1>1. Init => TypeOK /\ BreakerInv
    <2> SUFFICES ASSUME Init
                 PROVE  TypeOK /\ BreakerInv
      OBVIOUS
    <2>1. ClosedBreaker \in Breaker /\ Counts(ClosedBreaker)
      BY ProviderAssumption DEF ClosedBreaker, Breaker, Counts
    <2>2. breaker \in [Processes -> Breaker] /\ BreakerInv
      BY <2>1 DEF Init, CallInit, BreakerInv
    <2>3. 0 \in Versions /\ None \in Stored /\ Idle \in TaskRecords
      BY CatalogAssumption DEF Versions, Stored, TaskRecords
    <2>4. CallTypeOK
      BY <2>2, ProviderAssumption DEF Init, CallInit, CallTypeOK
    <2> QED
      BY <2>2, <2>3, <2>4 DEF Init, TypeOK, Catalog
  <1>2. TypeOK /\ BreakerInv /\ [Next]_vars => (TypeOK /\ BreakerInv)'
    <2> SUFFICES ASSUME TypeOK, BreakerInv, [Next]_vars
                 PROVE  TypeOK' /\ BreakerInv'
      OBVIOUS
    <2>1. BreakerStep /\ BreakerInv'
      BY StepsOfBreakers, StepKeepsBreakers
    <2>2. \A p \in Processes : breaker'[p] \in Breaker
      BY <2>1 DEF BreakerInv, Counts
    <2>3. breaker' \in [Processes -> Breaker]
      BY <2>1, <2>2 DEF BreakerStep, TypeOK, CallTypeOK, BreakerInv
    <2>4. TypeOK'
      BY <2>3, TypeStep
    <2> QED
      BY <2>1, <2>4
  <1> QED
    BY <1>1, <1>2, PTL DEF Spec
=============================================================================
