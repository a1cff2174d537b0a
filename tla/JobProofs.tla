------------------------------- MODULE JobProofs -------------------------------
(***************************************************************************)
(* Theorems about JobOrchestration, for every set of jobs, workers and     *)
(* callers and every bound.                                                *)
(***************************************************************************)
EXTENDS JobOrchestration, TLAPS

-----------------------------------------------------------------------------
\* Job.transition on a copy yields a document in the requested state.
LEMMA TransitionType ==
  ASSUME NEW doc \in Doc, NEW target \in JobState
  PROVE  /\ Transition(doc, target) \in Doc
         /\ Transition(doc, target).state = target
         /\ Transition(doc, target).task = doc.task
         /\ target # "running" => Transition(doc, target).attempts = doc.attempts
         /\ target = "running" => Transition(doc, target).attempts = doc.attempts + 1
  BY DEF Doc, Transition

\* The document enqueue starts from.
LEMMA NewDocType == NewDoc \in Doc
  BY DEF NewDoc, Doc, JobState

\* A saved document keeps the store and the dead-letter index well typed.
LEMMA SaveType ==
  ASSUME TypeOK, NEW j \in Jobs, NEW doc \in Doc, Save(j, doc)
  PROVE  /\ store' \in [Jobs -> Doc \cup {NoDoc}]
         /\ dead' \in SUBSET Jobs
         /\ store'[j] = doc
         /\ \A i \in Jobs \ {j} : store'[i] = store[i]
  BY DEF TypeOK, Save

\* Job.lock_key names a lock or is None.
LEMMA KeyType ==
  ASSUME NEW j \in Jobs
  PROVE  LockKey(j) # NoKey => LockKey(j) \in LockKeys
  BY DEF LockKey, LockKeys

\* Between two loop iterations a worker or caller holds nothing.
LEMMA IdleType == IdleRun \in Run /\ IdleCall \in Call
  BY NewDocType DEF IdleRun, Run, RunPC, IdleCall, Call, CallPC

-----------------------------------------------------------------------------
\* Only Dispatch, a redelivery and a retry put copies of a message on the
\* queue, one at a time.
LEMMA PublishType ==
  ASSUME TypeOK, NEW m \in Message, Publish(m)
  PROVE  queue' \in [Message -> Nat]
  BY DEF TypeOK, Publish

\* A delivery takes one ready copy.
LEMMA TakeType ==
  ASSUME TypeOK, NEW m \in Message, Take(m)
  PROVE  queue' \in [Message -> Nat]
  BY DEF TypeOK, Take

\* Every environment event is paid for.
LEMMA SpendType ==
  ASSUME TypeOK, NEW e \in Events, Spend(e)
  PROVE  budget' \in [Events -> Nat]
  BY DEF TypeOK, Spend

\* Type correctness: whatever the processes do, each variable keeps its shape,
\* and a busy worker or caller holds a message or a job.
THEOREM TypeCorrect == Spec => []TypeOK
  <1>1. Init => TypeOK
    BY OrchestrationAssumption, IdleType DEF Init, TypeOK, IdleRun, IdleCall
  <1>2. TypeOK /\ [Next]_vars => TypeOK'
    <2> SUFFICES ASSUME TypeOK, [Next]_vars PROVE TypeOK'
      OBVIOUS
    <2>1. ASSUME NEW c \in Callers, NEW j \in Jobs, EnqueueCreate(c, j) PROVE TypeOK'
      <3>1. Transition(NewDoc, "queued") \in Doc
        BY TransitionType, NewDocType DEF JobState
      <3>2. store' \in [Jobs -> Doc \cup {NoDoc}] /\ dead' \in SUBSET Jobs
        BY <2>1, SaveType, NewDocType DEF EnqueueCreate
      <3> QED
        BY <2>1, <3>1, <3>2 DEF EnqueueCreate, TypeOK, Call, CallPC
    <2>2. ASSUME NEW c \in Callers, NEW j \in Jobs, RetryRead(c, j) PROVE TypeOK'
      <3>1. store[j] \in Doc
        BY <2>2 DEF RetryRead, TypeOK
      <3>2. [Transition(store[j], "queued") EXCEPT !.attempts = 0] \in Doc
        BY <3>1 DEF Transition, JobState, Doc
      <3>3. budget' \in [Events -> Nat]
        BY <2>2, SpendType DEF RetryRead, Events
      <3> QED
        BY <2>2, <3>2, <3>3 DEF RetryRead, TypeOK, Call, CallPC
    <2>3. ASSUME NEW c \in Callers, Dispatch(c) PROVE TypeOK'
      <3> DEFINE task == dispatched[call[c].job] + 1
      <3>1. call[c].job \in Jobs /\ call[c] \in Call /\ call[c].pc # "idle"
        BY <2>3 DEF Dispatch, TypeOK
      <3>2. task \in 1..MaxDispatch /\ task \in Nat
        BY <2>3, <3>1, OrchestrationAssumption DEF Dispatch, TypeOK
      <3>3. [job |-> call[c].job, task |-> task] \in Message
        BY <3>1, <3>2 DEF Message
      <3>4. queue' \in [Message -> Nat]
        BY <2>3, <3>3, PublishType DEF Dispatch
      <3>5. call' \in [Callers -> Call]
        BY <2>3, <3>1, <3>2 DEF Dispatch, TypeOK, Call, CallPC, Doc
      <3> QED
        BY <2>3, <3>1, <3>2, <3>4, <3>5 DEF Dispatch, TypeOK
    <2>4. ASSUME NEW c \in Callers, NEW where \in CallPC \ {"idle"}, SaveCopy(c, where)
          PROVE TypeOK'
      <3>1. call[c].job \in Jobs /\ call[c].doc \in Doc
        BY <2>4 DEF SaveCopy, TypeOK, Call
      <3>2. store' \in [Jobs -> Doc \cup {NoDoc}] /\ dead' \in SUBSET Jobs
        BY <2>4, <3>1, SaveType DEF SaveCopy
      <3> QED
        BY <2>4, <3>2, IdleType DEF SaveCopy, TypeOK, IdleCall
    <2>5. ASSUME NEW c \in Callers, NEW j \in Jobs, CancelRead(c, j) PROVE TypeOK'
      <3>1. budget' \in [Events -> Nat]
        BY <2>5, SpendType DEF CancelRead, Events
      <3> QED
        BY <2>5, <3>1 DEF CancelRead, TypeOK, Call, CallPC
    <2>6. ASSUME NEW c \in Callers, CancelRevoke(c) PROVE TypeOK'
      <3>1. call[c] \in Call /\ call[c].job \in Jobs
        BY <2>6 DEF CancelRevoke, TypeOK
      <3>2. Transition(call[c].doc, "cancelled") \in Doc
        BY <3>1, TransitionType DEF JobState, Call
      <3>3. [call[c] EXCEPT !.pc = "cancel_save",
                            !.doc = Transition(call[c].doc, "cancelled")] \in Call
        BY <3>1, <3>2 DEF Call, CallPC
      <3>4. call' \in [Callers -> Call]
        BY <2>6, <3>3, IdleType DEF CancelRevoke, TypeOK
      <3>5. \A d \in Callers : call'[d].pc # "idle" => call'[d].job \in Jobs
        BY <2>6, <3>1 DEF CancelRevoke, TypeOK, IdleCall, Call
      <3> QED
        BY <2>6, <3>4, <3>5 DEF CancelRevoke, TypeOK
    <2>7. ASSUME NEW c \in Callers, NEW j \in Jobs, ReapRead(c, j) PROVE TypeOK'
      <3>1. Transition(store[j], "failed") \in Doc
        BY <2>7, TransitionType DEF ReapRead, Stuck, TypeOK, JobState
      <3> QED
        BY <2>7, <3>1 DEF ReapRead, TypeOK, Call, CallPC
    <2>8. ASSUME NEW c \in Callers, CallerCrash(c) PROVE TypeOK'
      <3>1. budget' \in [Events -> Nat]
        BY <2>8, SpendType DEF CallerCrash, Events
      <3> QED
        BY <2>8, <3>1, IdleType DEF CallerCrash, TypeOK, IdleCall
    <2>9. ASSUME NEW w \in Workers, NEW m \in Message,
                 ReceiveFinished(w, m) \/ ReceiveLive(w, m)
          PROVE TypeOK'
      <3>1. queue' \in [Message -> Nat]
        BY <2>9, TakeType DEF ReceiveFinished, ReceiveLive
      <3>2. m.job \in Jobs
        BY DEF Message
      <3>3. PICK new \in Run : run' = [run EXCEPT ![w] = new] /\ new.msg = m
        <4>1. [IdleRun EXCEPT !.pc = "ack", !.msg = m] \in Run
          BY NewDocType DEF IdleRun, Run, RunPC
        <4>2. CASE ReceiveFinished(w, m)
          BY <4>1, <4>2 DEF ReceiveFinished, IdleRun
        <4>3. CASE ReceiveLive(w, m)
          <5>1. store[m.job] \in Doc
            BY <3>2, <4>3 DEF ReceiveLive, TypeOK
          <5>2. ASSUME NEW where \in {"begin", "lock"}
                PROVE  [IdleRun EXCEPT !.pc = where, !.msg = m, !.doc = store[m.job]] \in Run
            BY <5>1 DEF IdleRun, Run, RunPC
          <5> QED
            BY <4>3, <5>2 DEF ReceiveLive, IdleRun
        <4> QED
          BY <2>9, <4>2, <4>3
      <3>4. run' \in [Workers -> Run]
        BY <3>3 DEF TypeOK
      <3>5. \A v \in Workers : run'[v].pc # "idle" => run'[v].msg \in Message
        BY <3>3 DEF TypeOK
      <3> QED
        BY <2>9, <3>1, <3>4, <3>5 DEF ReceiveFinished, ReceiveLive, TypeOK
    <2> DEFINE Busy(w) == run[w] \in Run /\ run[w].msg \in Message /\ JobOf(w) \in Jobs
    <2>10. \A w \in Workers : ~ At(w, "idle") => Busy(w)
      BY DEF TypeOK, At, JobOf, Message
    <2>11. ASSUME NEW w \in Workers, Acquire(w) \/ Contended(w) \/ BeginRaises(w) PROVE TypeOK'
      <3>1. Busy(w)
        BY <2>10, <2>11 DEF Acquire, Contended, BeginRaises, At
      <3>2. run' \in [Workers -> Run]
        BY <2>11, <3>1 DEF Acquire, Contended, BeginRaises, Goto, AfterGuard, TypeOK, Run, RunPC
      <3>3. lock' \in [LockKeys -> Workers \cup {Free, Orphan}]
        BY <2>11 DEF Acquire, Contended, BeginRaises, TypeOK
      <3>4. \A v \in Workers : run'[v].pc # "idle" => run'[v].msg \in Message
        BY <2>11, <3>1 DEF Acquire, Contended, BeginRaises, Goto, TypeOK, Run
      <3> QED
        BY <2>11, <3>2, <3>3, <3>4 DEF Acquire, Contended, BeginRaises, TypeOK
    <2>12. ASSUME NEW w \in Workers, SaveSkipped(w) \/ BeginUnhandled(w) PROVE TypeOK'
      <3>1. Busy(w)
        BY <2>10, <2>12 DEF SaveSkipped, BeginUnhandled, At
      <3>2. Transition(run[w].doc, "skipped") \in Doc /\ Transition(run[w].doc, "failed") \in Doc
        BY <3>1, TransitionType DEF JobState, Run
      <3>3. store' \in [Jobs -> Doc \cup {NoDoc}] /\ dead' \in SUBSET Jobs
        BY <2>12, <3>1, <3>2, SaveType DEF SaveSkipped, BeginUnhandled
      <3>4. run' \in [Workers -> Run]
        <4>1. PICK where \in RunPC : Goto(w, where)
          BY <2>12 DEF SaveSkipped, BeginUnhandled, AfterGuard, RunPC
        <4> QED
          BY <3>1, <4>1 DEF Goto, TypeOK, Run
      <3>5. \A v \in Workers : run'[v].pc # "idle" => run'[v].msg \in Message
        BY <2>12, <3>1 DEF SaveSkipped, BeginUnhandled, Goto, TypeOK, Run
      <3> QED
        BY <2>12, <3>3, <3>4, <3>5 DEF SaveSkipped, BeginUnhandled, TypeOK
    \* The four saves of _execute, _handle_failure and requeue_after_retry: the
    \* run's copy is written and the run moves on with it.
    <2>13. ASSUME NEW w \in Workers, NEW new \in Run,
                  ~ At(w, "idle"), new.pc # "idle", new.msg = run[w].msg,
                  Save(JobOf(w), new.doc), run' = [run EXCEPT ![w] = new],
                  UNCHANGED <<queue, revoked, dispatched, lock, lapsed, call, budget>>
           PROVE TypeOK'
      <3>1. Busy(w) /\ new.doc \in Doc
        BY <2>10, <2>13 DEF Run
      <3>2. store' \in [Jobs -> Doc \cup {NoDoc}] /\ dead' \in SUBSET Jobs
        BY <2>13, <3>1, SaveType
      <3> QED
        BY <2>13, <3>1, <3>2 DEF TypeOK
    <2>14. ASSUME NEW w \in Workers, Begin(w) PROVE TypeOK'
      <3> DEFINE old == run[w].doc
                 doc == IF old.state = "running" THEN old ELSE Transition(old, "running")
                 new == [run[w] EXCEPT !.pc = "handler", !.doc = doc,
                                       !.fresh = (old.state # "running")]
      <3>1. Busy(w) /\ ~ At(w, "idle")
        BY <2>10, <2>14 DEF Begin, At
      <3>2. doc \in Doc
        BY <3>1, TransitionType DEF JobState, Run
      <3>3. new \in Run /\ new.doc = doc /\ new.msg = run[w].msg /\ new.pc = "handler"
        BY <3>1, <3>2 DEF Run, RunPC
      <3> QED
        BY <2>13, <2>14, <3>1, <3>3 DEF Begin, TypeOK
    <2>15. ASSUME NEW w \in Workers, HandlerSucceeds(w) PROVE TypeOK'
      <3> DEFINE doc == Transition(run[w].doc, "succeeded")
                 new == [run[w] EXCEPT !.pc = AfterGuard(w), !.doc = doc]
      <3>1. Busy(w) /\ ~ At(w, "idle")
        BY <2>10, <2>15 DEF HandlerSucceeds, At
      <3>2. doc \in Doc
        BY <3>1, TransitionType DEF JobState, Run
      <3>3. new \in Run /\ new.doc = doc /\ new.msg = run[w].msg /\ new.pc # "idle"
        BY <3>1, <3>2 DEF Run, RunPC, AfterGuard
      <3> QED
        BY <2>13, <2>15, <3>1, <3>3 DEF HandlerSucceeds, TypeOK
    <2>16. ASSUME NEW w \in Workers, NEW kind \in FailureKind, HandlerFails(w, kind)
           PROVE TypeOK'
      <3> DEFINE retry == ShouldRetry(kind, run[w].doc.attempts)
                 doc == IF retry THEN Transition(run[w].doc, "retrying")
                        ELSE Transition(Transition(run[w].doc, "failed"), "dead_letter")
                 new == [run[w] EXCEPT !.pc = AfterGuard(w), !.doc = doc, !.retry = retry]
      <3>1. Busy(w) /\ ~ At(w, "idle")
        BY <2>10, <2>16 DEF HandlerFails, At
      <3>2. doc \in Doc
        BY <3>1, TransitionType DEF JobState, Run
      <3>3. retry \in BOOLEAN
        BY DEF ShouldRetry
      <3>4. new \in Run /\ new.doc = doc /\ new.msg = run[w].msg /\ new.pc # "idle"
        BY <3>1, <3>2, <3>3 DEF Run, RunPC, AfterGuard
      <3>5. Save(JobOf(w), new.doc) /\ run' = [run EXCEPT ![w] = new]
        BY <2>16, <3>1, <3>4 DEF HandlerFails, TypeOK
      <3> QED
        BY <2>13, <2>16, <3>1, <3>4, <3>5 DEF HandlerFails
    <2>17. ASSUME NEW w \in Workers, Requeue(w) PROVE TypeOK'
      <3> DEFINE doc == [Transition(run[w].doc, "queued") EXCEPT !.task = run[w].msg.task]
                 new == [run[w] EXCEPT !.pc = "resend", !.doc = doc]
      <3>1. Busy(w) /\ ~ At(w, "idle")
        BY <2>10, <2>17 DEF Requeue, At
      <3>2. doc \in Doc
        BY <3>1, OrchestrationAssumption DEF Transition, Doc, JobState, Run, Message
      <3>3. new \in Run /\ new.doc = doc /\ new.msg = run[w].msg /\ new.pc = "resend"
        BY <3>1, <3>2 DEF Run, RunPC
      <3>4. Save(JobOf(w), new.doc) /\ run' = [run EXCEPT ![w] = new]
        BY <2>17, <3>1, <3>3 DEF Requeue, TypeOK
      <3> QED
        BY <2>13, <2>17, <3>1, <3>3, <3>4 DEF Requeue
    <2>18. ASSUME NEW w \in Workers, Release(w) \/ ReleaseFails(w) PROVE TypeOK'
      <3>1. Busy(w)
        BY <2>10, <2>18 DEF Release, ReleaseFails, At
      <3> PICK where \in RunPC : Goto(w, where)
        BY <2>18 DEF Release, ReleaseFails, RunPC
      <3>2. run' \in [Workers -> Run]
        BY <3>1 DEF Goto, TypeOK, Run
      <3>3. \A v \in Workers : run'[v].pc # "idle" => run'[v].msg \in Message
        BY <3>1 DEF Goto, TypeOK, Run
      <3>4. lock' \in [LockKeys -> Workers \cup {Free, Orphan}] /\ lapsed' \in SUBSET Workers
        BY <2>18 DEF Release, ReleaseFails, TypeOK
      <3>5. budget' \in [Events -> Nat]
        BY <2>18, SpendType DEF Release, ReleaseFails, Events, TypeOK
      <3> QED
        BY <2>18, <3>2, <3>3, <3>4, <3>5 DEF Release, ReleaseFails, TypeOK
    <2>19. ASSUME NEW w \in Workers, Resend(w) \/ Ack(w) \/ Crash(w) PROVE TypeOK'
      <3>1. Busy(w)
        BY <2>10, <2>19 DEF Resend, Ack, Crash, At
      <3>2. queue' \in [Message -> Nat]
        BY <2>19, <3>1, PublishType DEF Resend, Ack, Crash, TypeOK
      <3>3. run' \in [Workers -> Run]
        BY <2>19, <3>1, IdleType DEF Resend, Ack, Crash, Goto, TypeOK, Run, RunPC
      <3>4. \A v \in Workers : run'[v].pc # "idle" => run'[v].msg \in Message
        BY <2>19, <3>1 DEF Resend, Ack, Crash, Goto, TypeOK, Run, IdleRun
      <3>5. lock' \in [LockKeys -> Workers \cup {Free, Orphan}] /\ lapsed' \in SUBSET Workers
        BY <2>19 DEF Resend, Ack, Crash, TypeOK
      <3>6. budget' \in [Events -> Nat]
        BY <2>19, SpendType DEF Resend, Ack, Crash, Events, TypeOK
      <3> QED
        BY <2>19, <3>2, <3>3, <3>4, <3>5, <3>6 DEF Resend, Ack, Crash, TypeOK
    <2>20. ASSUME NEW m \in Message, Duplicate(m) \/ DropRevoked(m) PROVE TypeOK'
      <3>1. queue' \in [Message -> Nat]
        BY <2>20, PublishType, TakeType DEF Duplicate, DropRevoked
      <3>2. budget' \in [Events -> Nat]
        BY <2>20, SpendType DEF Duplicate, DropRevoked, Events, TypeOK
      <3> QED
        BY <2>20, <3>1, <3>2 DEF Duplicate, DropRevoked, TypeOK
    <2>21. ASSUME NEW k \in LockKeys, LeaseExpires(k) PROVE TypeOK'
      BY <2>21 DEF LeaseExpires, TypeOK
    <2>22. ASSUME NEW w \in Workers, NEW k \in LockKeys, LeaseLapses(w, k) PROVE TypeOK'
      <3>1. budget' \in [Events -> Nat]
        BY <2>22, SpendType DEF LeaseLapses, Events
      <3> QED
        BY <2>22, <3>1 DEF LeaseLapses, TypeOK
    <2>23. CASE UNCHANGED vars
      BY <2>23 DEF vars, TypeOK
    <2> QED
      BY <2>1, <2>2, <2>3, <2>4, <2>5, <2>6, <2>7, <2>8, <2>9, <2>11, <2>12, <2>14,
         <2>15, <2>16, <2>17, <2>18, <2>19, <2>20, <2>21, <2>22, <2>23
      DEF Next, CallerStep, WorkerStep, Receive, DispatchSave, CancelSave, ReapSave, CallPC
  <1> QED
    BY <1>1, <1>2, PTL DEF Spec

-----------------------------------------------------------------------------
\* The retry budget.  A stored document is within budget because every copy
\* that may still be written back is: the caller's and the worker's.  A run
\* that is about to requeue holds a RETRYING copy, which has attempts left.
BudgetInv ==
  /\ AttemptsWithinBudget
  /\ \A c \in Callers : InBudget(call[c].doc)
  /\ \A w \in Workers : InBudget(run[w].doc)
  /\ \A w \in Workers :
       At(w, "requeue") \/ (At(w, "release") /\ run[w].retry) => run[w].doc.state = "retrying"
  /\ \A w \in Workers :
       run[w].retry => run[w].pc \in {"release", "requeue", "resend", "ack"}

\* A document within budget stays so when it reaches a state that neither
\* counts nor waits for an attempt.
LEMMA TransitionBudget ==
  ASSUME NEW doc \in Doc, InBudget(doc),
         NEW target \in {"succeeded", "skipped", "failed", "cancelled", "dead_letter"}
  PROVE  InBudget(Transition(doc, target))
  BY DEF InBudget, Transition, Doc

\* Starting a queued copy uses an attempt the budget still has.
LEMMA StartBudget ==
  ASSUME NEW doc \in Doc, InBudget(doc), CanTransition(doc.state, "running")
  PROVE  InBudget(Transition(doc, "running"))
  <1>1. doc.state = "queued"
    BY DEF CanTransition, Transitions, Doc, JobState
  <1> QED
    BY <1>1, JobAssumption DEF InBudget, Transition, Doc

\* Saving a copy that is within budget keeps the store within budget.
LEMMA SaveBudget ==
  ASSUME TypeOK, AttemptsWithinBudget, NEW j \in Jobs, NEW doc \in Doc,
         InBudget(doc), Save(j, doc)
  PROVE  AttemptsWithinBudget'
  BY SaveType DEF AttemptsWithinBudget, InBudget

\* A new document has its whole budget.
LEMMA NewBudget ==
  /\ InBudget(NewDoc)
  /\ InBudget(Transition(NewDoc, "queued"))
  BY JobAssumption DEF InBudget, NewDoc, Transition

LEMMA BudgetInit == Init => BudgetInv
  BY NewBudget DEF Init, BudgetInv, AttemptsWithinBudget, IdleCall, IdleRun, At

\* No step of a caller puts a document out of budget.
LEMMA BudgetCallers ==
  ASSUME TypeOK, TypeOK', BudgetInv, NEW c \in Callers,
         \/ CallerStep(c) \/ CallerCrash(c)
         \/ \E j \in Jobs : EnqueueCreate(c, j) \/ RetryRead(c, j) \/ CancelRead(c, j)
                            \/ ReapRead(c, j)
  PROVE  BudgetInv'
  <1> DEFINE Kept == /\ AttemptsWithinBudget'
                     /\ \A d \in Callers : InBudget(call'[d].doc)
                     /\ UNCHANGED run
  <1>1. Kept => BudgetInv'
    BY DEF BudgetInv, At
  <1>2. ASSUME NEW j \in Jobs, EnqueueCreate(c, j) PROVE Kept
    BY <1>2, NewBudget, NewDocType, SaveBudget DEF EnqueueCreate, BudgetInv, TypeOK
  <1>3. ASSUME NEW j \in Jobs, RetryRead(c, j) PROVE Kept
    <2>1. InBudget([Transition(store[j], "queued") EXCEPT !.attempts = 0])
      BY JobAssumption DEF Transition, InBudget
    <2> QED
      BY <1>3, <2>1 DEF RetryRead, BudgetInv, AttemptsWithinBudget, TypeOK
  <1>4. ASSUME Dispatch(c) PROVE Kept
    <2>1. call'[c].doc.state = call[c].doc.state /\ call'[c].doc.attempts = call[c].doc.attempts
      <3>1. call \in [Callers -> Call] /\ call[c].doc \in Doc
        BY DEF TypeOK, Call
      <3>2. call' = [call EXCEPT ![c].pc = "dispatch_save", ![c].doc.task = dispatched[call[c].job] + 1]
        BY <1>4 DEF Dispatch
      <3> QED
        BY <3>1, <3>2 DEF Call, Doc
    <2>2. \A d \in Callers \ {c} : call'[d] = call[d]
      BY <1>4 DEF Dispatch, TypeOK
    <2>3. \A d \in Callers : InBudget(call'[d].doc)
      <3>1. InBudget(call[c].doc) => InBudget(call'[c].doc)
        BY <2>1 DEF InBudget
      <3> QED
        BY <2>2, <3>1 DEF BudgetInv
    <2> QED
      BY <1>4, <2>3 DEF Dispatch, BudgetInv, AttemptsWithinBudget
  <1>5. ASSUME NEW where \in CallPC \ {"idle"}, SaveCopy(c, where) PROVE Kept
    <2>1. call[c].job \in Jobs /\ call[c].doc \in Doc
      BY <1>5 DEF SaveCopy, TypeOK, Call
    <2>2. AttemptsWithinBudget'
      BY <1>5, <2>1, SaveBudget DEF SaveCopy, BudgetInv
    <2> QED
      BY <1>5, <2>2, NewBudget DEF SaveCopy, BudgetInv, TypeOK, IdleCall
  <1>6. ASSUME NEW j \in Jobs, CancelRead(c, j) PROVE Kept
    BY <1>6 DEF CancelRead, BudgetInv, AttemptsWithinBudget, TypeOK
  <1>7. ASSUME CancelRevoke(c) PROVE Kept
    <2>1. call[c].doc \in Doc
      BY DEF TypeOK, Call
    <2>2. InBudget(Transition(call[c].doc, "cancelled"))
      BY <2>1, TransitionBudget DEF BudgetInv
    <2>3. InBudget(call'[c].doc)
      BY <1>7, <2>2, NewBudget DEF CancelRevoke, TypeOK, Call, IdleCall
    <2>4. \A d \in Callers \ {c} : call'[d] = call[d]
      BY <1>7 DEF CancelRevoke, TypeOK
    <2> QED
      BY <1>7, <2>3, <2>4 DEF CancelRevoke, BudgetInv, AttemptsWithinBudget
  <1>8. ASSUME NEW j \in Jobs, ReapRead(c, j) PROVE Kept
    <2>1. store[j] \in Doc /\ InBudget(store[j])
      BY <1>8 DEF ReapRead, Stuck, TypeOK, BudgetInv, AttemptsWithinBudget
    <2> QED
      BY <1>8, <2>1, TransitionBudget DEF ReapRead, BudgetInv, AttemptsWithinBudget, TypeOK
  <1>9. ASSUME CallerCrash(c) PROVE Kept
    BY <1>9, NewBudget DEF CallerCrash, BudgetInv, AttemptsWithinBudget, TypeOK, IdleCall
  <1> QED
    BY <1>1, <1>2, <1>3, <1>4, <1>5, <1>6, <1>7, <1>8, <1>9
    DEF CallerStep, DispatchSave, CancelSave, ReapSave, CallPC

\* What one worker has to guarantee about its own copy.
RunInBudget(w) ==
  /\ InBudget(run[w].doc)
  /\ At(w, "requeue") \/ (At(w, "release") /\ run[w].retry) => run[w].doc.state = "retrying"
  /\ run[w].retry => run[w].pc \in {"release", "requeue", "resend", "ack"}

\* No step of a worker puts a document out of budget.
LEMMA BudgetWorkers ==
  ASSUME TypeOK, TypeOK', BudgetInv, NEW w \in Workers,
         WorkerStep(w) \/ Receive(w) \/ ReleaseFails(w) \/ Crash(w)
  PROVE  BudgetInv'
  <1> DEFINE Kept == /\ AttemptsWithinBudget'
                     /\ UNCHANGED call
                     /\ \A v \in Workers \ {w} : run'[v] = run[v]
                     /\ RunInBudget(w)'
  <1>1. Kept => BudgetInv'
    BY DEF BudgetInv, RunInBudget, At
  <1>2. RunInBudget(w)
    BY DEF BudgetInv, RunInBudget
  <1>3. run[w] \in Run /\ run[w].doc \in Doc /\ (~ At(w, "idle") => JobOf(w) \in Jobs)
    BY DEF TypeOK, Run, At, JobOf, Message
  <1>4. ASSUME NEW m \in Message, ReceiveFinished(w, m) \/ ReceiveLive(w, m) PROVE Kept
    <2>1. InBudget(run'[w].doc) /\ run'[w].retry = FALSE /\ run'[w].pc \in {"ack", "lock", "begin"}
      <3>1. CASE ReceiveFinished(w, m)
        BY <3>1, NewBudget DEF ReceiveFinished, TypeOK, IdleRun
      <3>2. CASE ReceiveLive(w, m)
        <4>1. InBudget(store[m.job])
          BY <3>2 DEF ReceiveLive, BudgetInv, AttemptsWithinBudget, Message
        <4> QED
          BY <3>2, <4>1 DEF ReceiveLive, TypeOK, IdleRun
      <3> QED
        BY <1>4, <3>1, <3>2
    <2> QED
      BY <1>4, <2>1 DEF ReceiveFinished, ReceiveLive, BudgetInv, AttemptsWithinBudget, TypeOK,
                        RunInBudget, At
  <1>5. ASSUME Acquire(w) \/ Contended(w) \/ BeginRaises(w) PROVE Kept
    <2>1. /\ run'[w].doc = run[w].doc /\ run'[w].retry = run[w].retry
          /\ run'[w].pc \in {"begin", "skip", "ack", "release"}
          /\ run[w].retry = FALSE
      BY <1>2, <1>3, <1>5 DEF Acquire, Contended, BeginRaises, Goto, AfterGuard, TypeOK, At,
                              RunInBudget, Run
    <2> QED
      BY <1>2, <1>5, <2>1 DEF Acquire, Contended, BeginRaises, Goto, BudgetInv,
                              AttemptsWithinBudget, TypeOK, RunInBudget, At
  <1>6. ASSUME SaveSkipped(w) \/ BeginUnhandled(w) PROVE Kept
    <2>1. /\ run'[w].doc = run[w].doc /\ run'[w].retry = run[w].retry
          /\ run'[w].pc \in {"ack", "release"}
          /\ run[w].retry = FALSE
      BY <1>2, <1>3, <1>6 DEF SaveSkipped, BeginUnhandled, Goto, AfterGuard, TypeOK, At,
                              RunInBudget, Run
    <2>2. /\ Transition(run[w].doc, "skipped") \in Doc /\ InBudget(Transition(run[w].doc, "skipped"))
          /\ Transition(run[w].doc, "failed") \in Doc /\ InBudget(Transition(run[w].doc, "failed"))
      BY <1>2, <1>3, TransitionType, TransitionBudget DEF RunInBudget, JobState
    <2>3. AttemptsWithinBudget'
      BY <1>3, <1>6, <2>2, SaveBudget DEF SaveSkipped, BeginUnhandled, BudgetInv, At
    <2> QED
      BY <1>2, <1>6, <2>1, <2>3 DEF SaveSkipped, BeginUnhandled, Goto, TypeOK, RunInBudget, At
  <1>7. ASSUME Begin(w) PROVE Kept
    <2> DEFINE old == run[w].doc
               doc == IF old.state = "running" THEN old ELSE Transition(old, "running")
    <2>1. doc \in Doc /\ InBudget(doc)
      BY <1>2, <1>3, <1>7, TransitionType, StartBudget DEF Begin, RunInBudget, JobState
    <2>2. AttemptsWithinBudget'
      BY <1>3, <1>7, <2>1, SaveBudget DEF Begin, BudgetInv, At
    <2>3. run'[w].doc = doc /\ run'[w].pc = "handler" /\ run'[w].retry = FALSE
      BY <1>2, <1>3, <1>7 DEF Begin, TypeOK, Run, RunInBudget, At
    <2> QED
      BY <1>7, <2>1, <2>2, <2>3 DEF Begin, TypeOK, RunInBudget, At
  <1>8. ASSUME HandlerSucceeds(w) PROVE Kept
    <2> DEFINE doc == Transition(run[w].doc, "succeeded")
    <2>1. doc \in Doc /\ InBudget(doc)
      BY <1>2, <1>3, TransitionType, TransitionBudget DEF RunInBudget, JobState
    <2>2. AttemptsWithinBudget'
      BY <1>3, <1>8, <2>1, SaveBudget DEF HandlerSucceeds, BudgetInv, At
    <2>3. run'[w].doc = doc /\ run'[w].pc \in {"ack", "release"} /\ run'[w].retry = FALSE
      BY <1>2, <1>3, <1>8 DEF HandlerSucceeds, AfterGuard, TypeOK, Run, RunInBudget, At
    <2> QED
      BY <1>8, <2>1, <2>2, <2>3 DEF HandlerSucceeds, TypeOK, RunInBudget, At
  <1>9. ASSUME NEW kind \in FailureKind, HandlerFails(w, kind) PROVE Kept
    <2> DEFINE retry == ShouldRetry(kind, run[w].doc.attempts)
               doc == IF retry THEN Transition(run[w].doc, "retrying")
                      ELSE Transition(Transition(run[w].doc, "failed"), "dead_letter")
    <2>1. CASE retry
      <3>1. doc \in Doc /\ doc.state = "retrying" /\ InBudget(doc)
        BY <1>2, <1>3, <2>1, TransitionType DEF ShouldRetry, RunInBudget, JobState, InBudget
      <3>2. AttemptsWithinBudget'
        BY <1>3, <1>9, <3>1, SaveBudget DEF HandlerFails, BudgetInv, At
      <3>3. run'[w].doc = doc /\ run'[w].pc \in {"ack", "release"}
        BY <1>3, <1>9 DEF HandlerFails, AfterGuard, TypeOK, Run
      <3> QED
        BY <1>9, <3>1, <3>2, <3>3 DEF HandlerFails, TypeOK, RunInBudget, At
    <2>2. CASE ~ retry
      <3>1. doc \in Doc /\ InBudget(doc)
        BY <1>2, <1>3, <2>2, TransitionType, TransitionBudget DEF RunInBudget, JobState
      <3>2. AttemptsWithinBudget'
        BY <1>3, <1>9, <3>1, SaveBudget DEF HandlerFails, BudgetInv, At
      <3>3. run'[w].doc = doc /\ run'[w].pc \in {"ack", "release"} /\ run'[w].retry = FALSE
        BY <1>3, <1>9, <2>2 DEF HandlerFails, AfterGuard, TypeOK, Run
      <3> QED
        BY <1>9, <3>1, <3>2, <3>3 DEF HandlerFails, TypeOK, RunInBudget, At
    <2> QED
      BY <2>1, <2>2
  <1>10. ASSUME Release(w) \/ ReleaseFails(w) PROVE Kept
    <2>1. /\ run'[w].doc = run[w].doc /\ run'[w].retry = run[w].retry
          /\ run'[w].pc = "ack" \/ (run'[w].pc = "requeue" /\ run[w].retry /\ At(w, "release"))
      BY <1>3, <1>10 DEF Release, ReleaseFails, Goto, TypeOK, Run
    <2> QED
      BY <1>2, <1>10, <2>1 DEF Release, ReleaseFails, Goto, BudgetInv, AttemptsWithinBudget,
                               TypeOK, RunInBudget, At
  <1>11. ASSUME Requeue(w) PROVE Kept
    <2> DEFINE doc == [Transition(run[w].doc, "queued") EXCEPT !.task = run[w].msg.task]
    <2>1. run[w].doc.attempts < MaxAttempts
      BY <1>2, <1>11 DEF Requeue, RunInBudget, InBudget
    <2>2. run[w].msg.task \in Nat
      BY <1>11, OrchestrationAssumption DEF Requeue, At, TypeOK, Message
    <2>3. doc \in Doc /\ InBudget(doc)
      BY <1>2, <1>3, <2>1, <2>2 DEF Transition, Doc, JobState, RunInBudget, InBudget
    <2>4. AttemptsWithinBudget'
      BY <1>3, <1>11, <2>3, SaveBudget DEF Requeue, BudgetInv, At
    <2>5. run'[w].doc = doc /\ run'[w].pc = "resend"
      BY <1>3, <1>11 DEF Requeue, TypeOK, Run
    <2> QED
      BY <1>11, <2>3, <2>4, <2>5 DEF Requeue, TypeOK, RunInBudget, At
  <1>12. ASSUME Resend(w) \/ Ack(w) \/ Crash(w) PROVE Kept
    <2>1. RunInBudget(w)'
      BY <1>2, <1>3, <1>12, NewBudget DEF Resend, Ack, Crash, Goto, TypeOK, RunInBudget, At, Run,
                                          IdleRun
    <2> QED
      BY <1>12, <2>1 DEF Resend, Ack, Crash, Goto, BudgetInv, AttemptsWithinBudget, TypeOK
  <1> QED
    BY <1>1, <1>4, <1>5, <1>6, <1>7, <1>8, <1>9, <1>10, <1>11, <1>12 DEF WorkerStep, Receive

\* G7, for any number of jobs, workers and faults: no document is ever stored
\* with more attempts than max_attempts, or waiting for an attempt it does not
\* have.
THEOREM BudgetHolds == Spec => []AttemptsWithinBudget
  <1>1. TypeOK /\ TypeOK' /\ BudgetInv /\ [Next]_vars => BudgetInv'
    <2> SUFFICES ASSUME TypeOK, TypeOK', BudgetInv, [Next]_vars PROVE BudgetInv'
      OBVIOUS
    <2>1. CASE UNCHANGED <<store, call, run>>
      BY <2>1 DEF BudgetInv, AttemptsWithinBudget, At
    <2> QED
      BY <2>1, BudgetCallers, BudgetWorkers
      DEF Next, Duplicate, DropRevoked, LeaseExpires, LeaseLapses, vars
  <1>2. BudgetInv => AttemptsWithinBudget
    BY DEF BudgetInv
  <1> QED
    BY <1>1, <1>2, BudgetInit, TypeCorrect, PTL DEF Spec

\* The dead-letter index.  Each call saves the state it decided on, so nothing
\* but the document of a new job is ever saved as PENDING.
DeadLetterInv ==
  /\ DeadLetterListed
  /\ \A j \in Jobs : store[j] = NoDoc => j \notin dead
  /\ \A c \in Callers :
       /\ call[c].pc = "dispatch_save" => call[c].doc.state = "queued"
       /\ call[c].pc \in {"enqueue_dispatch", "retry_dispatch"} => call[c].doc.state = "queued"
       /\ call[c].pc = "cancel_save" => call[c].doc.state = "cancelled"
       /\ call[c].pc = "reap_save" => call[c].doc.state = "failed"

\* The dead-letter index with its strengthening: a job never stored is not listed.
Listed == DeadLetterListed /\ \A j \in Jobs : store[j] = NoDoc => j \notin dead

\* JobStore.save keeps the index right for every document but a stale PENDING one.
LEMMA SaveListed ==
  ASSUME TypeOK, Listed, NEW j \in Jobs, NEW doc \in Doc, Save(j, doc),
         doc.state = "pending" => store[j] = NoDoc
  PROVE  Listed'
  <1>1. /\ store'[j] = doc /\ doc # NoDoc
        /\ \A i \in Jobs \ {j} : store'[i] = store[i] /\ (i \in dead' <=> i \in dead)
    BY SaveType, OrchestrationAssumption DEF Save
  <1>2. /\ doc.state = "dead_letter" => j \in dead'
        /\ doc.state \in {"pending", "queued"} => j \notin dead'
    BY DEF Save, Listed
  <1> QED
    BY <1>1, <1>2 DEF Listed, DeadLetterListed

\* No step of a caller takes the index out of step with the store.
LEMMA DeadLetterCallers ==
  ASSUME TypeOK, TypeOK', DeadLetterInv, NEW c \in Callers,
         \/ CallerStep(c) \/ CallerCrash(c)
         \/ \E j \in Jobs : EnqueueCreate(c, j) \/ RetryRead(c, j) \/ CancelRead(c, j)
                            \/ ReapRead(c, j)
  PROVE  DeadLetterInv'
  <1> DEFINE Decided(d) ==
        /\ call[d].pc = "dispatch_save" => call[d].doc.state = "queued"
        /\ call[d].pc \in {"enqueue_dispatch", "retry_dispatch"} => call[d].doc.state = "queued"
        /\ call[d].pc = "cancel_save" => call[d].doc.state = "cancelled"
        /\ call[d].pc = "reap_save" => call[d].doc.state = "failed"
  <1> DEFINE Kept == Listed' /\ Decided(c)' /\ \A d \in Callers \ {c} : call'[d] = call[d]
  <1>1. Kept => DeadLetterInv'
    BY DEF DeadLetterInv, Listed
  <1>2. Listed /\ Decided(c)
    BY DEF DeadLetterInv, Listed
  <1>3. call[c] \in Call
    BY DEF TypeOK
  <1> USE DEF Call
  <1>4. ASSUME NEW j \in Jobs, EnqueueCreate(c, j) PROVE Kept
    BY <1>2, <1>4, SaveListed, NewDocType DEF EnqueueCreate, TypeOK, Transition
  <1>5. ASSUME NEW j \in Jobs, RetryRead(c, j) PROVE Kept
    BY <1>2, <1>5 DEF RetryRead, TypeOK, Transition, Listed, DeadLetterListed
  <1>6. ASSUME Dispatch(c) PROVE Kept
    <2>1. call'[c].doc.state = call[c].doc.state /\ call'[c].pc = "dispatch_save"
      BY <1>3, <1>6 DEF Dispatch, TypeOK, Doc
    <2> QED
      BY <1>2, <1>6, <2>1 DEF Dispatch, TypeOK, Listed, DeadLetterListed
  <1>7. ASSUME NEW where \in {"dispatch_save", "cancel_save", "reap_save"}, SaveCopy(c, where)
        PROVE  Kept
    <2>1. call[c].job \in Jobs /\ call[c].doc \in Doc /\ call[c].doc.state # "pending"
      BY <1>2, <1>7 DEF SaveCopy, TypeOK
    <2> QED
      BY <1>2, <1>7, <2>1, SaveListed DEF SaveCopy, TypeOK, IdleCall
  <1>8. ASSUME NEW j \in Jobs, CancelRead(c, j) PROVE Kept
    BY <1>2, <1>8 DEF CancelRead, TypeOK, Listed, DeadLetterListed
  <1>9. ASSUME CancelRevoke(c) PROVE Kept
    <2>1. /\ call'[c].pc = "cancel_save" => call'[c].doc.state = "cancelled"
          /\ call'[c].pc \in {"idle", "cancel_save"}
      BY <1>3, <1>9, TransitionType DEF CancelRevoke, TypeOK, IdleCall, JobState
    <2> QED
      BY <1>2, <1>9, <2>1 DEF CancelRevoke, TypeOK, Listed, DeadLetterListed
  <1>10. ASSUME NEW j \in Jobs, ReapRead(c, j) PROVE Kept
    BY <1>2, <1>10 DEF ReapRead, TypeOK, Transition, Listed, DeadLetterListed
  <1>11. ASSUME CallerCrash(c) PROVE Kept
    BY <1>2, <1>11 DEF CallerCrash, TypeOK, IdleCall, Listed, DeadLetterListed
  <1> QED
    BY <1>1, <1>4, <1>5, <1>6, <1>7, <1>8, <1>9, <1>10, <1>11
    DEF CallerStep, DispatchSave, CancelSave, ReapSave

\* A worker only ever saves a copy it has moved out of PENDING.
LEMMA DeadLetterWorkers ==
  ASSUME TypeOK, TypeOK', DeadLetterInv, NEW w \in Workers,
         WorkerStep(w) \/ Receive(w) \/ ReleaseFails(w) \/ Crash(w)
  PROVE  DeadLetterInv'
  <1>1. Listed' /\ UNCHANGED call => DeadLetterInv'
    BY DEF DeadLetterInv, Listed
  <1>2. Listed
    BY DEF DeadLetterInv, Listed
  <1>3. UNCHANGED call
    BY DEF WorkerStep, Receive, ReceiveFinished, ReceiveLive, Acquire, Contended, SaveSkipped,
           BeginUnhandled, Begin, BeginRaises, HandlerSucceeds, HandlerFails, Release,
           ReleaseFails, Requeue, Resend, Ack, Crash
  <1>4. ASSUME UNCHANGED <<store, dead>> PROVE Listed'
    BY <1>2, <1>4 DEF Listed, DeadLetterListed
  <1>5. ASSUME NEW doc \in Doc, doc.state # "pending", ~ At(w, "idle"), Save(JobOf(w), doc)
        PROVE  Listed'
    <2>1. JobOf(w) \in Jobs
      BY <1>5 DEF TypeOK, At, JobOf, Message
    <2> QED
      BY <1>2, <1>5, <2>1, SaveListed
  <1>6. run[w] \in Run /\ run[w].doc \in Doc
    BY DEF TypeOK, Run
  <1>7. \A target \in JobState : /\ Transition(run[w].doc, target) \in Doc
                                 /\ Transition(run[w].doc, target).state = target
    BY <1>6, TransitionType
  <1>8. CASE SaveSkipped(w) \/ BeginUnhandled(w)
    BY <1>1, <1>3, <1>5, <1>7, <1>8 DEF SaveSkipped, BeginUnhandled, At, JobState
  <1>9. CASE Begin(w) \/ HandlerSucceeds(w)
    BY <1>1, <1>3, <1>5, <1>6, <1>7, <1>9 DEF Begin, HandlerSucceeds, At, JobState
  <1>10. ASSUME NEW kind \in FailureKind, HandlerFails(w, kind) PROVE DeadLetterInv'
    <2>1. /\ Transition(Transition(run[w].doc, "failed"), "dead_letter") \in Doc
          /\ Transition(Transition(run[w].doc, "failed"), "dead_letter").state = "dead_letter"
      BY <1>7, TransitionType DEF JobState
    <2> QED
      BY <1>1, <1>3, <1>5, <1>7, <1>10, <2>1 DEF HandlerFails, At, JobState
  <1>11. CASE Requeue(w)
    <2> DEFINE doc == [Transition(run[w].doc, "queued") EXCEPT !.task = run[w].msg.task]
    <2>1. run[w].msg.task \in Nat
      BY <1>11, OrchestrationAssumption DEF Requeue, At, TypeOK, Message
    <2>2. doc \in Doc /\ doc.state = "queued"
      BY <1>6, <2>1 DEF Transition, Doc, JobState
    <2> QED
      BY <1>1, <1>3, <1>5, <1>11, <2>2 DEF Requeue, At
  <1> QED
    BY <1>1, <1>3, <1>4, <1>8, <1>9, <1>10, <1>11
    DEF WorkerStep, Receive, ReceiveFinished, ReceiveLive, Acquire, Contended, BeginRaises,
        Release, ReleaseFails, Resend, Ack, Crash

LEMMA DeadLetterInvariant == Spec => []DeadLetterInv
  <1>1. Init => DeadLetterInv
    BY DEF Init, DeadLetterInv, DeadLetterListed, IdleCall
  <1>2. TypeOK /\ TypeOK' /\ DeadLetterInv /\ [Next]_vars => DeadLetterInv'
    <2> SUFFICES ASSUME TypeOK, TypeOK', DeadLetterInv, [Next]_vars PROVE DeadLetterInv'
      OBVIOUS
    <2>1. CASE UNCHANGED <<store, dead, call>>
      BY <2>1 DEF DeadLetterInv, DeadLetterListed
    <2> QED
      BY <2>1, DeadLetterCallers, DeadLetterWorkers
      DEF Next, Duplicate, DropRevoked, LeaseExpires, LeaseLapses, vars
  <1> QED
    BY <1>1, <1>2, TypeCorrect, PTL DEF Spec

\* GET /jobs/dead-letter is right in every reachable state: the index lists
\* each dead-lettered job and none that waits for a worker.
THEOREM DeadLetterHolds == Spec => []DeadLetterListed
  <1>1. DeadLetterInv => DeadLetterListed
    BY DEF DeadLetterInv
  <1> QED
    BY <1>1, DeadLetterInvariant, PTL

-----------------------------------------------------------------------------
\* An active job is in somebody's hands

Active(j) ==
  /\ store[j] # NoDoc
  /\ store[j].state = "running" \/ (store[j].state = "queued" /\ ~ EarlyDelivery)

\* The message a dispatcher has published and not yet saved is still there.
Sent ==
  ~ EarlyDelivery => \A c \in Callers : call[c].pc = "dispatch_save" =>
    \E m \in Message : /\ m.job = call[c].job /\ m.task = call[c].doc.task
                       /\ queue[m] > 0 \/ m \in revoked

OwnerInv == (\A j \in Jobs : Active(j) => Owned(j)) /\ Sent

LEMMA OwnerFacts == OwnerInv => ActiveJobIsOwned
  BY DEF OwnerInv, Active, ActiveJobIsOwned

\* Who works on a job that one worker's step does not touch still does.
LEMMA OthersOwn ==
  ASSUME NEW w \in Workers, NEW j \in Jobs, Owned(j), ~ WorksOn(w, j),
         \A v \in Workers \ {w} : run'[v] = run[v],
         revoked \subseteq revoked',
         \A m \in Message : m.job = j /\ queue[m] > 0 => queue'[m] > 0
  PROVE  Owned(j)'
  <1>1. CASE \E m \in Message : m.job = j /\ (queue[m] > 0 \/ m \in revoked)
    BY <1>1 DEF Owned
  <1>2. CASE \E v \in Workers : WorksOn(v, j)
    <2>1. PICK v \in Workers \ {w} : WorksOn(v, j)
      BY <1>2
    <2>2. WorksOn(v, j)'
      BY <2>1 DEF WorksOn, JobOf
    <2> QED
      BY <2>2 DEF Owned
  <1> QED
    BY <1>1, <1>2 DEF Owned

\* Nothing is taken from the broker and no worker moves.
LEMMA SameOwners ==
  ASSUME NEW j \in Jobs, Owned(j), run' = run, revoked \subseteq revoked',
         \A m \in Message : queue[m] > 0 => queue'[m] > 0
  PROVE  Owned(j)'
  BY DEF Owned, WorksOn, JobOf

LEMMA SentStays ==
  ASSUME Sent, call' = call, revoked \subseteq revoked',
         \A m \in Message : queue[m] > 0 => queue'[m] > 0
  PROVE  Sent'
  BY DEF Sent

LEMMA PublishAdds ==
  ASSUME TypeOK, NEW m \in Message, Publish(m)
  PROVE  queue'[m] > 0 /\ \A n \in Message : queue[n] > 0 => queue'[n] > 0
  BY DEF TypeOK, Publish

\* A caller publishes before it saves QUEUED, and saves RUNNING never.
LEMMA OwnedByCallers ==
  ASSUME TypeOK, TypeOK', DeadLetterInv, OwnerInv, NEW c \in Callers,
         \/ CallerStep(c) \/ CallerCrash(c)
         \/ \E j \in Jobs : EnqueueCreate(c, j) \/ RetryRead(c, j) \/ CancelRead(c, j)
                            \/ ReapRead(c, j)
  PROVE  OwnerInv'
  <1>1. /\ run' = run /\ revoked \subseteq revoked'
        /\ \A m \in Message : queue[m] > 0 => queue'[m] > 0
    <2>1. CASE Dispatch(c)
      <3>1. [job |-> call[c].job, task |-> dispatched[call[c].job] + 1] \in Message
        BY <2>1 DEF Dispatch, TypeOK, Message
      <3> QED
        BY <2>1, <3>1, PublishAdds DEF Dispatch
    <2>2. CASE ~ Dispatch(c)
      BY <2>2 DEF CallerStep, CallerCrash, EnqueueCreate, RetryRead, CancelRead, ReapRead,
                  DispatchSave, CancelRevoke, CancelSave, ReapSave, SaveCopy
    <2> QED
      BY <2>1, <2>2
  <1>2. \A j \in Jobs : Owned(j) => Owned(j)'
    BY <1>1, SameOwners
  <1>3. \A d \in Callers \ {c} : call'[d] = call[d]
    BY DEF CallerStep, CallerCrash, EnqueueCreate, RetryRead, CancelRead, ReapRead, Dispatch,
           DispatchSave, CancelRevoke, CancelSave, ReapSave, SaveCopy, TypeOK
  <1>4. CASE Dispatch(c)
    <2> DEFINE m == [job |-> call[c].job, task |-> dispatched[call[c].job] + 1]
    <2>1. m \in Message
      BY <1>4 DEF Dispatch, TypeOK, Message
    <2>2. queue'[m] > 0
      BY <1>4, <2>1, PublishAdds DEF Dispatch
    <2>3. call'[c].job = m.job /\ call'[c].doc.task = m.task
      BY <1>4 DEF Dispatch, TypeOK, Call, Doc
    <2> HIDE DEF m
    <2>4. Sent'
      BY <1>1, <1>3, <2>1, <2>2, <2>3 DEF OwnerInv, Sent
    <2> QED
      BY <1>2, <1>4, <2>4 DEF Dispatch, OwnerInv, Active
  <1>5. CASE ~ Dispatch(c)
    <2>1. call'[c].pc # "dispatch_save"
      <3>1. CASE \/ CallerCrash(c) \/ DispatchSave(c) \/ CancelSave(c) \/ ReapSave(c)
        BY <3>1 DEF CallerCrash, DispatchSave, CancelSave, ReapSave, SaveCopy, IdleCall, TypeOK
      <3>2. CASE \E j \in Jobs : EnqueueCreate(c, j) \/ RetryRead(c, j) \/ CancelRead(c, j)
                                 \/ ReapRead(c, j)
        BY <3>2 DEF EnqueueCreate, RetryRead, CancelRead, ReapRead, TypeOK
      <3>3. CASE CancelRevoke(c)
        <4>1. \/ call'[c] = IdleCall
              \/ call'[c] = [call[c] EXCEPT !.pc = "cancel_save",
                                           !.doc = Transition(call[c].doc, "cancelled")]
          BY <3>3 DEF CancelRevoke, TypeOK
        <4>2. DOMAIN call[c] = {"pc", "job", "doc"}
          BY DEF TypeOK, Call
        <4>3. [call[c] EXCEPT !.pc = "cancel_save",
                              !.doc = Transition(call[c].doc, "cancelled")].pc = "cancel_save"
          BY <4>2
        <4>4. IdleCall.pc = "idle"
          BY DEF IdleCall
        <4>5. call'[c].pc \in {"idle", "cancel_save"}
          BY <4>1, <4>3, <4>4, Zenon
        <4> QED
          BY <4>5
      <3> QED
        BY <1>5, <3>1, <3>2, <3>3 DEF CallerStep
    <2>2. Sent'
      BY <1>1, <1>3, <2>1 DEF OwnerInv, Sent
    <2>3. CASE store' = store
      BY <1>2, <2>2, <2>3 DEF OwnerInv, Active
    <2>4. ASSUME NEW j \in Jobs, NEW doc \in Doc, Save(j, doc),
                 doc.state = "running" \/ (doc.state = "queued" /\ ~ EarlyDelivery) => Owned(j)
          PROVE  OwnerInv'
      <3>1. store'[j] = doc /\ \A i \in Jobs \ {j} : store'[i] = store[i]
        BY <2>4, SaveType
      <3>2. ASSUME NEW i \in Jobs, Active(i)'
            PROVE  Owned(i)
        BY <2>4, <3>1, <3>2 DEF OwnerInv, Active
      <3> QED
        BY <1>2, <2>2, <3>2 DEF OwnerInv
    <2>5. ASSUME NEW j \in Jobs, EnqueueCreate(c, j)
          PROVE  OwnerInv'
      BY <2>4, <2>5, NewDocType DEF EnqueueCreate, NewDoc
    <2>6. ASSUME NEW where \in {"dispatch_save", "cancel_save", "reap_save"}, SaveCopy(c, where)
          PROVE  OwnerInv'
      <3>1. call[c].job \in Jobs /\ call[c].doc \in Doc /\ Save(call[c].job, call[c].doc)
        BY <2>6 DEF SaveCopy, TypeOK, Call
      <3>2. CASE where = "dispatch_save"
        <4>1. call[c].doc.state = "queued"
          BY <2>6, <3>2 DEF SaveCopy, DeadLetterInv
        <4>2. ~ EarlyDelivery => Owned(call[c].job)
          BY <2>6, <3>2 DEF SaveCopy, OwnerInv, Sent, Owned
        <4> QED
          BY <2>4, <3>1, <4>1, <4>2
      <3>3. CASE where # "dispatch_save"
        <4>1. call[c].doc.state \in {"cancelled", "failed"}
          BY <2>6, <3>3 DEF SaveCopy, DeadLetterInv
        <4> QED
          BY <2>4, <3>1, <4>1
      <3> QED
        BY <3>2, <3>3
    <2> QED
      BY <1>5, <2>3, <2>5, <2>6 DEF CallerStep, DispatchSave, CancelSave, ReapSave, CallerCrash,
                                    RetryRead, CancelRead, ReapRead, CancelRevoke
  <1> QED
    BY <1>4, <1>5

\* A worker that saves a copy leaves it where it says.
LEMMA OwnedWhenSaved ==
  ASSUME TypeOK, OwnerInv, NEW w \in Workers, ~ At(w, "idle"), NEW doc \in Doc,
         Save(JobOf(w), doc), UNCHANGED <<queue, revoked, call>>,
         \A v \in Workers \ {w} : run'[v] = run[v],
         doc.state \in {"running", "queued"} => /\ WorksOn(w, JobOf(w))'
                                                /\ run'[w].msg = run[w].msg
  PROVE  OwnerInv'
  <1>1. JobOf(w) \in Jobs
    BY DEF TypeOK, At, JobOf, Message
  <1>2. store'[JobOf(w)] = doc /\ \A i \in Jobs \ {JobOf(w)} : store'[i] = store[i]
    BY <1>1, SaveType
  <1>3. Sent'
    BY SentStays DEF OwnerInv
  <1>4. ASSUME NEW j \in Jobs, Active(j)'
        PROVE  Owned(j)'
    <2>1. CASE j = JobOf(w)
      <3>1. doc.state \in {"running", "queued"}
        BY <1>2, <1>4, <2>1 DEF Active
      <3>2. WorksOn(w, j)'
        BY <2>1, <3>1 DEF WorksOn, JobOf
      <3> QED
        BY <3>2 DEF Owned
    <2>2. CASE j # JobOf(w)
      <3>1. Owned(j) /\ ~ WorksOn(w, j)
        BY <1>2, <1>4, <2>2 DEF OwnerInv, Active, WorksOn
      <3> QED
        BY <3>1, OthersOwn
    <2> QED
      BY <2>1, <2>2
  <1> QED
    BY <1>3, <1>4 DEF OwnerInv

\* A worker that saves nothing keeps its hands on an active job.
LEMMA OwnedWhenMoved ==
  ASSUME TypeOK, OwnerInv, NEW w \in Workers, UNCHANGED <<store, revoked, call>>,
         \A m \in Message : queue[m] > 0 => queue'[m] > 0,
         \A v \in Workers \ {w} : run'[v] = run[v],
         \A j \in Jobs : WorksOn(w, j) /\ Active(j) => Owned(j)'
  PROVE  OwnerInv'
  <1>1. Sent'
    BY SentStays DEF OwnerInv
  <1>2. ASSUME NEW j \in Jobs, Active(j)'
        PROVE  Owned(j)'
    <2>1. Owned(j) /\ Active(j)
      BY <1>2 DEF OwnerInv, Active
    <2> QED
      BY <2>1, OthersOwn
  <1> QED
    BY <1>1, <1>2 DEF OwnerInv

\* A delivery hands the job over to the worker.
LEMMA OwnedWhenReceived ==
  ASSUME TypeOK, OwnerInv, NEW w \in Workers, Receive(w)
  PROVE  OwnerInv'
  <1>1. PICK m \in Message : ReceiveFinished(w, m) \/ ReceiveLive(w, m)
    BY DEF Receive
  <1>2. /\ UNCHANGED <<store, revoked, call>> /\ Take(m) /\ Deliverable(m) /\ At(w, "idle")
        /\ \A v \in Workers \ {w} : run'[v] = run[v]
    BY <1>1 DEF ReceiveFinished, ReceiveLive, TypeOK
  <1>3. \A n \in Message : n # m => queue'[n] = queue[n]
    BY <1>2 DEF Take, TypeOK
  <1>4. Sent'
    <2> SUFFICES ASSUME ~ EarlyDelivery, NEW c \in Callers, call[c].pc = "dispatch_save"
                 PROVE  \E n \in Message : /\ n.job = call[c].job /\ n.task = call[c].doc.task
                                           /\ queue'[n] > 0 \/ n \in revoked
      BY <1>2 DEF Sent
    <2>1. PICK n \in Message : /\ n.job = call[c].job /\ n.task = call[c].doc.task
                               /\ queue[n] > 0 \/ n \in revoked
      BY DEF OwnerInv, Sent
    <2>2. n # m
      BY <1>2, <2>1 DEF Deliverable
    <2> QED
      BY <1>3, <2>1, <2>2
  <1>5. ASSUME NEW j \in Jobs, Active(j)'
        PROVE  Owned(j)'
    <2>1. Active(j) /\ Owned(j) /\ ~ WorksOn(w, j)
      BY <1>2, <1>5 DEF Active, OwnerInv, WorksOn, At
    <2>2. CASE m.job # j
      BY <1>2, <1>3, <2>1, <2>2, OthersOwn
    <2>3. CASE m.job = j
      <3>1. ReceiveLive(w, m)
        BY <1>1, <2>1, <2>3 DEF ReceiveFinished, Active, IsTerminal, TerminalStates
      <3>2. run'[w].msg = m /\ run'[w].pc \in {"begin", "lock"} /\ run'[w].doc = store[j]
        BY <2>3, <3>1 DEF ReceiveLive, TypeOK, IdleRun
      <3>3. WorksOn(w, j)'
        BY <2>1, <2>3, <3>2 DEF WorksOn, JobOf, Active
      <3> QED
        BY <3>3 DEF Owned
    <2> QED
      BY <2>2, <2>3
  <1> QED
    BY <1>4, <1>5 DEF OwnerInv

LEMMA OwnedByWorkers ==
  ASSUME TypeOK, OwnerInv, NEW w \in Workers,
         WorkerStep(w) \/ ReleaseFails(w) \/ Crash(w)
  PROVE  OwnerInv'
  <1>1. run[w] \in Run /\ run[w].doc \in Doc
    BY DEF TypeOK, Run
  <1>2. \A target \in JobState : /\ Transition(run[w].doc, target) \in Doc
                                 /\ Transition(run[w].doc, target).state = target
    BY <1>1, TransitionType
  <1>3. CASE SaveSkipped(w) \/ BeginUnhandled(w)
    <2>1. /\ \A v \in Workers \ {w} : run'[v] = run[v]
          /\ UNCHANGED <<queue, revoked, call>> /\ ~ At(w, "idle")
      BY <1>3 DEF SaveSkipped, BeginUnhandled, Goto, At, TypeOK
    <2> QED
      BY <1>2, <1>3, <2>1, OwnedWhenSaved DEF SaveSkipped, BeginUnhandled, JobState
  <1>4. CASE HandlerSucceeds(w)
    <2>1. /\ \A v \in Workers \ {w} : run'[v] = run[v]
          /\ UNCHANGED <<queue, revoked, call>> /\ ~ At(w, "idle")
      BY <1>4 DEF HandlerSucceeds, At, TypeOK
    <2> QED
      BY <1>2, <1>4, <2>1, OwnedWhenSaved DEF HandlerSucceeds, JobState
  <1>5. ASSUME NEW kind \in FailureKind, HandlerFails(w, kind)
        PROVE  OwnerInv'
    <2>1. /\ \A v \in Workers \ {w} : run'[v] = run[v]
          /\ UNCHANGED <<queue, revoked, call>> /\ ~ At(w, "idle")
      BY <1>5 DEF HandlerFails, At, TypeOK
    <2>2. /\ Transition(Transition(run[w].doc, "failed"), "dead_letter") \in Doc
          /\ Transition(Transition(run[w].doc, "failed"), "dead_letter").state = "dead_letter"
      BY <1>2, TransitionType DEF JobState
    <2> QED
      BY <1>2, <1>5, <2>1, <2>2, OwnedWhenSaved DEF HandlerFails, JobState
  <1>6. CASE Begin(w)
    <2> DEFINE doc == IF run[w].doc.state = "running" THEN run[w].doc
                      ELSE Transition(run[w].doc, "running")
    <2>1. /\ \A v \in Workers \ {w} : run'[v] = run[v]
          /\ UNCHANGED <<queue, revoked, call>> /\ ~ At(w, "idle") /\ Save(JobOf(w), doc)
          /\ run'[w].msg = run[w].msg /\ run'[w].pc = "handler" /\ run'[w].doc = doc
      BY <1>1, <1>6 DEF Begin, At, TypeOK, Run
    <2>2. doc \in Doc /\ doc.state = "running"
      BY <1>1, <1>2 DEF JobState
    <2> HIDE DEF doc
    <2>3. WorksOn(w, JobOf(w))'
      BY <2>1, <2>2 DEF WorksOn, JobOf
    <2> QED
      BY <2>1, <2>2, <2>3, OwnedWhenSaved
  <1>7. CASE Requeue(w)
    <2> DEFINE doc == [Transition(run[w].doc, "queued") EXCEPT !.task = run[w].msg.task]
    <2>1. /\ \A v \in Workers \ {w} : run'[v] = run[v]
          /\ UNCHANGED <<queue, revoked, call>> /\ ~ At(w, "idle") /\ Save(JobOf(w), doc)
          /\ run'[w].msg = run[w].msg /\ run'[w].pc = "resend"
      BY <1>1, <1>7 DEF Requeue, At, TypeOK, Run
    <2>2. run[w].msg.task \in Nat
      BY <1>7, OrchestrationAssumption DEF Requeue, At, TypeOK, Message
    <2>3. doc \in Doc
      BY <1>1, <2>2 DEF Transition, Doc, JobState
    <2> HIDE DEF doc
    <2>4. WorksOn(w, JobOf(w))'
      BY <2>1 DEF WorksOn, JobOf
    <2> QED
      BY <2>1, <2>3, <2>4, OwnedWhenSaved
  <1>8. CASE Acquire(w) \/ Contended(w) \/ BeginRaises(w)
    <2>1. /\ \A v \in Workers \ {w} : run'[v] = run[v]
          /\ UNCHANGED <<store, queue, revoked, call>>
          /\ run'[w].msg = run[w].msg /\ run'[w].doc = run[w].doc
      BY <1>1, <1>8 DEF Acquire, Contended, BeginRaises, Goto, TypeOK, Run
    <2>2. ASSUME NEW j \in Jobs, WorksOn(w, j)
          PROVE  Owned(j)'
      <3>1. run[w].doc.state \in {"queued", "running"}
        BY <1>8, <2>2 DEF WorksOn, Acquire, Contended, BeginRaises, At
      <3>2. /\ CanTransition(run[w].doc.state, "skipped")
            /\ CanTransition(run[w].doc.state, "failed")
            /\ run[w].doc.state = "queued" => CanTransition(run[w].doc.state, "running")
        BY <3>1 DEF CanTransition, Transitions
      <3>3. ~ BeginRaises(w)
        BY <3>1, <3>2 DEF BeginRaises
      <3>4. run'[w].pc \in {"begin", "skip"}
        BY <1>1, <1>8, <3>2, <3>3 DEF Acquire, Contended, Goto, TypeOK, Run
      <3>5. WorksOn(w, j)'
        BY <2>1, <2>2, <3>1, <3>4 DEF WorksOn, JobOf
      <3> QED
        BY <3>5 DEF Owned
    <2> QED
      BY <2>1, <2>2, OwnedWhenMoved
  <1>9. CASE Release(w) \/ ReleaseFails(w) \/ Ack(w)
    <2>1. /\ \A v \in Workers \ {w} : run'[v] = run[v]
          /\ UNCHANGED <<store, queue, revoked, call>>
          /\ run[w].pc \in {"release", "ack"}
      BY <1>9 DEF Release, ReleaseFails, Ack, Goto, TypeOK, At
    <2>2. \A j \in Jobs : ~ WorksOn(w, j)
      BY <2>1 DEF WorksOn
    <2> QED
      BY <2>1, <2>2, OwnedWhenMoved
  <1>10. CASE Resend(w) \/ Crash(w)
    <2>1. /\ \A v \in Workers \ {w} : run'[v] = run[v]
          /\ UNCHANGED <<store, revoked, call>> /\ Publish(run[w].msg)
      BY <1>10 DEF Resend, Crash, Goto, TypeOK
    <2>2. run[w].msg \in Message
      BY <1>10 DEF Resend, Crash, At, TypeOK
    <2>3. queue'[run[w].msg] > 0 /\ \A n \in Message : queue[n] > 0 => queue'[n] > 0
      BY <2>1, <2>2, PublishAdds
    <2>4. \A j \in Jobs : WorksOn(w, j) => Owned(j)'
      BY <2>2, <2>3 DEF WorksOn, JobOf, Owned
    <2> QED
      BY <2>1, <2>3, <2>4, OwnedWhenMoved
  <1> QED
    BY <1>3, <1>4, <1>5, <1>6, <1>7, <1>8, <1>9, <1>10 DEF WorkerStep

\* Redelivery adds a copy, a worker discards a revoked message only, and leases
\* are nobody's job.
LEMMA OwnedInSpite ==
  ASSUME TypeOK, OwnerInv,
         \/ \E m \in Message : Duplicate(m) \/ DropRevoked(m)
         \/ \E k \in LockKeys : LeaseExpires(k)
         \/ \E w \in Workers, k \in LockKeys : LeaseLapses(w, k)
  PROVE  OwnerInv'
  <1>1. UNCHANGED <<store, revoked, run, call>>
    BY DEF Duplicate, DropRevoked, LeaseExpires, LeaseLapses
  <1>2. \A n \in Message : queue[n] > 0 => queue'[n] > 0 \/ n \in revoked
    <2>1. ASSUME NEW m \in Message, Duplicate(m)
          PROVE  \A n \in Message : queue[n] > 0 => queue'[n] > 0
      BY <2>1, PublishAdds DEF Duplicate
    <2>2. ASSUME NEW m \in Message, DropRevoked(m)
          PROVE  \A n \in Message : queue[n] > 0 => queue'[n] > 0 \/ n \in revoked
      BY <2>2 DEF DropRevoked, Take, TypeOK
    <2> QED
      BY <2>1, <2>2 DEF LeaseExpires, LeaseLapses
  <1>3. Sent'
    BY <1>1, <1>2 DEF OwnerInv, Sent
  <1>4. \A j \in Jobs : Owned(j) => Owned(j)'
    BY <1>1, <1>2 DEF Owned, WorksOn, JobOf
  <1> QED
    BY <1>1, <1>3, <1>4 DEF OwnerInv, Active

\* G6, for any number of workers, callers, jobs and dispatches: a job shown as
\* RUNNING (or, when no message overtakes its dispatcher's save, as QUEUED) has
\* a ready message or a live worker that will save it, unless its message was
\* revoked.
THEOREM ActiveJobsOwned == Spec => []ActiveJobIsOwned
  <1>1. Init => OwnerInv
    BY DEF Init, OwnerInv, Active, Sent, IdleCall
  <1>2. TypeOK /\ TypeOK' /\ DeadLetterInv /\ OwnerInv /\ [Next]_vars => OwnerInv'
    <2> SUFFICES ASSUME TypeOK, TypeOK', DeadLetterInv, OwnerInv, [Next]_vars
                 PROVE  OwnerInv'
      OBVIOUS
    <2>1. CASE UNCHANGED vars
      BY <2>1 DEF vars, OwnerInv, Active, Sent, Owned, WorksOn, JobOf
    <2> QED
      BY <2>1, OwnedByCallers, OwnedByWorkers, OwnedWhenReceived, OwnedInSpite DEF Next
  <1>3. Spec => []DeadLetterInv
    BY DeadLetterInvariant
  <1> QED
    BY <1>1, <1>2, <1>3, OwnerFacts, TypeCorrect, PTL DEF Spec
=============================================================================
