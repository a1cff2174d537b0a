--------------------------- MODULE JobOrchestration ---------------------------
(***************************************************************************)
(* The orchestration platform: API and scheduler processes ("callers")     *)
(* that create, cancel, retry and reap jobs through JobService, the Celery *)
(* broker that delivers a message per dispatched job at least once, and    *)
(* worker processes that run WorkerService.run under a Redis lease.  All   *)
(* of them read a job document, work on their own copy and write the whole *)
(* copy back with JobStore.save, so every read, dispatch and save is an    *)
(* action of its own.                                                      *)
(***************************************************************************)
EXTENDS JobModel

CONSTANTS
  Workers,        \* worker processes
  Callers,        \* API requests and Beat tasks in progress
  NoDoc,          \* no document stored
  NoMessage,      \* no message held
  NoJob,          \* no job in hand
  Free, Orphan,   \* lease values: unset, or the token of a dead worker
  MaxDispatch,    \* bound: dispatches per job
  Budget,         \* bound: how often each environment event may happen
  EarlyDelivery   \* may the broker deliver before the dispatcher has saved?

Events == {"crash", "caller_crash", "duplicate", "lapse", "renewal_error",
           "cancel", "retry"}
Message == [job : Jobs, task : 1..MaxDispatch]

ASSUME OrchestrationAssumption ==
  /\ MaxDispatch \in Nat \ {0}
  /\ Budget \in [Events -> Nat]
  /\ EarlyDelivery \in BOOLEAN
  /\ NoDoc \notin Doc
  /\ NoMessage \notin Message
  /\ NoJob \notin Jobs
  /\ Free \notin Workers /\ Orphan \notin Workers /\ Free # Orphan

VARIABLES
  store,       \* job:{id}: the stored documents
  dead,        \* jobs:dead: the dead-letter index
  queue,       \* ready copies of each message in the broker
  revoked,     \* messages Celery was told to discard
  dispatched,  \* dispatches so far, per job: the source of task ids
  lock,        \* lock:{key}: the token of each lease
  lapsed,      \* workers whose lease ran out while they were inside the guard
  run,         \* each worker's run: position, message, its copy of the job
  call,        \* each caller's JobService call: position, job, its copy
  budget       \* environment events left

vars == <<store, dead, queue, revoked, dispatched, lock, lapsed, run, call, budget>>

RunPC == {"idle", "lock", "skip", "begin", "handler", "release", "requeue",
          "resend", "ack"}
CallPC == {"idle", "enqueue_dispatch", "retry_dispatch", "dispatch_save",
           "cancel_revoke", "cancel_save", "reap_save"}

\* fresh: this run itself stamped started_at; retry: the RetryDecision.
Run == [pc : RunPC, msg : Message \cup {NoMessage}, doc : Doc,
        fresh : BOOLEAN, retry : BOOLEAN]
Call == [pc : CallPC, job : Jobs \cup {NoJob}, doc : Doc]

IdleRun == [pc |-> "idle", msg |-> NoMessage, doc |-> NewDoc,
            fresh |-> FALSE, retry |-> FALSE]
IdleCall == [pc |-> "idle", job |-> NoJob, doc |-> NewDoc]

TypeOK ==
  /\ store \in [Jobs -> Doc \cup {NoDoc}]
  /\ dead \in SUBSET Jobs
  /\ queue \in [Message -> Nat]
  /\ revoked \in SUBSET Message
  /\ dispatched \in [Jobs -> 0..MaxDispatch]
  /\ lock \in [LockKeys -> Workers \cup {Free, Orphan}]
  /\ lapsed \in SUBSET Workers
  /\ run \in [Workers -> Run]
  /\ call \in [Callers -> Call]
  /\ budget \in [Events -> Nat]
  /\ \A w \in Workers : run[w].pc # "idle" => run[w].msg \in Message
  /\ \A c \in Callers : call[c].pc # "idle" => call[c].job \in Jobs

Init ==
  /\ store = [j \in Jobs |-> NoDoc]
  /\ dead = {}
  /\ queue = [m \in Message |-> 0]
  /\ revoked = {}
  /\ dispatched = [j \in Jobs |-> 0]
  /\ lock = [k \in LockKeys |-> Free]
  /\ lapsed = {}
  /\ run = [w \in Workers |-> IdleRun]
  /\ call = [c \in Callers |-> IdleCall]
  /\ budget = Budget

-----------------------------------------------------------------------------
\* Helpers

\* Mutant of Save: the dead-letter index is only ever added to.
SaveKeepsIndex(j, doc) ==
  /\ store' = [store EXCEPT ![j] = doc]
  /\ dead' = IF doc.state = "dead_letter" THEN dead \cup {j} ELSE dead

\* JobStore.save: the document and the dead-letter index in one transaction.
Save(j, doc) ==
  /\ store' = [store EXCEPT ![j] = doc]
  /\ dead' = CASE doc.state = "dead_letter" -> dead \cup {j}
               [] doc.state = "queued"      -> dead \ {j}
               [] OTHER                     -> dead

Spend(event) ==
  /\ budget[event] > 0
  /\ budget' = [budget EXCEPT ![event] = @ - 1]

Publish(m) == queue' = [queue EXCEPT ![m] = @ + 1]
Take(m)    == queue[m] > 0 /\ queue' = [queue EXCEPT ![m] = @ - 1]

At(w, where) == run[w].pc = where
JobOf(w) == run[w].msg.job
KeyOf(w) == LockKey(JobOf(w))
Goto(w, where) == run' = [run EXCEPT ![w].pc = where]

\* Leaving `async with guard`: a keyed job releases its lease first.
AfterGuard(w) == IF KeyOf(w) = NoKey THEN "ack" ELSE "release"

\* The positions between LockGuard.__aenter__ and the end of __aexit__.
Inside(w) == run[w].pc \in {"begin", "handler", "release"} /\ KeyOf(w) # NoKey

\* Whether the broker may hand out m now: unless delivery can be early, not
\* before the process that dispatched it has saved the document.
Deliverable(m) ==
  \/ EarlyDelivery
  \/ \A c \in Callers : ~ /\ call[c].pc = "dispatch_save"
                          /\ call[c].job = m.job
                          /\ call[c].doc.task = m.task

-----------------------------------------------------------------------------
\* JobService: enqueue and retry

\* enqueue, first half: the PENDING document is saved.
EnqueueCreate(c, j) ==
  /\ call[c].pc = "idle"
  /\ store[j] = NoDoc
  /\ Save(j, NewDoc)
  /\ call' = [call EXCEPT ![c] = [pc |-> "enqueue_dispatch", job |-> j,
                                  doc |-> Transition(NewDoc, "queued")]]
  /\ UNCHANGED <<queue, revoked, dispatched, lock, lapsed, run, budget>>

\* Mutants of RetryRead: the attempts are left as they are, or paid back.
RetryReadWith(c, j, attempts) ==
  /\ call[c].pc = "idle"
  /\ store[j] # NoDoc
  /\ store[j].state \in {"failed", "dead_letter"}
  /\ call' = [call EXCEPT ![c] =
                [pc |-> "retry_dispatch", job |-> j,
                 doc |-> [Transition(store[j], "queued") EXCEPT !.attempts = attempts]]]
  /\ Spend("retry")
  /\ UNCHANGED <<store, dead, queue, revoked, dispatched, lock, lapsed, run>>

RetryReadKeeps(c, j)    == RetryReadWith(c, j, store[j].attempts)
RetryReadPaysBack(c, j) == RetryReadWith(c, j, store[j].attempts - MaxAttempts)

\* retry reads the document, restores the attempt budget and queues its copy.
\* A cancelled job passes the first test but not Job.transition, which raises
\* before anything is sent.
RetryRead(c, j) ==
  /\ call[c].pc = "idle"
  /\ store[j] # NoDoc
  /\ store[j].state \in {"failed", "dead_letter", "cancelled"}
  /\ CanTransition(store[j].state, "queued")
  /\ call' = [call EXCEPT ![c] =
                [pc |-> "retry_dispatch", job |-> j,
                 doc |-> [Transition(store[j], "queued") EXCEPT !.attempts = 0]]]
  /\ Spend("retry")
  /\ UNCHANGED <<store, dead, queue, revoked, dispatched, lock, lapsed, run>>

\* dispatch publishes the message; its task id goes into the caller's copy.
Dispatch(c) ==
  LET j == call[c].job
      task == dispatched[j] + 1 IN
  /\ call[c].pc \in {"enqueue_dispatch", "retry_dispatch"}
  /\ dispatched[j] < MaxDispatch
  /\ dispatched' = [dispatched EXCEPT ![j] = task]
  /\ Publish([job |-> j, task |-> task])
  /\ call' = [call EXCEPT ![c].pc = "dispatch_save", ![c].doc.task = task]
  /\ UNCHANGED <<store, dead, revoked, lock, lapsed, run, budget>>

\* The last step of each call writes the caller's copy, whatever the store
\* holds by now.
SaveCopy(c, where) ==
  /\ call[c].pc = where
  /\ Save(call[c].job, call[c].doc)
  /\ call' = [call EXCEPT ![c] = IdleCall]
  /\ UNCHANGED <<queue, revoked, dispatched, lock, lapsed, run, budget>>

DispatchSave(c) == SaveCopy(c, "dispatch_save")

-----------------------------------------------------------------------------
\* JobService: cancel and the reaper

CancelRead(c, j) ==
  /\ call[c].pc = "idle"
  /\ store[j] # NoDoc
  /\ ~ IsTerminal(store[j].state)
  /\ call' = [call EXCEPT ![c] = [pc |-> "cancel_revoke", job |-> j, doc |-> store[j]]]
  /\ Spend("cancel")
  /\ UNCHANGED <<store, dead, queue, revoked, dispatched, lock, lapsed, run>>

\* The message named by the copy is revoked before the move is validated:
\* cancelling a FAILED job raises, but only after its message is revoked.
CancelRevoke(c) ==
  LET doc == call[c].doc IN
  /\ call[c].pc = "cancel_revoke"
  /\ revoked' = revoked \cup {m \in Message : m.job = call[c].job /\ m.task = doc.task}
  /\ call' = [call EXCEPT ![c] =
                IF CanTransition(doc.state, "cancelled")
                  THEN [@ EXCEPT !.pc = "cancel_save",
                                 !.doc = Transition(doc, "cancelled")]
                  ELSE IdleCall]
  /\ UNCHANGED <<store, dead, queue, dispatched, lock, lapsed, run, budget>>

CancelSave(c) == SaveCopy(c, "cancel_save")

\* A run that stamped started_at ends within worker_time_limit (660 s), well
\* below stuck_job_threshold (1800 s): a RUNNING document is old enough to be
\* reaped only when no live run of that job is a fresh one.
Stuck(j) ==
  /\ store[j] # NoDoc
  /\ store[j].state = "running"
  /\ \A w \in Workers : ~ (At(w, "handler") /\ JobOf(w) = j /\ run[w].fresh)

\* mark_stuck_as_failed: list_stuck reads, each job is then saved FAILED.
ReapRead(c, j) ==
  /\ call[c].pc = "idle"
  /\ Stuck(j)
  /\ call' = [call EXCEPT ![c] = [pc |-> "reap_save", job |-> j,
                                  doc |-> Transition(store[j], "failed")]]
  /\ UNCHANGED <<store, dead, queue, revoked, dispatched, lock, lapsed, run, budget>>

ReapSave(c) == SaveCopy(c, "reap_save")

\* The process behind a call dies between two of its steps.
CallerCrash(c) ==
  /\ call[c].pc # "idle"
  /\ call' = [call EXCEPT ![c] = IdleCall]
  /\ Spend("caller_crash")
  /\ UNCHANGED <<store, dead, queue, revoked, dispatched, lock, lapsed, run>>

-----------------------------------------------------------------------------
\* WorkerService.run

\* A message is delivered and the document read: a finished job is a no-op.
ReceiveFinished(w, m) ==
  /\ At(w, "idle")
  /\ Take(m)
  /\ Deliverable(m)
  /\ store[m.job] = NoDoc \/ IsTerminal(store[m.job].state)
  /\ run' = [run EXCEPT ![w] = [IdleRun EXCEPT !.pc = "ack", !.msg = m]]
  /\ UNCHANGED <<store, dead, revoked, dispatched, lock, lapsed, call, budget>>

\* Otherwise the copy read here is the one the rest of the run works on.
ReceiveLive(w, m) ==
  /\ At(w, "idle")
  /\ Take(m)
  /\ Deliverable(m)
  /\ store[m.job] # NoDoc
  /\ ~ IsTerminal(store[m.job].state)
  /\ run' = [run EXCEPT ![w] =
               [IdleRun EXCEPT !.pc = IF LockKey(m.job) = NoKey THEN "begin" ELSE "lock",
                               !.msg = m, !.doc = store[m.job]]]
  /\ UNCHANGED <<store, dead, revoked, dispatched, lock, lapsed, call, budget>>

Acquire(w) ==
  /\ At(w, "lock")
  /\ lock[KeyOf(w)] = Free
  /\ lock' = [lock EXCEPT ![KeyOf(w)] = w]
  /\ Goto(w, "begin")
  /\ UNCHANGED <<store, dead, queue, revoked, dispatched, lapsed, call, budget>>

\* LockNotAcquiredError: the copy moves to SKIPPED, or the move is illegal and
\* InvalidTransitionError ends the task, which acknowledges the message.
Contended(w) ==
  /\ At(w, "lock")
  /\ lock[KeyOf(w)] # Free
  /\ Goto(w, IF CanTransition(run[w].doc.state, "skipped") THEN "skip" ELSE "ack")
  /\ UNCHANGED <<store, dead, queue, revoked, dispatched, lock, lapsed, call, budget>>

SaveSkipped(w) ==
  /\ At(w, "skip")
  /\ Save(JobOf(w), Transition(run[w].doc, "skipped"))
  /\ Goto(w, "ack")
  /\ UNCHANGED <<queue, revoked, dispatched, lock, lapsed, call, budget>>

\* _execute without a handler: the job is recorded as FAILED.
BeginUnhandled(w) ==
  /\ At(w, "begin")
  /\ ~ HasHandler(JobOf(w))
  /\ CanTransition(run[w].doc.state, "failed")
  /\ Save(JobOf(w), Transition(run[w].doc, "failed"))
  /\ Goto(w, AfterGuard(w))
  /\ UNCHANGED <<queue, revoked, dispatched, lock, lapsed, call, budget>>

\* _execute: a copy that is already RUNNING (a redelivery) is not counted as a
\* new attempt; the copy is saved and the handler called.
Begin(w) ==
  LET old == run[w].doc
      doc == IF old.state = "running" THEN old ELSE Transition(old, "running") IN
  /\ At(w, "begin")
  /\ HasHandler(JobOf(w))
  /\ old.state = "running" \/ CanTransition(old.state, "running")
  /\ Save(JobOf(w), doc)
  /\ run' = [run EXCEPT ![w].pc = "handler", ![w].doc = doc,
                        ![w].fresh = (old.state # "running")]
  /\ UNCHANGED <<queue, revoked, dispatched, lock, lapsed, call, budget>>

\* InvalidTransitionError from _execute leaves the guard and ends the task.
BeginRaises(w) ==
  LET target == IF HasHandler(JobOf(w)) THEN "running" ELSE "failed" IN
  /\ At(w, "begin")
  /\ HasHandler(JobOf(w)) => run[w].doc.state # "running"
  /\ ~ CanTransition(run[w].doc.state, target)
  /\ Goto(w, AfterGuard(w))
  /\ UNCHANGED <<store, dead, queue, revoked, dispatched, lock, lapsed, call, budget>>

\* The handler returned: SUCCEEDED is saved.
HandlerSucceeds(w) ==
  LET doc == Transition(run[w].doc, "succeeded") IN
  /\ At(w, "handler")
  /\ Save(JobOf(w), doc)
  /\ run' = [run EXCEPT ![w].pc = AfterGuard(w), ![w].doc = doc]
  /\ UNCHANGED <<queue, revoked, dispatched, lock, lapsed, call, budget>>

\* _handle_failure: RETRYING while the budget lasts, else FAILED and at once
\* DEAD_LETTER, with a single save.
HandlerFails(w, kind) ==
  LET retry == ShouldRetry(kind, run[w].doc.attempts)
      doc == IF retry THEN Transition(run[w].doc, "retrying")
             ELSE Transition(Transition(run[w].doc, "failed"), "dead_letter") IN
  /\ At(w, "handler")
  /\ Save(JobOf(w), doc)
  /\ run' = [run EXCEPT ![w].pc = AfterGuard(w), ![w].doc = doc, ![w].retry = retry]
  /\ UNCHANGED <<queue, revoked, dispatched, lock, lapsed, call, budget>>

\* Mutants of Release: the token is not compared, or the lease is kept by a run
\* that is about to retry.
ReleaseWith(w, value) ==
  /\ At(w, "release")
  /\ lock' = [lock EXCEPT ![KeyOf(w)] = value]
  /\ lapsed' = lapsed \ {w}
  /\ Goto(w, IF run[w].retry THEN "requeue" ELSE "ack")
  /\ UNCHANGED <<store, dead, queue, revoked, dispatched, call, budget>>

ReleaseAnyToken(w)   == ReleaseWith(w, Free)
ReleaseUnlessRetry(w) == ReleaseWith(w, IF lock[KeyOf(w)] = w /\ ~ run[w].retry
                                          THEN Free ELSE lock[KeyOf(w)])

\* LockGuard.__aexit__: the lease is deleted only if it still carries this
\* run's token.
Release(w) ==
  /\ At(w, "release")
  /\ lock' = [lock EXCEPT ![KeyOf(w)] = IF @ = w THEN Free ELSE @]
  /\ lapsed' = lapsed \ {w}
  /\ Goto(w, IF run[w].retry THEN "requeue" ELSE "ack")
  /\ UNCHANGED <<store, dead, queue, revoked, dispatched, call, budget>>

\* A renewer that met a Redis error re-raises it from __aexit__: the lease is
\* not released, the error replaces the run's outcome (its retry included) and
\* ends the task, which acknowledges the message.
ReleaseFails(w) ==
  /\ At(w, "release")
  /\ lock' = [lock EXCEPT ![KeyOf(w)] = IF @ = w THEN Orphan ELSE @]
  /\ lapsed' = lapsed \ {w}
  /\ Goto(w, "ack")
  /\ Spend("renewal_error")
  /\ UNCHANGED <<store, dead, queue, revoked, dispatched, call>>

\* requeue_after_retry: the copy is saved QUEUED under the running task's id.
Requeue(w) ==
  LET doc == [Transition(run[w].doc, "queued") EXCEPT !.task = run[w].msg.task] IN
  /\ At(w, "requeue")
  /\ Save(JobOf(w), doc)
  /\ run' = [run EXCEPT ![w].pc = "resend", ![w].doc = doc]
  /\ UNCHANGED <<queue, revoked, dispatched, lock, lapsed, call, budget>>

\* Mutant of Resend: the QUEUED copy is saved but nothing is sent again.
ResendForgets(w) ==
  /\ At(w, "resend")
  /\ Goto(w, "ack")
  /\ UNCHANGED <<store, dead, queue, revoked, dispatched, lock, lapsed, call, budget>>

\* task.retry publishes the same task again, then the old delivery is acked.
Resend(w) ==
  /\ At(w, "resend")
  /\ Publish(run[w].msg)
  /\ Goto(w, "ack")
  /\ UNCHANGED <<store, dead, revoked, dispatched, lock, lapsed, call, budget>>

Ack(w) ==
  /\ At(w, "ack")
  /\ run' = [run EXCEPT ![w] = IdleRun]
  /\ UNCHANGED <<store, dead, queue, revoked, dispatched, lock, lapsed, call, budget>>

-----------------------------------------------------------------------------
\* The environment: worker loss, redelivery, revocation, lease expiry

\* Mutant of Crash: the message was acknowledged when it was received.
CrashLosesMessage(w) ==
  /\ ~ At(w, "idle")
  /\ lock' = [k \in LockKeys |-> IF lock[k] = w THEN Orphan ELSE lock[k]]
  /\ lapsed' = lapsed \ {w}
  /\ run' = [run EXCEPT ![w] = IdleRun]
  /\ Spend("crash")
  /\ UNCHANGED <<store, dead, queue, revoked, dispatched, call>>

\* A worker process is lost: task_reject_on_worker_lost puts the message back
\* and the lease keeps a token nobody holds.
Crash(w) ==
  /\ ~ At(w, "idle")
  /\ Publish(run[w].msg)
  /\ lock' = [k \in LockKeys |-> IF lock[k] = w THEN Orphan ELSE lock[k]]
  /\ lapsed' = lapsed \ {w}
  /\ run' = [run EXCEPT ![w] = IdleRun]
  /\ Spend("crash")
  /\ UNCHANGED <<store, dead, revoked, dispatched, call>>

\* At-least-once delivery: an unacknowledged message whose visibility timeout
\* passes (a long countdown) is handed out twice.
Duplicate(m) ==
  /\ queue[m] > 0
  /\ Publish(m)
  /\ Spend("duplicate")
  /\ UNCHANGED <<store, dead, revoked, dispatched, lock, lapsed, run, call>>

\* A worker may discard a revoked message it is handed.
DropRevoked(m) ==
  /\ m \in revoked
  /\ Take(m)
  /\ UNCHANGED <<store, dead, revoked, dispatched, lock, lapsed, run, call, budget>>

\* Nobody renews a dead worker's lease: its TTL runs out.
LeaseExpires(k) ==
  /\ lock[k] = Orphan
  /\ lock' = [lock EXCEPT ![k] = Free]
  /\ UNCHANGED <<store, dead, queue, revoked, dispatched, lapsed, run, call, budget>>

\* The renewer of a live run is too late; the run goes on without the lease.
LeaseLapses(w, k) ==
  /\ lock[k] = w
  /\ lock' = [lock EXCEPT ![k] = Free]
  /\ lapsed' = lapsed \cup {w}
  /\ Spend("lapse")
  /\ UNCHANGED <<store, dead, queue, revoked, dispatched, run, call>>

-----------------------------------------------------------------------------
CallerStep(c) ==
  \/ Dispatch(c) \/ DispatchSave(c)
  \/ CancelRevoke(c) \/ CancelSave(c)
  \/ ReapSave(c)

WorkerStep(w) ==
  \/ Acquire(w) \/ Contended(w) \/ SaveSkipped(w)
  \/ BeginUnhandled(w) \/ Begin(w) \/ BeginRaises(w)
  \/ HandlerSucceeds(w)
  \/ \E kind \in FailureKind : HandlerFails(w, kind)
  \/ Release(w) \/ Requeue(w) \/ Resend(w) \/ Ack(w)

Receive(w) == \E m \in Message : ReceiveFinished(w, m) \/ ReceiveLive(w, m)

Next ==
  \/ \E c \in Callers : CallerStep(c) \/ CallerCrash(c)
  \/ \E c \in Callers, j \in Jobs :
       EnqueueCreate(c, j) \/ RetryRead(c, j) \/ CancelRead(c, j) \/ ReapRead(c, j)
  \/ \E w \in Workers : WorkerStep(w) \/ Receive(w) \/ ReleaseFails(w) \/ Crash(w)
  \/ \E m \in Message : Duplicate(m) \/ DropRevoked(m)
  \/ \E k \in LockKeys : LeaseExpires(k)
  \/ \E w \in Workers, k \in LockKeys : LeaseLapses(w, k)

Spec == Init /\ [][Next]_vars

\* Processes that are alive make progress, the broker delivers what is ready,
\* and Redis expires what nobody renews.  No request is ever forced to arrive.
Fairness ==
  /\ \A c \in Callers : WF_vars(CallerStep(c))
  /\ \A w \in Workers : WF_vars(WorkerStep(w)) /\ WF_vars(Receive(w))
  /\ \A k \in LockKeys : WF_vars(LeaseExpires(k))

FairSpec == Spec /\ Fairness
-----------------------------------------------------------------------------
\* Safety

\* The retry budget (docs/orchestration.md G7) holds of every stored document,
\* whichever worker, canceller, reaper or manual retry wrote it last: no run is
\* ever counted past max_attempts and no job waits for a run it has no budget
\* for.  This is about RetryPolicy.should_retry, the increment in
\* Job.transition and the reset in JobService.retry together.
InBudget(doc) ==
  /\ doc.attempts <= MaxAttempts
  /\ doc.state \in {"pending", "queued", "retrying"} => doc.attempts < MaxAttempts
  /\ doc.state = "running" => doc.attempts >= 1

AttemptsWithinBudget == \A j \in Jobs : store[j] # NoDoc => InBudget(store[j])

\* GET /jobs/dead-letter reads the jobs:dead index: it lists every dead-lettered
\* job, and never one that is waiting for a worker again.
DeadLetterListed ==
  \A j \in Jobs : store[j] # NoDoc =>
    /\ store[j].state = "dead_letter" => j \in dead
    /\ store[j].state \in {"pending", "queued"} => j \notin dead

\* G1 and G3 at the level of one lock key: two workers are inside the guard of
\* the same key only if one of them outlived its lease.  In particular a worker
\* that lost its lease never releases its successor's.
ExclusiveUnlessLapsed ==
  \A v, w \in Workers :
    v # w /\ Inside(v) /\ Inside(w) /\ KeyOf(v) = KeyOf(w)
      => v \in lapsed \/ w \in lapsed

\* Every lock key is an instance of the abstract lease: what RedisLease shows of
\* one Redis key is all that the workers rely on.
LeaseOf(k) == INSTANCE LeaseMutex
  WITH Clients <- Workers,
       owner   <- lock[k],
       inside  <- {w \in Workers : Inside(w) /\ KeyOf(w) = k},
       lapsed  <- {w \in lapsed : Inside(w) /\ KeyOf(w) = k}

LocksAreLeases ==
  /\ \A k \in LockKeys : LeaseOf(k)!Init
  /\ [][\A k \in LockKeys : [LeaseOf(k)!Next]_(LeaseOf(k)!lease)]_vars

\* G6: a job shown as RUNNING, or (when the broker never overtakes the
\* dispatcher's save) as QUEUED, is still in somebody's hands: a message for it
\* is ready, or a live worker holds one and works on a copy it will save; unless
\* its message was revoked by a cancel.  Nothing is silently dropped.
WorksOn(w, j) ==
  /\ run[w].pc # "idle" /\ JobOf(w) = j
  /\ \/ run[w].pc \in {"lock", "skip", "begin", "handler"}
          /\ run[w].doc.state \in {"queued", "running"}
     \/ run[w].pc = "resend"

Owned(j) ==
  \/ \E m \in Message : m.job = j /\ (queue[m] > 0 \/ m \in revoked)
  \/ \E w \in Workers : WorksOn(w, j)

ActiveJobIsOwned ==
  \A j \in Jobs : store[j] # NoDoc =>
    /\ store[j].state = "running" => Owned(j)
    /\ store[j].state = "queued" /\ ~ EarlyDelivery => Owned(j)

-----------------------------------------------------------------------------
\* What the documentation also says, and the code does not deliver

Starts(w) == ~ At(w, "handler") /\ run'[w].pc = "handler"

\* docs/orchestration.md G1: "At-most-one active synchronization per
\* subscription".  (POST /sync, outside this module, takes no lock at all.)
OneActivePerSubscription ==
  \A v, w \in Workers :
    v # w /\ At(v, "handler") /\ At(w, "handler") /\ {v, w} \cap lapsed = {}
      => Covers[JobOf(v)] \cap Covers[JobOf(w)] = {}

\* docs/orchestration.md G9: "A cancelled job never touches the calendar ...
\* the worker re-reads state before executing."
CancelledNeverRuns ==
  [][\A w \in Workers : Starts(w) => store[JobOf(w)].state # "cancelled"]_vars

\* docs/orchestration.md G8: "A duplicate delivery of a finished job is a no-op."
FinishedNeverRuns ==
  [][\A w \in Workers : Starts(w) => store[JobOf(w)].state # "succeeded"]_vars

\* docs/orchestration.md: RUNNING means "a worker holds it (increments
\* `attempts`)", which is what G7's bounded attempts rest on.
StartsAreCounted ==
  [][\A w \in Workers : Starts(w) => run'[w].doc.attempts > run[w].doc.attempts]_vars

\* docs/orchestration.md: "SKIPPED, SUCCEEDED, CANCELLED are terminal."
TerminalIsFinal ==
  [][\A j \in Jobs : store[j] # NoDoc /\ store[j].state \in TerminalStates
       => store'[j].state = store[j].state]_vars

\* JobNotRetryableError: "Only failed, dead-lettered, or cancelled jobs can be
\* retried."
CancelledIsRetryable ==
  \A c \in Callers, j \in Jobs :
    store[j] # NoDoc /\ store[j].state = "cancelled"
      /\ call[c].pc = "idle" /\ budget["retry"] > 0 /\ dispatched[j] < MaxDispatch
        => ENABLED RetryRead(c, j)

\* domain/orchestration/models.py: SKIPPED means "another worker already holds
\* the subscription's lock".
SkippedMeansBusy ==
  [][\A w \in Workers :
       At(w, "lock") /\ run'[w].pc = "skip"
         => \E v \in Workers \ {w} : Inside(v) /\ KeyOf(v) = KeyOf(w)]_vars

-----------------------------------------------------------------------------
\* Liveness, under FairSpec

Settled(j) == store[j] # NoDoc /\ store[j].state \in
                {"succeeded", "skipped", "cancelled", "dead_letter", "failed"}

\* G6: every job that was created is eventually settled.
EveryJobSettles == \A j \in Jobs : store[j] # NoDoc ~> Settled(j)

\* What the code delivers of it: the same of every behaviour in which no worker
\* is lost, contention, retries and manual retries included.
SettlesUnlessLost == [](budget["crash"] = Budget["crash"]) => EveryJobSettles

\* G2: no lease outlives its run for ever, whoever dies.
EveryLeaseEnds ==
  \A k \in LockKeys, w \in Workers : (lock[k] = w) ~> (lock[k] # w)

\* No record shows RUNNING for ever, even when its worker is lost.
Shows(j, state) == store[j] # NoDoc /\ store[j].state = state

NoEndlessRun == \A j \in Jobs : Shows(j, "running") ~> ~ Shows(j, "running")

\* JobService.mark_stuck_as_failed: "The broker will redeliver the message ...
\* so the work still happens; this only repairs the record."
ReapedWorkHappens ==
  \A j \in Jobs :
    (Shows(j, "failed") /\ \E m \in Message : m.job = j /\ queue[m] > 0)
      ~> ~ Shows(j, "failed")
=============================================================================
