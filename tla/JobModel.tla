------------------------------ MODULE JobModel ------------------------------
(***************************************************************************)
(* The job document of the orchestration platform and everything the code  *)
(* computes from one: the state machine (domain/orchestration/models.py),  *)
(* the mutual-exclusion key and the retry decision                         *)
(* (domain/orchestration/retry.py).  A module of operators: it has no      *)
(* variables, and both the specification and the proofs build on it.       *)
(*                                                                         *)
(* Timestamps, the error text, the owner and the queue/priority pair are   *)
(* not part of the document here: no guard reads them.  started_at, which  *)
(* the reaper reads, is represented in JobOrchestration by the worker's    *)
(* "fresh" mark.                                                           *)
(***************************************************************************)
EXTENDS Integers

CONSTANTS
  Jobs,         \* the jobs that may ever be created
  TypeOf,       \* the job_type of each job
  TargetOf,     \* the subscription, user or sport its payload names
  Covers,       \* the subscriptions its handler synchronizes
  MaxAttempts,  \* RetryPolicy.max_attempts
  NoKey         \* lock_key = None

JobType == {"sync_subscription", "sync_user", "reconcile", "fixture_import",
            "metadata_refresh", "cleanup", "health_check"}

ASSUME JobAssumption ==
  /\ TypeOf \in [Jobs -> JobType]
  /\ DOMAIN TargetOf = Jobs /\ DOMAIN Covers = Jobs
  /\ MaxAttempts \in Nat \ {0}
  /\ \A j \in Jobs : NoKey \notin {<<"sub", TargetOf[j]>>, <<"user", TargetOf[j]>>,
                                   <<"sport", TargetOf[j]>>, <<"metadata">>}

JobState == {"pending", "queued", "running", "succeeded", "skipped",
             "failed", "retrying", "cancelled", "dead_letter"}

\* TERMINAL_STATES, and the wider Job.is_terminal property.
TerminalStates == {"succeeded", "skipped", "cancelled"}
IsTerminal(state) == state \in TerminalStates \cup {"dead_letter"}

\* _TRANSITIONS: the moves Job.transition accepts.
Transitions ==
  [ pending     |-> {"queued", "cancelled"},
    queued      |-> {"running", "cancelled", "skipped", "failed"},
    running     |-> {"succeeded", "failed", "retrying", "skipped", "cancelled"},
    retrying    |-> {"queued", "dead_letter", "cancelled"},
    failed      |-> {"retrying", "dead_letter", "queued"},
    dead_letter |-> {"queued"},
    succeeded   |-> {},
    skipped     |-> {},
    cancelled   |-> {} ]

CanTransition(current, target) == target \in Transitions[current]

\* A stored document: its state, its attempt count and its celery_task_id
\* (the ordinal of the dispatch; 0 is None).
Doc == [state : JobState, attempts : Nat, task : Nat]

NewDoc == [state |-> "pending", attempts |-> 0, task |-> 0]

\* Job.transition on a legal move: entering RUNNING counts an attempt.
Transition(doc, target) ==
  [state    |-> target,
   attempts |-> IF target = "running" THEN doc.attempts + 1 ELSE doc.attempts,
   task     |-> doc.task]

\* Job.lock_key: subscription syncs and reconciles of one subscription share
\* a key, a user-wide sync has a key of its own, maintenance needs none.
LockKeys ==
  {<<"sub", TargetOf[j]>> : j \in Jobs} \cup {<<"user", TargetOf[j]>> : j \in Jobs}
    \cup {<<"sport", TargetOf[j]>> : j \in Jobs} \cup {<<"metadata">>}

LockKey(j) ==
  CASE TypeOf[j] \in {"sync_subscription", "reconcile"} -> <<"sub", TargetOf[j]>>
    [] TypeOf[j] = "sync_user"        -> <<"user", TargetOf[j]>>
    [] TypeOf[j] = "fixture_import"   -> <<"sport", TargetOf[j]>>
    [] TypeOf[j] = "metadata_refresh" -> <<"metadata">>
    [] OTHER                          -> NoKey

\* The handler table of build_worker_service: cleanup and health_check jobs
\* have no handler.
HasHandler(j) == TypeOf[j] \notin {"cleanup", "health_check"}

\* FailureKind, and RetryPolicy.should_retry: a permanent failure never
\* retries, any other retries while the budget lasts.
FailureKind == {"transient", "rate_limited", "permanent"}
ShouldRetry(kind, attempts) == kind # "permanent" /\ attempts < MaxAttempts
=============================================================================
