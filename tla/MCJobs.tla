-------------------------------- MODULE MCJobs --------------------------------
(***************************************************************************)
(* Instances of JobOrchestration for TLC.                                  *)
(***************************************************************************)
EXTENDS JobOrchestration, FiniteSets, TLC

CONSTANTS j1, j2, w1, w2, c1, c2

OneSync   == j1 :> "sync_subscription"
OneTarget == j1 :> "s"
OneCover  == j1 :> {"s"}

\* Two jobs of one subscription (a scheduled and a manual one, say): they
\* contend for one lock key.
TwoSyncs   == j1 :> "sync_subscription" @@ j2 :> "sync_subscription"
TwoTargets == j1 :> "s" @@ j2 :> "s"
TwoCovers  == j1 :> {"s"} @@ j2 :> {"s"}

\* A job no worker has a handler for, beside a sync.
SyncAndCleanup == j1 :> "sync_subscription" @@ j2 :> "cleanup"

\* A sync of one subscription, beside a sync of everything its user has.
SyncAndUser == j1 :> "sync_subscription" @@ j2 :> "sync_user"
UserTargets == j1 :> "s" @@ j2 :> "u"

Interchangeable == Permutations(Workers) \cup Permutations(Callers)

\* Budgets of environment events: the named events happen at most once.
Some(names) == [e \in Events |-> IF e \in names THEN 1 ELSE 0]

NoEvents     == Some({})
LeaseFaults  == Some({"lapse", "renewal_error", "duplicate"})
ProcessFaults == Some({"crash", "caller_crash", "retry", "cancel"})
OnlyCrash    == Some({"crash"})
OnlyCancel   == Some({"cancel"})
CancelRetry  == Some({"cancel", "retry"})
OnlyDup      == Some({"duplicate"})
=============================================================================
