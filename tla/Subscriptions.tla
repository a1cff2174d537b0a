---------------------------- MODULE Subscriptions ----------------------------
(***************************************************************************)
(* SubscriptionService, the scheduler's scan of due subscriptions and the  *)
(* way a sync run begins and ends: what the rows of the subscriptions      *)
(* table go through while users, the scheduler and workers write them from *)
(* transactions of their own.  What a run does in the calendar is the      *)
(* business of SyncEngine, what becomes of its job that of JobOrchestration. *)
(*                                                                         *)
(* due orders the subscriptions whose next_sync_at has passed: it holds     *)
(* <<i, j>> when j is due no sooner than i, and so <<i, i>> when i is due.  *)
(***************************************************************************)
EXTENDS CalendarCatalog

CONSTANTS
  Subs,      \* bound: subscription ids, in the order of creation
  Scopes,    \* what one may subscribe to
  Workers,   \* runs of the engine that may be under way
  Batch,     \* scheduler_scan_batch_size
  MaxEvents  \* bound: what users, the provider, fixtures and failures do

ASSUME SubscriptionsAssumption ==
  /\ Subs \subseteq Nat /\ IsFiniteSet(Subs)
  /\ Batch \in Nat \ {0} /\ MaxEvents \in Nat

VARIABLES
  sub,     \* the subscriptions table
  due,     \* the order of its rows that are due, by next_sync_at
  synced,  \* the calendar shows what the fixtures of the scope say
  queued,  \* sync jobs of the queue: the subscriptions they name
  worker,  \* runs of the engine
  left     \* events left

vars == <<catalogVars, req, sub, due, synced, queued, worker, left>>
subVars == <<sub, due, synced>>

Statuses == {"ACTIVE", "PAUSED"}
Subscription == [calendar : Calendars, scope : Scopes, status : Statuses, deleted : BOOLEAN]

ASSUME NoneIsNoRow == None \notin Row \cup Subscription \cup Roles

Results == {"SUCCESS", "PARTIAL", "FAILED"}

\* A run of the engine: what it has still to do, and for the subscription it is
\* at, the status it loaded and whether what it read of the fixtures still holds.
IdleRun == [pc |-> "idle"]
Runs ==
  {IdleRun}
  \cup [pc : {"plan"}, todo : Seq(Subs), locked : BOOLEAN, status : Statuses]
  \cup [pc : {"write"}, todo : Seq(Subs), locked : BOOLEAN, status : Statuses, good : BOOLEAN]
  \cup [pc : {"persist"}, todo : Seq(Subs), locked : BOOLEAN, status : Statuses, good : BOOLEAN,
        result : Results, stop : BOOLEAN]

ApiRequests ==
  {Idle}
  \cup [op : {"discover"}, listed : [Calendars -> Roles \cup {None}]]
  \cup [op : {"choose"}, calendar : Calendars, row : Row]
  \cup [op : {"select"}, calendar : Calendars, rows : Table]
  \cup [op : {"create"}, calendar : Calendars, scope : Scopes]
  \cup [op : {"pause", "resume", "delete"}, sub : Subs, status : Statuses]

Init ==
  /\ CatalogInit
  /\ req = [q \in Requests |-> Idle]
  /\ sub = [i \in Subs |-> None]
  /\ due = {}
  /\ synced = [i \in Subs |-> FALSE]
  /\ queued = {}
  /\ worker = [w \in Workers |-> IdleRun]
  /\ left = MaxEvents

Event == left > 0 /\ left' = left - 1

Present(i) == sub[i] # None /\ ~ sub[i].deleted
Active(i) == Present(i) /\ sub[i].status = "ACTIVE"
Same(i, c, k) == sub[i].calendar = c /\ sub[i].scope = k

IsDue(i) == <<i, i>> \in due

\* The order once next_sync_at of i lies ahead, and once it is the last to have passed.
Without(i) == {p \in due : p[1] # i /\ p[2] # i}
WithLast(i) == Without(i) \cup {<<j, i>> : j \in {k \in Subs : IsDue(k)} \cup {i}}

-----------------------------------------------------------------------------
\* The user's requests

\* create: the calendar is the user's and find_existing finds nothing ...
BeginCreate(q, c, k) ==
  /\ Free(q) /\ Live(c)
  /\ \A i \in Subs : Present(i) => ~ Same(i, c, k)
  /\ req' = [req EXCEPT ![q] = [op |-> "create", calendar |-> c, scope |-> k]]
  /\ UNCHANGED <<catalogVars, subVars, queued, worker, left>>

\* ... then the insert.  UNIQUE (user, calendar, scope, competition, team) never
\* fires: every scope leaves one of its columns NULL.
Create(q) ==
  /\ req[q].op = "create"
  /\ \E i \in Subs :
       /\ sub[i] = None /\ \A j \in Subs : j < i => sub[j] # None
       /\ sub' = [sub EXCEPT ![i] = [calendar |-> req[q].calendar, scope |-> req[q].scope,
                                     status |-> "ACTIVE", deleted |-> FALSE]]
       /\ due' = WithLast(i)
  /\ End(q)
  /\ UNCHANGED <<catalogVars, synced, queued, worker, left>>

\* pause, resume and delete load the row ...  (To resume what was paused is no
\* event of its own.)
Begin(q, op, i) ==
  /\ Free(q) /\ Present(i)
  /\ IF op = "resume" /\ sub[i].status = "PAUSED" THEN UNCHANGED left ELSE Event
  /\ req' = [req EXCEPT ![q] = [op |-> op, sub |-> i, status |-> sub[i].status]]
  /\ UNCHANGED <<catalogVars, subVars, queued, worker>>

\* ... and write the columns they change.
Pause(q) ==
  /\ req[q].op = "pause"
  /\ sub' = IF req[q].status = "PAUSED" THEN sub
            ELSE [sub EXCEPT ![req[q].sub].status = "PAUSED"]
  /\ End(q)
  /\ UNCHANGED <<catalogVars, due, synced, queued, worker, left>>

\* next_sync_at becomes now: later than any other that has passed.
Resume(q) ==
  /\ req[q].op = "resume"
  /\ LET i == req[q].sub IN
     /\ sub' = IF req[q].status = "ACTIVE" THEN sub ELSE [sub EXCEPT ![i].status = "ACTIVE"]
     /\ due' = WithLast(i)
  /\ End(q)
  /\ UNCHANGED <<catalogVars, synced, queued, worker, left>>

\* Soft: the row stays, and so do its calendar_events.
Delete(q) ==
  /\ req[q].op = "delete"
  /\ sub' = [sub EXCEPT ![req[q].sub].deleted = TRUE]
  /\ due' = Without(req[q].sub)
  /\ End(q)
  /\ UNCHANGED <<catalogVars, synced, queued, worker, left>>

\* POST /jobs/sync, of a subscription in whatever state.
SyncNow(i) ==
  /\ sub[i] # None /\ i \notin queued
  /\ Event
  /\ queued' = queued \cup {i}
  /\ UNCHANGED <<catalogVars, req, subVars, worker>>

-----------------------------------------------------------------------------
\* The scheduler

\* next_sync_at passes; for a deleted row it no longer matters.
TimePasses(i) ==
  /\ Present(i) /\ ~ IsDue(i)
  /\ due' = WithLast(i)
  /\ UNCHANGED <<catalogVars, req, sub, synced, queued, worker, left>>

\* Mutants of ListDue: no ORDER BY, and no condition on the status.
DueById ==
  {i \in Subs : IsDue(i) /\ Active(i)
     /\ Cardinality({j \in Subs : j < i /\ IsDue(j) /\ Active(j)}) < Batch}
DueAnyStatus ==
  {i \in Subs : IsDue(i) /\ Present(i)
     /\ Cardinality({j \in Subs \ {i} : <<j, i>> \in due /\ Present(j)}) < Batch}

\* list_due: the active and due, but for those with a batch of others before them.
ListDue ==
  {i \in Subs : IsDue(i) /\ Active(i)
     /\ Cardinality({j \in Subs \ {i} : <<j, i>> \in due /\ Active(j)}) < Batch}

\* scan_due_subscriptions: a job for each, whether one is queued already or not.
Scan ==
  /\ ~ ListDue \subseteq queued
  /\ queued' = queued \cup ListDue
  /\ UNCHANGED <<catalogVars, req, subVars, worker, left>>

-----------------------------------------------------------------------------
\* Runs of the engine

Working(i) == \E w \in Workers : worker[w] # IdleRun /\ Contains(worker[w].todo, i)
Locked(i) == \E w \in Workers : worker[w] # IdleRun /\ worker[w].locked /\ Head(worker[w].todo) = i

Begun(todo, locked, status) ==
  [pc |-> "plan", todo |-> todo, locked |-> locked, status |-> status]

\* handle_sync_subscription, under the lock of its subscription: synchronize
\* loads the row, which need not be active.  Where the lock is held the job is
\* skipped, where the row is deleted it fails.
StartJob(w, i) ==
  /\ worker[w] = IdleRun /\ i \in queued
  /\ queued' = queued \ {i}
  /\ worker' = IF Locked(i) \/ ~ Present(i) THEN worker
               ELSE [worker EXCEPT ![w] = Begun(<<i>>, TRUE, sub[i].status)]
  /\ UNCHANGED <<catalogVars, req, subVars, left>>

\* The answers a query may give, which lists each of the rows once; no run begins
\* where it finds none.
Listings(rows) ==
  {ids \in [1..Cardinality(rows) -> rows] : ids # <<>> /\ IsInjective(ids)}
ByCreation(ids) == \A m, n \in DOMAIN ids : m < n => ids[m] < ids[n]

StartMany(w, ids) ==
  /\ worker[w] = IdleRun
  /\ Event
  /\ worker' = [worker EXCEPT ![w] = Begun(ids, FALSE, "ACTIVE")]
  /\ UNCHANGED <<catalogVars, req, subVars, queued>>

\* synchronize_user: the active rows, in the order of creation.
SyncUser(w) ==
  \E ids \in Listings({i \in Subs : Active(i)}) : ByCreation(ids) /\ StartMany(w, ids)

\* synchronize_calendar: those of one calendar, in no order the query asks for.
SyncCalendar(w, c) ==
  \E ids \in Listings({i \in Subs : Active(i) /\ sub[i].calendar = c}) : StartMany(w, ids)

\* The next one of the list, or the end of the run.
NextInLine(w) ==
  LET todo == Tail(worker[w].todo) IN
  worker' = [worker EXCEPT ![w] = IF todo = <<>> THEN IdleRun
                                  ELSE Begun(todo, worker[w].locked, "ACTIVE")]

\* An empty plan only advances the schedule.
PlanNothing(w) ==
  /\ worker[w].pc = "plan"
  /\ LET i == Head(worker[w].todo) IN
     /\ synced[i]
     /\ due' = Without(i)
  /\ NextInLine(w)
  /\ UNCHANGED <<catalogVars, req, sub, synced, queued, left>>

Plan(w) ==
  /\ worker[w].pc = "plan"
  /\ ~ synced[Head(worker[w].todo)]
  /\ worker' = [worker EXCEPT ![w] =
       [pc |-> "write", todo |-> worker[w].todo, locked |-> worker[w].locked,
        status |-> worker[w].status, good |-> TRUE]]
  /\ UNCHANGED <<catalogVars, req, subVars, queued, left>>

Executed(w, result, stop) ==
  worker' = [worker EXCEPT ![w] =
    [pc |-> "persist", todo |-> worker[w].todo, locked |-> worker[w].locked,
     status |-> worker[w].status, good |-> worker[w].good, result |-> result, stop |-> stop]]

\* Every action of the plan is carried out.
Write(w) ==
  /\ worker[w].pc = "write"
  /\ LET i == Head(worker[w].todo) IN
     /\ Live(sub[i].calendar) /\ calendar[sub[i].calendar].role = "writer"
     /\ Writable(sub[i].calendar)
  /\ Executed(w, "SUCCESS", FALSE)
  /\ UNCHANGED <<catalogVars, req, subVars, queued, left>>

\* The provider no longer lists the calendar, or lets the user read it only: every
\* action of a batch fails, none of them fatally.
WriteRefused(w) ==
  /\ worker[w].pc = "write"
  /\ LET c == sub[Head(worker[w].todo)].calendar IN
     Live(c) /\ calendar[c].role = "writer" /\ consent /\ remote[c] # "writer"
  /\ Executed(w, "PARTIAL", FALSE)
  /\ UNCHANGED <<catalogVars, req, subVars, queued, left>>

\* require_write, or a refresh of the token that Google refuses: the plan is
\* aborted, and the subscription paused.
WriteDenied(w) ==
  /\ worker[w].pc = "write"
  /\ LET c == sub[Head(worker[w].todo)].calendar IN
     Live(c) /\ (calendar[c].role # "writer" \/ ~ consent)
  /\ Executed(w, "FAILED", TRUE)
  /\ UNCHANGED <<catalogVars, req, subVars, queued, left>>

\* The row of the calendar is deleted: CalendarNotFoundError is no fatal error, so
\* it leaves synchronize, with the rest of the list.
WriteGone(w) ==
  /\ worker[w].pc = "write"
  /\ ~ Live(sub[Head(worker[w].todo)].calendar)
  /\ worker' = [worker EXCEPT ![w] = IdleRun]
  /\ UNCHANGED <<catalogVars, req, subVars, queued, left>>

\* A quota, a rate limit or an outage aborts the plan, before or after some of it.
WriteFails(w) ==
  /\ worker[w].pc = "write"
  /\ Event
  /\ \E result \in {"PARTIAL", "FAILED"} : Executed(w, result, FALSE)
  /\ UNCHANGED <<catalogVars, req, subVars, queued>>

\* Mutant of Persist: the status of the run is stored as the subscription's.
PersistResult(w) ==
  /\ worker[w].pc = "persist"
  /\ LET i == Head(worker[w].todo)  run == worker[w] IN
     /\ sub' = IF run.stop THEN [sub EXCEPT ![i].status = run.result] ELSE sub
     /\ due' = IF run.result = "FAILED" THEN due ELSE Without(i)
     /\ synced' = IF run.result = "SUCCESS" THEN [synced EXCEPT ![i] = run.good] ELSE synced
  /\ NextInLine(w)
  /\ UNCHANGED <<catalogVars, req, queued, left>>

\* Mutant of Persist: the whole row is written, with the status it had at load.
PersistRow(w) ==
  /\ worker[w].pc = "persist"
  /\ LET i == Head(worker[w].todo)  run == worker[w] IN
     /\ sub' = [sub EXCEPT ![i].status = IF run.stop THEN "PAUSED" ELSE run.status]
     /\ due' = IF run.result = "FAILED" THEN due ELSE Without(i)
     /\ synced' = IF run.result = "SUCCESS" THEN [synced EXCEPT ![i] = run.good] ELSE synced
  /\ NextInLine(w)
  /\ UNCHANGED <<catalogVars, req, queued, left>>

\* _persist: the mappings, the status and the schedule, of the columns that changed.
Persist(w) ==
  /\ worker[w].pc = "persist"
  /\ LET i == Head(worker[w].todo)  run == worker[w] IN
     /\ sub' = IF run.stop /\ run.status # "PAUSED" THEN [sub EXCEPT ![i].status = "PAUSED"] ELSE sub
     /\ due' = IF run.result = "FAILED" THEN due ELSE Without(i)
     /\ synced' = IF run.result = "SUCCESS" THEN [synced EXCEPT ![i] = run.good] ELSE synced
  /\ NextInLine(w)
  /\ UNCHANGED <<catalogVars, req, queued, left>>

\* The worker dies, and its run with it.
Crash(w) ==
  /\ worker[w] # IdleRun
  /\ Event
  /\ worker' = [worker EXCEPT ![w] = IdleRun]
  /\ UNCHANGED <<catalogVars, req, subVars, queued>>

-----------------------------------------------------------------------------

\* A fixture of the scope changes, appears or goes.
FixturesChange(i) ==
  /\ sub[i] # None
  /\ Event
  /\ synced' = [synced EXCEPT ![i] = FALSE]
  /\ worker' = [w \in Workers |->
       IF worker[w].pc \in {"write", "persist"} /\ Head(worker[w].todo) = i
       THEN [worker[w] EXCEPT !.good = FALSE] ELSE worker[w]]
  /\ UNCHANGED <<catalogVars, req, sub, due, queued>>

Provider ==
  /\ Event
  /\ (\E c \in Calendars : RemoteChanges(c)) \/ ConsentChanges
  /\ UNCHANGED <<req, subVars, queued, worker>>

ApiStep(q) ==
  \/ CatalogStep(q) /\ UNCHANGED <<subVars, queued, worker, left>>
  \/ (\E c \in Calendars, k \in Scopes : BeginCreate(q, c, k))
  \/ (\E op \in {"pause", "resume", "delete"}, i \in Subs : Begin(q, op, i))
  \/ Create(q) \/ Pause(q) \/ Resume(q) \/ Delete(q)

RunStep(w) ==
  \/ PlanNothing(w) \/ Plan(w)
  \/ Write(w) \/ WriteRefused(w) \/ WriteDenied(w) \/ WriteGone(w)
  \/ Persist(w)

Next ==
  \/ (\E q \in Requests : ApiStep(q))
  \/ (\E i \in Subs : SyncNow(i) \/ TimePasses(i) \/ FixturesChange(i))
  \/ Scan
  \/ (\E w \in Workers, i \in Subs : StartJob(w, i))
  \/ (\E w \in Workers : SyncUser(w) \/ \E c \in Calendars : SyncCalendar(w, c))
  \/ (\E w \in Workers : RunStep(w) \/ WriteFails(w) \/ Crash(w))
  \/ Provider

Spec == Init /\ [][Next]_vars

\* Time passes, beat scans, workers take the jobs and finish their runs.
FairSpec ==
  /\ Spec
  /\ \A i \in Subs : WF_vars(TimePasses(i)) /\ SF_vars(\E w \in Workers : StartJob(w, i))
  /\ WF_vars(Scan)
  /\ \A w \in Workers : WF_vars(RunStep(w))

-----------------------------------------------------------------------------

\* Every two that are due are in one order.
DueTypeOK ==
  /\ due \subseteq Subs \X Subs
  /\ \A i, j \in Subs : <<i, j>> \in due => IsDue(i) /\ IsDue(j)
  /\ \A i, j \in Subs : IsDue(i) /\ IsDue(j) /\ i # j => (<<i, j>> \in due <=> <<j, i>> \notin due)
  /\ \A i, j, k \in Subs : <<i, j>> \in due /\ <<j, k>> \in due => <<i, k>> \in due

TypeOK ==
  /\ CatalogTypeOK
  /\ req \in [Requests -> ApiRequests]
  /\ sub \in [Subs -> Subscription \cup {None}]
  /\ DueTypeOK
  /\ synced \in [Subs -> BOOLEAN]
  /\ queued \subseteq Subs
  /\ worker \in [Workers -> Runs]
  /\ left \in 0..MaxEvents

\* The calendar of a subscription can be written to.
Reachable(i) ==
  LET c == sub[i].calendar IN Live(c) /\ calendar[c].role = "writer" /\ Writable(c)

\* However many are due at once, and whatever a scan, a run or a user did before:
\* once the calendars of the active subscriptions can be written to, each of them
\* is brought up to date.
EachIsServed ==
  \A i \in Subs :
    <>[](Active(i) /\ \A j \in Subs : Active(j) => Reachable(j)) => []<>synced[i]

\* A subscription that is paused or deleted for good falls silent, whatever was
\* queued or under way.
FallsSilent ==
  \A i \in Subs : <>[](~ Active(i)) => <>[](~ Working(i))

\* A run or a request of another kind never undoes what the user did to a row it
\* had loaded before.
UserWins ==
  [][\A i \in Subs : sub[i] # None =>
       /\ sub'[i] # None /\ (sub[i].deleted => sub'[i].deleted)
       /\ sub[i].status = "PAUSED" /\ sub'[i].status = "ACTIVE" =>
            \E q \in Requests : req[q].op = "resume" /\ req[q].sub = i /\ req'[q] = Idle]_vars

\* What the documents promise and the code does not keep

\* docs/application.md: "next sync run prunes its calendar events".
DeletedIsPruned ==
  \A i \in Subs : (sub[i] # None /\ sub[i].deleted /\ synced[i]) ~> ~ synced[i]

\* docs/application.md: "engine + scheduler already skip PAUSED".
PausedIsSkipped ==
  [][\A w \in Workers, i \in Subs :
       StartJob(w, i) /\ Present(i) /\ ~ Active(i) => worker' = worker]_vars

\* "You are already subscribed to this with that calendar."
NoDuplicates ==
  \A i, j \in Subs :
    i # j /\ Present(i) /\ Present(j) => ~ Same(i, sub[j].calendar, sub[j].scope)

\* A subscription whose own calendar is fine is served, whatever the others' are.
ServedAlone == \A i \in Subs : <>[](Active(i) /\ Reachable(i)) => []<>synced[i]

\* docs/sync.md: "Subscription became paused - calendar access was revoked".
PausedWhileRevoked ==
  [][\A w \in Workers, i \in Subs :
       Active(i) /\ sub'[i].status = "PAUSED" /\ worker'[w] # worker[w] => ~ Reachable(i)]_vars
=============================================================================
