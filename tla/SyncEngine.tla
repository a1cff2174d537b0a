------------------------------ MODULE SyncEngine ------------------------------
(***************************************************************************)
(* The synchronization engine: SyncService._run and the SyncExecutor, run  *)
(* after run, for subscriptions that write to one calendar, while the      *)
(* ingestion changes fixtures and the user changes the calendar.  A run    *)
(* reads the database once, plans (SyncPlanner), makes one calendar call   *)
(* per action and writes all it did back in one transaction.               *)
(*                                                                         *)
(* Timestamps stand for what the code compares them with: fresh[s] are the *)
(* fixtures with updated_at >= last_synced_at of s, and a run's newer set  *)
(* those that will be once the run's own start is the watermark.           *)
(***************************************************************************)
EXTENDS SyncPlanner

CONSTANTS
  Subs, Scope,      \* subscriptions of the calendar; the fixtures each covers
  Procs,            \* processes that may be inside SyncService._run
  Modes,            \* the modes runs are started in
  Exclusive,        \* is every run made under the lock of its subscription?
  MaxFixtures,      \* sync_max_fixtures
  MaxItemRetries,   \* sync_max_item_retries
  Fallible,         \* the action types whose calls may fail on their own
  Budget            \* bound: how often each environment event may happen

Events == {"write", "restore", "gone", "late", "window", "age", "user_delete",
           "user_edit", "item", "unanswered", "abort", "crash"}

ASSUME EngineAssumption ==
  /\ Scope \in [Subs -> SUBSET Fixtures]
  /\ None \notin Subs
  /\ Modes \subseteq SyncMode
  /\ Exclusive \in BOOLEAN
  /\ MaxFixtures \in Nat \ {0} /\ MaxItemRetries \in Nat \ {0}
  /\ Fallible \subseteq ActionType
  /\ Budget \in [Events -> Nat]

VARIABLES
  fixture,   \* the fixtures table
  open,      \* the contents whose kick-off lies inside the sync window
  fresh,     \* fixtures no older than the watermark of each subscription
  import,    \* a long ingestion transaction, and who has started or finished since
  row,       \* calendar_events: one row per subscription and fixture
  failures,  \* failed operations in the retry window, up to MaxItemRetries
  calendar,  \* the owned events of the calendar
  run,       \* each process's run
  budget     \* environment events left

vars == <<fixture, open, fresh, import, row, failures, calendar, run, budget>>

Load == [snap : [Fixtures -> Snapshot \cup {None}], rows : [Fixtures -> Mapping \cup {None}],
         scope : SUBSET Fixtures, blocked : SUBSET Fixtures, window : SUBSET Contents,
         remote : [EventIds -> Remote \cup {None}], known : BOOLEAN]

\* An ActionResult: the event it left behind, or None when it failed.
Result == [action : Action, event : EventIds \cup {None}]

Run == [pc : {"idle", "list", "noop", "execute"}, sub : Subs \cup {None}, mode : SyncMode,
        load : Load, newer : SUBSET Fixtures, todo : SUBSET Action, done : SUBSET Result,
        aborted : BOOLEAN]
Import == [on : BOOLEAN, late : SUBSET Procs, behind : SUBSET Subs]

NoLoad == [snap |-> [f \in Fixtures |-> None], rows |-> [f \in Fixtures |-> None],
           scope |-> {}, blocked |-> {}, window |-> {}, remote |-> [e \in EventIds |-> None],
           known |-> FALSE]
IdleRun == [pc |-> "idle", sub |-> None, mode |-> "full", load |-> NoLoad,
            newer |-> {}, todo |-> {}, done |-> {}, aborted |-> FALSE]
NoImport == [on |-> FALSE, late |-> {}, behind |-> {}]

\* Types; a run is of a subscription exactly while it is in progress.
TypeOK ==
  /\ fixture \in [Fixtures -> Snapshot \cup {None}]
  /\ open \subseteq Contents
  /\ fresh \in [Subs -> SUBSET Fixtures]
  /\ import \in Import
  /\ row \in [Subs -> [Fixtures -> Mapping \cup {None}]]
  /\ failures \in [Subs -> [Fixtures -> 0..MaxItemRetries]]
  /\ calendar \in [EventIds -> Remote \cup {None}]
  /\ run \in [Procs -> Run]
  /\ \A p \in Procs : run[p].pc = "idle" <=> run[p].sub = None
  /\ budget \in [Events -> Nat]

\* Any fixtures have been ingested; nothing has been synchronized.
Init ==
  /\ fixture \in [Fixtures -> [content : Contents, gone : {FALSE}] \cup {None}]
  /\ open = Contents
  /\ fresh = [s \in Subs |-> Fixtures]
  /\ import = NoImport
  /\ row = [s \in Subs |-> [f \in Fixtures |-> None]]
  /\ failures = [s \in Subs |-> [f \in Fixtures |-> 0]]
  /\ calendar = [e \in EventIds |-> None]
  /\ run = [p \in Procs |-> IdleRun]
  /\ budget = Budget

Spend(event) ==
  /\ budget[event] > 0
  /\ budget' = [budget EXCEPT ![event] = @ - 1]

-----------------------------------------------------------------------------
\* The queries of repositories/sync_engine.py

InWindow(s) == {f \in Scope[s] : fixture[f] # None /\ fixture[f].content \in open}
InScope(s)  == {f \in InWindow(s) : ~ fixture[f].gone}
LiveRows(s) == {f \in Fixtures : row[s][f] # None /\ ~ row[s][f].deleted}
GoneFixtures(s) == {f \in LiveRows(s) : row[s][f].state = "active" /\ fixture[f].gone}

\* Unconfirmed or outdated mappings, loaded whatever the watermark says.
RepairFixtures(s) ==
  {f \in LiveRows(s) : row[s][f].state = "active"
                       /\ (~ IsConfirmed(row[s][f]) \/ row[s][f].hash # fixture[f].content)}

Candidates(s, mode) ==
  IF mode = "incremental" THEN InWindow(s) \cap (fresh[s] \cup RepairFixtures(s))
  ELSE InWindow(s)

\* LIMIT sync_max_fixtures; the kick-off order is abstracted to any order.
Pages(found) ==
  {page \in SUBSET found :
     \/ page = found /\ Cardinality(found) <= MaxFixtures
     \/ Cardinality(page) = MaxFixtures /\ Cardinality(found) > MaxFixtures}

ReadBy(s, page) ==
  [snap    |-> [f \in Fixtures |-> IF f \in page \cup GoneFixtures(s) THEN fixture[f] ELSE None],
   rows    |-> [f \in Fixtures |-> IF f \in LiveRows(s) THEN row[s][f] ELSE None],
   scope   |-> InScope(s),
   blocked |-> {f \in Fixtures : failures[s][f] >= MaxItemRetries},
   window  |-> open,
   remote  |-> NoLoad.remote,
   known   |-> FALSE]

-----------------------------------------------------------------------------
\* Loading and planning

\* The run after planning: its mutations, or nothing but the watermark to move.
\* Conflicts are recorded as failed results without a call.
Planned(r, plan) ==
  IF IsEmpty(plan) THEN [r EXCEPT !.pc = "noop"]
  ELSE [r EXCEPT !.pc   = "execute",
                 !.todo = {a \in plan : Mutates(a)},
                 !.done = {[action |-> a, event |-> None] :
                             a \in {b \in plan : b.type = "conflict"}}]

\* _load and _plan.  A run that starts while a long import is open has a start
\* time later than the updated_at this import will commit.
LoadAndPlan(p, s, mode) ==
  /\ run[p].pc = "idle"
  /\ Exclusive => \A q \in Procs : run[q].sub # s
  /\ \E page \in Pages(Candidates(s, mode)) :
       LET r == [IdleRun EXCEPT !.sub = s, !.mode = mode, !.load = ReadBy(s, page)] IN
       IF mode = "reconcile" THEN run' = [run EXCEPT ![p] = [r EXCEPT !.pc = "list"]]
       ELSE \E plan \in Plans(r.load) : run' = [run EXCEPT ![p] = Planned(r, plan)]
  /\ import' = IF import.on THEN [import EXCEPT !.late = @ \cup {p}] ELSE import
  /\ UNCHANGED <<fixture, open, fresh, row, failures, calendar, budget>>

\* list_events answers by the time an event shows, not by the fixture it is of.
Listed(window) ==
  [e \in EventIds |-> IF calendar[e] = None THEN None
                      ELSE IF calendar[e].shows \in window THEN calendar[e] ELSE None]

\* _load_remote, over the window the run began with.
LoadRemote(p) ==
  /\ run[p].pc = "list"
  /\ LET r == [run[p] EXCEPT !.load.remote = Listed(run[p].load.window),
                             !.load.known = TRUE] IN
     \E plan \in Plans(r.load) : run' = [run EXCEPT ![p] = Planned(r, plan)]
  /\ UNCHANGED <<fixture, open, fresh, import, row, failures, calendar, budget>>

\* Mutant of AdvanceWatermark: last_synced_at is the time the run ended.
AdvanceToFinish(p) ==
  /\ fresh' = [fresh EXCEPT ![run[p].sub] = {}]
  /\ import' = [import EXCEPT !.behind = IF p \in import.late THEN @ \cup {run[p].sub}
                                         ELSE @ \ {run[p].sub}]

\* _advance_schedule: last_synced_at = started.
AdvanceWatermark(p) ==
  /\ fresh' = [fresh EXCEPT ![run[p].sub] = run[p].newer]
  /\ import' = [import EXCEPT !.behind = IF p \in import.late THEN @ \cup {run[p].sub}
                                         ELSE @ \ {run[p].sub}]

\* An empty plan moves the watermark and writes nothing else.
NothingToDo(p) ==
  /\ run[p].pc = "noop"
  /\ AdvanceWatermark(p)
  /\ run' = [run EXCEPT ![p] = IdleRun]
  /\ UNCHANGED <<fixture, open, row, failures, calendar, budget>>

-----------------------------------------------------------------------------
\* The executor.  Calls of one batch complete in any order, batches of one kind
\* before those of the next: creates, updates, cancels, deletes.

Phase == [create |-> 0, recreate |-> 0, update |-> 1, cancel |-> 2, delete |-> 3]
Ready(p, types, stage) ==
  {a \in run[p].todo : /\ a.type \in types /\ a.stage = stage
                       /\ \A b \in run[p].todo : Phase[a.type] <= Phase[b.type]}

\* The event body rendered from the loaded snapshot of the action's fixture.
Body(p, a) == LET c == run[p].load.snap[a.fixture].content IN
              [app |-> a.fixture, hash |-> c, shows |-> c]

Put(e, remote) == calendar' = [calendar EXCEPT ![e] = remote]

Finish(p, a, e) ==
  run' = [run EXCEPT ![p].todo = @ \ {a},
                     ![p].done = @ \cup {[action |-> a, event |-> e]}]

Restage(p, a, stage) ==
  /\ run' = [run EXCEPT ![p].todo = (@ \ {a}) \cup {[a EXCEPT !.stage = stage]}]
  /\ UNCHANGED calendar

OnlyCall == UNCHANGED <<fixture, open, fresh, import, row, failures>>

\* Mutant of Insert: the calendar chooses the event id.
InsertAnyId(p) ==
  /\ \E a \in Ready(p, {"create", "recreate"}, "first"), e \in EventIds :
       /\ calendar[e] = None
       /\ Put(e, Body(p, a)) /\ Finish(p, a, e)
  /\ OnlyCall /\ UNCHANGED budget

\* _creates: an insert under the derived event id; a 409 says it exists.
Insert(p) ==
  /\ \E a \in Ready(p, {"create", "recreate"}, "first") :
       IF calendar[a.fixture] = None
       THEN Put(a.fixture, Body(p, a)) /\ Finish(p, a, a.fixture)
       ELSE Restage(p, a, "repair")
  /\ OnlyCall /\ UNCHANGED budget

\* _repair_conflict: patch the event that holds the id, unless it has gone again.
RepairConflict(p) ==
  /\ \E a \in Ready(p, {"create", "recreate"}, "repair") :
       IF calendar[a.fixture] # None
       THEN Put(a.fixture, Body(p, a)) /\ Finish(p, a, a.fixture)
       ELSE Finish(p, a, None) /\ UNCHANGED calendar
  /\ OnlyCall /\ UNCHANGED budget

\* _updates and _cancels: patch by the stored id.
Patch(p) ==
  /\ \E a \in Ready(p, {"update", "cancel"}, "first") :
       IF calendar[a.event] # None
       THEN Put(a.event, Body(p, a)) /\ Finish(p, a, a.event)
       ELSE Restage(p, a, "remake")
  /\ OnlyCall /\ UNCHANGED budget

\* _recreate: the body of an update has no event id, the calendar assigns one.
Recreate(p) ==
  /\ \E a \in Ready(p, {"update", "cancel"}, "remake"), e \in MadeIds :
       /\ calendar[e] = None /\ MadeFor[e] = a.fixture
       /\ Put(e, Body(p, a)) /\ Finish(p, a, e)
  /\ OnlyCall /\ UNCHANGED budget

\* _deletes: a missing event is the desired state.
Delete(p) ==
  /\ \E a \in Ready(p, {"delete"}, "first") :
       Put(a.event, None) /\ Finish(p, a, a.event)
  /\ OnlyCall /\ UNCHANGED budget

\* One call fails on its own.
ItemFails(p) ==
  /\ \E a \in Ready(p, Fallible, "first") : Finish(p, a, None)
  /\ Spend("item")
  /\ OnlyCall /\ UNCHANGED calendar

\* A call took effect, but no batch result answers it.
Unanswered(p) ==
  /\ \E a \in Ready(p, Fallible, "first") :
       LET e == IF a.type \in {"create", "recreate"} THEN a.fixture ELSE a.event IN
       /\ a.type \in {"create", "recreate"} <=> calendar[e] = None
       /\ Put(e, IF a.type = "delete" THEN None ELSE Body(p, a))
       /\ Finish(p, a, None)
  /\ Spend("unanswered")
  /\ OnlyCall

\* FATAL_ERRORS: quota, permission or authorization; nothing more is called.
Abort(p) ==
  /\ run[p].todo # {}
  /\ run' = [run EXCEPT ![p].todo = {}, ![p].aborted = TRUE]
  /\ Spend("abort")
  /\ OnlyCall /\ UNCHANGED calendar

-----------------------------------------------------------------------------
\* Persistence

Successes(p) == {r \in run[p].done : r.event # None}
Failed(p)    == run[p].aborted /\ Successes(p) = {}
ResultsOf(p, f) == {r \in Successes(p) : r.action.fixture = f}

\* Mutant of NewRow: the hash is that of the fixture as it is by now.
NewRowOfFixture(p, f, old) ==
  IF ResultsOf(p, f) = {} THEN old
  ELSE LET r == CHOOSE q \in ResultsOf(p, f) : TRUE IN
       IF r.action.type = "delete" THEN [old EXCEPT !.state = "deleted", !.deleted = TRUE]
       ELSE [event |-> r.event, hash |-> fixture[f].content, state |-> "active",
             deleted |-> FALSE]

\* Mutant of NewRow: a cancellation is stored as an update.
NewRowUncancelled(p, f, old) ==
  IF ResultsOf(p, f) = {} THEN old
  ELSE LET r == CHOOSE q \in ResultsOf(p, f) : TRUE IN
       IF r.action.type = "delete" THEN [old EXCEPT !.state = "deleted", !.deleted = TRUE]
       ELSE [event |-> r.event, hash |-> run[p].load.snap[f].content, state |-> "active",
             deleted |-> FALSE]

\* Mutant of NewRow: an update of a mapping writes its state only.
NewRowStateOnly(p, f, old) ==
  IF ResultsOf(p, f) = {} THEN old
  ELSE LET r == CHOOSE q \in ResultsOf(p, f) : TRUE IN
       IF r.action.type = "delete" THEN [old EXCEPT !.state = "deleted", !.deleted = TRUE]
       ELSE IF r.action.type \in {"update", "cancel"} THEN [old EXCEPT !.state = "active"]
       ELSE [event |-> r.event, hash |-> run[p].load.snap[f].content, state |-> "active",
             deleted |-> FALSE]

\* _write_create, _mapping_update and the delete branch of _persist.  An update
\* of a row deleted since does not bring the row back.
NewRow(p, f, old) ==
  IF ResultsOf(p, f) = {} THEN old
  ELSE LET r    == CHOOSE q \in ResultsOf(p, f) : TRUE
           hash == run[p].load.snap[f].content IN
       CASE r.action.type \in {"create", "recreate"} ->
              [event |-> r.event, hash |-> hash, state |-> "active", deleted |-> FALSE]
         [] r.action.type = "update" ->
              [old EXCEPT !.event = r.event, !.hash = hash, !.state = "active"]
         [] r.action.type = "cancel" ->
              [old EXCEPT !.event = r.event, !.hash = hash, !.state = "cancelled"]
         [] r.action.type = "delete" ->
              [old EXCEPT !.state = "deleted", !.deleted = TRUE]

\* The plain inserts of bulk_insert meet UNIQUE (subscription_id, fixture_id).
Duplicates(p) ==
  \E r \in Successes(p) : /\ r.action.type = "create" /\ ~ r.action.mapped
                          /\ row[run[p].sub][r.action.fixture] # None

\* The operation rows of this run, as failure_counts will read them.
CountFailures(p) ==
  LET failed == {r.action.fixture : r \in run[p].done \ Successes(p)} IN
  failures' = [failures EXCEPT ![run[p].sub] = [f \in Fixtures |->
                 IF f \in failed /\ @[f] < MaxItemRetries THEN @[f] + 1 ELSE @[f]]]

\* _persist: mappings, operations, status and watermark in one transaction.
Persist(p) ==
  /\ run[p].pc = "execute" /\ run[p].todo = {}
  /\ ~ Duplicates(p)
  /\ row' = [row EXCEPT ![run[p].sub] = [f \in Fixtures |-> NewRow(p, f, @[f])]]
  /\ CountFailures(p)
  /\ IF Failed(p) THEN UNCHANGED <<fresh, import>> ELSE AdvanceWatermark(p)
  /\ run' = [run EXCEPT ![p] = IdleRun]
  /\ UNCHANGED <<fixture, open, calendar, budget>>

\* The unique constraint rejects the transaction and the error escapes _run.
PersistRejected(p) ==
  /\ run[p].pc = "execute" /\ run[p].todo = {}
  /\ Duplicates(p)
  /\ run' = [run EXCEPT ![p] = IdleRun]
  /\ UNCHANGED <<fixture, open, fresh, import, row, failures, calendar, budget>>

\* Mutant of Crash: the lock of the subscription is never freed.
CrashKeepsLock(p) ==
  /\ run[p].pc # "idle"
  /\ Spend("crash")
  /\ run' = [run EXCEPT ![p] = [IdleRun EXCEPT !.sub = run[p].sub]]
  /\ UNCHANGED <<fixture, open, fresh, import, row, failures, calendar>>

\* The process dies, or an error that is not fatal to the executor escapes it.
Crash(p) ==
  /\ run[p].pc # "idle"
  /\ Spend("crash")
  /\ run' = [run EXCEPT ![p] = IdleRun]
  /\ UNCHANGED <<fixture, open, fresh, import, row, failures, calendar>>

-----------------------------------------------------------------------------
\* The environment: ingestion, time and the user

\* A commit of f with an updated_at older than the start of the runs in late
\* and than the watermark of the subscriptions in behind.
Commit(f, snapshot, late, behind) ==
  /\ fixture' = [fixture EXCEPT ![f] = snapshot]
  /\ fresh' = [s \in Subs |-> IF s \in behind THEN fresh[s] \ {f} ELSE fresh[s] \cup {f}]
  /\ run' = [p \in Procs |->
               IF run[p].pc = "idle" THEN run[p]
               ELSE [run[p] EXCEPT !.newer = IF p \in late THEN @ \ {f} ELSE @ \cup {f}]]
  /\ UNCHANGED <<open, row, failures, calendar>>

Live(content) == [content |-> content, gone |-> FALSE]
IsGone(f) == fixture[f] # None /\ fixture[f].gone

\* Ingestion inserts or changes a fixture, or brings a deleted one back.
WriteFixture(f, content) ==
  /\ fixture[f] # Live(content)
  /\ Commit(f, Live(content), {}, {})
  /\ Spend(IF IsGone(f) THEN "restore" ELSE "write")
  /\ UNCHANGED import

FixtureGone(f) ==
  /\ fixture[f] # None /\ ~ IsGone(f)
  /\ Commit(f, [fixture[f] EXCEPT !.gone = TRUE], {}, {})
  /\ Spend("gone")
  /\ UNCHANGED import

\* updated_at is the time an ingestion transaction began.
ImportBegins ==
  /\ ~ import.on
  /\ Spend("late")
  /\ import' = [NoImport EXCEPT !.on = TRUE]
  /\ UNCHANGED <<fixture, open, fresh, row, failures, calendar, run>>

ImportCommits(f, content) ==
  /\ import.on
  /\ fixture[f] # Live(content) /\ ~ IsGone(f)
  /\ Commit(f, Live(content), import.late, import.behind)
  /\ import' = NoImport
  /\ UNCHANGED budget

\* A kick-off enters or leaves the sync window.
WindowMoves(content) ==
  /\ Spend("window")
  /\ open' = IF content \in open THEN open \ {content} ELSE open \cup {content}
  /\ UNCHANGED <<fixture, fresh, import, row, failures, calendar, run>>

\* Failed operations fall out of sync_retry_window_days.
FailuresAge ==
  /\ Spend("age")
  /\ failures' = [s \in Subs |-> [f \in Fixtures |-> 0]]
  /\ UNCHANGED <<fixture, open, fresh, import, row, calendar, run>>

UserDeletes(e) ==
  /\ calendar[e] # None
  /\ Spend("user_delete")
  /\ Put(e, None)
  /\ UNCHANGED <<fixture, open, fresh, import, row, failures, run>>

\* The private ms_hash of an event survives what the user does to it.
UserEdits(e, content) ==
  /\ calendar[e] # None /\ calendar[e].shows # content
  /\ Spend("user_edit")
  /\ Put(e, [calendar[e] EXCEPT !.shows = content])
  /\ UNCHANGED <<fixture, open, fresh, import, row, failures, run>>

RunStep(p) ==
  \/ LoadRemote(p) \/ NothingToDo(p)
  \/ Insert(p) \/ RepairConflict(p) \/ Patch(p) \/ Recreate(p) \/ Delete(p)
  \/ Persist(p) \/ PersistRejected(p)

RunFault(p) == ItemFails(p) \/ Unanswered(p) \/ Abort(p) \/ Crash(p)

Environment ==
  \/ \E f \in Fixtures : FixtureGone(f)
  \/ \E f \in Fixtures, c \in Contents : WriteFixture(f, c) \/ ImportCommits(f, c)
  \/ ImportBegins
  \/ \E c \in Contents : WindowMoves(c)
  \/ FailuresAge
  \/ \E e \in EventIds : UserDeletes(e) \/ \E c \in Contents : UserEdits(e, c)

Next ==
  \/ \E p \in Procs : RunStep(p) \/ RunFault(p)
  \/ \E p \in Procs, s \in Subs, mode \in Modes : LoadAndPlan(p, s, mode)
  \/ Environment

Spec == Init /\ [][Next]_vars

\* A due subscription is run again and again, and a run goes on.
Fairness ==
  /\ \A p \in Procs : WF_vars(RunStep(p))
  /\ \A s \in Subs : WF_vars(\E p \in Procs, mode \in Modes : LoadAndPlan(p, s, mode))

FairSpec == Spec /\ Fairness

-----------------------------------------------------------------------------
\* Safety

Idle(s) == \A p \in Procs : run[p].sub # s
UpToDate(s, f) == f \in LiveRows(s) /\ row[s][f].hash = fixture[f].content

\* A fixture in scope whose mapping is missing or out of date will be loaded by
\* the next incremental run: the watermark never passes work that is not done.
NothingForgotten ==
  \A s \in Subs : \A f \in InScope(s) :
    UpToDate(s, f) \/ f \in fresh[s] \cup RepairFixtures(s)

\* No run has died and no call was left unanswered: what a lost result leaves behind
\* is in AtMostOneEvent and SyncConverges.
Answered ==
  budget["crash"] = Budget["crash"] /\ budget["unanswered"] = Budget["unanswered"]

\* Between runs synced_content_hash is the ms_hash of the event it is kept for,
\* so that comparing it with the fixture tells whether the event is current (I6).
RowTellsEvent ==
  \A s \in Subs : Answered /\ Idle(s) =>
    \A f \in LiveRows(s) :
      calendar[row[s][f].event] # None =>
        calendar[row[s][f].event].hash = row[s][f].hash

\* Between runs every event the engine has left in the calendar is the event of
\* a mapping that is not deleted: whatever is aborted, no event is lost sight of.
EventIsTracked ==
  Answered /\ (\A s \in Subs : Idle(s)) =>
    \A e \in EventIds : calendar[e] # None =>
      \E s \in Subs : \E f \in LiveRows(s) : row[s][f].event = e

\* I2: however runs overlap, die or repeat, a fixture has one event.
AtMostOneEvent ==
  \A d, e \in EventIds :
    calendar[d] # None /\ calendar[e] # None /\ calendar[d].app = calendar[e].app => d = e

\* A delete never takes the last event of a fixture that the run read as in
\* scope, that has not changed since and that is not cancelled: neither being
\* unchanged nor being left out of the page counts as being out of scope.
CoveredNeverDeleted ==
  [][\A p \in Procs : Delete(p) =>
       \A f \in run[p].load.scope \ run[p].newer :
         /\ fixture[f].content \notin Cancelled
         /\ \E e \in EventIds : calendar[e] # None /\ calendar[e].app = f
         => \E e \in EventIds : calendar'[e] # None /\ calendar'[e].app = f]_vars

\* The same of every subscription that shares the calendar.
SharedEventsKept ==
  [][\A p \in Procs : Delete(p) =>
       \A s \in Subs : \A f \in InScope(s) :
         f \in fresh[s] \/ \A e \in EventIds :
           row[s][f] # None /\ e = EventOf(row[s][f]) /\ calendar[e] # None => calendar'[e] # None]_vars

\* What a run in this mode would plan if it were started now.
Replans(s, mode) ==
  Plans([ReadBy(s, Candidates(s, mode)) EXCEPT
           !.known  = mode = "reconcile",
           !.remote = IF mode = "reconcile" THEN Listed(open) ELSE @])

\* A run in which every action succeeded, and during which no fixture changed
\* and no event the run had listed or written was deleted by the user.
Undisturbed(p) ==
  /\ run[p].pc = "execute" /\ ~ run[p].aborted /\ run[p].done = Successes(p)
  /\ run[p].newer = {} /\ run[p].load.scope = InScope(run[p].sub)
  /\ \A f \in Fixtures : run[p].load.snap[f] # None =>
       run[p].load.snap[f].content = fixture[f].content
  /\ \A e \in EventIds :
       \/ calendar[e] # None
       \/ run[p].load.remote[e] = None /\ \A r \in run[p].done : r.event # e
       \/ \E r \in run[p].done : r.event = e /\ r.action.type = "delete"

MadeCancelled(p) ==
  \E r \in run[p].done : /\ r.action.type \in {"create", "recreate"}
                         /\ run[p].load.snap[r.action.fixture].content \in Cancelled

\* Once synced, replanning yields the empty plan: a run is idempotent.
FixedPointAlways ==
  [][\A p \in Procs, s \in Subs : Persist(p) /\ Undisturbed(p) /\ run[p].sub = s =>
       \A mode \in {run[p].mode} : \A plan \in Replans(s, mode)' : IsEmpty(plan)]_vars

\* The same of runs that created no event for a cancelled fixture.
FixedPoint ==
  [][\A p \in Procs, s \in Subs :
       Answered /\ Persist(p) /\ Undisturbed(p) /\ run[p].sub = s /\ ~ MadeCancelled(p) =>
       \A mode \in {run[p].mode} : \A plan \in Replans(s, mode)' : IsEmpty(plan)]_vars

\* No run overwrites what a user has made of an event it listed as theirs.
\* docs/sync.md:103, under user_wins.
UserEditKept ==
  [][\A p \in Procs : \A e \in EventIds :
       /\ run[p].pc = "execute" /\ run[p].load.known /\ run'[p] # run[p]
       /\ calendar[e] # None /\ calendar[e].shows # calendar[e].hash
       /\ run[p].load.remote[e] = calendar[e]
       => calendar'[e] = calendar[e]]_vars

\* An unchanged fixture never clobbers a manual edit. docs/sync.md:103.
UnchangedKeepsEdit ==
  [][\A p \in Procs : \A f \in Fixtures :
       /\ run[p].pc = "execute" /\ run'[p] # run[p]
       /\ run[p].load.snap[f] # None /\ run[p].load.rows[f] # None
       /\ run[p].load.rows[f].hash = run[p].load.snap[f].content
       /\ calendar[f] # None /\ calendar[f].shows # calendar[f].hash
       => calendar'[f] = calendar[f]]_vars

-----------------------------------------------------------------------------
\* Liveness

\* The calendar has one event of f, with the content f has.
Shown(f) ==
  LET events == {e \in EventIds : calendar[e] # None /\ calendar[e].app = f} IN
  Cardinality(events) = 1 /\ \A e \in events : calendar[e].hash = fixture[f].content

Blocked(s, f) == failures[s][f] = MaxItemRetries

\* Every fixture in scope ends up in the calendar once and as it is, with an
\* up-to-date mapping, or out of retries.
SyncConverges ==
  <>[](\A s \in Subs : \A f \in InScope(s) :
          Blocked(s, f) \/ (Shown(f) /\ UpToDate(s, f)))

\* I3: no event of a fixture out of scope stays in the calendar.
OrphansLeave ==
  <>[](\A e \in EventIds : calendar[e] # None =>
         \E s \in Subs : calendar[e].app \in InScope(s))
=============================================================================
