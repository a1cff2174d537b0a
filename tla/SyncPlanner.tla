----------------------------- MODULE SyncPlanner -----------------------------
(***************************************************************************)
(* The pure half of the synchronization engine: the diff rules             *)
(* (domain/sync/diff.py) and the planner (domain/sync/planner.py).  Both   *)
(* are functions of what one run has loaded; nothing here has state.       *)
(*                                                                         *)
(* A fixture stands for its id, its identity_key (ms_id) and the event id  *)
(* derived from that key.  A content stands for a content_hash and so for  *)
(* all it digests: kick-off time, status, venue.  MINOR and MAJOR updates  *)
(* issue the same PATCH and are one verdict.                               *)
(***************************************************************************)
EXTENDS Integers, FiniteSets

CONSTANTS
  Fixtures,         \* persisted fixtures
  Contents,         \* content hashes
  Cancelled,        \* the contents whose status is CANCELLED
  MadeIds,          \* event ids the calendar assigns when none is given,
  MadeFor,          \* and the fixture of the event each is assigned to, if it ever is
  None,             \* no row, no event, no fixture
  ConflictPolicy,   \* "fixture_wins" or "user_wins"
  CancelledPolicy,  \* "annotate" or "delete"
  MaxActions        \* sync_max_actions

EventIds == Fixtures \cup MadeIds

ASSUME PlannerAssumption ==
  /\ Cancelled \subseteq Contents
  /\ None \notin EventIds \cup Contents
  /\ Fixtures \cap MadeIds = {}
  /\ MadeFor \in [MadeIds -> Fixtures]
  /\ ConflictPolicy \in {"fixture_wins", "user_wins"}
  /\ CancelledPolicy \in {"annotate", "delete"}
  /\ MaxActions \in Nat

SyncMode == {"incremental", "full", "reconcile"}

\* FixtureSnapshot, EventMapping (a calendar_events row) and RemoteEvent; what
\* an event shows differs from its ms_hash once the user has edited it.
Snapshot == [content : Contents, gone : BOOLEAN]
Mapping  == [event : EventIds \cup {None}, hash : Contents,
             state : {"active", "cancelled", "deleted"}, deleted : BOOLEAN]
Remote   == [app : Fixtures, hash : Contents, shows : Contents]

ASSUME NoneAssumption == None \notin Snapshot \cup Mapping \cup Remote

IsActive(m)    == m # None /\ m.state = "active" /\ ~ m.deleted
IsConfirmed(m) == m # None /\ m.event # None

-----------------------------------------------------------------------------
\* The diff engine

UserEdited(m, remote) == remote # None /\ remote.hash # m.hash

\* diff: the rules in their order, the first that applies decides.
Verdict(f, m, remote, remoteKnown) ==
  IF f.gone THEN IF IsActive(m) /\ IsConfirmed(m) THEN "delete" ELSE "no_op"
  ELSE IF m = None \/ m.deleted THEN "create"
  ELSE IF ~ IsConfirmed(m) THEN "recreate"
  ELSE IF remoteKnown /\ remote = None THEN "recreate"
  ELSE IF UserEdited(m, remote) /\ ConflictPolicy = "user_wins" THEN "conflict"
  ELSE IF m.hash = f.content
    THEN IF f.content \in Cancelled /\ m.state # "cancelled" THEN "cancel" ELSE "no_op"
  ELSE IF f.content \notin Cancelled THEN "update"
  ELSE IF CancelledPolicy = "delete" THEN "delete" ELSE "cancel"

-----------------------------------------------------------------------------
\* The planner.  load is what a run has read: snap, the snapshots of the loaded
\* fixtures; rows, the subscription's undeleted mappings; scope, the fixtures
\* still in scope; blocked, those over their retry budget; remote, the listed
\* events, or nothing unless known.

ActionType == {"create", "recreate", "update", "cancel", "conflict", "delete", "no_op"}
Action == [type : ActionType, fixture : Fixtures \cup {None}, mapped : BOOLEAN,
           event : EventIds \cup {None}, stage : {"first", "repair", "remake"}]

Rank == [create |-> 0, recreate |-> 1, update |-> 2, cancel |-> 3,
         conflict |-> 5, delete |-> 6, no_op |-> 7]
Mutates(a) == a.type \notin {"no_op", "conflict"}
IsEmpty(plan) == \A a \in plan : ~ Mutates(a)

Loaded(load) == {f \in Fixtures : load.snap[f] # None}
EventOf(m) == IF m = None THEN None ELSE m.event
EventsOf(load, f) == {e \in EventIds : load.remote[e] # None /\ load.remote[e].app = f}

ActionOn(load, type, f) ==
  [type |-> type, fixture |-> f, mapped |-> load.rows[f] # None,
   event |-> EventOf(load.rows[f]), stage |-> "first"]

\* The remote event a fixture is compared with: the mapped one, else any.
Canonical(load, f) ==
  LET found == EventsOf(load, f) IN
  IF EventOf(load.rows[f]) \in found THEN load.remote[EventOf(load.rows[f])]
  ELSE IF found = {} THEN None
  ELSE load.remote[CHOOSE e \in found : TRUE]

\* Pass 1: one verdict per loaded fixture, or CONFLICT when it is blocked.
FixtureActions(load) ==
  {ActionOn(load,
            IF f \in load.blocked THEN "conflict"
            ELSE Verdict(load.snap[f], load.rows[f], Canonical(load, f),
                         load.known /\ IsConfirmed(load.rows[f])),
            f) : f \in Loaded(load)}

\* Mutant of PruneActions: what was not loaded counts as out of scope.
PruneUnloaded(load) ==
  {ActionOn(load, "delete", f) :
     f \in {g \in Fixtures \ Loaded(load) :
              IsActive(load.rows[g]) /\ IsConfirmed(load.rows[g])}}

\* Pass 2: mappings whose fixture has left the scope are deleted.
PruneActions(load) ==
  {ActionOn(load, "delete", f) :
     f \in {g \in Fixtures \ (load.scope \cup Loaded(load)) :
              IsActive(load.rows[g]) /\ IsConfirmed(load.rows[g])}}

\* Pass 3: of several events of one fixture all but one go, and so does every
\* event whose fixture was not loaded.
Keeper(load, f) ==
  LET mapped == EventsOf(load, f) \cap {EventOf(load.rows[g]) : g \in Fixtures} IN
  CHOOSE e \in EventsOf(load, f) : mapped # {} => e \in mapped

\* Mutant of StrayEvents: duplicates stay.
StrayOrphans(load) ==
  {e \in EventIds : load.remote[e] # None /\ load.remote[e].app \notin Loaded(load)}

StrayEvents(load) ==
  {e \in EventIds : load.remote[e] # None
                      /\ \/ e # Keeper(load, load.remote[e].app)
                         \/ load.remote[e].app \notin Loaded(load)}

RemoveStray(e) == [type |-> "delete", fixture |-> None, mapped |-> FALSE,
                   event |-> e, stage |-> "first"]

\* _dedupe: an event already deleted through its mapping is not deleted again.
AllActions(load) ==
  LET first   == FixtureActions(load) \cup PruneActions(load)
      removed == {a.event : a \in {b \in first : b.type = "delete"}} IN
  first \cup {RemoveStray(e) : e \in StrayEvents(load) \ removed}

\* A plan longer than max_actions keeps its first mutations only; which of those
\* of one rank come first is abstracted to any.
Truncations(actions) ==
  LET mutations == {a \in actions : Mutates(a)} IN
  IF Cardinality(actions) <= MaxActions THEN {actions}
  ELSE IF Cardinality(mutations) <= MaxActions THEN {mutations}
  ELSE {kept \in SUBSET mutations :
          /\ Cardinality(kept) = MaxActions
          /\ \A a \in kept, b \in mutations \ kept : Rank[a.type] <= Rank[b.type]}

Plans(load) == Truncations(AllActions(load))
=============================================================================
