---------------------------- MODULE FixtureProofs ----------------------------
(***************************************************************************)
(* Imports of fixtures, for every instance of FixtureIngestion: the        *)
(* fixtures table refines FixtureTable, and the history of a fixture has   *)
(* no gap and tells its row, however many imports overlap.  When they do   *)
(* not overlap, one flaky payload removes no fixture.                      *)
(*                                                                         *)
(* The argument: an update is planned for the version after the one read.  *)
(* If the row has moved on since, the history already has that version and *)
(* the unique key (fixture, version) stops the transaction; so an update   *)
(* that is written meets the very row it was planned against.              *)
(***************************************************************************)
EXTENDS FixtureIngestion, TLAPS

-----------------------------------------------------------------------------
\* The invariant

Payload == UNION {[D -> SUBSET (ErrorCodes \cup WarningCodes)] : D \in SUBSET Record}

Import ==
  [pc : {"idle", "open", "fetched", "planned", "aborted"}, status : ImportStatus,
   window : SUBSET Slots, todo : SUBSET Competitions, comp : Competitions \cup {None},
   payload : Payload, inserts : SUBSET Insertion, updates : SUBSET Update,
   done : SUBSET Competitions, failed : SUBSET Competitions, invalid : BOOLEAN]

Typed ==
  /\ feed \in [Pids -> Record \cup {None}]
  /\ fixture \in [Ids -> Row \cup {None}]
  /\ history \subseteq Version
  /\ catalog \subseteq Teams
  /\ now \in 1 .. Len(Windows)
  /\ imp \in [Runs -> Import]
  /\ \A r \in Runs : imp[r].failed \subseteq imp[r].done
  /\ \A r \in Runs : imp[r].pc \in {"fetched", "planned"} => imp[r].comp \in Competitions
  /\ budget \in [Events -> Nat] /\ \A e \in Events : budget[e] <= Budget[e]

\* A row that is not deleted has a status of its own.
StatusOfRows ==
  \A i \in Ids : fixture[i] # None /\ ~ fixture[i].deleted => fixture[i].status \in FixtureStatus

\* An update was planned against this row, or against an earlier version of it.
PlannedFor(u, row) ==
  /\ row # None
  /\ u.kind = "remove" => u.old.id = u.id /\ u.old.version = u.version
  /\ u.kind # "mark" =>
       /\ row.version >= u.version - 1
       /\ row.version = u.version - 1 =>
            /\ u.kind = "revise" => ~ Stale(u.new, row)
            /\ u.kind = "remove" => row.missing

UpdatesPlanned == \A r \in Runs : \A u \in imp[r].updates : PlannedFor(u, fixture[u.id])

\* Rows to be inserted have ids of their own.
InsertsFresh ==
  /\ \A r \in Runs : \A n \in imp[r].inserts : fixture[n.id] = None
  /\ \A p, r \in Runs : \A m \in imp[p].inserts, n \in imp[r].inserts :
       m.id = n.id => p = r /\ m = n

IngestInv == Typed /\ HistoryTellsRow /\ StatusOfRows /\ UpdatesPlanned /\ InsertsFresh

\* What an update is, by its kind.
LEMMA UpdateKinds ==
  ASSUME NEW u \in Update
  PROVE  /\ u.id \in Ids /\ u.kind \in {"revise", "mark", "remove"}
         /\ u.kind # "mark" => u.version \in Nat \ {0}
         /\ u.kind = "revise" => u.new \in Candidate /\ u.change \in ChangeTypes
         /\ u.kind = "remove" => u.old \in Version
  BY DEF Update

LEMMA FreshIsRow ==
  ASSUME NEW x \in Candidate
  PROVE  /\ FreshRow(x) \in Row /\ FreshRow(x).version = 1
         /\ ~ FreshRow(x).deleted /\ ~ FreshRow(x).missing
         /\ FreshRow(x).status \in FixtureStatus /\ FreshRow(x).rev = x.rev
         /\ FreshRow(x).slot = x.slot /\ FreshRow(x).status = x.status
         /\ FreshRow(x).teams = x.teams
  <1>1. /\ x.comp \in Competitions /\ x.pid \in Pids /\ x.sides \in SUBSET Teams
        /\ x.slot \in Slots /\ x.status \in Statuses /\ x.rev \in Nat
        /\ x.teams \in SUBSET Teams
    BY DEF Candidate
  <1>2. x.status \in FixtureStatus
    BY <1>1, MatchingAssumption
  <1> QED
    BY <1>1, <1>2 DEF FreshRow, Row

-----------------------------------------------------------------------------
\* Persistence

\* What one transaction makes of a row: nothing, its creation or one update.
RowStep(i, inserts, updates) ==
  \/ fixture'[i] = fixture[i]
  \/ /\ fixture[i] = None
     /\ \E n \in Inserted(inserts) : n.id = i /\ fixture'[i] = FreshRow(n.new)
  \/ /\ fixture[i] # None
     /\ \E u \in updates : u.id = i /\ fixture'[i] = Updated(fixture[i], u)

LEMMA PersistRows ==
  ASSUME IngestInv, NEW r \in Runs, Persist(r)
  PROVE  /\ DOMAIN fixture' = Ids
         /\ \A i \in Ids : RowStep(i, imp[r].inserts, imp[r].updates)
  <1> DEFINE ins == imp[r].inserts  ups == imp[r].updates
  <1>1. PICK rejected : fixture' = AfterUpdates(WithInserted(ins), ups \ rejected)
    BY DEF Persist
  <1>2. \A u \in ups : fixture[u.id] # None
    BY DEF IngestInv, UpdatesPlanned, PlannedFor
  <1>3. \A n \in Inserted(ins) : n \in ins /\ fixture[n.id] = None
    BY DEF Inserted, IngestInv, InsertsFresh
  <1>4. DOMAIN fixture' = Ids
    BY <1>1 DEF AfterUpdates
  <1>5. ASSUME NEW i \in Ids
        PROVE  RowStep(i, ins, ups)
    <2> DEFINE row == WithInserted(ins)[i]
    <2>1. row = IF \E n \in Inserted(ins) : n.id = i
                THEN FreshRow((CHOOSE n \in Inserted(ins) : n.id = i).new)
                ELSE fixture[i]
      BY DEF WithInserted
    <2>2. fixture'[i] = IF \E u \in ups \ rejected : u.id = i
                        THEN Updated(row, CHOOSE u \in ups \ rejected : u.id = i)
                        ELSE row
      BY <1>1 DEF AfterUpdates
    <2> HIDE DEF ins, ups, row
    <2>3. CASE \E u \in ups \ rejected : u.id = i
      <3>1. PICK u \in ups : u.id = i /\ fixture'[i] = Updated(row, u)
        BY <2>2, <2>3
      <3>2. row = fixture[i]
        BY <1>2, <1>3, <2>1, <3>1
      <3> QED
        BY <1>2, <3>1, <3>2 DEF RowStep
    <2>4. CASE ~ \E u \in ups \ rejected : u.id = i
      <3>1. fixture'[i] = row
        BY <2>2, <2>4
      <3>2. CASE \E n \in Inserted(ins) : n.id = i
        <4>1. PICK n \in Inserted(ins) : n.id = i /\ row = FreshRow(n.new)
          BY <2>1, <3>2
        <4> QED
          BY <1>3, <3>1, <4>1 DEF RowStep
      <3>3. CASE ~ \E n \in Inserted(ins) : n.id = i
        BY <2>1, <3>1, <3>3 DEF RowStep
      <3> QED
        BY <3>2, <3>3
    <2> QED
      BY <2>3, <2>4
  <1> QED
    BY <1>4, <1>5

\* An update that is written meets the row it was planned against.
LEMMA PlannedVersion ==
  ASSUME IngestInv, NEW r \in Runs, Persist(r), NEW u \in imp[r].updates, u.kind # "mark"
  PROVE  /\ u \in Update /\ fixture[u.id] \in Row
         /\ fixture[u.id].version = u.version - 1
         /\ u.kind = "revise" => ~ Stale(u.new, fixture[u.id])
         /\ u.kind = "remove" => fixture[u.id].missing
  <1>1. u \in Update
    BY DEF IngestInv, Typed, Import
  <1>2. u.id \in Ids /\ u.version \in Nat \ {0}
    BY <1>1, UpdateKinds
  <1>3. fixture[u.id] # None /\ fixture[u.id].version >= u.version - 1
    BY DEF IngestInv, UpdatesPlanned, PlannedFor
  <1>4. fixture[u.id] \in Row /\ fixture[u.id].version \in Nat \ {0}
    BY <1>2, <1>3 DEF IngestInv, Typed, Row
  <1>5. \A h \in history : h.id # u.id \/ h.version # u.version
    <2> DEFINE v == IF u.kind = "revise" THEN SnapshotOf(u.id, u.version, u.change, u.new)
                    ELSE u.old
    <2>1. v \in VersionRows(imp[r].inserts, imp[r].updates)
      BY DEF VersionRows, RevisedRows
    <2>2. \A h \in history : h.id # v.id \/ h.version # v.version
      BY <2>1 DEF Persist, VersionsFree
    <2>3. v.id = u.id /\ v.version = u.version
      <3>1. CASE u.kind = "revise"
        BY <3>1 DEF SnapshotOf
      <3>2. CASE u.kind # "revise"
        BY <1>1, <3>2, UpdateKinds DEF IngestInv, UpdatesPlanned, PlannedFor
      <3> QED
        BY <3>1, <3>2
    <2> QED
      BY <2>2, <2>3
  <1>6. ~ (u.version \in 1 .. fixture[u.id].version)
    BY <1>2, <1>3, <1>5 DEF IngestInv, HistoryTellsRow
  <1>7. fixture[u.id].version = u.version - 1
    BY <1>2, <1>3, <1>4, <1>6
  <1> QED
    BY <1>1, <1>4, <1>7 DEF IngestInv, UpdatesPlanned, PlannedFor

-----------------------------------------------------------------------------
\* Steps of one import

\* An import as a step leaves it.
ImportSound(m) ==
  /\ m \in Import /\ m.failed \subseteq m.done
  /\ m.pc \in {"fetched", "planned"} => m.comp \in Competitions

LEMMA ImportsSound ==
  ASSUME Typed, NEW r \in Runs
  PROVE  ImportSound(imp[r])
  BY DEF Typed, ImportSound

LEMMA Spending ==
  ASSUME Typed, NEW e \in Events, Spend(e)
  PROVE  budget' \in [Events -> Nat] /\ \A f \in Events : budget'[f] <= Budget[f]
  <1>1. budget[e] \in Nat /\ budget[e] > 0 /\ Budget[e] \in Nat /\ budget[e] <= Budget[e]
    BY IngestionAssumption DEF Typed, Spend
  <1>2. budget' = [budget EXCEPT ![e] = budget[e] - 1] /\ budget[e] - 1 \in Nat
    BY <1>1 DEF Spend
  <1>3. \A f \in Events : budget'[f] = IF f = e THEN budget[e] - 1 ELSE budget[f]
    BY <1>2 DEF Typed
  <1>4. budget' \in [Events -> Nat]
    BY <1>2 DEF Typed
  <1>5. \A f \in Events : budget'[f] <= Budget[f]
    BY <1>1, <1>3 DEF Typed
  <1> QED
    BY <1>4, <1>5

\* A step that leaves the tables alone and plans nothing new keeps the invariant.
LEMMA PlanlessStep ==
  ASSUME IngestInv, NEW r \in Runs, NEW m, ImportSound(m),
         imp' = [imp EXCEPT ![r] = m],
         m.inserts \subseteq imp[r].inserts, m.updates \subseteq imp[r].updates,
         budget' \in [Events -> Nat], \A e \in Events : budget'[e] <= Budget[e],
         UNCHANGED <<feed, fixture, history, catalog, now>>
  PROVE  IngestInv'
  <1>1. \A p \in Runs : imp'[p] = IF p = r THEN m ELSE imp[p]
    BY DEF IngestInv, Typed
  <1>2. imp' \in [Runs -> Import]
    BY DEF IngestInv, Typed, ImportSound
  <1>3. Typed'
    BY <1>1, <1>2 DEF IngestInv, Typed, ImportSound
  <1>4. UpdatesPlanned'
    BY <1>1 DEF IngestInv, UpdatesPlanned
  <1>5. InsertsFresh'
    BY <1>1 DEF IngestInv, InsertsFresh
  <1>6. HistoryTellsRow' /\ StatusOfRows'
    BY DEF IngestInv, HistoryTellsRow, StatusOfRows
  <1> QED
    BY <1>3, <1>4, <1>5, <1>6 DEF IngestInv

LEMMA IdleIsImport ==
  /\ IdleImport \in Import
  /\ IdleImport.inserts = {} /\ IdleImport.updates = {}
  /\ IdleImport.pc = "idle" /\ IdleImport.failed = IdleImport.done
  <1>1. NoPayload \in [{} -> SUBSET (ErrorCodes \cup WarningCodes)]
    BY DEF NoPayload
  <1>2. NoPayload \in Payload
    BY <1>1 DEF Payload
  <1> QED
    BY <1>2 DEF Import, IdleImport, ImportStatus

LEMMA StartKeeps ==
  ASSUME IngestInv, NEW r \in Runs, NEW scope \in Scopes, Start(r, scope)
  PROVE  IngestInv'
  <1> DEFINE m == [IdleImport EXCEPT !.pc = "open", !.status = "running",
                                     !.todo = scope, !.window = Windows[now]]
  <1>1. Windows[now] \in SUBSET Slots /\ scope \in SUBSET Competitions
    BY IngestionAssumption DEF IngestInv, Typed
  <1>4. imp' = [imp EXCEPT ![r] = m]
    BY DEF Start
  <1>5. ImportSound(m) /\ m.inserts = {} /\ m.updates = {}
    BY <1>1, IdleIsImport DEF ImportSound, Import, ImportStatus
  <1>6. budget' \in [Events -> Nat] /\ \A e \in Events : budget'[e] <= Budget[e]
    <2>1. CASE Endless
      BY <2>1 DEF Start, IngestInv, Typed
    <2>2. CASE ~ Endless
      BY <2>2, Spending DEF Start, IngestInv, Events
    <2> QED
      BY <2>1, <2>2
  <1>7. UNCHANGED <<feed, fixture, history, catalog, now>>
    BY DEF Start
  <1> HIDE DEF m
  <1> QED
    BY <1>4, <1>5, <1>6, <1>7, PlanlessStep

LEMMA CrashKeeps ==
  ASSUME IngestInv, NEW r \in Runs, Crash(r)
  PROVE  IngestInv'
  <1> DEFINE m == [IdleImport EXCEPT !.pc = "aborted", !.status = "running"]
  <1>3. imp' = [imp EXCEPT ![r] = m] /\ UNCHANGED <<feed, fixture, history, catalog, now>>
    BY DEF Crash
  <1>4. ImportSound(m) /\ m.inserts = {} /\ m.updates = {}
    BY IdleIsImport DEF ImportSound, Import, ImportStatus
  <1>5. budget' \in [Events -> Nat] /\ \A e \in Events : budget'[e] <= Budget[e]
    BY Spending DEF Crash, IngestInv, Events
  <1> HIDE DEF m
  <1> QED
    BY <1>3, <1>4, <1>5, PlanlessStep

LEMMA FinishKeeps ==
  ASSUME IngestInv, NEW r \in Runs, Finish(r)
  PROVE  IngestInv'
  <1> DEFINE m == [IdleImport EXCEPT !.status = Outcome(imp[r])]
  <1>1. Outcome(imp[r]) \in ImportStatus
    BY DEF Outcome, ImportStatus
  <1>4. imp' = [imp EXCEPT ![r] = m] /\ UNCHANGED <<feed, fixture, history, catalog, now>>
    BY DEF Finish
  <1>5. ImportSound(m) /\ m.inserts = {} /\ m.updates = {}
    BY <1>1, IdleIsImport DEF ImportSound, Import
  <1>6. budget' \in [Events -> Nat] /\ \A e \in Events : budget'[e] <= Budget[e]
    BY DEF Finish, IngestInv, Typed
  <1> HIDE DEF m
  <1> QED
    BY <1>4, <1>5, <1>6, PlanlessStep

LEMMA PersistAbortsKeeps ==
  ASSUME IngestInv, NEW r \in Runs, PersistAborts(r)
  PROVE  IngestInv'
  <1> DEFINE m == [imp[r] EXCEPT !.pc = "aborted", !.inserts = {}, !.updates = {}]
  <1>1. ImportSound(imp[r])
    BY ImportsSound DEF IngestInv
  <1>2. imp' = [imp EXCEPT ![r] = m] /\ UNCHANGED <<feed, fixture, history, catalog, now>>
    BY <1>1 DEF PersistAborts, IngestInv, Typed
  <1>3. ImportSound(m) /\ m.inserts = {} /\ m.updates = {}
    BY <1>1 DEF ImportSound, Import
  <1>4. budget' \in [Events -> Nat] /\ \A e \in Events : budget'[e] <= Budget[e]
    BY DEF PersistAborts, IngestInv, Typed
  <1> HIDE DEF m
  <1> QED
    BY <1>2, <1>3, <1>4, PlanlessStep

LEMMA FetchFailsKeeps ==
  ASSUME IngestInv, NEW r \in Runs, NEW c \in Competitions, FetchFails(r, c)
  PROVE  IngestInv'
  <1> DEFINE m == [imp[r] EXCEPT !.todo = @ \ {c}, !.done = @ \cup {c}, !.failed = @ \cup {c}]
  <1>1. ImportSound(imp[r])
    BY ImportsSound DEF IngestInv
  <1>2. imp' = [imp EXCEPT ![r] = m] /\ UNCHANGED <<feed, fixture, history, catalog, now>>
    BY <1>1 DEF FetchFails, IngestInv, Typed
  <1>3. ImportSound(m) /\ m.inserts = imp[r].inserts /\ m.updates = imp[r].updates
    BY <1>1 DEF ImportSound, Import
  <1>4. budget' \in [Events -> Nat] /\ \A e \in Events : budget'[e] <= Budget[e]
    BY Spending DEF FetchFails, IngestInv, Events
  <1> HIDE DEF m
  <1> QED
    BY <1>2, <1>3, <1>4, PlanlessStep

\* An answer lacks some of the records and spoils others.
LEMMA AnswerShape ==
  ASSUME IngestInv, NEW r \in Runs, NEW c \in Competitions, Fetch(r, c), NEW answer \in Answers(c)
  PROVE  \E lost \in SUBSET Published(c), spoiled \in SUBSET Published(c), issues \in IssueSamples :
           answer = [lost |-> lost,
                     payload |-> [x \in Published(c) \ lost |-> IF x \in spoiled THEN issues ELSE {}]]
  BY DEF Answers

LEMMA FetchKeeps ==
  ASSUME IngestInv, NEW r \in Runs, NEW c \in Competitions, Fetch(r, c)
  PROVE  IngestInv'
  <1>1. PICK answer \in Answers(c) :
          /\ IF answer.lost = {} /\ Spoiled(answer.payload) = {}
             THEN UNCHANGED budget ELSE Spend("flake")
          /\ imp' = [imp EXCEPT
               ![r].pc = "fetched", ![r].comp = c, ![r].payload = answer.payload, ![r].todo = @ \ {c},
               ![r].invalid = @ \/ \E x \in DOMAIN answer.payload : HasErrors(answer.payload[x])]
    BY DEF Fetch
  <1> DEFINE bad == \E x \in DOMAIN answer.payload : HasErrors(answer.payload[x])
             m == [imp[r] EXCEPT !.pc = "fetched", !.comp = c, !.payload = answer.payload,
                                 !.todo = @ \ {c}, !.invalid = @ \/ bad]
  <1>2. answer.payload \in Payload
    <2>1. PICK lost \in SUBSET Published(c), spoiled \in SUBSET Published(c), issues \in IssueSamples :
            answer = [lost |-> lost,
                      payload |-> [x \in Published(c) \ lost |-> IF x \in spoiled THEN issues ELSE {}]]
      BY AnswerShape
    <2>2. Published(c) \subseteq Record
      BY DEF Published, IngestInv, Typed
    <2>3. issues \in SUBSET (ErrorCodes \cup WarningCodes)
      BY IngestionAssumption
    <2>4. answer.payload \in [Published(c) \ lost -> SUBSET (ErrorCodes \cup WarningCodes)]
      BY <2>1, <2>3
    <2> QED
      BY <2>2, <2>4 DEF Payload
  <1>3. ImportSound(imp[r])
    BY ImportsSound DEF IngestInv
  <1>4. imp' = [imp EXCEPT ![r] = m]
    BY <1>1, <1>3 DEF IngestInv, Typed
  <1>5. bad \in BOOLEAN
    OBVIOUS
  <1> HIDE DEF bad
  <1>6. ImportSound(m) /\ m.inserts = imp[r].inserts /\ m.updates = imp[r].updates
    BY <1>2, <1>3, <1>5 DEF ImportSound, Import
  <1>7. budget' \in [Events -> Nat] /\ \A e \in Events : budget'[e] <= Budget[e]
    <2>1. CASE UNCHANGED budget
      BY <2>1 DEF IngestInv, Typed
    <2>2. CASE Spend("flake")
      BY <2>2, Spending DEF IngestInv, Events
    <2> QED
      BY <1>1, <2>1, <2>2
  <1>8. UNCHANGED <<feed, fixture, history, catalog, now>>
    BY DEF Fetch
  <1> HIDE DEF m
  <1> QED
    BY <1>4, <1>6, <1>7, <1>8, PlanlessStep

-----------------------------------------------------------------------------
\* The comparison

LEMMA Snapshots ==
  ASSUME NEW i \in Ids, NEW v \in Nat \ {0}, NEW change \in ChangeTypes, NEW x,
         x.slot \in Slots, x.status \in FixtureStatus, x.teams \in SUBSET Teams, x.rev \in Nat
  PROVE  SnapshotOf(i, v, change, x) \in Version
  BY DEF SnapshotOf, Version

LEMMA Changes ==
  ASSUME NEW row, NEW x
  PROVE  ChangeType(row, x) \in ChangeTypes
  BY DEF ChangeType, ChangeTypes

LEMMA KeptCandidates ==
  ASSUME IngestInv, NEW r \in Runs,
         NEW kept \in Deduped({Resolve(x, catalog) : x \in Usable(imp[r].payload, imp[r].window)})
  PROVE  kept \subseteq Candidate
  <1>1. DOMAIN imp[r].payload \subseteq Record
    BY DEF IngestInv, Typed, Import, Payload
  <1>2. Usable(imp[r].payload, imp[r].window) \subseteq Record
    BY <1>1 DEF Usable
  <1>3. \A x \in Record : Resolve(x, catalog) \in Candidate
    BY DEF Resolve, Record, Candidate
  <1> QED
    BY <1>2, <1>3 DEF Deduped

\* The update planned for a row says so.
LEMMA RevisionsPlanned ==
  ASSUME IngestInv, NEW kept \in SUBSET Candidate, NEW target \in [kept -> Ids \cup {None}],
         NEW existing \in SUBSET Ids, \A i \in existing : fixture[i] # None,
         \A x \in kept : target[x] \in Targets(x, existing, fixture),
         NEW u \in Revisions(target)
  PROVE  u \in Update /\ PlannedFor(u, fixture[u.id])
  <1>1. PICK x \in kept :
          /\ target[x] # None /\ ~ Stale(x, fixture[target[x]])
          /\ u = [id |-> target[x], kind |-> "revise", version |-> fixture[target[x]].version + 1,
                  new |-> x, change |-> ChangeType(fixture[target[x]], x)]
    BY DEF Revisions
  <1>2. target[x] \in existing
    BY <1>1 DEF Targets
  <1>3. fixture[target[x]] # None /\ fixture[target[x]].version \in Nat \ {0}
    BY <1>2 DEF IngestInv, Typed, Row
  <1>4. target[x] \in Ids /\ fixture[target[x]].version + 1 \in Nat \ {0}
    BY <1>2, <1>3
  <1>5. ChangeType(fixture[target[x]], x) \in ChangeTypes
    BY Changes
  <1>6. u \in Update
    BY <1>1, <1>4, <1>5 DEF Update
  <1>7. /\ u.id = target[x] /\ u.kind = "revise" /\ u.new = x
        /\ u.version = fixture[target[x]].version + 1
    BY <1>1
  <1>8. fixture[target[x]].version >= fixture[target[x]].version + 1 - 1
    BY <1>3
  <1> QED
    BY <1>1, <1>3, <1>6, <1>7, <1>8 DEF PlannedFor

LEMMA AbsencesPlanned ==
  ASSUME IngestInv, NEW missed \in SUBSET Ids,
         \A i \in missed : fixture[i] # None /\ ~ fixture[i].deleted,
         NEW u \in Absences(missed)
  PROVE  u \in Update /\ PlannedFor(u, fixture[u.id])
  <1>1. CASE \E i \in missed : u = [id |-> i, kind |-> "mark"]
    <2>1. PICK i \in missed : u = [id |-> i, kind |-> "mark"]
      BY <1>1
    <2>2. u \in Update /\ u.id = i /\ u.kind = "mark"
      BY <2>1 DEF Update
    <2> QED
      BY <2>2 DEF PlannedFor
  <1>2. CASE \E i \in missed : /\ fixture[i].missing
                               /\ u = [id |-> i, kind |-> "remove", version |-> fixture[i].version + 1,
                                       old |-> SnapshotOf(i, fixture[i].version + 1, "deleted", fixture[i])]
    <2>1. PICK i \in missed : /\ fixture[i].missing
                              /\ u = [id |-> i, kind |-> "remove", version |-> fixture[i].version + 1,
                                      old |-> SnapshotOf(i, fixture[i].version + 1, "deleted", fixture[i])]
      BY <1>2
    <2>2. /\ fixture[i] # None /\ fixture[i].version \in Nat \ {0} /\ fixture[i].slot \in Slots
          /\ fixture[i].teams \in SUBSET Teams /\ fixture[i].rev \in Nat
      BY DEF IngestInv, Typed, Row
    <2>3. fixture[i].status \in FixtureStatus
      BY DEF IngestInv, StatusOfRows
    <2>4. fixture[i].version + 1 \in Nat \ {0} /\ fixture[i].version >= fixture[i].version + 1 - 1
      BY <2>2
    <2>5. SnapshotOf(i, fixture[i].version + 1, "deleted", fixture[i]) \in Version
      BY <2>2, <2>3, <2>4, Snapshots DEF ChangeTypes
    <2>6. u \in Update
      BY <2>1, <2>4, <2>5 DEF Update
    <2>7. /\ u.id = i /\ u.kind = "remove" /\ u.version = fixture[i].version + 1
          /\ u.old.id = i /\ u.old.version = fixture[i].version + 1
      BY <2>1 DEF SnapshotOf
    <2> QED
      BY <2>1, <2>2, <2>4, <2>6, <2>7 DEF PlannedFor
  <1> QED
    BY <1>1, <1>2 DEF Absences

LEMMA CompareKeeps ==
  ASSUME IngestInv, NEW r \in Runs, Compare(r)
  PROVE  IngestInv'
  <1> DEFINE existing == ForMatching(imp[r].comp, imp[r].window)
             Ins(id, new) == {[id |-> id[x], new |-> x] : x \in new}
  <1>0. PICK kept \in Deduped({Resolve(x, catalog) : x \in Usable(imp[r].payload, imp[r].window)}) :
          \E target \in [kept -> Ids \cup {None}] :
            /\ \A x \in kept : target[x] \in Targets(x, existing, fixture)
            /\ LET new    == {x \in kept : target[x] = None}
                   missed == {i \in existing : /\ ~ fixture[i].deleted
                                               /\ \A x \in kept : target[x] # i} IN
               \E id \in [new -> FirstUnused(Cardinality(new))] :
                 /\ \A x, y \in new : id[x] = id[y] => x = y
                 /\ imp' = [imp EXCEPT ![r].pc = "planned", ![r].payload = NoPayload,
                              ![r].inserts = {[id |-> id[x], new |-> x] : x \in new},
                              ![r].updates = Revisions(target) \cup Absences(missed)]
    BY DEF Compare
  <1>1. PICK target \in [kept -> Ids \cup {None}] :
          /\ \A x \in kept : target[x] \in Targets(x, existing, fixture)
          /\ LET new    == {x \in kept : target[x] = None}
                 missed == {i \in existing : /\ ~ fixture[i].deleted
                                             /\ \A x \in kept : target[x] # i} IN
             \E id \in [new -> FirstUnused(Cardinality(new))] :
               /\ \A x, y \in new : id[x] = id[y] => x = y
               /\ imp' = [imp EXCEPT ![r].pc = "planned", ![r].payload = NoPayload,
                            ![r].inserts = {[id |-> id[x], new |-> x] : x \in new},
                            ![r].updates = Revisions(target) \cup Absences(missed)]
    BY <1>0
  <1> DEFINE new    == {x \in kept : target[x] = None}
             missed == {i \in existing : ~ fixture[i].deleted /\ \A x \in kept : target[x] # i}
             ups    == Revisions(target) \cup Absences(missed)
  <1>2. PICK id \in [new -> FirstUnused(Cardinality(new))] :
          /\ \A x, y \in new : id[x] = id[y] => x = y
          /\ imp' = [imp EXCEPT ![r].pc = "planned", ![r].payload = NoPayload,
                       ![r].inserts = Ins(id, new), ![r].updates = ups]
    BY <1>1
  <1>3. kept \subseteq Candidate
    BY KeptCandidates
  <1>4. existing \in SUBSET Ids /\ \A i \in existing : fixture[i] # None
    BY DEF ForMatching
  <1>5. missed \in SUBSET Ids /\ \A i \in missed : fixture[i] # None /\ ~ fixture[i].deleted
    BY <1>4
  <1>6. \A u \in Revisions(target) : u \in Update /\ PlannedFor(u, fixture[u.id])
    <2> HIDE DEF existing
    <2> QED
      BY <1>1, <1>3, <1>4, RevisionsPlanned
  <1>7. \A u \in Absences(missed) : u \in Update /\ PlannedFor(u, fixture[u.id])
    <2> HIDE DEF missed
    <2> QED
      BY <1>5, AbsencesPlanned
  <1> HIDE DEF ups
  <1>8. \A u \in ups : u \in Update /\ PlannedFor(u, fixture[u.id])
    BY <1>6, <1>7 DEF ups
  <1>9. \A x \in new : id[x] \in Unused
    BY DEF FirstUnused
  <1>10. new \subseteq Candidate
    BY <1>3
  <1> HIDE DEF new
  <1>11. \A n \in Ins(id, new) : \E x \in new : n = [id |-> id[x], new |-> x] /\ n.id = id[x] /\ n.new = x
    OBVIOUS
  <1> DEFINE ins == Ins(id, new)
             m == [imp[r] EXCEPT !.pc = "planned", !.payload = NoPayload,
                                 !.inserts = ins, !.updates = ups]
  <1>12. imp' = [imp EXCEPT ![r] = m]
    BY <1>2 DEF IngestInv, Typed
  <1>13. /\ ins \subseteq Insertion
         /\ \A n \in ins : n.id \in Unused
         /\ \A n, k \in ins : n.id = k.id => n = k
    <2>1. ins \subseteq Insertion
      BY <1>9, <1>10 DEF Insertion, Unused
    <2>2. \A n \in ins : \E x \in new : n = [id |-> id[x], new |-> x] /\ n.id = id[x] /\ n.new = x
      BY <1>11
    <2>3. \A n \in ins : n.id \in Unused
      BY <1>9, <2>2
    <2>4. ASSUME NEW n \in ins, NEW k \in ins, n.id = k.id
          PROVE  n = k
      <3>1. PICK x \in new : n = [id |-> id[x], new |-> x] /\ n.id = id[x] /\ n.new = x
        BY <2>2
      <3>2. PICK y \in new : k = [id |-> id[y], new |-> y] /\ k.id = id[y] /\ k.new = y
        BY <2>2
      <3>3. x = y
        BY <1>2, <2>4, <3>1, <3>2
      <3> QED
        BY <3>1, <3>2, <3>3
    <2> QED
      BY <2>1, <2>3, <2>4
  <1> HIDE DEF ins, Ins
  <1>14. ImportSound(m) /\ m.inserts = ins /\ m.updates = ups
    <2>1. ImportSound(imp[r]) /\ NoPayload = IdleImport.payload /\ IdleImport \in Import
      BY ImportsSound, IdleIsImport DEF IngestInv, IdleImport
    <2> QED
      BY <1>8, <1>13, <2>1 DEF ImportSound, Import, Compare
  <1> HIDE DEF m
  <1>15. \A p \in Runs : imp'[p] = IF p = r THEN m ELSE imp[p]
    BY <1>12 DEF IngestInv, Typed
  <1>16. UNCHANGED <<feed, fixture, history, catalog, now, budget>>
    BY DEF Compare
  <1>17. Typed'
    BY <1>12, <1>14, <1>15, <1>16 DEF IngestInv, Typed, ImportSound
  <1>18. UpdatesPlanned'
    BY <1>8, <1>14, <1>15, <1>16 DEF IngestInv, UpdatesPlanned
  <1>19. InsertsFresh'
    <2>1. \A n \in ins : fixture[n.id] = None
      BY <1>13 DEF Unused
    <2>2. \A n \in ins : \A p \in Runs : \A k \in imp[p].inserts : k.id # n.id
      BY <1>13 DEF Unused
    <2> QED
      BY <1>13, <1>14, <1>15, <1>16, <2>1, <2>2 DEF IngestInv, InsertsFresh
  <1>20. HistoryTellsRow' /\ StatusOfRows'
    BY <1>16 DEF IngestInv, HistoryTellsRow, StatusOfRows
  <1> QED
    BY <1>17, <1>18, <1>19, <1>20 DEF IngestInv

-----------------------------------------------------------------------------
\* The transaction

\* What the invariant says of one row.
RowSound(i) ==
  /\ fixture[i] \in Row \cup {None}
  /\ fixture[i] # None =>
       /\ fixture[i].deleted \/ fixture[i].status \in FixtureStatus
       /\ \A v \in 1 .. fixture[i].version : \E h \in history : h.id = i /\ h.version = v
       /\ fixture[i].deleted \/
          \E h \in history : /\ h.id = i /\ h.version = fixture[i].version
                             /\ h.slot = fixture[i].slot /\ h.status = fixture[i].status
                             /\ h.teams = fixture[i].teams /\ h.rev = fixture[i].rev

LEMMA RowsSound ==
  ASSUME IngestInv, NEW i \in Ids
  PROVE  RowSound(i)
  BY DEF IngestInv, Typed, StatusOfRows, HistoryTellsRow, RowSound

\* No step takes a row back.
RowAdvances(old, new) ==
  /\ new # None /\ new.version >= old.version
  /\ new.version = old.version => new.rev = old.rev /\ (old.missing => new.missing)

LEMMA Revising ==
  ASSUME NEW x \in Candidate, NEW v \in Nat \ {0}
  PROVE  LET row == [FreshRow(x) EXCEPT !.version = v] IN
         /\ row \in Row /\ row.version = v /\ ~ row.deleted /\ ~ row.missing
         /\ row.status \in FixtureStatus /\ row.rev = x.rev
         /\ row.slot = x.slot /\ row.status = x.status /\ row.teams = x.teams
  BY FreshIsRow DEF Row

LEMMA Marking ==
  ASSUME NEW old \in Row
  PROVE  LET row == [old EXCEPT !.missing = TRUE] IN
         /\ row \in Row /\ row.version = old.version /\ row.deleted = old.deleted
         /\ row.missing /\ row.status = old.status /\ row.rev = old.rev
         /\ row.slot = old.slot /\ row.teams = old.teams
  BY DEF Row

LEMMA Removing ==
  ASSUME NEW old \in Row, NEW v \in Nat \ {0}
  PROVE  LET row == [old EXCEPT !.status = "deleted", !.deleted = TRUE, !.version = v] IN
         /\ row \in Row /\ row.version = v /\ row.deleted /\ row.missing = old.missing
         /\ row.rev = old.rev
  BY DEF Row

LEMMA HistoryGrows ==
  ASSUME IngestInv, NEW r \in Runs, Persist(r)
  PROVE  /\ history' = history \cup VersionRows(imp[r].inserts, imp[r].updates)
         /\ history' \subseteq Version
  <1>1. CreatedRows(imp[r].inserts) \subseteq Version
    <2>1. ASSUME NEW n \in imp[r].inserts
          PROVE  SnapshotOf(n.id, 1, "created", n.new) \in Version
      <3>1. n.id \in Ids /\ n.new \in Candidate
        BY DEF IngestInv, Typed, Import, Insertion
      <3>2. /\ n.new.slot \in Slots /\ n.new.status \in FixtureStatus
            /\ n.new.teams \in SUBSET Teams /\ n.new.rev \in Nat
        BY <3>1, MatchingAssumption DEF Candidate
      <3>3. 1 \in Nat \ {0} /\ "created" \in ChangeTypes
        BY DEF ChangeTypes
      <3> QED
        BY <3>1, <3>2, <3>3, Snapshots
    <2> QED
      BY <2>1 DEF CreatedRows, Inserted
  <1>2. RevisedRows(imp[r].updates) \subseteq Version
    <2>1. ASSUME NEW u \in imp[r].updates, u.kind = "revise"
          PROVE  SnapshotOf(u.id, u.version, u.change, u.new) \in Version
      <3>1. u \in Update
        BY DEF IngestInv, Typed, Import
      <3>2. /\ u.id \in Ids /\ u.version \in Nat \ {0} /\ u.new \in Candidate
            /\ u.change \in ChangeTypes
        BY <2>1, <3>1, UpdateKinds
      <3>3. /\ u.new.slot \in Slots /\ u.new.status \in FixtureStatus
            /\ u.new.teams \in SUBSET Teams /\ u.new.rev \in Nat
        BY <3>2, MatchingAssumption DEF Candidate
      <3> QED
        BY <3>2, <3>3, Snapshots
    <2>2. ASSUME NEW u \in imp[r].updates, u.kind # "revise", u.kind # "mark"
          PROVE  u.old \in Version
      BY <2>2, UpdateKinds DEF IngestInv, Typed, Import
    <2> QED
      BY <2>1, <2>2 DEF RevisedRows
  <1> QED
    BY <1>1, <1>2 DEF Persist, VersionRows, IngestInv, Typed

LEMMA PersistedRow ==
  ASSUME IngestInv, NEW r \in Runs, Persist(r), NEW i \in Ids
  PROVE  RowSound(i)' /\ (fixture[i] # None => RowAdvances(fixture[i], fixture'[i]))
  <1>1. RowSound(i) /\ RowStep(i, imp[r].inserts, imp[r].updates)
    BY RowsSound, PersistRows
  <1>2. history' = history \cup VersionRows(imp[r].inserts, imp[r].updates)
    BY HistoryGrows
  <1>3. CASE fixture'[i] = fixture[i]
    <2>1. fixture[i] # None => fixture[i].version \in Nat
      BY <1>1 DEF RowSound, Row
    <2> QED
      BY <1>1, <1>2, <1>3, <2>1 DEF RowSound, RowAdvances
  <1>4. CASE /\ fixture[i] = None
             /\ \E n \in Inserted(imp[r].inserts) : n.id = i /\ fixture'[i] = FreshRow(n.new)
    <2>1. PICK n \in Inserted(imp[r].inserts) : n.id = i /\ fixture'[i] = FreshRow(n.new)
      BY <1>4
    <2>2. n.new \in Candidate
      BY DEF Inserted, IngestInv, Typed, Import, Insertion
    <2> DEFINE h == SnapshotOf(i, 1, "created", n.new)
    <2>3. h \in history'
      BY <1>2, <2>1 DEF VersionRows, CreatedRows
    <2>4. /\ h.id = i /\ h.version = 1 /\ h.slot = n.new.slot /\ h.status = n.new.status
          /\ h.teams = n.new.teams /\ h.rev = n.new.rev
      BY DEF SnapshotOf
    <2> HIDE DEF h
    <2>5. \A v \in 1 .. 1 : v = 1
      OBVIOUS
    <2> QED
      BY <1>4, <2>1, <2>2, <2>3, <2>4, <2>5, FreshIsRow DEF RowSound
  <1>5. CASE /\ fixture[i] # None
             /\ \E u \in imp[r].updates : u.id = i /\ fixture'[i] = Updated(fixture[i], u)
    <2>1. PICK u \in imp[r].updates : u.id = i /\ fixture'[i] = Updated(fixture[i], u)
      BY <1>5
    <2>2. fixture[i] \in Row /\ fixture[i].version \in Nat \ {0}
      BY <1>1, <1>5 DEF RowSound, Row
    <2>3. u \in Update
      BY DEF IngestInv, Typed, Import
    <2>4. CASE u.kind = "mark"
      <3>1. fixture'[i] = [fixture[i] EXCEPT !.missing = TRUE]
        BY <2>1, <2>4 DEF Updated
      <3> QED
        BY <1>1, <1>2, <1>5, <2>2, <3>1, Marking, NoRowAssumption DEF RowSound, RowAdvances
    <2>5. CASE u.kind # "mark"
      <3>1. /\ fixture[i].version = u.version - 1 /\ u.version \in Nat \ {0}
            /\ \A v \in 1 .. u.version : v \in 1 .. fixture[i].version \/ v = u.version
        BY <2>1, <2>2, <2>3, <2>5, PlannedVersion, UpdateKinds
      <3>2. CASE u.kind = "revise"
        <4>1. fixture'[i] = [FreshRow(u.new) EXCEPT !.version = u.version]
          BY <2>1, <3>2 DEF Updated
        <4>2. u.new \in Candidate
          BY <2>3, <3>2, UpdateKinds
        <4> DEFINE h == SnapshotOf(i, u.version, u.change, u.new)
        <4>3. h \in history'
          BY <1>2, <2>1, <3>2 DEF VersionRows, RevisedRows
        <4>4. /\ h.id = i /\ h.version = u.version /\ h.slot = u.new.slot
              /\ h.status = u.new.status /\ h.teams = u.new.teams /\ h.rev = u.new.rev
          BY DEF SnapshotOf
        <4> HIDE DEF h
        <4> DEFINE row == fixture'[i]
        <4>5. /\ row \in Row /\ row.version = u.version /\ ~ row.deleted
              /\ row.status \in FixtureStatus /\ row.rev = u.new.rev
              /\ row.slot = u.new.slot /\ row.status = u.new.status /\ row.teams = u.new.teams
          BY <3>1, <4>1, <4>2, Revising
        <4>6. \A v \in 1 .. u.version : \E w \in history' : w.id = i /\ w.version = v
          BY <1>1, <1>2, <1>5, <3>1, <4>3, <4>4 DEF RowSound
        <4>7. RowSound(i)'
          BY <4>3, <4>4, <4>5, <4>6 DEF RowSound
        <4>8. RowAdvances(fixture[i], fixture'[i])
          BY <2>2, <3>1, <4>5, NoRowAssumption DEF RowAdvances
        <4> QED
          BY <4>7, <4>8
      <3>3. CASE u.kind = "remove"
        <4>1. fixture'[i] = [fixture[i] EXCEPT !.status = "deleted", !.deleted = TRUE,
                                              !.version = u.version]
          BY <2>1, <3>3 DEF Updated
        <4>2. u.old \in history' /\ u.old.id = i /\ u.old.version = u.version
          <5>1. u.old \in RevisedRows(imp[r].updates)
            BY <3>3 DEF RevisedRows
          <5> QED
            BY <1>2, <2>1, <3>3, <5>1 DEF VersionRows, IngestInv, UpdatesPlanned, PlannedFor
        <4> DEFINE row == fixture'[i]
        <4>3. row \in Row /\ row.version = u.version /\ row.deleted
          <5>1. fixture[i] \in Row
            BY <2>2
          <5>2. u.version \in Nat \ {0}
            BY <3>1
          <5> DEFINE gone == [fixture[i] EXCEPT !.status = "deleted", !.deleted = TRUE,
                                               !.version = u.version]
          <5>3. gone \in Row /\ gone.version = u.version /\ gone.deleted
            BY <5>1, <5>2, Removing
          <5>4. row = gone
            BY <4>1
          <5> HIDE DEF gone, row
          <5> QED
            BY <5>3, <5>4
        <4>4. \A v \in 1 .. u.version : \E w \in history' : w.id = i /\ w.version = v
          <5>1. ASSUME NEW v \in 1 .. u.version, v # u.version
                PROVE  \E w \in history' : w.id = i /\ w.version = v
            BY <1>1, <1>2, <1>5, <3>1, <5>1 DEF RowSound
          <5> QED
            BY <4>2, <5>1
        <4>5. RowSound(i)'
          BY <4>3, <4>4 DEF RowSound
        <4>6. RowAdvances(fixture[i], fixture'[i])
          BY <2>2, <3>1, <4>3, NoRowAssumption DEF RowAdvances
        <4> QED
          BY <4>5, <4>6
      <3> QED
        BY <2>3, <2>5, <3>2, <3>3, UpdateKinds
    <2> QED
      BY <2>4, <2>5
  <1> QED
    BY <1>1, <1>3, <1>4, <1>5 DEF RowStep

LEMMA PersistKeeps ==
  ASSUME IngestInv, NEW r \in Runs, Persist(r)
  PROVE  IngestInv'
  <1>1. PICK rejected : EndCompetition(r, rejected # {})
    BY DEF Persist
  <1> DEFINE failed == IF rejected # {} THEN imp[r].failed \cup {imp[r].comp} ELSE imp[r].failed
             m == [imp[r] EXCEPT !.pc = "open", !.comp = None, !.inserts = {}, !.updates = {},
                                 !.done = @ \cup {imp[r].comp}, !.failed = failed]
  <1>2. ImportSound(imp[r]) /\ imp[r].comp \in Competitions
    BY ImportsSound DEF IngestInv, ImportSound, Persist
  <1>3. imp' = [imp EXCEPT ![r] = m]
    BY <1>1, <1>2 DEF EndCompetition, IngestInv, Typed
  <1>4. failed \in SUBSET Competitions /\ failed \subseteq imp[r].done \cup {imp[r].comp}
    BY <1>2 DEF ImportSound, Import
  <1> HIDE DEF failed
  <1>5. ImportSound(m) /\ m.inserts = {} /\ m.updates = {}
    BY <1>2, <1>4 DEF ImportSound, Import
  <1> HIDE DEF m
  <1>6. \A p \in Runs : imp'[p] = IF p = r THEN m ELSE imp[p]
    BY <1>3 DEF IngestInv, Typed
  <1>7. \A i \in Ids : RowSound(i)' /\ (fixture[i] # None => RowAdvances(fixture[i], fixture'[i]))
    BY PersistedRow
  <1>8. UNCHANGED <<feed, catalog, now, budget>>
    BY DEF Persist
  <1>9. Typed'
    <2>1. fixture' \in [Ids -> Row \cup {None}]
      <3>1. fixture' = [i \in Ids |-> fixture'[i]]
        <4>1. PICK rej : fixture' = AfterUpdates(WithInserted(imp[r].inserts), imp[r].updates \ rej)
          BY DEF Persist
        <4> QED
          BY <4>1 DEF AfterUpdates
      <3> QED
        BY <1>7, <3>1 DEF RowSound
    <2> QED
      BY <1>3, <1>5, <1>6, <1>8, <2>1, HistoryGrows DEF IngestInv, Typed, ImportSound
  <1>10. HistoryTellsRow' /\ StatusOfRows'
    BY <1>7 DEF RowSound, HistoryTellsRow, StatusOfRows
  <1>11. UpdatesPlanned'
    <2> SUFFICES ASSUME NEW p \in Runs, p # r, NEW u \in imp[p].updates
                 PROVE  PlannedFor(u, fixture'[u.id])
      BY <1>5, <1>6 DEF UpdatesPlanned
    <2> DEFINE old == fixture[u.id]  row == fixture'[u.id]
    <2>1. u \in Update /\ PlannedFor(u, old)
      BY DEF IngestInv, Typed, Import, UpdatesPlanned
    <2>2. u.id \in Ids /\ (u.kind # "mark" => u.version \in Nat)
      BY <2>1, UpdateKinds
    <2>3. RowAdvances(old, row) /\ row # None /\ old # None
      BY <1>7, <2>1, <2>2 DEF PlannedFor, RowAdvances
    <2>4. old.version \in Nat /\ row.version \in Nat
      BY <1>7, <2>2, <2>3 DEF RowSound, Row, IngestInv, Typed
    <2>5. Stale(u.new, row) /\ row.rev = old.rev => Stale(u.new, old)
      BY DEF Stale
    <2> HIDE DEF old, row
    <2>6. PlannedFor(u, row)
      BY <2>1, <2>2, <2>3, <2>4, <2>5 DEF PlannedFor, RowAdvances
    <2> QED
      BY <2>6 DEF row
  <1>12. InsertsFresh'
    <2>1. ASSUME NEW p \in Runs, p # r, NEW n \in imp[p].inserts
          PROVE  fixture'[n.id] = None
      <3>1. n.id \in Ids /\ fixture[n.id] = None
        BY DEF IngestInv, Typed, Import, Insertion, InsertsFresh
      <3>2. RowStep(n.id, imp[r].inserts, imp[r].updates)
        BY <3>1, PersistRows
      <3>3. \A k \in Inserted(imp[r].inserts) : k.id # n.id
        BY <2>1 DEF Inserted, IngestInv, InsertsFresh
      <3> QED
        BY <3>1, <3>2, <3>3 DEF RowStep
    <2> QED
      BY <1>5, <1>6, <2>1 DEF IngestInv, InsertsFresh
  <1> QED
    BY <1>9, <1>10, <1>11, <1>12 DEF IngestInv

-----------------------------------------------------------------------------
\* The environment, and the whole

LEMMA EnvironmentKeeps ==
  ASSUME IngestInv,
         \/ \E p \in Pids, slot \in Slots, status \in Statuses : Publish(p, slot, status)
         \/ \E p \in Pids : Withdraw(p)
         \/ \E t \in Teams : Learn(t)
         \/ TimePasses
  PROVE  IngestInv'
  <1>1. UNCHANGED <<fixture, history, imp>>
    BY DEF Publish, Withdraw, Learn, TimePasses
  <1>2. budget' \in [Events -> Nat] /\ \A e \in Events : budget'[e] <= Budget[e]
    <2>1. \E e \in Events : Spend(e)
      BY DEF Publish, Withdraw, Learn, TimePasses, Events
    <2> QED
      BY <2>1, Spending DEF IngestInv
  <1>3. feed' \in [Pids -> Record \cup {None}]
    <2>1. ASSUME NEW p \in Pids, NEW slot \in Slots, NEW status \in Statuses,
                 Publish(p, slot, status)
          PROVE  feed' \in [Pids -> Record \cup {None}]
      <3> DEFINE rev == IF p \in Undated THEN 0 ELSE Budget["publish"] - budget["publish"] + 1
                 rec == [comp |-> CompOf[p], pid |-> p, sides |-> SidesOf[p], slot |-> slot,
                         status |-> status, rev |-> rev]
      <3>1. "publish" \in Events
        BY DEF Events
      <3>2. rev \in Nat
        BY <3>1, IngestionAssumption DEF IngestInv, Typed
      <3>3. feed' = [feed EXCEPT ![p] = rec]
        BY <2>1 DEF Publish
      <3> HIDE DEF rev
      <3>4. rec \in Record
        BY <3>2, IngestionAssumption DEF Record
      <3> QED
        BY <3>3, <3>4 DEF IngestInv, Typed
    <2>2. ASSUME NEW p \in Pids, Withdraw(p)
          PROVE  feed' \in [Pids -> Record \cup {None}]
      BY <2>2 DEF Withdraw, IngestInv, Typed
    <2>3. ASSUME TimePasses \/ \E t \in Teams : Learn(t)
          PROVE  feed' \in [Pids -> Record \cup {None}]
      BY <2>3 DEF Learn, TimePasses, IngestInv, Typed
    <2> QED
      BY <2>1, <2>2, <2>3
  <1>4. catalog' \subseteq Teams
    BY DEF Publish, Withdraw, Learn, TimePasses, IngestInv, Typed
  <1>5. now' \in 1 .. Len(Windows)
    <2>1. Len(Windows) \in Nat
      BY IngestionAssumption
    <2> QED
      BY <2>1 DEF Publish, Withdraw, Learn, TimePasses, IngestInv, Typed
  <1>6. Typed'
    BY <1>1, <1>2, <1>3, <1>4, <1>5 DEF IngestInv, Typed
  <1> QED
    BY <1>1, <1>6 DEF IngestInv, HistoryTellsRow, StatusOfRows, UpdatesPlanned, InsertsFresh

LEMMA IngestStarts == Init => IngestInv
  <1> SUFFICES ASSUME Init
               PROVE  IngestInv
    OBVIOUS
  <1>1. \A r \in Runs : imp[r] = IdleImport
    BY DEF Init
  <1>2. imp \in [Runs -> Import]
    BY IdleIsImport DEF Init
  <1>3. 1 \in 1 .. Len(Windows)
    <2>1. Windows \in Seq(SUBSET Slots) /\ Windows # <<>>
      BY IngestionAssumption
    <2>2. Len(Windows) \in Nat /\ Len(Windows) # 0
      BY <2>1
    <2> QED
      BY <2>2
  <1>4. budget \in [Events -> Nat] /\ \A e \in Events : budget[e] <= Budget[e]
    BY IngestionAssumption DEF Init
  <1>5. Typed
    BY <1>1, <1>2, <1>3, <1>4, IdleIsImport, IngestionAssumption DEF Init, Typed
  <1> QED
    BY <1>1, <1>5, IdleIsImport DEF Init, IngestInv, HistoryTellsRow, StatusOfRows,
                                    UpdatesPlanned, InsertsFresh

LEMMA IngestContinues == IngestInv /\ [Next]_vars => IngestInv'
  <1> SUFFICES ASSUME IngestInv, [Next]_vars
               PROVE  IngestInv'
    OBVIOUS
  <1>1. ASSUME NEW r \in Runs, RunStep(r)
        PROVE  IngestInv'
    BY <1>1, StartKeeps, FetchKeeps, CompareKeeps, PersistKeeps, PersistAbortsKeeps, FinishKeeps
       DEF RunStep
  <1>2. CASE UNCHANGED vars
    BY <1>2 DEF vars, IngestInv, Typed, HistoryTellsRow, StatusOfRows, UpdatesPlanned,
                InsertsFresh
  <1> QED
    BY <1>1, <1>2, CrashKeeps, FetchFailsKeeps, EnvironmentKeeps DEF Next

LEMMA IngestAlways == Spec => []IngestInv
  BY IngestStarts, IngestContinues, PTL DEF Spec

-----------------------------------------------------------------------------
\* Theorems

\* Every variable keeps its type: no transaction of _persist, whatever other
\* imports committed since the comparison, writes a row or a version that is
\* none, and no counter of the environment leaves its bound.
THEOREM IngestTypes == Spec => []TypeOK
  <1>1. IngestInv => TypeOK
    <2> SUFFICES ASSUME IngestInv
                 PROVE  TypeOK
      OBVIOUS
    <2>1. \A r \in Runs : ImportOK(imp[r])
      BY DEF IngestInv, Typed, Import, Payload, ImportOK
    <2> QED
      BY <2>1 DEF IngestInv, Typed, TypeOK
  <1> QED
    BY <1>1, IngestAlways, PTL

\* Whatever imports overlap, abort or have updates rejected, fixture_versions
\* has every version of a fixture up to its own, and the newest one says what
\* the row says unless the fixture was removed.
THEOREM HistoryKept == Spec => []HistoryTellsRow
  <1>1. IngestInv => HistoryTellsRow
    BY DEF IngestInv
  <1> QED
    BY <1>1, IngestAlways, PTL

\* One row of a transaction is one step of FixtureTable.
LEMMA RowImplements ==
  ASSUME IngestInv, NEW r \in Runs, Persist(r), NEW i \in Ids
  PROVE  LET old == TableRow(fixture[i])
             new == TableRow(fixture'[i]) IN
         /\ new \in Table!Fixture \cup {None}
         /\ \/ new = old
            \/ old = None /\ new \in Table!Fixture /\ Table!Created(new)
            \/ /\ old # None /\ new \in Table!Fixture
               /\ Table!Revised(old, new) \/ Table!Marked(old, new) \/ Table!Removed(old, new)
  <1> DEFINE old == TableRow(fixture[i])  new == TableRow(fixture'[i])
  <1>1. /\ RowSound(i) /\ RowSound(i)' /\ RowStep(i, imp[r].inserts, imp[r].updates)
    BY RowsSound, PersistRows, PersistedRow
  <1>2. \A row \in Row : TableRow(row) \in Table!Fixture /\ TableRow(row) # None
    BY NoRowAssumption DEF TableRow, Table!Fixture, Row
  <1>3. new \in Table!Fixture \cup {None}
    BY <1>1, <1>2 DEF RowSound, TableRow
  <1>4. CASE fixture'[i] = fixture[i]
    BY <1>3, <1>4
  <1>5. CASE /\ fixture[i] = None
             /\ \E n \in Inserted(imp[r].inserts) : n.id = i /\ fixture'[i] = FreshRow(n.new)
    <2>1. PICK n \in Inserted(imp[r].inserts) : n.id = i /\ fixture'[i] = FreshRow(n.new)
      BY <1>5
    <2>2. n.new \in Candidate
      BY DEF Inserted, IngestInv, Typed, Import, Insertion
    <2>3. /\ fixture'[i] \in Row /\ fixture'[i].version = 1
          /\ ~ fixture'[i].deleted /\ ~ fixture'[i].missing
      BY <2>1, <2>2, FreshIsRow
    <2>4. old = None /\ new \in Table!Fixture
      BY <1>2, <1>5, <2>3 DEF TableRow
    <2>5. Table!Created(new)
      BY <2>3, NoRowAssumption DEF TableRow, Table!Created
    <2> QED
      BY <1>3, <2>4, <2>5
  <1>6. CASE /\ fixture[i] # None
             /\ \E u \in imp[r].updates : u.id = i /\ fixture'[i] = Updated(fixture[i], u)
    <2>1. PICK u \in imp[r].updates : u.id = i /\ fixture'[i] = Updated(fixture[i], u)
      BY <1>6
    <2>2. fixture[i] \in Row /\ fixture[i] # None
      BY <1>1, <1>6 DEF RowSound
    <2>3. u \in Update
      BY DEF IngestInv, Typed, Import
    <2> DEFINE a == fixture[i]  b == fixture'[i]
    <2>4. old = [version |-> a.version, rev |-> a.rev, deleted |-> a.deleted, missing |-> a.missing]
      BY <2>2 DEF TableRow
    <2>5. b \in Row => new = [version |-> b.version, rev |-> b.rev, deleted |-> b.deleted,
                              missing |-> b.missing]
      BY NoRowAssumption DEF TableRow
    <2>6. CASE u.kind = "mark"
      <3>1. b = [a EXCEPT !.missing = TRUE]
        BY <2>1, <2>6 DEF Updated
      <3>2. /\ b \in Row /\ b.version = a.version /\ b.deleted = a.deleted
            /\ b.missing = TRUE /\ b.rev = a.rev
        BY <2>2, <3>1 DEF Row
      <3>3. new = [version |-> a.version, rev |-> a.rev, deleted |-> a.deleted, missing |-> TRUE]
        BY <2>5, <3>2
      <3>4. Table!Marked(old, new)
        BY <2>4, <3>3 DEF Table!Marked
      <3> QED
        BY <1>2, <1>3, <2>2, <3>2, <3>4
    <2>7. CASE u.kind = "revise"
      <3>1. /\ a.version = u.version - 1 /\ u.version \in Nat \ {0} /\ ~ Stale(u.new, a)
            /\ u.new \in Candidate
        BY <2>1, <2>3, <2>7, PlannedVersion, UpdateKinds
      <3>2. b = [FreshRow(u.new) EXCEPT !.version = u.version]
        BY <2>1, <2>7 DEF Updated
      <3>3. /\ b \in Row /\ b.version = u.version /\ ~ b.deleted /\ ~ b.missing
            /\ b.rev = u.new.rev
        BY <3>1, <3>2, Revising
      <3>4. new.version = old.version + 1 /\ ~ new.deleted /\ ~ new.missing
        BY <2>4, <2>5, <3>1, <3>3
      <3>5. new.rev = 0 \/ old.rev = 0 \/ old.rev <= new.rev
        <4>1. a.rev \in Nat /\ u.new.rev \in Nat
          BY <2>2, <3>1 DEF Row, Candidate
        <4> QED
          BY <2>4, <2>5, <3>1, <3>3, <4>1 DEF Stale
      <3>6. Table!Revised(old, new)
        BY <3>4, <3>5 DEF Table!Revised
      <3> QED
        BY <1>2, <1>3, <2>2, <3>3, <3>6
    <2>8. CASE u.kind = "remove"
      <3>1. a.version = u.version - 1 /\ u.version \in Nat \ {0} /\ a.missing
        BY <2>1, <2>3, <2>8, PlannedVersion, UpdateKinds
      <3>2. b = [a EXCEPT !.status = "deleted", !.deleted = TRUE, !.version = u.version]
        BY <2>1, <2>8 DEF Updated
      <3>3. /\ b \in Row /\ b.version = u.version /\ b.deleted = TRUE
            /\ b.missing = a.missing /\ b.rev = a.rev
        <4> HIDE DEF a, b
        <4>1. /\ b \in Row /\ b.version = u.version /\ b.deleted
              /\ b.missing = a.missing /\ b.rev = a.rev
          BY <2>2, <3>1, <3>2, Removing DEF a
        <4> QED
          BY <4>1 DEF Row
      <3>4. u.version = a.version + 1 /\ a.missing = TRUE
        BY <2>2, <3>1 DEF Row
      <3>5. /\ old = [version |-> a.version, rev |-> a.rev, deleted |-> a.deleted, missing |-> TRUE]
            /\ new = [version |-> a.version + 1, rev |-> a.rev, deleted |-> TRUE, missing |-> TRUE]
        BY <2>4, <2>5, <3>3, <3>4
      <3>6. Table!Removed(old, new)
        BY <3>5 DEF Table!Removed
      <3> QED
        BY <1>2, <1>3, <2>2, <3>3, <3>6
    <2> QED
      BY <2>3, <2>6, <2>7, <2>8, UpdateKinds
  <1> QED
    BY <1>1, <1>4, <1>5, <1>6 DEF RowStep

\* Every import implements FixtureTable: however imports overlap, versions
\* advance one by one, a dated revision is never replaced by an older one, and
\* only a fixture that was already marked missing is removed.
THEOREM TableImplemented == Spec => ImplementsTable
  <1>1. Init => Table!TableInit
    BY DEF Init, Table!TableInit, TableRow
  <1>2. IngestInv /\ [Next]_vars => [Table!TableNext]_([i \in Ids |-> TableRow(fixture[i])])
    <2> SUFFICES ASSUME IngestInv, [Next]_vars
                 PROVE  [Table!TableNext]_([i \in Ids |-> TableRow(fixture[i])])
      OBVIOUS
    <2>1. ASSUME NEW r \in Runs, Persist(r)
          PROVE  Table!TableNext
      BY <2>1, RowImplements DEF Table!TableNext, Table!Commit
    <2>2. CASE fixture' = fixture
      BY <2>2
    <2>3. fixture' = fixture \/ \E r \in Runs : Persist(r)
      <3>1. ASSUME NEW r \in Runs, RunStep(r) \/ Crash(r) \/ \E c \in Competitions : FetchFails(r, c)
            PROVE  fixture' = fixture \/ Persist(r)
        BY <3>1 DEF RunStep, Start, Fetch, Compare, PersistAborts, Finish, Crash, FetchFails
      <3>2. ASSUME NEW p \in Pids,
                   \/ \E slot \in Slots, status \in Statuses : Publish(p, slot, status)
                   \/ Withdraw(p)
            PROVE  fixture' = fixture
        BY <3>2 DEF Publish, Withdraw
      <3>3. (\E t \in Teams : Learn(t)) \/ TimePasses \/ UNCHANGED vars => fixture' = fixture
        BY DEF Learn, TimePasses, vars
      <3> QED
        BY <3>1, <3>2, <3>3 DEF Next
    <2> QED
      BY <2>1, <2>2, <2>3
  <1> QED
    BY <1>1, <1>2, IngestAlways, PTL DEF Spec, ImplementsTable, Table!TableSpec

-----------------------------------------------------------------------------
\* One flaky payload
\*
\* A row that is current with the provider was in every payload but one, so it
\* was marked after that one at most, and there is no second to remove it.

\* Imports do not overlap, the provider dates its records and spoils one payload
\* at most, and matches of a competition differ in teams the catalog always knew.
OneFlake ==
  /\ \A p, r \in Runs : p = r
  /\ Undated = {} /\ Budget["flake"] <= 1
  /\ \A p, q \in Pids :
       CompOf[p] = CompOf[q] /\ SidesOf[p] \cap Known = SidesOf[q] \cap Known => p = q

Sent == Budget["publish"] - budget["publish"]
Steady == budget["withdraw"] = Budget["withdraw"]
Unflaked == budget["flake"] = Budget["flake"]

\* x says what the provider once said; if it still does, x has its kick-off.
Told(x, source, sent) ==
  /\ x.pid \in Pids /\ x.comp = CompOf[x.pid] /\ x.sides = SidesOf[x.pid]
  /\ x.rev \in 1 .. sent
  /\ source[x.pid] # None /\ source[x.pid].rev = x.rev => x.slot = source[x.pid].slot

TeamsTold(x) == x.teams \cap Known = x.sides \cap Known

Current(row, source) == row # None /\ source[row.pid] # None /\ source[row.pid].rev = row.rev

FeedTold == \A p \in Pids : feed[p] # None => Told(feed[p], feed, Sent) /\ feed[p].pid = p

RowsTold ==
  /\ \A i \in Ids : fixture[i] # None => Told(fixture[i], feed, Sent) /\ TeamsTold(fixture[i])
  /\ \A i, j \in Ids :
       fixture[i] # None /\ fixture[j] # None /\ fixture[i].pid = fixture[j].pid => i = j

RowsSeen ==
  Steady => \A i \in Ids : Current(fixture[i], feed) =>
    ~ fixture[i].deleted /\ (fixture[i].missing => ~ Unflaked)

PayloadTold(r) ==
  imp[r].pc = "fetched" =>
    /\ \A x \in DOMAIN imp[r].payload : Told(x, feed, Sent) /\ x.comp = imp[r].comp
    /\ \A x, y \in DOMAIN imp[r].payload : x.pid = y.pid => x = y

Shown(x, payload) == x \in DOMAIN payload /\ ~ HasErrors(payload[x])

PayloadSeen(r) ==
  imp[r].pc = "fetched" /\ Steady =>
    \A i \in Ids : /\ Current(fixture[i], feed) /\ fixture[i].comp = imp[r].comp
                   /\ fixture[i].missing \/ Unflaked
                   => Shown(feed[fixture[i].pid], imp[r].payload)

UpdateTold(u, row, source, sent) ==
  u.kind = "revise" => Told(u.new, source, sent) /\ TeamsTold(u.new) /\ u.new.pid = row.pid

PlanTold(r) ==
  /\ \A n \in imp[r].inserts : Told(n.new, feed, Sent) /\ TeamsTold(n.new)
  /\ \A k, n \in imp[r].inserts : k.new.pid = n.new.pid => k = n
  /\ \A u \in imp[r].updates : UpdateTold(u, fixture[u.id], feed, Sent)

Removes(u) == u.kind = "remove"
Marks(u) == u.kind = "mark"

PlanSeen(r) ==
  Steady => \A u \in imp[r].updates :
    Current(fixture[u.id], feed) => ~ Removes(u) /\ (Marks(u) => ~ Unflaked)

FlakeInv ==
  /\ FeedTold /\ Known \subseteq catalog /\ RowsTold /\ RowsSeen
  /\ \A r \in Runs : PayloadTold(r) /\ PayloadSeen(r) /\ PlanTold(r) /\ PlanSeen(r)

FeedMoves(old, new, sent) ==
  \A p \in Pids : new[p] = old[p] \/ new[p] = None \/ new[p].rev = sent + 1

LEMMA ToldStays ==
  ASSUME NEW x, NEW old, NEW new, NEW m \in Nat, NEW n \in Nat, m <= n,
         FeedMoves(old, new, m), Told(x, old, m)
  PROVE  Told(x, new, n)
  BY DEF FeedMoves, Told

LEMMA CurrentStays ==
  ASSUME NEW row, NEW old, NEW new, NEW m \in Nat,
         FeedMoves(old, new, m), Told(row, old, m), Current(row, new)
  PROVE  Current(row, old) /\ new[row.pid] = old[row.pid]
  BY DEF FeedMoves, Told, Current

\* Two records of one competition that the ladder takes for one match are of one
\* provider id.
LEMMA SameMatch ==
  ASSUME OneFlake, NEW x, NEW y, NEW source, NEW sent,
         Told(x, source, sent), Told(y, source, sent), TeamsTold(x), TeamsTold(y),
         x.comp = y.comp, Identity(x) = Identity(y) \/ SameEncounter(x, y)
  PROVE  x.pid = y.pid
  <1>1. x.sides \cap Known = y.sides \cap Known
    <2>1. CASE Identity(x) = Identity(y)
      <3>1. x.sides = y.sides
        BY <2>1 DEF Identity
      <3> QED
        BY <3>1
    <2>2. CASE SameEncounter(x, y)
      BY <2>2 DEF SameEncounter, TeamsTold
    <2> QED
      BY <2>1, <2>2
  <1> QED
    BY <1>1 DEF OneFlake, Told

\* What any step does to the feed and to what is left of the environment.
LEMMA FlakeFrame ==
  ASSUME OneFlake, IngestInv, [Next]_vars
  PROVE  /\ Sent \in Nat /\ Sent' \in Nat /\ Sent <= Sent'
         /\ (Steady' => Steady) /\ (Unflaked' => Unflaked)
         /\ catalog \subseteq catalog'
         /\ FeedMoves(feed, feed', Sent)
         /\ FeedTold => FeedTold'
  <1>1. budget' = budget \/ \E e \in Events : Spend(e)
    <2>1. ASSUME NEW r \in Runs, RunStep(r)
          PROVE  budget' = budget \/ \E e \in Events : Spend(e)
      BY <2>1 DEF RunStep, Start, Fetch, Compare, Persist, PersistAborts, Finish, Events
    <2>2. CASE UNCHANGED vars
      BY <2>2 DEF vars
    <2> QED
      BY <2>1, <2>2 DEF Next, Crash, FetchFails, Publish, Withdraw, Learn, TimePasses, Events
  <1>2. \A e \in Events : /\ Budget[e] \in Nat /\ budget[e] \in Nat /\ budget'[e] \in Nat
                          /\ budget'[e] <= budget[e] /\ budget[e] <= Budget[e]
    <2>1. \A e \in Events : budget[e] \in Nat /\ Budget[e] \in Nat /\ budget[e] <= Budget[e]
      BY IngestionAssumption DEF IngestInv, Typed
    <2>2. ASSUME NEW e \in Events, Spend(e), NEW f \in Events
          PROVE  budget'[f] \in Nat /\ budget'[f] <= budget[f]
      <3>1. budget'[f] = IF f = e THEN budget[e] - 1 ELSE budget[f]
        BY <2>2 DEF Spend, IngestInv, Typed
      <3> QED
        BY <2>1, <2>2, <3>1 DEF Spend
    <2> QED
      BY <1>1, <2>1, <2>2
  <1>3. "publish" \in Events /\ "withdraw" \in Events /\ "flake" \in Events
    BY DEF Events
  <1>4. /\ Sent \in Nat /\ Sent' \in Nat /\ Sent <= Sent'
        /\ (Steady' => Steady) /\ (Unflaked' => Unflaked)
    BY <1>2, <1>3 DEF Sent, Steady, Unflaked
  <1>5. \/ feed' = feed
        \/ \E p \in Pids, slot \in Slots, status \in Statuses : Publish(p, slot, status)
        \/ \E p \in Pids : Withdraw(p)
    <2>1. ASSUME NEW r \in Runs, RunStep(r)
          PROVE  feed' = feed
      BY <2>1 DEF RunStep, Start, Fetch, Compare, Persist, PersistAborts, Finish
    <2>2. CASE UNCHANGED vars
      BY <2>2 DEF vars
    <2> QED
      BY <2>1, <2>2 DEF Next, Crash, FetchFails, Learn, TimePasses
  <1>6. catalog \subseteq catalog'
    <2>1. ASSUME NEW r \in Runs, RunStep(r)
          PROVE  catalog' = catalog
      BY <2>1 DEF RunStep, Start, Fetch, Compare, Persist, PersistAborts, Finish
    <2>2. CASE UNCHANGED vars
      BY <2>2 DEF vars
    <2> QED
      BY <2>1, <2>2 DEF Next, Crash, FetchFails, Publish, Withdraw, Learn, TimePasses
  <1>7. ASSUME NEW p \in Pids, NEW slot \in Slots, NEW status \in Statuses,
               Publish(p, slot, status)
        PROVE  /\ FeedMoves(feed, feed', Sent)
               /\ feed'[p] # None => Told(feed'[p], feed', Sent') /\ feed'[p].pid = p
    <2> DEFINE rec == [comp |-> CompOf[p], pid |-> p, sides |-> SidesOf[p], slot |-> slot,
                       status |-> status, rev |-> Sent + 1]
    <2>1. feed' = [feed EXCEPT ![p] = rec]
      BY <1>7 DEF Publish, OneFlake, Sent
    <2>2. \A q \in Pids : feed'[q] = IF q = p THEN rec ELSE feed[q]
      BY <2>1 DEF IngestInv, Typed
    <2>3. Sent' = Sent + 1
      <3>1. budget'["publish"] = budget["publish"] - 1
        BY <1>3, <1>7 DEF Publish, Spend, IngestInv, Typed
      <3> QED
        BY <1>2, <1>3, <3>1 DEF Sent
    <2>4. /\ rec.pid = p /\ rec.comp = CompOf[p] /\ rec.sides = SidesOf[p]
          /\ rec.rev = Sent + 1 /\ feed'[p] = rec
      BY <2>2
    <2>5. Sent + 1 \in 1 .. Sent'
      BY <1>4, <2>3
    <2> HIDE DEF rec
    <2> QED
      BY <2>2, <2>4, <2>5 DEF FeedMoves, Told
  <1>8. ASSUME NEW p \in Pids, Withdraw(p)
        PROVE  FeedMoves(feed, feed', Sent) /\ feed'[p] = None
    BY <1>8 DEF Withdraw, FeedMoves, IngestInv, Typed
  <1>9. FeedMoves(feed, feed', Sent)
    <2>1. CASE feed' = feed
      BY <2>1 DEF FeedMoves
    <2> QED
      BY <1>5, <1>7, <1>8, <2>1
  <1>10. ASSUME FeedTold, NEW q \in Pids, feed'[q] # None
         PROVE  Told(feed'[q], feed', Sent') /\ feed'[q].pid = q
    <2>1. CASE feed'[q] = feed[q]
      BY <1>4, <1>9, <1>10, <2>1, ToldStays DEF FeedTold
    <2>2. CASE feed'[q] # feed[q]
      <3>1. PICK p \in Pids, slot \in Slots, status \in Statuses : Publish(p, slot, status)
        <4>1. ASSUME NEW p \in Pids, Withdraw(p)
              PROVE  feed'[q] = feed[q] \/ feed'[q] = None
          BY <4>1 DEF Withdraw, IngestInv, Typed
        <4> QED
          BY <1>5, <1>10, <2>2, <4>1
      <3>2. q = p
        BY <2>2, <3>1 DEF Publish, IngestInv, Typed
      <3> QED
        BY <1>7, <1>10, <3>1, <3>2
    <2> QED
      BY <2>1, <2>2
  <1>11. FeedTold => FeedTold'
    BY <1>10 DEF FeedTold
  <1> QED
    BY <1>4, <1>6, <1>9, <1>11

\* A step that leaves the rows alone.
LEMMA RowsStay ==
  ASSUME OneFlake, IngestInv, FlakeInv, [Next]_vars, fixture' = fixture
  PROVE  FeedTold' /\ Known \subseteq catalog' /\ RowsTold' /\ RowsSeen'
  <1> USE FlakeFrame
  <1>1. \A i \in Ids : fixture[i] # None => Told(fixture[i], feed', Sent')
    BY ToldStays DEF FlakeInv, RowsTold
  <1>2. \A i \in Ids : Current(fixture[i], feed') => Current(fixture[i], feed)
    <2>1. \A i \in Ids : Current(fixture[i], feed') => fixture[i] # None
      BY DEF Current
    <2> QED
      BY <2>1, CurrentStays DEF FlakeInv, RowsTold
  <1>3. RowsTold'
    BY <1>1 DEF FlakeInv, RowsTold
  <1>4. RowsSeen'
    BY <1>2 DEF FlakeInv, RowsSeen
  <1> QED
    BY <1>3, <1>4 DEF FlakeInv

\* A payload in hand stays what it was.
LEMMA PayloadStays ==
  ASSUME OneFlake, IngestInv, FlakeInv, [Next]_vars, fixture' = fixture, NEW r \in Runs,
         imp'[r].pc = "fetched" =>
           imp[r].pc = "fetched" /\ imp'[r].comp = imp[r].comp /\ imp'[r].payload = imp[r].payload
  PROVE  PayloadTold(r)' /\ PayloadSeen(r)'
  <1> USE FlakeFrame
  <1>1. CASE imp'[r].pc # "fetched"
    BY <1>1 DEF PayloadTold, PayloadSeen
  <1>2. CASE imp'[r].pc = "fetched"
    <2>1. imp[r].pc = "fetched" /\ imp'[r].comp = imp[r].comp /\ imp'[r].payload = imp[r].payload
      BY <1>2
    <2>2. PayloadTold(r) /\ PayloadSeen(r)
      BY DEF FlakeInv
    <2>3. \A x \in DOMAIN imp[r].payload : Told(x, feed', Sent')
      BY <2>1, <2>2, ToldStays DEF PayloadTold
    <2>4. PayloadTold(r)'
      BY <2>1, <2>2, <2>3 DEF PayloadTold
    <2>5. \A i \in Ids : Current(fixture[i], feed') =>
            Current(fixture[i], feed) /\ feed'[fixture[i].pid] = feed[fixture[i].pid]
      <3>1. \A i \in Ids : Current(fixture[i], feed') => fixture[i] # None
        BY DEF Current
      <3> QED
        BY <3>1, CurrentStays DEF FlakeInv, RowsTold
    <2>6. PayloadSeen(r)'
      BY <2>1, <2>2, <2>5 DEF PayloadSeen
    <2> QED
      BY <2>4, <2>6
  <1> QED
    BY <1>1, <1>2

\* A plan, or a part of it, stays what it was.
LEMMA PlanStays ==
  ASSUME OneFlake, IngestInv, FlakeInv, [Next]_vars, fixture' = fixture, NEW r \in Runs,
         imp'[r].inserts \subseteq imp[r].inserts, imp'[r].updates \subseteq imp[r].updates
  PROVE  PlanTold(r)' /\ PlanSeen(r)'
  <1> USE FlakeFrame
  <1>1. PlanTold(r) /\ PlanSeen(r)
    BY DEF FlakeInv
  <1>2. \A n \in imp'[r].inserts : Told(n.new, feed', Sent') /\ TeamsTold(n.new)
    BY <1>1, ToldStays DEF PlanTold
  <1>3. \A u \in imp'[r].updates : UpdateTold(u, fixture[u.id], feed', Sent')
    BY <1>1, ToldStays DEF PlanTold, UpdateTold
  <1>4. PlanTold(r)'
    BY <1>1, <1>2, <1>3 DEF PlanTold
  <1>5. \A u \in imp[r].updates : u.id \in Ids
    BY UpdateKinds DEF IngestInv, Typed, Import
  <1>6. \A i \in Ids : Current(fixture[i], feed') => Current(fixture[i], feed)
    <2>1. \A i \in Ids : Current(fixture[i], feed') => fixture[i] # None
      BY DEF Current
    <2> QED
      BY <2>1, CurrentStays DEF FlakeInv, RowsTold
  <1>7. PlanSeen(r)'
    BY <1>1, <1>5, <1>6 DEF PlanSeen
  <1> QED
    BY <1>4, <1>7

\* The payload has every row that is current; it lacks a marked one never, and
\* another only if it is the flaky one.
LEMMA FetchTold ==
  ASSUME OneFlake, IngestInv, FlakeInv, NEW r \in Runs, NEW c \in Competitions, Fetch(r, c)
  PROVE  PayloadTold(r)' /\ PayloadSeen(r)'
  <1>1. PICK answer \in Answers(c) :
          /\ IF answer.lost = {} /\ Spoiled(answer.payload) = {}
             THEN UNCHANGED budget ELSE Spend("flake")
          /\ imp' = [imp EXCEPT
               ![r].pc = "fetched", ![r].comp = c, ![r].payload = answer.payload, ![r].todo = @ \ {c},
               ![r].invalid = @ \/ \E x \in DOMAIN answer.payload : HasErrors(answer.payload[x])]
    BY DEF Fetch
  <1>2. DOMAIN answer.payload = Published(c) \ answer.lost
    <2>1. PICK lost \in SUBSET Published(c), spoiled \in SUBSET Published(c), issues \in IssueSamples :
            answer = [lost |-> lost,
                      payload |-> [x \in Published(c) \ lost |-> IF x \in spoiled THEN issues ELSE {}]]
      BY AnswerShape
    <2> QED
      BY <2>1
  <1>4. imp'[r].comp = c /\ imp'[r].payload = answer.payload
    <2>1. imp[r] \in Import /\ DOMAIN imp = Runs
      BY DEF IngestInv, Typed
    <2> QED
      BY <1>1, <2>1 DEF Import
  <1>5. feed' = feed /\ fixture' = fixture
    BY DEF Fetch
  <1>6. Sent' = Sent
    <2>1. budget'["publish"] = budget["publish"]
      BY <1>1 DEF Spend, IngestInv, Typed, Events
    <2> QED
      BY <2>1 DEF Sent
  <1>7. \A x \in Published(c) : \E p \in Pids : x = feed[p] /\ feed[p] # None /\ CompOf[p] = c
    BY DEF Published
  <1>8. PayloadTold(r)'
    <2>1. \A x \in Published(c) : Told(x, feed, Sent) /\ x.comp = c /\ x = feed[x.pid]
      <3>1. ASSUME NEW p \in Pids, feed[p] # None, CompOf[p] = c
            PROVE  /\ Told(feed[p], feed, Sent) /\ feed[p].comp = c
                   /\ feed[p] = feed[feed[p].pid]
        <4>1. Told(feed[p], feed, Sent) /\ feed[p].pid = p
          BY <3>1 DEF FlakeInv, FeedTold
        <4>2. feed[p].comp = CompOf[p]
          BY <4>1 DEF Told
        <4> QED
          BY <3>1, <4>1, <4>2
      <3> QED
        BY <1>7, <3>1
    <2>2. \A x \in DOMAIN answer.payload : Told(x, feed, Sent) /\ x.comp = c
      BY <1>2, <2>1
    <2>3. \A x, y \in DOMAIN answer.payload : x.pid = y.pid => x = y
      BY <1>2, <2>1
    <2> QED
      BY <1>4, <1>5, <1>6, <2>2, <2>3 DEF PayloadTold
  <1>9. ASSUME Steady', NEW i \in Ids, Current(fixture[i], feed), fixture[i].comp = c,
               fixture[i].missing \/ Unflaked'
        PROVE  Shown(feed[fixture[i].pid], answer.payload)
    <2>1. /\ "flake" \in Events /\ "withdraw" \in Events
          /\ budget["flake"] \in Nat /\ Budget["flake"] \in Nat /\ budget["flake"] <= Budget["flake"]
      BY IngestionAssumption DEF IngestInv, Typed, Events
    <2>2. Steady
      BY <1>1, <1>9, <2>1 DEF Steady, Spend, IngestInv, Typed
    <2>3. fixture[i].missing => ~ Unflaked
      BY <1>9, <2>2 DEF FlakeInv, RowsSeen
    <2>4. ~ Spend("flake")
      <3>1. ASSUME Spend("flake") PROVE FALSE
        <4>1. budget["flake"] > 0 /\ budget'["flake"] = budget["flake"] - 1
          BY <2>1, <3>1 DEF Spend, IngestInv, Typed
        <4>2. ~ Unflaked'
          BY <2>1, <4>1 DEF Unflaked
        <4> QED
          BY <1>9, <2>1, <2>3, <4>1, <4>2 DEF Unflaked, OneFlake
      <3> QED
        BY <3>1
    <2>5. answer.lost = {} /\ Spoiled(answer.payload) = {}
      BY <1>1, <2>4
    <2> DEFINE x == feed[fixture[i].pid]
    <2>6. x \in Published(c)
      <3>1. fixture[i] # None /\ x # None
        BY <1>9 DEF Current
      <3>2. fixture[i].pid \in Pids /\ CompOf[fixture[i].pid] = c
        BY <1>9, <3>1 DEF FlakeInv, RowsTold, Told
      <3> QED
        BY <3>1, <3>2 DEF Published
    <2>7. x \in DOMAIN answer.payload
      BY <1>2, <2>5, <2>6
    <2>8. answer.payload[x] = {}
      BY <2>5, <2>7 DEF Spoiled
    <2> QED
      BY <2>7, <2>8 DEF Shown, HasErrors
  <1>10. PayloadSeen(r)'
    BY <1>4, <1>5, <1>9 DEF PayloadSeen
  <1> QED
    BY <1>8, <1>10

\* The comparison finds the row of each record, and each record of a row.
LEMMA CompareTold ==
  ASSUME OneFlake, IngestInv, FlakeInv, NEW r \in Runs, Compare(r)
  PROVE  PlanTold(r)' /\ PlanSeen(r)'
  <1> DEFINE existing == ForMatching(imp[r].comp, imp[r].window)
             records == {Resolve(x, catalog) : x \in Usable(imp[r].payload, imp[r].window)}
             Ins(id, new) == {[id |-> id[x], new |-> x] : x \in new}
  <1>1. PICK kept \in Deduped(records) :
          \E target \in [kept -> Ids \cup {None}] :
            /\ \A x \in kept : target[x] \in Targets(x, existing, fixture)
            /\ LET new    == {x \in kept : target[x] = None}
                   missed == {i \in existing : /\ ~ fixture[i].deleted
                                               /\ \A x \in kept : target[x] # i} IN
               \E id \in [new -> FirstUnused(Cardinality(new))] :
                 /\ \A x, y \in new : id[x] = id[y] => x = y
                 /\ imp' = [imp EXCEPT ![r].pc = "planned", ![r].payload = NoPayload,
                              ![r].inserts = {[id |-> id[x], new |-> x] : x \in new},
                              ![r].updates = Revisions(target) \cup Absences(missed)]
    BY DEF Compare
  <1>2. PICK target \in [kept -> Ids \cup {None}] :
          /\ \A x \in kept : target[x] \in Targets(x, existing, fixture)
          /\ LET new    == {x \in kept : target[x] = None}
                 missed == {i \in existing : /\ ~ fixture[i].deleted
                                             /\ \A x \in kept : target[x] # i} IN
             \E id \in [new -> FirstUnused(Cardinality(new))] :
               /\ \A x, y \in new : id[x] = id[y] => x = y
               /\ imp' = [imp EXCEPT ![r].pc = "planned", ![r].payload = NoPayload,
                            ![r].inserts = {[id |-> id[x], new |-> x] : x \in new},
                            ![r].updates = Revisions(target) \cup Absences(missed)]
    BY <1>1
  <1> DEFINE new    == {x \in kept : target[x] = None}
             missed == {i \in existing : ~ fixture[i].deleted /\ \A x \in kept : target[x] # i}
  <1>3. PICK id \in [new -> FirstUnused(Cardinality(new))] :
          /\ \A x, y \in new : id[x] = id[y] => x = y
          /\ imp' = [imp EXCEPT ![r].pc = "planned", ![r].payload = NoPayload,
                       ![r].inserts = Ins(id, new),
                       ![r].updates = Revisions(target) \cup Absences(missed)]
    BY <1>2
  <1>4. /\ imp'[r].inserts = Ins(id, new)
        /\ imp'[r].updates = Revisions(target) \cup Absences(missed)
    <2>1. imp[r] \in Import /\ DOMAIN imp = Runs
      BY DEF IngestInv, Typed
    <2> HIDE DEF Ins, new, missed
    <2> QED
      BY <1>3, <2>1 DEF Import
  <1>5. feed' = feed /\ fixture' = fixture /\ catalog' = catalog /\ budget' = budget
    BY DEF Compare
  <1>6. imp[r].pc = "fetched" /\ PayloadTold(r) /\ PayloadSeen(r)
    BY DEF Compare, FlakeInv
  <1>7. \A i \in Ids : fixture[i] # None => Told(fixture[i], feed, Sent) /\ TeamsTold(fixture[i])
    BY DEF FlakeInv, RowsTold
  <1>8. \A i \in existing : i \in Ids /\ fixture[i] # None /\ fixture[i].comp = imp[r].comp
                            /\ fixture[i].slot \in imp[r].window
    BY DEF ForMatching
  \* The records, as resolved.
  <1>9. \A q \in records : /\ Told(q, feed, Sent) /\ TeamsTold(q) /\ q.comp = imp[r].comp
                           /\ \E x \in Usable(imp[r].payload, imp[r].window) :
                                q = Resolve(x, catalog) /\ q.pid = x.pid
    <2> SUFFICES ASSUME NEW x \in Usable(imp[r].payload, imp[r].window)
                 PROVE  /\ Told(Resolve(x, catalog), feed, Sent) /\ TeamsTold(Resolve(x, catalog))
                        /\ Resolve(x, catalog).comp = imp[r].comp
                        /\ Resolve(x, catalog).pid = x.pid
      OBVIOUS
    <2>1. x \in DOMAIN imp[r].payload
      BY DEF Usable
    <2>2. Told(x, feed, Sent) /\ x.comp = imp[r].comp
      BY <1>6, <2>1 DEF PayloadTold
    <2> DEFINE q == Resolve(x, catalog)
    <2>3. /\ q.comp = x.comp /\ q.pid = x.pid /\ q.sides = x.sides /\ q.slot = x.slot
          /\ q.rev = x.rev /\ q.teams = x.sides \cap catalog
      BY DEF Resolve
    <2> HIDE DEF q
    <2>4. Told(q, feed, Sent)
      BY <2>2, <2>3 DEF Told
    <2>5. TeamsTold(q)
      BY <2>3 DEF TeamsTold, FlakeInv
    <2> QED
      BY <2>2, <2>3, <2>4, <2>5 DEF q
  <1>10. \A q, s \in records : q.pid = s.pid => q = s
    <2>1. \A x, y \in DOMAIN imp[r].payload : x.pid = y.pid => x = y
      BY <1>6 DEF PayloadTold
    <2>2. \A x \in Usable(imp[r].payload, imp[r].window) : x \in DOMAIN imp[r].payload
      BY DEF Usable
    <2> HIDE DEF records
    <2> QED
      BY <1>9, <2>1, <2>2
  <1>11. kept = records
    <2> HIDE DEF records
    <2>1. \A q, s \in records : Duplicate(q, s) => q = s
      BY <1>9, <1>10, SameMatch DEF Duplicate
    <2> QED
      BY <2>1 DEF Deduped
  <1> HIDE DEF records, existing
  <1>12. \A x \in kept : target[x] # None =>
           target[x] \in existing /\ fixture[target[x]].pid = x.pid
    <2> SUFFICES ASSUME NEW x \in kept, target[x] # None
                 PROVE  target[x] \in existing /\ fixture[target[x]].pid = x.pid
      OBVIOUS
    <2> DEFINE i == target[x]
    <2>1. /\ i \in existing
          /\ \/ fixture[i].pid = x.pid
             \/ Identity(fixture[i]) = Identity(x) \/ SameEncounter(fixture[i], x)
      <3>1. i \in Targets(x, existing, fixture) /\ i # None
        BY <1>2
      <3> HIDE DEF i
      <3> QED
        BY <3>1 DEF Targets
    <2>2. /\ Told(fixture[i], feed, Sent) /\ TeamsTold(fixture[i])
          /\ Told(x, feed, Sent) /\ TeamsTold(x) /\ fixture[i].comp = x.comp
      BY <1>7, <1>8, <1>9, <1>11, <2>1
    <2> HIDE DEF i
    <2>3. fixture[i].pid = x.pid
      BY <2>1, <2>2, SameMatch
    <2> QED
      BY <2>1, <2>3 DEF i
  <1>13. \A x \in kept, i \in existing : fixture[i].pid = x.pid => target[x] = i
    <2> SUFFICES ASSUME NEW x \in kept, NEW i \in existing, fixture[i].pid = x.pid
                 PROVE  target[x] = i
      OBVIOUS
    <2>1. target[x] \in {j \in existing : fixture[j].pid = x.pid}
      BY <1>2 DEF Targets
    <2> QED
      BY <1>8, <2>1 DEF FlakeInv, RowsTold
  <1>14. ASSUME Steady, NEW i \in missed, Current(fixture[i], feed)
         PROVE  ~ fixture[i].missing /\ ~ Unflaked
    <2>1. i \in existing /\ \A x \in kept : target[x] # i
      OBVIOUS
    <2> HIDE DEF missed
    <2> SUFFICES ASSUME fixture[i].missing \/ Unflaked
                 PROVE  FALSE
      OBVIOUS
    <2> DEFINE x == feed[fixture[i].pid]
    <2>2. i \in Ids /\ fixture[i].comp = imp[r].comp /\ fixture[i].slot \in imp[r].window
      BY <1>8, <2>1
    <2>3. Shown(x, imp[r].payload)
      BY <1>6, <1>14, <2>2 DEF PayloadSeen
    <2>4. /\ fixture[i].pid \in Pids /\ x # None /\ x.rev = fixture[i].rev
          /\ x.slot = fixture[i].slot /\ x.pid = fixture[i].pid
      BY <1>7, <1>14, <2>2 DEF Current, Told, FlakeInv, FeedTold
    <2> HIDE DEF x
    <2>5. x \in Usable(imp[r].payload, imp[r].window)
      BY <2>2, <2>3, <2>4 DEF Shown, Usable
    <2>6. Resolve(x, catalog) \in kept /\ Resolve(x, catalog).pid = fixture[i].pid
      BY <1>11, <2>4, <2>5 DEF records, Resolve
    <2> QED
      BY <1>13, <2>1, <2>6
  \* The plan.
  <1>15. \A x \in kept : Told(x, feed, Sent) /\ TeamsTold(x)
    BY <1>9, <1>11
  <1>16. \A n \in Ins(id, new) : \E x \in new : n = [id |-> id[x], new |-> x] /\ n.new = x
    OBVIOUS
  <1>17. \A n \in Ins(id, new) : Told(n.new, feed, Sent) /\ TeamsTold(n.new)
    BY <1>15, <1>16
  <1>18. \A k, n \in Ins(id, new) : k.new.pid = n.new.pid => k = n
    <2> SUFFICES ASSUME NEW k \in Ins(id, new), NEW n \in Ins(id, new), k.new.pid = n.new.pid
                 PROVE  k = n
      OBVIOUS
    <2>1. PICK x \in new : k = [id |-> id[x], new |-> x] /\ k.new = x
      BY <1>16
    <2>2. PICK y \in new : n = [id |-> id[y], new |-> y] /\ n.new = y
      BY <1>16
    <2>3. x = y
      BY <1>10, <1>11, <2>1, <2>2
    <2> QED
      BY <2>1, <2>2, <2>3
  <1>19. \A u \in Revisions(target) :
           /\ UpdateTold(u, fixture[u.id], feed, Sent) /\ ~ Removes(u) /\ ~ Marks(u)
    <2> SUFFICES ASSUME NEW u \in Revisions(target)
                 PROVE  /\ UpdateTold(u, fixture[u.id], feed, Sent) /\ ~ Removes(u) /\ ~ Marks(u)
      OBVIOUS
    <2>1. PICK x \in kept :
            /\ target[x] # None
            /\ u = [id |-> target[x], kind |-> "revise", version |-> fixture[target[x]].version + 1,
                    new |-> x, change |-> ChangeType(fixture[target[x]], x)]
      BY DEF Revisions
    <2>2. u.id = target[x] /\ u.kind = "revise" /\ u.new = x
      BY <2>1
    <2> QED
      BY <1>12, <1>15, <2>1, <2>2 DEF UpdateTold, Removes, Marks
  <1>20. \A u \in Absences(missed) :
           /\ UpdateTold(u, fixture[u.id], feed, Sent)
           /\ u.id \in missed /\ (Removes(u) => fixture[u.id].missing)
    <2> SUFFICES ASSUME NEW u \in Absences(missed)
                 PROVE  /\ UpdateTold(u, fixture[u.id], feed, Sent)
                        /\ u.id \in missed /\ (Removes(u) => fixture[u.id].missing)
      OBVIOUS
    <2> HIDE DEF missed
    <2>1. \/ \E i \in missed : u = [id |-> i, kind |-> "mark"]
          \/ \E i \in missed :
               /\ fixture[i].missing
               /\ u = [id |-> i, kind |-> "remove", version |-> fixture[i].version + 1,
                       old |-> SnapshotOf(i, fixture[i].version + 1, "deleted", fixture[i])]
      BY DEF Absences
    <2>2. u.id \in missed /\ \/ u.kind = "mark"
                             \/ u.kind = "remove" /\ fixture[u.id].missing
      BY <2>1
    <2> QED
      BY <2>2 DEF UpdateTold, Removes
  <1> HIDE DEF missed, Ins, new
  <1>21. PlanTold(r)'
    <2>1. Sent' = Sent
      BY <1>5 DEF Sent
    <2> QED
      BY <1>4, <1>5, <1>17, <1>18, <1>19, <1>20, <2>1 DEF PlanTold
  <1>22. PlanSeen(r)'
    <2>1. (Steady' => Steady) /\ (Unflaked' => Unflaked)
      BY <1>5 DEF Steady, Unflaked
    <2> QED
      BY <1>4, <1>5, <1>14, <1>19, <1>20, <2>1 DEF PlanSeen
  <1> QED
    BY <1>21, <1>22

\* What an update does to the fields that name a match.
LEMMA UpdatedFields ==
  ASSUME NEW row \in Row, NEW u \in Update
  PROVE  LET new == Updated(row, u) IN
         /\ u.kind = "revise" =>
              /\ new.pid = u.new.pid /\ new.comp = u.new.comp /\ new.sides = u.new.sides
              /\ new.slot = u.new.slot /\ new.rev = u.new.rev /\ new.teams = u.new.teams
              /\ ~ new.deleted /\ ~ new.missing
         /\ ~ u.kind = "revise" =>
              /\ new.pid = row.pid /\ new.comp = row.comp /\ new.sides = row.sides
              /\ new.slot = row.slot /\ new.rev = row.rev /\ new.teams = row.teams
              /\ (new.deleted => row.deleted \/ Removes(u))
              /\ (new.missing => row.missing \/ Marks(u))
  <1>1. CASE u.kind = "revise"
    <2>1. Updated(row, u) = [FreshRow(u.new) EXCEPT !.version = u.version]
      BY <1>1 DEF Updated
    <2> QED
      BY <1>1, <2>1 DEF FreshRow
  <1>2. CASE u.kind = "mark"
    <2>1. Updated(row, u) = [row EXCEPT !.missing = TRUE]
      BY <1>2 DEF Updated
    <2> QED
      BY <1>2, <2>1 DEF Row, Marks
  <1>3. CASE u.kind = "remove"
    <2>1. Updated(row, u) = [row EXCEPT !.status = "deleted", !.deleted = TRUE,
                                        !.version = u.version]
      BY <1>3 DEF Updated
    <2> QED
      BY <1>3, <2>1 DEF Row, Removes
  <1> QED
    BY <1>1, <1>2, <1>3, UpdateKinds

\* What a transaction leaves of a row, and what it creates.
LEMMA PersistTold ==
  ASSUME OneFlake, IngestInv, FlakeInv, NEW r \in Runs, Persist(r)
  PROVE  RowsTold' /\ RowsSeen'
  <1>1. PlanTold(r) /\ PlanSeen(r) /\ RowsTold /\ RowsSeen
    BY DEF FlakeInv
  <1>2. feed' = feed /\ budget' = budget
    BY DEF Persist
  <1>3. /\ Sent' = Sent /\ (Steady' => Steady) /\ (Unflaked' => Unflaked)
    BY <1>2 DEF Sent, Steady, Unflaked
  <1>4. ASSUME NEW i \in Ids, fixture[i] # None
        PROVE  /\ fixture'[i] # None => Told(fixture'[i], feed, Sent) /\ TeamsTold(fixture'[i])
               /\ fixture'[i].pid = fixture[i].pid
               /\ Steady /\ Current(fixture'[i], feed) =>
                    ~ fixture'[i].deleted /\ (fixture'[i].missing => ~ Unflaked)
    <2>1. Told(fixture[i], feed, Sent) /\ TeamsTold(fixture[i])
      BY <1>1, <1>4 DEF RowsTold
    <2>2. CASE fixture'[i] = fixture[i]
      BY <1>1, <2>1, <2>2 DEF RowsSeen
    <2>3. ASSUME NEW u \in imp[r].updates, u.id = i, fixture'[i] = Updated(fixture[i], u)
          PROVE  /\ Told(fixture'[i], feed, Sent) /\ TeamsTold(fixture'[i])
                 /\ fixture'[i].pid = fixture[i].pid
                 /\ Steady /\ Current(fixture'[i], feed) =>
                      ~ fixture'[i].deleted /\ (fixture'[i].missing => ~ Unflaked)
      <3> DEFINE row == fixture[i]  new == fixture'[i]
      <3>1. u \in Update /\ row \in Row
        BY <1>4 DEF IngestInv, Typed, Import
      <3>2. UpdateTold(u, row, feed, Sent)
        BY <1>1, <2>3 DEF PlanTold
      <3>3. Steady /\ Current(row, feed) =>
              /\ ~ Removes(u) /\ (Marks(u) => ~ Unflaked)
              /\ ~ row.deleted /\ (row.missing => ~ Unflaked)
        BY <1>1, <2>3 DEF PlanSeen, RowsSeen
      <3>4. CASE u.kind = "revise"
        <4>1. /\ new.pid = u.new.pid /\ new.comp = u.new.comp /\ new.sides = u.new.sides
              /\ new.slot = u.new.slot /\ new.rev = u.new.rev /\ new.teams = u.new.teams
              /\ ~ new.deleted /\ ~ new.missing
          BY <2>3, <3>1, <3>4, UpdatedFields
        <4>2. Told(u.new, feed, Sent) /\ TeamsTold(u.new) /\ u.new.pid = row.pid
          BY <3>2, <3>4 DEF UpdateTold
        <4> HIDE DEF row, new
        <4>3. Told(new, feed, Sent) /\ TeamsTold(new) /\ new.pid = row.pid
          BY <4>1, <4>2 DEF Told, TeamsTold
        <4> QED
          BY <4>1, <4>3 DEF row, new
      <3>5. CASE ~ u.kind = "revise"
        <4>1. /\ new.pid = row.pid /\ new.comp = row.comp /\ new.sides = row.sides
              /\ new.slot = row.slot /\ new.rev = row.rev /\ new.teams = row.teams
              /\ (new.deleted => row.deleted \/ Removes(u))
              /\ (new.missing => row.missing \/ Marks(u))
          BY <2>3, <3>1, <3>5, UpdatedFields
        <4>2. Told(row, feed, Sent) /\ TeamsTold(row) /\ row # None
          BY <1>4, <2>1
        <4> HIDE DEF row, new
        <4>3. Told(new, feed, Sent) /\ TeamsTold(new)
          BY <4>1, <4>2 DEF Told, TeamsTold
        <4>4. Current(new, feed) => Current(row, feed)
          BY <4>1, <4>2 DEF Current
        <4>5. Steady /\ Current(new, feed) =>
                ~ new.deleted /\ (new.missing => ~ Unflaked)
          BY <3>3, <4>1, <4>4
        <4> QED
          BY <4>1, <4>3, <4>5 DEF row, new
      <3> QED
        BY <3>4, <3>5
    <2> QED
      BY <1>4, <2>2, <2>3, PersistRows DEF RowStep
  <1>5. ASSUME NEW i \in Ids, fixture[i] = None, fixture'[i] # None
        PROVE  \E n \in Inserted(imp[r].inserts) :
                 /\ n.id = i /\ fixture'[i].pid = n.new.pid
                 /\ Told(fixture'[i], feed, Sent) /\ TeamsTold(fixture'[i])
                 /\ ~ fixture'[i].deleted /\ ~ fixture'[i].missing
    <2>1. PICK n \in Inserted(imp[r].inserts) : n.id = i /\ fixture'[i] = FreshRow(n.new)
      BY <1>5, PersistRows DEF RowStep
    <2>2. Told(n.new, feed, Sent) /\ TeamsTold(n.new)
      BY <1>1 DEF PlanTold, Inserted
    <2> DEFINE x == n.new  new == fixture'[i]
    <2>3. /\ new.pid = x.pid /\ new.comp = x.comp /\ new.sides = x.sides /\ new.slot = x.slot
          /\ new.rev = x.rev /\ new.teams = x.teams /\ ~ new.deleted /\ ~ new.missing
      BY <2>1 DEF FreshRow
    <2> HIDE DEF x, new
    <2>4. Told(new, feed, Sent) /\ TeamsTold(new)
      BY <2>2, <2>3 DEF Told, TeamsTold, x
    <2> QED
      BY <2>1, <2>3, <2>4 DEF x, new
  <1>6. \A i \in Ids : fixture'[i] # None => Told(fixture'[i], feed, Sent) /\ TeamsTold(fixture'[i])
    BY <1>4, <1>5
  <1>7. ASSUME NEW i \in Ids, NEW j \in Ids, fixture[i] = None, fixture'[i] # None,
               fixture[j] # None, fixture'[i].pid = fixture'[j].pid
        PROVE  FALSE
    <2>1. PICK n \in Inserted(imp[r].inserts) :
            n.id = i /\ fixture'[i].pid = n.new.pid
      BY <1>5, <1>7
    <2>2. fixture[j].pid = n.new.pid /\ Told(fixture[j], feed, Sent)
      BY <1>1, <1>4, <1>7, <2>1 DEF RowsTold
    <2>3. Told(n.new, feed, Sent)
      BY <1>1 DEF PlanTold, Inserted
    <2>4. fixture[j].comp = n.new.comp
      BY <2>2, <2>3 DEF Told
    <2>5. Collides(n.new, n.id, fixture)
      BY <1>7, <2>1, <2>2, <2>4 DEF Collides
    <2> QED
      BY <2>5 DEF Inserted
  <1>8. ASSUME NEW i \in Ids, NEW j \in Ids, fixture'[i] # None, fixture'[j] # None,
               fixture'[i].pid = fixture'[j].pid
        PROVE  i = j
    <2>1. CASE fixture[i] # None /\ fixture[j] # None
      BY <1>1, <1>4, <1>8, <2>1 DEF RowsTold
    <2>2. CASE fixture[i] = None /\ fixture[j] = None
      <3>1. PICK n \in Inserted(imp[r].inserts) : n.id = i /\ fixture'[i].pid = n.new.pid
        BY <1>5, <1>8, <2>2
      <3>2. PICK k \in Inserted(imp[r].inserts) : k.id = j /\ fixture'[j].pid = k.new.pid
        BY <1>5, <1>8, <2>2
      <3>3. n = k
        BY <1>1, <1>8, <3>1, <3>2 DEF PlanTold, Inserted
      <3> QED
        BY <3>1, <3>2, <3>3
    <2>3. CASE fixture[i] = None /\ fixture[j] # None
      BY <1>7, <1>8, <2>3
    <2>4. CASE fixture[i] # None /\ fixture[j] = None
      BY <1>7, <1>8, <2>4
    <2> QED
      BY <2>1, <2>2, <2>3, <2>4
  <1>9. RowsTold'
    BY <1>2, <1>3, <1>6, <1>8 DEF RowsTold
  <1>10. ASSUME Steady, NEW i \in Ids, Current(fixture'[i], feed)
         PROVE  ~ fixture'[i].deleted /\ (fixture'[i].missing => ~ Unflaked)
    <2>1. fixture'[i] # None
      BY <1>10 DEF Current
    <2> QED
      BY <1>4, <1>5, <1>10, <2>1
  <1>11. RowsSeen'
    BY <1>2, <1>3, <1>10 DEF RowsSeen
  <1> QED
    BY <1>9, <1>11

\* What the other steps of an import leave in hand.
LEMMA PlanDropped ==
  ASSUME IngestInv, NEW r \in Runs,
         \/ \E scope \in Scopes : Start(r, scope)
         \/ Finish(r) \/ Crash(r) \/ Persist(r) \/ PersistAborts(r)
  PROVE  imp'[r].pc # "fetched" /\ imp'[r].inserts = {} /\ imp'[r].updates = {}
  <1>1. imp[r] \in Import /\ DOMAIN imp = Runs
    BY DEF IngestInv, Typed
  <1>2. CASE (\E scope \in Scopes : Start(r, scope)) \/ Finish(r) \/ Crash(r)
    <2>1. ASSUME NEW scope \in Scopes, Start(r, scope)
          PROVE  imp'[r].pc = "open" /\ imp'[r].inserts = {} /\ imp'[r].updates = {}
      <3>1. imp'[r] = [IdleImport EXCEPT !.pc = "open", !.status = "running",
                                         !.todo = scope, !.window = Windows[now]]
        BY <1>1, <2>1 DEF Start
      <3> QED
        BY <3>1 DEF IdleImport
    <2>2. CASE Finish(r)
      <3>1. imp'[r] = [IdleImport EXCEPT !.status = Outcome(imp[r])]
        BY <1>1, <2>2 DEF Finish
      <3> QED
        BY <3>1 DEF IdleImport
    <2>3. CASE Crash(r)
      <3>1. imp'[r] = [IdleImport EXCEPT !.pc = "aborted", !.status = "running"]
        BY <1>1, <2>3 DEF Crash
      <3> QED
        BY <3>1 DEF IdleImport
    <2> QED
      BY <1>2, <2>1, <2>2, <2>3
  <1>3. CASE Persist(r)
    <2>1. PICK rejected : EndCompetition(r, rejected # {})
      BY <1>3 DEF Persist
    <2> QED
      BY <1>1, <2>1 DEF EndCompetition, Import
  <1>4. CASE PersistAborts(r)
    BY <1>1, <1>4 DEF PersistAborts, Import
  <1> QED
    BY <1>2, <1>3, <1>4

LEMMA ComparePlans ==
  ASSUME IngestInv, NEW r \in Runs, Compare(r)
  PROVE  imp'[r].pc = "planned"
  <1>1. imp[r] \in Import /\ DOMAIN imp = Runs
    BY DEF IngestInv, Typed
  <1>2. \E inserts, updates :
          imp' = [imp EXCEPT ![r].pc = "planned", ![r].payload = NoPayload,
                             ![r].inserts = inserts, ![r].updates = updates]
    BY Zenon DEF Compare
  <1> QED
    BY <1>1, <1>2 DEF Import

LEMMA PlanKept ==
  ASSUME IngestInv, NEW r \in Runs, NEW c \in Competitions, Fetch(r, c) \/ FetchFails(r, c)
  PROVE  /\ imp'[r].inserts = imp[r].inserts /\ imp'[r].updates = imp[r].updates
         /\ FetchFails(r, c) => imp'[r].pc # "fetched"
  <1>1. imp[r] \in Import /\ DOMAIN imp = Runs
    BY DEF IngestInv, Typed
  <1>2. CASE FetchFails(r, c)
    <2>1. imp'[r] = [imp[r] EXCEPT !.todo = @ \ {c}, !.done = @ \cup {c}, !.failed = @ \cup {c}]
      BY <1>1, <1>2 DEF FetchFails
    <2> QED
      BY <1>1, <1>2, <2>1 DEF Import, FetchFails
  <1>3. CASE Fetch(r, c)
    <2>1. PICK answer \in Answers(c) :
            imp' = [imp EXCEPT
              ![r].pc = "fetched", ![r].comp = c, ![r].payload = answer.payload, ![r].todo = @ \ {c},
              ![r].invalid = @ \/ \E x \in DOMAIN answer.payload : HasErrors(answer.payload[x])]
      BY <1>3 DEF Fetch
    <2>2. /\ imp'[r].inserts = imp[r].inserts /\ imp'[r].updates = imp[r].updates
          /\ imp'[r].pc = "fetched"
      BY <1>1, <2>1 DEF Import
    <2>3. ~ FetchFails(r, c)
      <3>1. FetchFails(r, c) => imp'[r].pc = "open"
        BY <1>1 DEF FetchFails, Import
      <3> QED
        BY <2>2, <3>1
    <2> QED
      BY <2>2, <2>3
  <1> QED
    BY <1>2, <1>3

LEMMA FlakeStarts == Init => FlakeInv
  <1> SUFFICES ASSUME Init
               PROVE  FlakeInv
    OBVIOUS
  <1>1. \A r \in Runs : imp[r].pc # "fetched" /\ imp[r].inserts = {} /\ imp[r].updates = {}
    BY IdleIsImport DEF Init
  <1>2. /\ \A p \in Pids : feed[p] = None
        /\ \A i \in Ids : fixture[i] = None /\ catalog = Known
    BY DEF Init
  <1>3. FeedTold /\ RowsTold /\ RowsSeen
    BY <1>2 DEF FeedTold, RowsTold, RowsSeen, Current
  <1>4. \A r \in Runs : PayloadTold(r) /\ PayloadSeen(r) /\ PlanTold(r) /\ PlanSeen(r)
    BY <1>1 DEF PayloadTold, PayloadSeen, PlanTold, PlanSeen
  <1> QED
    BY <1>3, <1>4 DEF Init, FlakeInv

LEMMA FlakeContinues ==
  ASSUME OneFlake, IngestInv, FlakeInv, [Next]_vars
  PROVE  FlakeInv'
  <1>1. FeedTold' /\ Known \subseteq catalog'
    BY FlakeFrame DEF FlakeInv
  <1>2. ASSUME NEW r \in Runs,
               imp'[r].pc # "fetched", imp'[r].inserts = {}, imp'[r].updates = {}
        PROVE  PayloadTold(r)' /\ PayloadSeen(r)' /\ PlanTold(r)' /\ PlanSeen(r)'
    BY <1>2 DEF PayloadTold, PayloadSeen, PlanTold, PlanSeen
  <1>3. ASSUME NEW r \in Runs, PayloadTold(r)' /\ PayloadSeen(r)' /\ PlanTold(r)' /\ PlanSeen(r)',
               RowsTold', RowsSeen'
        PROVE  FlakeInv'
    BY <1>1, <1>3 DEF FlakeInv, OneFlake
  <1>4. ASSUME NEW r \in Runs, Persist(r)
        PROVE  FlakeInv'
    BY <1>2, <1>3, <1>4, PersistTold, PlanDropped
  <1>5. ASSUME NEW r \in Runs,
               \/ \E scope \in Scopes : Start(r, scope)
               \/ Finish(r) \/ Crash(r) \/ PersistAborts(r)
        PROVE  FlakeInv'
    <2>1. fixture' = fixture
      BY <1>5 DEF Start, Finish, Crash, PersistAborts
    <2> QED
      BY <1>2, <1>3, <1>5, <2>1, RowsStay, PlanDropped
  <1>6. ASSUME NEW r \in Runs, NEW c \in Competitions, Fetch(r, c)
        PROVE  FlakeInv'
    <2>1. fixture' = fixture
      BY <1>6 DEF Fetch
    <2>2. PlanTold(r)' /\ PlanSeen(r)'
      BY <1>6, <2>1, PlanKept, PlanStays
    <2> QED
      BY <1>3, <1>6, <2>1, <2>2, RowsStay, FetchTold
  <1>7. ASSUME NEW r \in Runs, NEW c \in Competitions, FetchFails(r, c)
        PROVE  FlakeInv'
    <2>1. fixture' = fixture
      BY <1>7 DEF FetchFails
    <2>2. PlanTold(r)' /\ PlanSeen(r)' /\ PayloadTold(r)' /\ PayloadSeen(r)'
      BY <1>7, <2>1, PlanKept, PlanStays, PayloadStays
    <2> QED
      BY <1>3, <2>1, <2>2, RowsStay
  <1>8. ASSUME NEW r \in Runs, Compare(r)
        PROVE  FlakeInv'
    <2>1. fixture' = fixture
      BY <1>8 DEF Compare
    <2>2. imp'[r].pc # "fetched"
      BY <1>8, ComparePlans
    <2>3. PayloadTold(r)' /\ PayloadSeen(r)'
      BY <2>2 DEF PayloadTold, PayloadSeen
    <2> QED
      BY <1>3, <1>8, <2>1, <2>3, RowsStay, CompareTold
  <1>9. CASE imp' = imp /\ fixture' = fixture
    <2>1. \A r \in Runs : PayloadTold(r)' /\ PayloadSeen(r)' /\ PlanTold(r)' /\ PlanSeen(r)'
      BY <1>9, PayloadStays, PlanStays
    <2> QED
      BY <1>1, <1>9, <2>1, RowsStay DEF FlakeInv
  <1>10. CASE \/ \E p \in Pids : \/ \E slot \in Slots, status \in Statuses : Publish(p, slot, status)
                                 \/ Withdraw(p)
              \/ \E t \in Teams : Learn(t)
              \/ TimePasses \/ UNCHANGED vars
    BY <1>9, <1>10 DEF Publish, Withdraw, Learn, TimePasses, vars
  <1> QED
    BY <1>4, <1>5, <1>6, <1>7, <1>8, <1>10 DEF Next, RunStep

\* As long as imports do not overlap, and matches are told apart, one payload
\* that lacks a record or spoils it removes no fixture that the provider has
\* neither withdrawn nor changed: _handle_absences needs a second absence.
THEOREM OneFlakeSurvived ==
  ASSUME OneFlake
  PROVE  Spec => []OneFlakeNeverDeletes
  <1>1. FlakeInv => OneFlakeNeverDeletes
    BY DEF FlakeInv, RowsSeen, Steady, Current, OneFlakeNeverDeletes
  <1>2. IngestInv /\ FlakeInv /\ [Next]_vars => FlakeInv'
    BY FlakeContinues
  <1> QED
    BY <1>1, <1>2, FlakeStarts, IngestAlways, PTL DEF Spec
==============================================================================
