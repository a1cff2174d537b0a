-------------------------- MODULE FixtureIngestion ---------------------------
(***************************************************************************)
(* FixtureIngestionService: imports of the provider's fixtures, competition *)
(* by competition.  An import fetches a payload, compares it with the rows *)
(* it reads, and writes what it planned in one transaction; other imports  *)
(* may come between any two of these steps, for imports of a sport and of  *)
(* its provider are different jobs and POST /fixtures/import takes no lock. *)
(*                                                                         *)
(* The unique constraints are the database's: (competition, provider id),  *)
(* identity key, and (fixture, version) of the history.                    *)
(***************************************************************************)
EXTENDS FixtureMatching

CONSTANTS
  CompOf, SidesOf,  \* competition and participants of each provider id
  Undated,          \* provider ids sent without an updated-at
  Runs,             \* processes that may be inside _run
  Scopes,           \* the sets of competitions an import may be asked for
  Windows,          \* the import window, as time passes
  Known,            \* teams in the catalog at first
  IssueSamples,     \* sets of issues a spoiled record may have
  MaxRows,          \* bound: fixtures ever created
  Endless,          \* may imports begin for ever, or within the budget only?
  Budget            \* bound: how often each environment event may happen

Events == {"import", "publish", "withdraw", "flake", "fetch", "learn", "time", "crash"}

ASSUME IngestionAssumption ==
  /\ CompOf \in [Pids -> Competitions] /\ SidesOf \in [Pids -> SUBSET Teams]
  /\ Undated \subseteq Pids
  /\ Scopes \subseteq SUBSET Competitions
  /\ Windows \in Seq(SUBSET Slots) /\ Windows # <<>>
  /\ Known \subseteq Teams
  /\ IssueSamples \subseteq SUBSET (ErrorCodes \cup WarningCodes)
  /\ MaxRows \in Nat /\ Endless \in BOOLEAN
  /\ Budget \in [Events -> Nat]

Ids == 1 .. MaxRows

VARIABLES
  feed,     \* what the provider has for each id
  fixture,  \* the fixtures table
  history,  \* the fixture_versions table
  catalog,  \* the teams table
  now,      \* which window an import takes that starts now
  imp,      \* each process's import and its import_runs row
  budget    \* environment events left

vars == <<feed, fixture, history, catalog, now, imp, budget>>

\* hashed is the status the content hash digests: a removal does not rehash.
Row == [comp : Competitions, pid : Pids, sides : SUBSET Teams, slot : Slots,
        status : FixtureStatus \cup {"deleted"}, hashed : Statuses, rev : Nat,
        teams : SUBSET Teams, version : Nat \ {0}, deleted : BOOLEAN, missing : BOOLEAN]

\* None is no row, and no row of FixtureTable.
ASSUME NoRowAssumption ==
  /\ None \notin Row
  /\ None \notin [version : Nat \ {0}, rev : Nat, deleted : BOOLEAN, missing : BOOLEAN]

Version == [id : Ids, version : Nat \ {0}, change : ChangeTypes, slot : Slots,
            status : FixtureStatus, teams : SUBSET Teams, rev : Nat]

\* What the pipeline has decided: rows to insert and rows to update.
Insertion == [id : Ids, new : Candidate]
Update ==
  [id : Ids, kind : {"revise"}, version : Nat \ {0}, new : Candidate, change : ChangeTypes]
    \cup [id : Ids, kind : {"mark"}]
    \cup [id : Ids, kind : {"remove"}, version : Nat \ {0}, old : Version]

ImportStatus == {"none", "running", "success", "partial", "failed"}

ImportOK(m) ==
  /\ m.pc \in {"idle", "open", "fetched", "planned", "aborted"}
  /\ m.status \in ImportStatus /\ m.window \subseteq Slots
  /\ m.todo \subseteq Competitions /\ m.comp \in Competitions \cup {None}
  /\ DOMAIN m.payload \subseteq Record
  /\ \A x \in DOMAIN m.payload : m.payload[x] \subseteq ErrorCodes \cup WarningCodes
  /\ m.inserts \subseteq Insertion /\ m.updates \subseteq Update
  /\ m.done \subseteq Competitions /\ m.failed \subseteq m.done /\ m.invalid \in BOOLEAN

NoPayload == [r \in {} |-> {}]
IdleImport == [pc |-> "idle", status |-> "none", window |-> {}, todo |-> {}, comp |-> None,
               payload |-> NoPayload, inserts |-> {}, updates |-> {},
               done |-> {}, failed |-> {}, invalid |-> FALSE]

Init ==
  /\ feed = [p \in Pids |-> None]
  /\ fixture = [i \in Ids |-> None]
  /\ history = {}
  /\ catalog = Known
  /\ now = 1
  /\ imp = [r \in Runs |-> IdleImport]
  /\ budget = Budget

Spend(event) == budget[event] > 0 /\ budget' = [budget EXCEPT ![event] = @ - 1]

-----------------------------------------------------------------------------
\* The run

\* _run: the import_runs row is committed before any work.
Start(r, scope) ==
  /\ imp[r].pc \in {"idle", "aborted"}
  /\ IF Endless THEN UNCHANGED budget ELSE Spend("import")
  /\ imp' = [imp EXCEPT ![r] = [IdleImport EXCEPT !.pc = "open", !.status = "running",
                                                  !.todo = scope, !.window = Windows[now]]]
  /\ UNCHANGED <<feed, fixture, history, catalog, now>>

Published(c) == {feed[p] : p \in {q \in Pids : CompOf[q] = c /\ feed[q] # None}}

\* What get_fixtures may return: the provider may lack records or spoil them.
Answers(c) ==
  {[lost |-> lost, payload |-> [x \in Published(c) \ lost |-> IF x \in bad THEN issues ELSE {}]] :
     lost \in SUBSET Published(c), bad \in SUBSET Published(c), issues \in IssueSamples}

Spoiled(payload) == {x \in DOMAIN payload : payload[x] # {}}

\* Step 1, and the count of the invalid of steps 2 and 3.
Fetch(r, c) ==
  /\ imp[r].pc = "open" /\ c \in imp[r].todo
  /\ \E answer \in Answers(c) :
       /\ IF answer.lost = {} /\ Spoiled(answer.payload) = {}
          THEN UNCHANGED budget ELSE Spend("flake")
       /\ imp' = [imp EXCEPT
            ![r].pc = "fetched", ![r].comp = c, ![r].payload = answer.payload, ![r].todo = @ \ {c},
            ![r].invalid = @ \/ \E x \in DOMAIN answer.payload : HasErrors(answer.payload[x])]
  /\ UNCHANGED <<feed, fixture, history, catalog, now>>

\* Mutant of FetchFails: the failed competition is not counted as processed.
FetchForgotten(r, c) ==
  /\ imp[r].pc = "open" /\ c \in imp[r].todo
  /\ Spend("fetch")
  /\ imp' = [imp EXCEPT ![r].todo = @ \ {c}, ![r].failed = @ \cup {c}]
  /\ UNCHANGED <<feed, fixture, history, catalog, now>>

\* An AppError of the provider is isolated to its competition.
FetchFails(r, c) ==
  /\ imp[r].pc = "open" /\ c \in imp[r].todo
  /\ Spend("fetch")
  /\ imp' = [imp EXCEPT ![r].todo = @ \ {c}, ![r].done = @ \cup {c}, ![r].failed = @ \cup {c}]
  /\ UNCHANGED <<feed, fixture, history, catalog, now>>

\* list_for_matching: the competition's rows in the window, deleted ones too.
ForMatching(c, window) ==
  {i \in Ids : fixture[i] # None /\ fixture[i].comp = c /\ fixture[i].slot \in window}

\* A uuid4 that no row has and nobody else has drawn.
Unused ==
  {i \in Ids : fixture[i] = None /\ \A r \in Runs : \A n \in imp[r].inserts : n.id # i}
FirstUnused(n) == {i \in Unused : Cardinality({j \in Unused : j < i}) < n}

SnapshotOf(i, version, change, x) ==
  [id |-> i, version |-> version, change |-> change, slot |-> x.slot,
   status |-> x.status, teams |-> x.teams, rev |-> x.rev]

\* The update of a matched row, none when it is stale or says nothing new.
Revisions(target) ==
  {[id |-> target[x], kind |-> "revise", version |-> fixture[target[x]].version + 1,
    new |-> x, change |-> ChangeType(fixture[target[x]], x)] :
     x \in {y \in DOMAIN target :
              /\ target[y] # None
              /\ ~ Stale(y, fixture[target[y]]) /\ ~ Unchanged(y, fixture[target[y]])}}

\* Mutant of Absences: one absence is enough.
DeleteAtOnce(missed) ==
  {[id |-> i, kind |-> "remove", version |-> fixture[i].version + 1,
    old |-> SnapshotOf(i, fixture[i].version + 1, "deleted", fixture[i])] : i \in missed}

\* _handle_absences: the first absence marks, the second removes; the version
\* row of a removal shows the state before it.
Absences(missed) ==
  {[id |-> i, kind |-> "mark"] : i \in {j \in missed : ~ fixture[j].missing}}
    \cup {[id |-> i, kind |-> "remove", version |-> fixture[i].version + 1,
           old |-> SnapshotOf(i, fixture[i].version + 1, "deleted", fixture[i])] :
            i \in {j \in missed : fixture[j].missing}}

\* Steps 2 to 8 of _import_competition.
Compare(r) ==
  /\ imp[r].pc = "fetched"
  /\ LET existing == ForMatching(imp[r].comp, imp[r].window) IN
     \E kept \in Deduped({Resolve(x, catalog) : x \in Usable(imp[r].payload, imp[r].window)}) :
     \E target \in [kept -> Ids \cup {None}] :
       /\ \A x \in kept : target[x] \in Targets(x, existing, fixture)
       /\ LET new    == {x \in kept : target[x] = None}
              missed == {i \in existing : /\ ~ fixture[i].deleted
                                          /\ \A x \in kept : target[x] # i} IN
          \E id \in [new -> FirstUnused(Cardinality(new))] :
            /\ \A x, y \in new : id[x] = id[y] => x = y
            /\ imp' = [imp EXCEPT ![r].pc = "planned", ![r].payload = NoPayload,
                         ![r].inserts = {[id |-> id[x], new |-> x] : x \in new},
                         ![r].updates = Revisions(target) \cup Absences(missed)]
  /\ UNCHANGED <<feed, fixture, history, catalog, now, budget>>

-----------------------------------------------------------------------------
\* Persistence

\* UNIQUE (competition_id, provider_fixture_id) and UNIQUE (identity_key).
Collides(x, i, rows) ==
  \E j \in Ids \ {i} :
    /\ rows[j] # None
    /\ (rows[j].comp = x.comp /\ rows[j].pid = x.pid) \/ Identity(rows[j]) = Identity(x)

FreshRow(x) ==
  [comp |-> x.comp, pid |-> x.pid, sides |-> x.sides, slot |-> x.slot, status |-> x.status,
   hashed |-> x.status, rev |-> x.rev, teams |-> x.teams, version |-> 1,
   deleted |-> FALSE, missing |-> FALSE]

\* _insert_chunk: a row that meets another import's is dropped.
Inserted(inserts) == {n \in inserts : ~ Collides(n.new, n.id, fixture)}

WithInserted(inserts) ==
  [i \in Ids |-> IF \E n \in Inserted(inserts) : n.id = i
                 THEN FreshRow((CHOOSE n \in Inserted(inserts) : n.id = i).new)
                 ELSE fixture[i]]

\* One UPDATE.  A mark and a removal leave the row's keys alone.
Updated(row, u) ==
  CASE u.kind = "revise" -> [FreshRow(u.new) EXCEPT !.version = u.version]
    [] u.kind = "mark"   -> [row EXCEPT !.missing = TRUE]
    [] u.kind = "remove" -> [row EXCEPT !.status = "deleted", !.deleted = TRUE,
                                        !.version = u.version]

\* _update_chunk row by row: an UPDATE that meets a unique key is skipped.
Rejected(rows, updates) ==
  FoldLeft(LAMBDA acc, u :
             IF u.kind = "revise" /\ Collides(u.new, u.id, acc.rows)
             THEN [acc EXCEPT !.rejected = @ \cup {u}]
             ELSE [acc EXCEPT !.rows[u.id] = Updated(@, u)],
           [rows |-> rows, rejected |-> {}], updates).rejected

\* The fixtures when the updates are made in some order.
Outcomes(rows, updates) ==
  {Rejected(rows, order) : order \in SetToSeqs(updates)}

AfterUpdates(rows, updates) ==
  [i \in Ids |-> IF \E u \in updates : u.id = i
                 THEN Updated(rows[i], CHOOSE u \in updates : u.id = i)
                 ELSE rows[i]]

CreatedRows(inserts) == {SnapshotOf(n.id, 1, "created", n.new) : n \in Inserted(inserts)}

\* Mutant of RevisedRows: a removal has no version row.
RevisionsOnly(updates) ==
  {SnapshotOf(u.id, u.version, u.change, u.new) : u \in {v \in updates : v.kind = "revise"}}

RevisedRows(updates) ==
  {IF u.kind = "revise" THEN SnapshotOf(u.id, u.version, u.change, u.new) ELSE u.old :
     u \in {v \in updates : v.kind # "mark"}}

\* The version rows of what was inserted and of every update, rejected or not.
VersionRows(inserts, updates) == CreatedRows(inserts) \cup RevisedRows(updates)

\* Mutant of VersionsFree: the history has no unique constraint.
PlanIsSound(inserts, updates) == \A t, u \in updates : t # u => t.id # u.id

\* UNIQUE (fixture_id, version).
VersionsFree(inserts, updates) ==
  /\ \A v \in VersionRows(inserts, updates) :
       \A w \in history : w.id # v.id \/ w.version # v.version
  /\ \A t, u \in updates : t # u => t.id # u.id

EndCompetition(r, failed) ==
  imp' = [imp EXCEPT ![r].pc = "open", ![r].comp = None,
                     ![r].inserts = {}, ![r].updates = {},
                     ![r].done = @ \cup {imp[r].comp},
                     ![r].failed = IF failed THEN @ \cup {imp[r].comp} ELSE @]

\* _persist: one transaction per competition.
Persist(r) ==
  /\ imp[r].pc = "planned"
  /\ VersionsFree(imp[r].inserts, imp[r].updates)
  /\ \E rejected \in Outcomes(WithInserted(imp[r].inserts), imp[r].updates) :
       /\ fixture' = AfterUpdates(WithInserted(imp[r].inserts), imp[r].updates \ rejected)
       /\ EndCompetition(r, rejected # {})
  /\ history' = history \cup VersionRows(imp[r].inserts, imp[r].updates)
  /\ UNCHANGED <<feed, catalog, now, budget>>

\* The version rows are inserted without a savepoint: a duplicate escapes _run,
\* and the import_runs row stays RUNNING.
PersistAborts(r) ==
  /\ imp[r].pc = "planned"
  /\ ~ VersionsFree(imp[r].inserts, imp[r].updates)
  /\ imp' = [imp EXCEPT ![r].pc = "aborted", ![r].inserts = {}, ![r].updates = {}]
  /\ UNCHANGED <<feed, fixture, history, catalog, now, budget>>

\* ImportReport.finalize.
Outcome(run) ==
  IF run.failed # {} /\ run.failed = run.done THEN "failed"
  ELSE IF run.failed # {} \/ run.invalid THEN "partial"
  ELSE "success"

\* _persist_report.
Finish(r) ==
  /\ imp[r].pc = "open" /\ imp[r].todo = {}
  /\ imp' = [imp EXCEPT ![r] = [IdleImport EXCEPT !.status = Outcome(imp[r])]]
  /\ UNCHANGED <<feed, fixture, history, catalog, now, budget>>

-----------------------------------------------------------------------------
\* The environment

\* The process dies, or the database fails: the open transaction is lost.
Crash(r) ==
  /\ imp[r].pc \in {"open", "fetched", "planned"}
  /\ Spend("crash")
  /\ imp' = [imp EXCEPT ![r] = [IdleImport EXCEPT !.pc = "aborted", !.status = "running"]]
  /\ UNCHANGED <<feed, fixture, history, catalog, now>>

\* The provider announces or changes a fixture, at a later moment each time.
Publish(p, slot, status) ==
  /\ feed[p] # None => <<feed[p].slot, feed[p].status>> # <<slot, status>>
  /\ Spend("publish")
  /\ feed' = [feed EXCEPT ![p] =
       [comp |-> CompOf[p], pid |-> p, sides |-> SidesOf[p], slot |-> slot, status |-> status,
        rev |-> IF p \in Undated THEN 0 ELSE Budget["publish"] - budget["publish"] + 1]]
  /\ UNCHANGED <<fixture, history, catalog, now, imp>>

Withdraw(p) ==
  /\ feed[p] # None
  /\ Spend("withdraw")
  /\ feed' = [feed EXCEPT ![p] = None]
  /\ UNCHANGED <<fixture, history, catalog, now, imp>>

\* A metadata refresh adds teams.
Learn(t) ==
  /\ t \notin catalog
  /\ Spend("learn")
  /\ catalog' = catalog \cup {t}
  /\ UNCHANGED <<feed, fixture, history, now, imp>>

\* default_window follows the clock.
TimePasses ==
  /\ now < Len(Windows)
  /\ Spend("time")
  /\ now' = now + 1
  /\ UNCHANGED <<feed, fixture, history, catalog, imp>>

-----------------------------------------------------------------------------

RunStep(r) ==
  \/ \E scope \in Scopes : Start(r, scope)
  \/ \E c \in Competitions : Fetch(r, c)
  \/ Compare(r) \/ Persist(r) \/ PersistAborts(r) \/ Finish(r)

Next ==
  \/ \E r \in Runs : RunStep(r) \/ Crash(r) \/ \E c \in Competitions : FetchFails(r, c)
  \/ \E p \in Pids : \/ \E slot \in Slots, status \in Statuses : Publish(p, slot, status)
                     \/ Withdraw(p)
  \/ \E t \in Teams : Learn(t)
  \/ TimePasses

Spec == Init /\ [][Next]_vars

\* Beat enqueues an import of every sport again and again, and a run goes on.
FairSpec == Spec /\ \A r \in Runs : WF_vars(RunStep(r))

-----------------------------------------------------------------------------
\* Safety

TypeOK ==
  /\ feed \in [Pids -> Record \cup {None}]
  /\ fixture \in [Ids -> Row \cup {None}]
  /\ history \subseteq Version
  /\ catalog \subseteq Teams
  /\ now \in 1 .. Len(Windows)
  /\ DOMAIN imp = Runs /\ \A r \in Runs : ImportOK(imp[r])
  /\ budget \in [Events -> Nat]

\* Whatever imports overlap, abort or reject, the history of a fixture has no
\* gap, and its newest version is what a fixture that is not deleted says.
HistoryTellsRow ==
  \A i \in Ids : fixture[i] # None =>
    /\ \A v \in 1 .. fixture[i].version : \E h \in history : h.id = i /\ h.version = v
    /\ fixture[i].deleted \/
       \E h \in history : /\ h.id = i /\ h.version = fixture[i].version
                          /\ h.slot = fixture[i].slot /\ h.status = fixture[i].status
                          /\ h.teams = fixture[i].teams /\ h.rev = fixture[i].rev

\* A row never becomes the row of another match, however ids are reissued and
\* kick-offs moved: the third rung "can never merge two different matches"
\* (deduplication.py:17).  True as long as the catalog knows every team.
MatchKept ==
  [][\A i \in Ids : fixture[i] # None => fixture'[i].sides = fixture[i].sides]_vars

\* One payload that lacks a record, or spoils it, never deletes a fixture the
\* provider has neither withdrawn nor moved since: deletion takes two absences.
OneFlakeNeverDeletes ==
  budget["withdraw"] = Budget["withdraw"] =>
    \A i \in Ids : /\ fixture[i] # None
                   /\ feed[fixture[i].pid] # None
                   /\ feed[fixture[i].pid].rev = fixture[i].rev
                 => ~ fixture[i].deleted

\* "One failing competition does not abort the others"
\* (fixture_ingestion_service.py:13): a run that is not killed gets through
\* all its competitions.
CompetitionsIsolated ==
  \A r \in Runs : imp[r].pc = "aborted" /\ budget["crash"] = Budget["crash"] => imp[r].todo = {}

\* "The snapshot preserves the resulting state" (models/ingestion.py:60): the
\* newest version has the status of the row.
SnapshotTellsStatus ==
  \A i \in Ids : fixture[i] # None =>
    \E h \in history : /\ h.id = i /\ h.version = fixture[i].version
                       /\ h.status = fixture[i].status

TableRow(row) ==
  IF row = None THEN None
  ELSE [version |-> row.version, rev |-> row.rev, deleted |-> row.deleted, missing |-> row.missing]

Table == INSTANCE FixtureTable WITH table <- [i \in Ids |-> TableRow(fixture[i])],
                                    NoFixture <- None

\* Overlapping imports implement the table: no older revision ever replaces a
\* newer one, versions advance one by one, and only marked rows are removed.
ImplementsTable == Table!TableSpec

-----------------------------------------------------------------------------
\* Liveness

\* The fixtures are what the provider has.
InStep ==
  /\ \A p \in Pids : feed[p] # None /\ feed[p].slot \in Windows[now] =>
       \E i \in Ids : /\ fixture[i] # None /\ ~ fixture[i].deleted
                      /\ Identity(fixture[i]) = Identity(feed[p])
                      /\ fixture[i].slot = feed[p].slot /\ fixture[i].status = feed[p].status
  /\ \A i \in Ids : fixture[i] # None /\ fixture[i].slot \in Windows[now] /\ ~ fixture[i].deleted =>
       \E p \in Pids : feed[p] # None /\ Identity(feed[p]) = Identity(fixture[i])

\* Repeated imports bring the table in step with the provider, whatever was
\* published, withdrawn, left out of a payload or lost in a crash.
Converges == <>[]InStep

\* A team the catalog learns later reaches the fixtures it plays in.
TeamsFilledIn ==
  <>[](\A i \in Ids : fixture[i] # None => fixture[i].teams = fixture[i].sides \cap catalog)
=============================================================================
