---------------------------- MODULE SportsCatalog ----------------------------
(***************************************************************************)
(* SportsService and MetadataService: cached reads of a provider's         *)
(* metadata, and the refreshes that store it in the catalog: those of the  *)
(* API and those of the maintenance jobs, in different processes.          *)
(*                                                                         *)
(* Metadata is a version: it stands for the competitions, or the teams,    *)
(* that a provider lists.                                                  *)
(***************************************************************************)
EXTENDS ProviderCalls, FiniteSets

CONSTANTS
  None,
  Tasks,       \* requests and jobs that may be under way
  ProcessOf,   \* the process each runs in: "api" or "worker"
  MaxVersion   \* bound: changes of the provider's metadata

ASSUME CatalogAssumption ==
  /\ Processes = {"api", "worker"} /\ ProcessOf \in [Tasks -> Processes]
  /\ MaxVersion \in Nat /\ None \notin Nat

VARIABLES
  upstream,  \* external: the provider's metadata
  cache,     \* Redis: the cached list
  catalog,   \* the competitions and teams tables, as the provider's rows are
  status,    \* the provider_metadata row
  task       \* requests and jobs under way

vars == <<callVars, upstream, cache, catalog, status, task>>

Versions == 0..MaxVersion
Stored == Versions \cup {None}
Entry == [version : Versions, ttl : BOOLEAN]
Catalog == [competitions : Stored, teams : Stored]

Idle == [pc |-> "idle"]

\* What a task is: a read, or a refresh of either kind; got and teams are what the
\* provider listed, old the rows as they were loaded.
TaskRecords ==
  {Idle}
  \cup [pc : {"send"}, what : {"list", "competitions"}, attempt : 1..MaxAttempts]
  \cup [pc : {"store"}, got : Versions]
  \cup [pc : {"upsert"}, got : Versions, old : Catalog]
  \cup [pc : {"send"}, what : {"teams"}, attempt : 1..MaxAttempts, got : Versions, old : Catalog]
  \cup [pc : {"commit"}, got : Stored, teams : Stored, old : Catalog]
  \cup [pc : {"invalidate"}]

Init ==
  /\ CallInit
  /\ upstream = 0
  /\ cache = None
  /\ catalog = [competitions |-> None, teams |-> None]
  /\ status = "healthy"
  /\ task = [t \in Tasks |-> Idle]

Goto(t, record) == task' = [task EXCEPT ![t] = record]

-----------------------------------------------------------------------------
\* Calls

\* What an AppError leaves to be done: a read fails; a refresh marks the provider
\* down; one that fails for the teams of a competition goes on without them.
Given(call) ==
  CASE call.what = "list" -> Idle
    [] call.what = "competitions" ->
         [pc |-> "commit", got |-> None, teams |-> None, old |-> catalog]
    [] call.what = "teams" ->
         [pc |-> "commit", got |-> call.got, teams |-> None, old |-> call.old]

\* CircuitBreaker.call
Call(t, call) ==
  /\ breaker' = [breaker EXCEPT ![ProcessOf[t]] = Seen(@)]
  /\ Goto(t, IF Admits(breaker[ProcessOf[t]]) THEN call ELSE Given(call))
  /\ UNCHANGED <<up, left, upstream, cache, catalog, status>>

\* GET /sports/...: cached_json answers from the cache, or calls the provider.
Read(t) ==
  /\ task[t] = Idle /\ ProcessOf[t] = "api"
  /\ cache = None
  /\ Call(t, [pc |-> "send", what |-> "list", attempt |-> 1])

\* POST /sports/refresh, and the job of the worker.
Refresh(t) ==
  /\ task[t] = Idle
  /\ Call(t, [pc |-> "send", what |-> "competitions", attempt |-> 1])

\* The competitions are upserted; their teams come next.
Upsert(t) ==
  /\ task[t].pc = "upsert"
  /\ Call(t, [pc |-> "send", what |-> "teams", attempt |-> 1,
              got |-> task[t].got, old |-> task[t].old])

\* A list goes to the cache; the competitions are upserted over the rows as they
\* are now, and the teams over theirs.
Answered(t) ==
  CASE task[t].what = "list" -> [pc |-> "store", got |-> upstream]
    [] task[t].what = "competitions" ->
         [pc |-> "upsert", got |-> upstream, old |-> catalog]
    [] task[t].what = "teams" ->
         [pc |-> "commit", got |-> task[t].got, teams |-> upstream,
          old |-> [task[t].old EXCEPT !.teams = catalog.teams]]

Receive(t) ==
  /\ task[t].pc = "send"
  /\ Succeeds(ProcessOf[t])
  /\ Goto(t, Answered(t))
  /\ UNCHANGED <<upstream, cache, catalog, status>>

Retry(t) ==
  /\ task[t].pc = "send"
  /\ TriesAgain(task[t].attempt)
  /\ task' = [task EXCEPT ![t].attempt = @ + 1]
  /\ UNCHANGED <<upstream, cache, catalog, status>>

Exhaust(t) ==
  /\ task[t].pc = "send"
  /\ GivesUp(ProcessOf[t], task[t].attempt)
  /\ Goto(t, Given(task[t]))
  /\ UNCHANGED <<upstream, cache, catalog, status>>

Refused(t) ==
  /\ task[t].pc = "send"
  /\ Refuses
  /\ Goto(t, Given(task[t]))
  /\ UNCHANGED <<upstream, cache, catalog, status>>

-----------------------------------------------------------------------------
\* Endings

\* Mutant of Store: SET without an expiry.
StoreForGood(t) ==
  /\ task[t].pc = "store"
  /\ cache' = [version |-> task[t].got, ttl |-> FALSE]
  /\ Goto(t, Idle)
  /\ UNCHANGED <<callVars, upstream, catalog, status>>

\* SET with the provider's TTL, whatever was invalidated since the load began.
Store(t) ==
  /\ task[t].pc = "store"
  /\ cache' = [version |-> task[t].got, ttl |-> TRUE]
  /\ Goto(t, Idle)
  /\ UNCHANGED <<callVars, upstream, catalog, status>>

\* Two refreshes insert the same rows: the later one is rolled back.
Collides(t) ==
  \/ task[t].got # None /\ task[t].old.competitions = None /\ catalog.competitions # None
  \/ task[t].teams # None /\ task[t].old.teams = None /\ catalog.teams # None

\* An UPDATE where the value differs from the one that was loaded.
Written(now, old, new) == IF new = None \/ new = old THEN now ELSE new

\* The commit of refresh: the rows, and _mark_provider.  Only the service of the
\* API clears the cache afterwards.
Commit(t) ==
  /\ task[t].pc = "commit"
  /\ ~ Collides(t)
  /\ catalog' = [competitions |-> Written(catalog.competitions, task[t].old.competitions, task[t].got),
                 teams |-> Written(catalog.teams, task[t].old.teams, task[t].teams)]
  /\ status' = IF task[t].got = None THEN "down" ELSE "healthy"
  /\ Goto(t, IF ProcessOf[t] = "api" THEN [pc |-> "invalidate"] ELSE Idle)
  /\ UNCHANGED <<callVars, upstream, cache>>

RollBack(t) ==
  /\ task[t].pc = "commit"
  /\ Collides(t)
  /\ Goto(t, Idle)
  /\ UNCHANGED <<callVars, upstream, cache, catalog, status>>

\* delete_prefix
Invalidate(t) ==
  /\ task[t].pc = "invalidate"
  /\ cache' = None
  /\ Goto(t, Idle)
  /\ UNCHANGED <<callVars, upstream, catalog, status>>

-----------------------------------------------------------------------------

Expires ==
  /\ cache # None /\ cache.ttl
  /\ cache' = None
  /\ UNCHANGED <<callVars, upstream, catalog, status, task>>

UpstreamChanges ==
  /\ upstream < MaxVersion
  /\ upstream' = upstream + 1
  /\ UNCHANGED <<callVars, cache, catalog, status, task>>

Outage ==
  /\ ProviderTurns
  /\ UNCHANGED <<upstream, cache, catalog, status, task>>

TimeOut(p) ==
  /\ Elapses(p)
  /\ UNCHANGED <<upstream, cache, catalog, status, task>>

Step(t) ==
  \/ Upsert(t) \/ Receive(t) \/ Retry(t) \/ Exhaust(t)
  \/ Store(t) \/ Commit(t) \/ RollBack(t) \/ Invalidate(t)

Next ==
  \/ (\E t \in Tasks : Read(t) \/ Refresh(t) \/ Step(t) \/ Refused(t))
  \/ Expires \/ UpstreamChanges \/ Outage
  \/ (\E p \in Processes : TimeOut(p))

Spec == Init /\ [][Next]_vars

\* Beat keeps the worker refreshing; what is begun goes on, and clocks run.
FairSpec ==
  /\ Spec
  /\ \A t \in Tasks : WF_vars(Step(t)) /\ (ProcessOf[t] = "worker" => WF_vars(Refresh(t)))
  /\ \A p \in Processes : WF_vars(TimeOut(p))
  /\ SF_vars(Expires)

-----------------------------------------------------------------------------

TypeOK ==
  /\ CallTypeOK
  /\ upstream \in Versions
  /\ cache \in Entry \cup {None}
  /\ catalog \in Catalog
  /\ status \in {"healthy", "down"}
  /\ task \in [Tasks -> TaskRecords]

\* Whatever outages, refusals, stale loads and colliding refreshes came before: once
\* the provider is up for good, the catalog gets to say what it lists, its row says
\* it is healthy, and no stale list stays in the cache.
CatchesUp ==
  <>[]up =>
    <>[](/\ catalog = [competitions |-> upstream, teams |-> upstream]
         /\ status = "healthy"
         /\ cache # None => cache.version = upstream)

\* What the comments promise and the code does not keep

\* cache.py: "the refresh result is immediately visible".
RefreshVisible ==
  (\A t \in Tasks : task[t] = Idle) /\ cache # None /\ catalog.competitions # None =>
    cache.version >= catalog.competitions

\* circuit_breaker.py: OPEN -> (timeout) -> HALF_OPEN -> (success) -> CLOSED.
ClosesFromHalfOpen ==
  [][\A p \in Processes :
       breaker[p].state = "open" => breaker'[p].state # "closed"]_vars

\* A refresh never puts an older list over a newer one.
NeverOlder ==
  [][catalog.competitions # None => catalog'.competitions >= catalog.competitions]_vars
=============================================================================
