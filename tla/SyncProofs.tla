------------------------------ MODULE SyncProofs ------------------------------
(***************************************************************************)
(* Theorems about SyncPlanner and SyncEngine, for every set of fixtures,   *)
(* contents, subscriptions and processes and every bound.                  *)
(***************************************************************************)
EXTENDS SyncEngine, FiniteSetTheorems, TLAPS

-----------------------------------------------------------------------------
\* What plan_sync derives an action from: only a stray event has no fixture, a
\* body needs a loaded fixture, and a patch or delete goes to the mapped event.
Sound(load, a) ==
  /\ a.fixture = None => a.type = "delete" /\ a.event # None
  /\ a.type \in {"create", "recreate", "update", "cancel"} => load.snap[a.fixture] # None
  /\ a.type \in {"update", "cancel", "delete"} /\ a.fixture # None =>
       load.rows[a.fixture] # None
  /\ a.fixture # None => /\ a.event = EventOf(load.rows[a.fixture])
                         /\ a.mapped = (load.rows[a.fixture] # None)

\* diff: every rule but those of a missing mapping needs a mapping.
LEMMA VerdictType ==
  ASSUME NEW f \in Snapshot, NEW m \in Mapping \cup {None}, NEW remote, NEW known
  PROVE  /\ Verdict(f, m, remote, known) \in ActionType
         /\ Verdict(f, m, remote, known) \in {"update", "cancel", "delete"} => m # None
  BY DEF Verdict, ActionType, IsActive, IsConfirmed

LEMMA ActionOnType ==
  ASSUME NEW load \in Load, NEW type \in ActionType, NEW f \in Fixtures
  PROVE  /\ ActionOn(load, type, f) \in Action
         /\ ActionOn(load, type, f).type = type
         /\ ActionOn(load, type, f).fixture = f
         /\ ActionOn(load, type, f).event = EventOf(load.rows[f])
         /\ ActionOn(load, type, f).mapped = (load.rows[f] # None)
         /\ ActionOn(load, type, f).stage = "first"
  BY DEF ActionOn, Action, EventOf, Load, Mapping

\* The three passes: a verdict per loaded fixture, a delete per mapping out of
\* scope, a delete per stray event.
LEMMA FixtureActionsSound ==
  ASSUME NEW load \in Load, NEW a \in FixtureActions(load)
  PROVE  /\ a \in Action /\ Sound(load, a) /\ a.stage = "first"
         /\ a.fixture \in Loaded(load)
         /\ a = ActionOn(load,
                  IF a.fixture \in load.blocked THEN "conflict"
                  ELSE Verdict(load.snap[a.fixture], load.rows[a.fixture],
                               Canonical(load, a.fixture),
                               load.known /\ IsConfirmed(load.rows[a.fixture])), a.fixture)
<1> DEFINE type(f) == IF f \in load.blocked THEN "conflict"
                      ELSE Verdict(load.snap[f], load.rows[f], Canonical(load, f),
                                   load.known /\ IsConfirmed(load.rows[f]))
<1>1. PICK f \in Loaded(load) : a = ActionOn(load, type(f), f)
  BY DEF FixtureActions
<1>2. f \in Fixtures /\ load.snap[f] \in Snapshot /\ load.rows[f] \in Mapping \cup {None}
  BY DEF Loaded, Load
<1>3. type(f) \in ActionType /\ (type(f) \in {"update", "cancel", "delete"} => load.rows[f] # None)
  BY <1>2, VerdictType DEF ActionType
<1> HIDE DEF type
<1>4. /\ a \in Action /\ a.type = type(f) /\ a.fixture = f /\ a.stage = "first"
      /\ a.event = EventOf(load.rows[f]) /\ a.mapped = (load.rows[f] # None)
  BY <1>1, <1>2, <1>3, ActionOnType
<1>5. Sound(load, a)
  BY <1>2, <1>3, <1>4, PlannerAssumption DEF Sound, Loaded, EventIds
<1>6. QED
  BY <1>1, <1>4, <1>5 DEF type

LEMMA PruneActionsSound ==
  ASSUME NEW load \in Load, NEW a \in PruneActions(load)
  PROVE  /\ a \in Action /\ Sound(load, a) /\ a.stage = "first" /\ a.type = "delete"
         /\ a.fixture \in Fixtures \ (load.scope \cup Loaded(load))
         /\ a = ActionOn(load, "delete", a.fixture)
<1>1. PICK f \in Fixtures \ (load.scope \cup Loaded(load)) :
        IsActive(load.rows[f]) /\ a = ActionOn(load, "delete", f)
  BY DEF PruneActions
<1>2. /\ a \in Action /\ a.type = "delete" /\ a.fixture = f /\ a.stage = "first"
      /\ a.event = EventOf(load.rows[f]) /\ a.mapped = (load.rows[f] # None)
  BY <1>1, ActionOnType DEF ActionType
<1>3. Sound(load, a)
  BY <1>1, <1>2, PlannerAssumption DEF Sound, IsActive, EventIds
<1>4. QED
  BY <1>1, <1>2, <1>3

LEMMA StraysSound ==
  ASSUME NEW load \in Load, NEW e \in StrayEvents(load)
  PROVE  /\ RemoveStray(e) \in Action /\ Sound(load, RemoveStray(e))
         /\ RemoveStray(e).stage = "first" /\ RemoveStray(e).type = "delete"
         /\ RemoveStray(e).fixture = None /\ e \in EventIds /\ load.remote[e] # None
  BY PlannerAssumption DEF RemoveStray, StrayEvents, Action, ActionType, Sound, EventIds

\* A plan keeps or drops whole actions.
LEMMA PlanWithin ==
  ASSUME NEW load, NEW plan \in Plans(load)
  PROVE  plan \subseteq AllActions(load)
  BY DEF Plans, Truncations

LEMMA PlanSound ==
  ASSUME NEW load \in Load, NEW plan \in Plans(load), NEW a \in plan
  PROVE  /\ a \in Action /\ Sound(load, a) /\ a.stage = "first"
         /\ \/ a \in FixtureActions(load)
            \/ a \in PruneActions(load)
            \/ a.fixture = None /\ a.event \in StrayEvents(load)
<1>1. \/ a \in FixtureActions(load)
      \/ a \in PruneActions(load)
      \/ \E e \in StrayEvents(load) : a = RemoveStray(e)
  BY PlanWithin DEF AllActions
<1>2. ASSUME NEW e \in StrayEvents(load), a = RemoveStray(e)
      PROVE  a.fixture = None /\ a.event \in StrayEvents(load)
  BY <1>2 DEF RemoveStray
<1>3. QED
  BY <1>1, <1>2, FixtureActionsSound, PruneActionsSound, StraysSound

\* plan_sync acts on a fixture once.
LEMMA PlanOnePerFixture ==
  ASSUME NEW load \in Load, NEW plan \in Plans(load), NEW a \in plan, NEW b \in plan,
         a.fixture = b.fixture, a.fixture # None
  PROVE  a = b
<1>1. a \in FixtureActions(load) \/ a \in PruneActions(load)
  BY PlanSound
<1>2. b \in FixtureActions(load) \/ b \in PruneActions(load)
  BY PlanSound
<1>3. QED
  BY <1>1, <1>2, FixtureActionsSound, PruneActionsSound

-----------------------------------------------------------------------------
\* What a run holds comes from its plan, and mapping rows stay once written.
RunsSound ==
  \A p \in Procs :
    /\ run[p].pc = "idle" => run[p] = IdleRun
    /\ run[p].pc \in {"list", "noop"} => run[p].todo = {} /\ run[p].done = {}
    /\ \A a \in run[p].todo : Mutates(a) /\ Sound(run[p].load, a)
    /\ \A r \in run[p].done :
         Sound(run[p].load, r.action) /\ (r.event # None => Mutates(r.action))
    /\ \A f \in Fixtures : run[p].load.rows[f] # None => row[run[p].sub][f] # None

\* A mapping is only written with the event of a call that succeeded.
RowsConfirmed ==
  /\ \A s \in Subs, f \in Fixtures : row[s][f] # None => row[s][f].event # None
  /\ \A p \in Procs, f \in Fixtures :
       run[p].load.rows[f] # None => run[p].load.rows[f].event # None

TypeInv == TypeOK /\ RunsSound /\ RowsConfirmed

LEMMA NoneType == None \notin Fixtures /\ None \notin EventIds /\ None \notin Subs
  BY PlannerAssumption, EngineAssumption DEF EventIds

-----------------------------------------------------------------------------
\* What a step does to runs and calendar, one shape at a time.

OthersKept(p) == \A q \in Procs \ {p} : run'[q] = run[q]

\* The read of a run is what it was.
SameRead(p) ==
  /\ run'[p].sub = run[p].sub /\ run'[p].mode = run[p].mode
  /\ run'[p].load = run[p].load /\ run'[p].newer = run[p].newer

LEMMA FinishFrame ==
  ASSUME TypeOK, NEW p \in Procs, NEW a \in run[p].todo, NEW e \in EventIds \cup {None},
         Finish(p, a, e)
  PROVE  /\ run' \in [Procs -> Run] /\ OthersKept(p) /\ SameRead(p)
         /\ run'[p].pc = run[p].pc /\ run'[p].aborted = run[p].aborted
         /\ run'[p].todo = run[p].todo \ {a}
         /\ run'[p].done = run[p].done \cup {[action |-> a, event |-> e]}
<1>1. run \in [Procs -> Run] /\ a \in Action
  BY DEF TypeOK, Run
<1>2. [action |-> a, event |-> e] \in Result
  BY <1>1 DEF Result
<1>3. run' = [run EXCEPT ![p] = [run[p] EXCEPT
         !.todo = @ \ {a}, !.done = @ \cup {[action |-> a, event |-> e]}]]
  BY DEF Finish
<1>4. /\ run[p].todo \ {a} \in SUBSET Action
      /\ run[p].done \cup {[action |-> a, event |-> e]} \in SUBSET Result
  BY <1>1, <1>2 DEF Run
<1>5. [run[p] EXCEPT !.todo = @ \ {a}, !.done = @ \cup {[action |-> a, event |-> e]}] \in Run
  BY <1>1, <1>4 DEF Run
<1>6. QED
  BY <1>1, <1>3, <1>5 DEF OthersKept, SameRead, Run

LEMMA RestageFrame ==
  ASSUME TypeOK, NEW p \in Procs, NEW a \in run[p].todo, NEW stage \in {"repair", "remake"},
         Restage(p, a, stage)
  PROVE  /\ run' \in [Procs -> Run] /\ OthersKept(p) /\ SameRead(p)
         /\ run'[p].pc = run[p].pc /\ run'[p].aborted = run[p].aborted
         /\ run'[p].done = run[p].done
         /\ \E b \in Action :
              /\ b.type = a.type /\ b.fixture = a.fixture /\ b.mapped = a.mapped
              /\ b.event = a.event /\ b.stage = stage
              /\ run'[p].todo = (run[p].todo \ {a}) \cup {b}
         /\ calendar' = calendar
<1> DEFINE b == [a EXCEPT !.stage = stage]
<1>1. run \in [Procs -> Run] /\ a \in Action
  BY DEF TypeOK, Run
<1>2. /\ b \in Action /\ b.type = a.type /\ b.fixture = a.fixture /\ b.mapped = a.mapped
      /\ b.event = a.event /\ b.stage = stage
  BY <1>1 DEF Action
<1> HIDE DEF b
<1>3. run' = [run EXCEPT ![p].todo = (@ \ {a}) \cup {b}] /\ calendar' = calendar
  BY DEF Restage, b
<1>4. /\ run' \in [Procs -> Run] /\ OthersKept(p) /\ SameRead(p)
      /\ run'[p].pc = run[p].pc /\ run'[p].aborted = run[p].aborted
      /\ run'[p].done = run[p].done /\ run'[p].todo = (run[p].todo \ {a}) \cup {b}
  BY <1>1, <1>2, <1>3 DEF OthersKept, SameRead, Run
<1>5. QED
  BY <1>2, <1>3, <1>4

\* A sound action with a body writes a well-typed event.
LEMMA BodyType ==
  ASSUME TypeOK, NEW p \in Procs, NEW a \in Action, Sound(run[p].load, a),
         a.type \in {"create", "recreate", "update", "cancel"}
  PROVE  /\ a.fixture \in Fixtures
         /\ run[p].load.snap[a.fixture] \in Snapshot
         /\ Body(p, a) \in Remote /\ Body(p, a) # None
         /\ Body(p, a).app = a.fixture
         /\ Body(p, a).hash = run[p].load.snap[a.fixture].content
         /\ Body(p, a).shows = run[p].load.snap[a.fixture].content
<1>1. run[p].load \in Load
  BY DEF TypeOK, Run
<1>2. a.fixture \in Fixtures /\ run[p].load.snap[a.fixture] \in Snapshot
  BY <1>1 DEF Sound, Action, Load
<1>3. Body(p, a) \in Remote
  BY <1>2 DEF Body, Remote, Snapshot
<1>4. QED
  BY <1>2, <1>3, NoneAssumption DEF Body

\* Patches and deletes name an event.
LEMMA EventType ==
  ASSUME TypeInv, NEW p \in Procs, NEW a \in Action, Sound(run[p].load, a),
         a.type \in {"update", "cancel", "delete"}
  PROVE  a.event \in EventIds
<1>1. run[p].load \in Load
  BY DEF TypeInv, TypeOK, Run
<1>2. CASE a.fixture = None
  BY <1>2 DEF Sound, Action
<1>3. CASE a.fixture # None
  <2>1. a.fixture \in Fixtures /\ run[p].load.rows[a.fixture] # None
    BY <1>3 DEF Sound, Action
  <2>2. run[p].load.rows[a.fixture].event # None
    BY <2>1 DEF TypeInv, RowsConfirmed
  <2>3. QED
    BY <1>3, <2>1, <2>2 DEF Sound, EventOf, Action
<1>4. QED
  BY <1>2, <1>3

\* One calendar call: the event it is about, e, and how the action ends.  A
\* create that meets its event is restaged as a repair, a patch that misses its
\* event as a remake; what was written is answered, or not.
Writes(p, a, e) ==
  /\ \/ /\ a.type \in {"create", "recreate"} /\ e = a.fixture
        /\ a.stage = "first" => calendar[e] = None
        /\ a.stage # "first" => a.stage = "repair" /\ calendar[e] # None
        /\ Put(e, Body(p, a))
     \/ /\ a.type \in {"update", "cancel"} /\ e = a.event /\ calendar[e] # None
        /\ a.stage = "first" /\ Put(e, Body(p, a))
     \/ /\ a.type \in {"update", "cancel"} /\ a.stage = "remake"
        /\ e \in MadeIds /\ MadeFor[e] = a.fixture /\ calendar[e] = None
        /\ Put(e, Body(p, a))
     \/ /\ a.type = "delete" /\ e = a.event /\ Put(e, None)
  /\ \/ Finish(p, a, e) /\ budget' = budget
     \/ Finish(p, a, None) /\ Spend("unanswered") /\ a.type \in Fallible /\ a.stage = "first"

Restages(p, a) ==
  /\ \/ /\ a.type \in {"create", "recreate"} /\ calendar[a.fixture] # None
        /\ Restage(p, a, "repair")
     \/ /\ a.type \in {"update", "cancel"} /\ calendar[a.event] = None
        /\ Restage(p, a, "remake")
  /\ a.stage = "first" /\ budget' = budget

Misses(p, a) ==
  /\ \/ Spend("item") /\ a.type \in Fallible /\ a.stage = "first"
     \/ /\ a.type \in {"create", "recreate"} /\ a.stage = "repair"
        /\ calendar[a.fixture] = None /\ budget' = budget
  /\ Finish(p, a, None) /\ calendar' = calendar

Calls(p) ==
  Insert(p) \/ RepairConflict(p) \/ Patch(p) \/ Recreate(p) \/ Delete(p)
  \/ ItemFails(p) \/ Unanswered(p)

LEMMA CallCases ==
  ASSUME TypeInv, NEW p \in Procs, Calls(p)
  PROVE  /\ OnlyCall
         /\ \E a \in run[p].todo :
              /\ \A b \in run[p].todo : Phase[a.type] <= Phase[b.type]
              /\ \/ \E e \in EventIds : Writes(p, a, e)
                 \/ Restages(p, a)
                 \/ Misses(p, a)
<1> USE DEF Ready, Writes, Restages, Misses
<1>0. \A a \in run[p].todo : a \in Action /\ Sound(run[p].load, a) /\ Mutates(a)
  BY DEF TypeInv, TypeOK, RunsSound, Run
<1>1. ASSUME NEW a \in run[p].todo, a.type \in {"create", "recreate"}
      PROVE  a.fixture \in EventIds
  BY <1>0, <1>1, BodyType DEF TypeInv, EventIds
<1>2. ASSUME NEW a \in run[p].todo, a.type \in {"update", "cancel", "delete"}
      PROVE  a.event \in EventIds
  BY <1>0, <1>2, EventType
<1>3. ASSUME NEW a \in run[p].todo PROVE a.type \in {"create", "recreate", "update", "cancel", "delete"}
  BY <1>0 DEF Mutates, Action, ActionType
<1>4. CASE Insert(p)
  BY <1>1, <1>4 DEF Insert, OnlyCall
<1>5. CASE RepairConflict(p)
  BY <1>1, <1>5 DEF RepairConflict, OnlyCall
<1>6. CASE Patch(p)
  BY <1>2, <1>6 DEF Patch, OnlyCall
<1>7. CASE Recreate(p)
  BY <1>7 DEF Recreate, EventIds, OnlyCall
<1>8. CASE Delete(p)
  BY <1>2, <1>8 DEF Delete, OnlyCall
<1>9. CASE ItemFails(p)
  BY <1>9 DEF ItemFails, OnlyCall
<1>10. CASE Unanswered(p)
  <2>1. PICK a \in Ready(p, Fallible, "first") :
          LET e == IF a.type \in {"create", "recreate"} THEN a.fixture ELSE a.event IN
          /\ a.type \in {"create", "recreate"} <=> calendar[e] = None
          /\ Put(e, IF a.type = "delete" THEN None ELSE Body(p, a))
          /\ Finish(p, a, None)
    BY <1>10 DEF Unanswered
  <2>2. CASE a.type \in {"create", "recreate"}
    BY <1>1, <1>10, <2>1, <2>2 DEF Unanswered
  <2>3. CASE a.type \in {"update", "cancel"}
    BY <1>2, <1>10, <2>1, <2>3 DEF Unanswered
  <2>4. CASE a.type = "delete"
    BY <1>2, <1>10, <2>1, <2>4 DEF Unanswered
  <2>5. QED
    BY <1>3, <2>1, <2>2, <2>3, <2>4
<1>11. QED
  BY <1>4, <1>5, <1>6, <1>7, <1>8, <1>9, <1>10 DEF Calls

-----------------------------------------------------------------------------
\* A planned run holds the mutations of a plan; its conflicts are on record.
PlannedAs(p, plan) ==
  /\ plan \in Plans(run'[p].load)
  /\ run'[p].todo = {a \in plan : Mutates(a)}
  /\ \/ run'[p].pc = "noop" /\ IsEmpty(plan) /\ run'[p].done = {}
     \/ /\ run'[p].pc = "execute"
        /\ run'[p].done = {[action |-> a, event |-> None] :
                             a \in {b \in plan : b.type = "conflict"}}

LEMMA ExecuteType ==
  ASSUME NEW r \in Run, NEW todo \in SUBSET Action, NEW done \in SUBSET Result
  PROVE  [r EXCEPT !.pc = "execute", !.todo = todo, !.done = done]
           = [pc |-> "execute", sub |-> r.sub, mode |-> r.mode, load |-> r.load,
              newer |-> r.newer, todo |-> todo, done |-> done, aborted |-> r.aborted]
<1> DEFINE x == [r EXCEPT !.pc = "execute", !.todo = todo, !.done = done]
           y == [pc |-> "execute", sub |-> r.sub, mode |-> r.mode, load |-> r.load,
                 newer |-> r.newer, todo |-> todo, done |-> done, aborted |-> r.aborted]
<1>1. x \in Run /\ y \in Run
  BY DEF Run
<1>2. /\ x.pc = y.pc /\ x.sub = y.sub /\ x.mode = y.mode /\ x.load = y.load
      /\ x.newer = y.newer /\ x.todo = y.todo /\ x.done = y.done /\ x.aborted = y.aborted
  BY DEF Run
<1> HIDE DEF x, y
<1>3. x = y
  BY <1>1, <1>2 DEF Run
<1>4. QED
  BY <1>3 DEF x, y

LEMMA PlannedFrame ==
  ASSUME NEW r \in Run, r.todo = {}, r.done = {},
         NEW p \in Procs, NEW plan \in Plans(r.load), TypeOK,
         run' = [run EXCEPT ![p] = Planned(r, plan)]
  PROVE  /\ run' \in [Procs -> Run] /\ OthersKept(p) /\ PlannedAs(p, plan)
         /\ run'[p].sub = r.sub /\ run'[p].mode = r.mode /\ run'[p].load = r.load
         /\ run'[p].newer = r.newer /\ run'[p].aborted = r.aborted
<1>1. r.load \in Load
  BY DEF Run
<1>2. plan \subseteq Action
  BY <1>1, PlanSound
<1> DEFINE conflicts == {[action |-> a, event |-> None] : a \in {b \in plan : b.type = "conflict"}}
           mutations == {a \in plan : Mutates(a)}
<1>3. conflicts \in SUBSET Result /\ mutations \in SUBSET Action
  BY <1>2 DEF Result
<1>4. run'[p] = Planned(r, plan) /\ OthersKept(p)
  BY DEF TypeOK, OthersKept
<1>5. CASE IsEmpty(plan)
  <2>1. run'[p] = [r EXCEPT !.pc = "noop"] /\ mutations = {}
    BY <1>4, <1>5 DEF Planned, IsEmpty
  <2>2. /\ run'[p] \in Run
        /\ run'[p].pc = "noop" /\ run'[p].todo = {} /\ run'[p].done = {}
        /\ run'[p].sub = r.sub /\ run'[p].mode = r.mode /\ run'[p].load = r.load
        /\ run'[p].newer = r.newer /\ run'[p].aborted = r.aborted
    BY <2>1 DEF Run
  <2>3. run' \in [Procs -> Run]
    BY <1>4, <2>2 DEF TypeOK
  <2>4. QED
    BY <1>4, <1>5, <2>1, <2>2, <2>3 DEF PlannedAs
<1>6. CASE ~ IsEmpty(plan)
  <2>1. run'[p] = [r EXCEPT !.pc = "execute", !.todo = mutations, !.done = conflicts]
    BY <1>4, <1>6 DEF Planned
  <2>0. run'[p] = [pc |-> "execute", sub |-> r.sub, mode |-> r.mode, load |-> r.load,
                   newer |-> r.newer, todo |-> mutations, done |-> conflicts,
                   aborted |-> r.aborted]
    BY <1>3, <2>1, ExecuteType, Zenon
  <2>2. /\ run'[p] \in Run
        /\ run'[p].pc = "execute" /\ run'[p].todo = mutations /\ run'[p].done = conflicts
        /\ run'[p].sub = r.sub /\ run'[p].mode = r.mode /\ run'[p].load = r.load
        /\ run'[p].newer = r.newer /\ run'[p].aborted = r.aborted
    BY <1>3, <2>0 DEF Run
  <2>3. run' \in [Procs -> Run]
    BY <1>4, <2>2 DEF TypeOK
  <2>4. QED
    BY <1>4, <1>6, <2>2, <2>3 DEF PlannedAs
<1>7. QED
  BY <1>5, <1>6

LEMMA PlannedDone ==
  ASSUME NEW p, NEW plan, PlannedAs(p, plan), NEW r \in run'[p].done
  PROVE  r.event = None
  BY DEF PlannedAs

\* What a run reads is a well-typed load.
LEMMA ReadType ==
  ASSUME TypeOK, NEW s \in Subs, NEW page \in SUBSET Fixtures
  PROVE  ReadBy(s, page) \in Load
<1>1. /\ [f \in Fixtures |-> IF f \in page \cup GoneFixtures(s) THEN fixture[f] ELSE None]
           \in [Fixtures -> Snapshot \cup {None}]
      /\ [f \in Fixtures |-> IF f \in LiveRows(s) THEN row[s][f] ELSE None]
           \in [Fixtures -> Mapping \cup {None}]
      /\ NoLoad.remote \in [EventIds -> Remote \cup {None}]
      /\ open \in SUBSET Contents
  BY DEF TypeOK, NoLoad
<1>2. /\ InScope(s) \in SUBSET Fixtures
      /\ {f \in Fixtures : failures[s][f] >= MaxItemRetries} \in SUBSET Fixtures
  BY EngineAssumption DEF InScope, InWindow
<1>3. QED
  BY <1>1, <1>2 DEF ReadBy, Load

LEMMA CandidatesType ==
  ASSUME NEW s \in Subs, NEW mode, NEW page \in Pages(Candidates(s, mode))
  PROVE  page \subseteq InWindow(s) /\ page \subseteq Fixtures
  BY EngineAssumption DEF Candidates, Pages, InWindow

LEMMA IdleType ==
  /\ NoLoad \in Load /\ IdleRun \in Run
  /\ IdleRun.pc = "idle" /\ IdleRun.sub = None /\ IdleRun.todo = {} /\ IdleRun.done = {}
  /\ IdleRun.load = NoLoad /\ IdleRun.newer = {} /\ IdleRun.aborted = FALSE
  BY DEF NoLoad, Load, IdleRun, Run, SyncMode

Lists(mode) == mode = "reconcile"

\* _load reads the database; only a reconciliation does not plan at once.
LEMMA LoadFrame ==
  ASSUME TypeOK, NEW p \in Procs, NEW s \in Subs, NEW mode \in SyncMode, LoadAndPlan(p, s, mode)
  PROVE  /\ run' \in [Procs -> Run] /\ OthersKept(p)
         /\ run[p].pc = "idle" /\ (Exclusive => \A q \in Procs : run[q].sub # s)
         /\ \E page \in Pages(Candidates(s, mode)) : run'[p].load = ReadBy(s, page)
         /\ run'[p].sub = s /\ run'[p].mode = mode
         /\ run'[p].newer = {} /\ run'[p].aborted = FALSE
         /\ \/ /\ Lists(mode) /\ run'[p].pc = "list"
               /\ run'[p].todo = {} /\ run'[p].done = {}
            \/ ~ Lists(mode) /\ \E plan \in Plans(run'[p].load) : PlannedAs(p, plan)
         /\ import' \in Import
         /\ import'.on = import.on /\ import'.behind = import.behind
         /\ UNCHANGED <<fixture, open, fresh, row, failures, calendar, budget>>
<1>1. PICK page \in Pages(Candidates(s, mode)) :
        LET r == [IdleRun EXCEPT !.sub = s, !.mode = mode, !.load = ReadBy(s, page)] IN
        IF mode = "reconcile" THEN run' = [run EXCEPT ![p] = [r EXCEPT !.pc = "list"]]
        ELSE \E plan \in Plans(r.load) : run' = [run EXCEPT ![p] = Planned(r, plan)]
  BY DEF LoadAndPlan
<1> DEFINE r == [IdleRun EXCEPT !.sub = s, !.mode = mode, !.load = ReadBy(s, page)]
           l == [r EXCEPT !.pc = "list"]
<1>2. ReadBy(s, page) \in Load
  BY CandidatesType, ReadType
<1>3. /\ r \in Run /\ r.load = ReadBy(s, page) /\ r.sub = s /\ r.mode = mode /\ r.newer = {}
      /\ r.aborted = FALSE /\ r.todo = {} /\ r.done = {}
  BY <1>2, IdleType DEF Run, IdleRun
<1>4. /\ l \in Run /\ l.load = ReadBy(s, page) /\ l.sub = s /\ l.mode = mode /\ l.newer = {}
      /\ l.aborted = FALSE /\ l.todo = {} /\ l.done = {} /\ l.pc = "list"
  BY <1>3 DEF Run
<1>5. /\ run[p].pc = "idle" /\ (Exclusive => \A q \in Procs : run[q].sub # s)
      /\ UNCHANGED <<fixture, open, fresh, row, failures, calendar, budget>>
      /\ import' \in Import /\ import'.on = import.on /\ import'.behind = import.behind
  BY DEF LoadAndPlan, TypeOK, Import
<1>6. CASE mode = "reconcile"
  <2>1. run' = [run EXCEPT ![p] = l]
    BY <1>1, <1>6
  <2> HIDE DEF l
  <2>2. run'[p] = l /\ OthersKept(p) /\ run' \in [Procs -> Run]
    BY <1>4, <2>1 DEF TypeOK, OthersKept
  <2>3. QED
    BY <1>4, <1>5, <1>6, <2>2 DEF Lists
<1>7. CASE mode # "reconcile"
  <2>0. PICK plan \in Plans(r.load) : run' = [run EXCEPT ![p] = Planned(r, plan)]
    BY <1>1, <1>7
  <2> HIDE DEF r
  <2>1. /\ run' \in [Procs -> Run] /\ OthersKept(p) /\ PlannedAs(p, plan)
        /\ run'[p].sub = r.sub /\ run'[p].mode = r.mode /\ run'[p].load = r.load
        /\ run'[p].newer = r.newer /\ run'[p].aborted = r.aborted
    BY <1>3, <2>0, PlannedFrame
  <2>2. QED
    BY <1>3, <1>5, <1>7, <2>0, <2>1 DEF Lists
<1>8. QED
  BY <1>6, <1>7

LEMMA ListedType ==
  ASSUME TypeOK, NEW window
  PROVE  Listed(window) \in [EventIds -> Remote \cup {None}]
  BY DEF TypeOK, Listed

\* A reconciliation lists the calendar and then plans like any other run.
LEMMA ListFrame ==
  ASSUME TypeInv, NEW p \in Procs, LoadRemote(p)
  PROVE  /\ run' \in [Procs -> Run] /\ OthersKept(p)
         /\ run[p].pc = "list"
         /\ run'[p].load = [run[p].load EXCEPT !.remote = Listed(run[p].load.window), !.known = TRUE]
         /\ run'[p].load \in Load
         /\ run'[p].sub = run[p].sub /\ run'[p].mode = run[p].mode
         /\ run'[p].newer = run[p].newer /\ run'[p].aborted = run[p].aborted
         /\ \E plan \in Plans(run'[p].load) : PlannedAs(p, plan)
         /\ UNCHANGED <<fixture, open, fresh, import, row, failures, calendar, budget>>
<1> DEFINE l == [run[p].load EXCEPT !.remote = Listed(run[p].load.window), !.known = TRUE]
           r == [run[p] EXCEPT !.load = l]
<1>1. run[p] \in Run /\ run[p].pc = "list" /\ run[p].todo = {} /\ run[p].done = {}
  BY DEF LoadRemote, TypeInv, TypeOK, RunsSound
<1>2. l \in Load
  BY <1>1, ListedType DEF TypeInv, Run, Load
<1>3. [run[p] EXCEPT !.load.remote = Listed(run[p].load.window), !.load.known = TRUE] = r
  BY <1>1 DEF Run, Load
<1>4. PICK plan \in Plans(r.load) : run' = [run EXCEPT ![p] = Planned(r, plan)]
  BY <1>3 DEF LoadRemote
<1> HIDE DEF l
<1>5. /\ r \in Run /\ r.todo = {} /\ r.done = {} /\ r.load = l /\ r.newer = run[p].newer
      /\ r.sub = run[p].sub /\ r.mode = run[p].mode /\ r.aborted = run[p].aborted
  BY <1>1, <1>2 DEF Run
<1> HIDE DEF r
<1>6. /\ run' \in [Procs -> Run] /\ OthersKept(p) /\ PlannedAs(p, plan)
      /\ run'[p].sub = r.sub /\ run'[p].mode = r.mode /\ run'[p].load = r.load
      /\ run'[p].newer = r.newer /\ run'[p].aborted = r.aborted
  BY <1>4, <1>5, PlannedFrame DEF TypeInv
<1>7. UNCHANGED <<fixture, open, fresh, import, row, failures, calendar, budget>>
  BY DEF LoadRemote
<1>8. QED
  BY <1>1, <1>2, <1>4, <1>5, <1>6, <1>7 DEF l

\* Moving the watermark leaves to the next run what the run in hand has not seen.
LEMMA WatermarkType ==
  ASSUME TypeOK, NEW p \in Procs, run[p].sub \in Subs, AdvanceWatermark(p)
  PROVE  /\ fresh' \in [Subs -> SUBSET Fixtures] /\ import' \in Import
         /\ fresh'[run[p].sub] = run[p].newer
         /\ \A s \in Subs \ {run[p].sub} : fresh'[s] = fresh[s]
         /\ import'.on = import.on /\ import'.late = import.late
  BY DEF TypeOK, Run, Import, AdvanceWatermark

LEMMA IdleFrame ==
  ASSUME TypeOK, NEW p \in Procs, run' = [run EXCEPT ![p] = IdleRun]
  PROVE  run' \in [Procs -> Run] /\ OthersKept(p) /\ run'[p] = IdleRun
  BY IdleType DEF TypeOK, OthersKept

\* A commit of a fixture touches of each run only what its watermark will leave.
LEMMA CommitFrame ==
  ASSUME TypeOK, NEW f \in Fixtures, NEW snapshot \in Snapshot, NEW late, NEW behind,
         Commit(f, snapshot, late, behind)
  PROVE  /\ fixture' \in [Fixtures -> Snapshot \cup {None}]
         /\ fixture'[f] = snapshot /\ \A g \in Fixtures \ {f} : fixture'[g] = fixture[g]
         /\ fresh' \in [Subs -> SUBSET Fixtures]
         /\ \A s \in Subs : fresh[s] \ {f} \subseteq fresh'[s] /\ (s \notin behind => f \in fresh'[s])
         /\ run' \in [Procs -> Run]
         /\ \A p \in Procs :
              /\ run'[p].pc = run[p].pc /\ run'[p].sub = run[p].sub
              /\ run'[p].mode = run[p].mode /\ run'[p].load = run[p].load
              /\ run'[p].todo = run[p].todo /\ run'[p].done = run[p].done
              /\ run'[p].aborted = run[p].aborted
              /\ run[p].pc = "idle" => run'[p] = run[p]
              /\ run[p].pc # "idle" /\ p \notin late => run'[p].newer = run[p].newer \cup {f}
              /\ run[p].newer \ {f} \subseteq run'[p].newer
         /\ UNCHANGED <<open, row, failures, calendar>>
<1>1. /\ fixture' \in [Fixtures -> Snapshot \cup {None}]
      /\ fixture'[f] = snapshot /\ \A g \in Fixtures \ {f} : fixture'[g] = fixture[g]
  BY DEF Commit, TypeOK
<1>2. /\ fresh' \in [Subs -> SUBSET Fixtures]
      /\ \A s \in Subs : fresh[s] \ {f} \subseteq fresh'[s] /\ (s \notin behind => f \in fresh'[s])
  <2>1. \A s \in Subs : fresh[s] \ {f} \in SUBSET Fixtures /\ fresh[s] \cup {f} \in SUBSET Fixtures
    BY DEF TypeOK
  <2>2. fresh' = [s \in Subs |-> IF s \in behind THEN fresh[s] \ {f} ELSE fresh[s] \cup {f}]
    BY DEF Commit
  <2>3. QED
    BY <2>1, <2>2
<1>3. ASSUME NEW p \in Procs
      PROVE  /\ run'[p] \in Run
             /\ run'[p].pc = run[p].pc /\ run'[p].sub = run[p].sub
             /\ run'[p].mode = run[p].mode /\ run'[p].load = run[p].load
             /\ run'[p].todo = run[p].todo /\ run'[p].done = run[p].done
             /\ run'[p].aborted = run[p].aborted
             /\ run[p].pc = "idle" => run'[p] = run[p]
             /\ run[p].pc # "idle" /\ p \notin late => run'[p].newer = run[p].newer \cup {f}
             /\ run[p].newer \ {f} \subseteq run'[p].newer
  <2>1. run[p] \in Run
    BY DEF TypeOK
  <2>2. run'[p] = IF run[p].pc = "idle" THEN run[p]
                  ELSE [run[p] EXCEPT !.newer = IF p \in late THEN @ \ {f} ELSE @ \cup {f}]
    BY DEF Commit
  <2>3. CASE run[p].pc = "idle"
    BY <2>1, <2>2, <2>3
  <2>4. CASE run[p].pc # "idle"
    BY <2>1, <2>2, <2>4 DEF Run
  <2>5. QED
    BY <2>3, <2>4
<1>4. run' \in [Procs -> Run]
  <2>1. run' = [p \in Procs |-> run'[p]]
    BY DEF Commit
  <2>2. QED
    BY <1>3, <2>1
<1>5. QED
  BY <1>1, <1>2, <1>3, <1>4 DEF Commit

\* What _persist makes of the mapping of a fixture.
RowFrom(p, r, old, new) ==
  LET hash == run[p].load.snap[r.action.fixture].content IN
  \/ /\ r.action.type \in {"create", "recreate"}
     /\ new = [event |-> r.event, hash |-> hash, state |-> "active", deleted |-> FALSE]
  \/ /\ r.action.type = "update" /\ old # None
     /\ new = [old EXCEPT !.event = r.event, !.hash = hash, !.state = "active"]
  \/ /\ r.action.type = "cancel" /\ old # None
     /\ new = [old EXCEPT !.event = r.event, !.hash = hash, !.state = "cancelled"]
  \/ /\ r.action.type = "delete" /\ old # None
     /\ new = [old EXCEPT !.state = "deleted", !.deleted = TRUE]

LEMMA NewRowCases ==
  ASSUME TypeInv, NEW p \in Procs, NEW f \in Fixtures
  PROVE  \/ ResultsOf(p, f) = {} /\ NewRow(p, f, row[run[p].sub][f]) = row[run[p].sub][f]
         \/ \E r \in ResultsOf(p, f) :
              RowFrom(p, r, row[run[p].sub][f], NewRow(p, f, row[run[p].sub][f]))
<1> DEFINE old == row[run[p].sub][f]
           r == CHOOSE q \in ResultsOf(p, f) : TRUE
<1>1. CASE ResultsOf(p, f) = {}
  BY <1>1 DEF NewRow
<1>2. CASE ResultsOf(p, f) # {}
  <2>1. r \in ResultsOf(p, f)
    BY <1>2
  <2>2. /\ r \in run[p].done /\ r.event # None /\ r.action.fixture = f
        /\ r.action \in Action
    BY <2>1 DEF ResultsOf, Successes, TypeInv, TypeOK, Run, Result
  <2>3. Mutates(r.action) /\ Sound(run[p].load, r.action)
    BY <2>2 DEF TypeInv, RunsSound
  <2>4. r.action.type \in {"create", "recreate", "update", "cancel", "delete"}
    BY <2>2, <2>3 DEF Mutates, Action, ActionType
  <2>5. r.action.type \in {"update", "cancel", "delete"} => old # None
    BY <2>2, <2>3, NoneType DEF Sound, TypeInv, RunsSound
  <2>6. NewRow(p, f, old) =
          CASE r.action.type \in {"create", "recreate"} ->
                 [event |-> r.event, hash |-> run[p].load.snap[f].content, state |-> "active",
                  deleted |-> FALSE]
            [] r.action.type = "update" ->
                 [old EXCEPT !.event = r.event, !.hash = run[p].load.snap[f].content, !.state = "active"]
            [] r.action.type = "cancel" ->
                 [old EXCEPT !.event = r.event, !.hash = run[p].load.snap[f].content,
                             !.state = "cancelled"]
            [] r.action.type = "delete" -> [old EXCEPT !.state = "deleted", !.deleted = TRUE]
    BY <1>2 DEF NewRow
  <2> HIDE DEF r, old
  <2>7. RowFrom(p, r, old, NewRow(p, f, old))
    BY <2>2, <2>4, <2>5, <2>6 DEF RowFrom
  <2>8. QED
    BY <2>1, <2>7 DEF old
<1>3. QED
  BY <1>1, <1>2

LEMMA NewRowType ==
  ASSUME TypeInv, NEW p \in Procs, run[p].pc # "idle", NEW f \in Fixtures
  PROVE  LET old == row[run[p].sub][f]
             new == NewRow(p, f, old) IN
         /\ new \in Mapping \cup {None}
         /\ old # None => new # None
         /\ new # None => new.event # None
<1> DEFINE old == row[run[p].sub][f]
           new == NewRow(p, f, old)
<1>1. old \in Mapping \cup {None} /\ (old # None => old.event # None)
  BY DEF TypeInv, TypeOK, RowsConfirmed, Run
<1>2. CASE ResultsOf(p, f) = {}
  BY <1>1, <1>2 DEF NewRow
<1>3. ASSUME NEW r \in ResultsOf(p, f), RowFrom(p, r, old, new)
      PROVE  new \in Mapping /\ new.event # None
  <2>1. /\ r.action \in Action /\ r.event \in EventIds /\ Sound(run[p].load, r.action)
        /\ r.action.fixture = f
    BY DEF ResultsOf, Successes, TypeInv, TypeOK, Run, Result, RunsSound
  <2>2. ASSUME r.action.type \in {"create", "recreate", "update", "cancel"}
        PROVE  run[p].load.snap[f].content \in Contents
    BY <2>1, <2>2 DEF Sound, TypeInv, TypeOK, Run, Load, Snapshot
  <2>3. r.event # None
    BY <2>1, NoneType
  <2> HIDE DEF old, new
  <2>4. CASE r.action.type \in {"create", "recreate"}
    <3>1. new = [event |-> r.event, hash |-> run[p].load.snap[f].content, state |-> "active",
                 deleted |-> FALSE]
      BY <1>3, <2>1, <2>4 DEF RowFrom
    <3>2. QED
      BY <2>1, <2>2, <2>3, <2>4, <3>1 DEF Mapping
  <2>5. CASE r.action.type = "update"
    BY <1>1, <1>3, <2>1, <2>2, <2>3, <2>5 DEF RowFrom, Mapping
  <2>6. CASE r.action.type = "cancel"
    BY <1>1, <1>3, <2>1, <2>2, <2>3, <2>6 DEF RowFrom, Mapping
  <2>7. CASE r.action.type = "delete"
    BY <1>1, <1>3, <2>7 DEF RowFrom, Mapping
  <2>8. QED
    BY <1>3, <2>4, <2>5, <2>6, <2>7 DEF RowFrom
<1>4. QED
  BY <1>2, <1>1, <1>3, NewRowCases, NoneAssumption

\* The transaction at the end of a run writes the rows of its subscription.
LEMMA PersistFrame ==
  ASSUME TypeInv, NEW p \in Procs, Persist(p)
  PROVE  /\ run[p].pc = "execute" /\ run[p].todo = {} /\ run[p].sub \in Subs
         /\ run' \in [Procs -> Run] /\ OthersKept(p) /\ run'[p] = IdleRun
         /\ row' \in [Subs -> [Fixtures -> Mapping \cup {None}]]
         /\ \A s \in Subs \ {run[p].sub} : row'[s] = row[s] /\ failures'[s] = failures[s]
         /\ \A f \in Fixtures :
              row'[run[p].sub][f] = NewRow(p, f, row[run[p].sub][f])
         /\ failures' \in [Subs -> [Fixtures -> 0..MaxItemRetries]]
         /\ \A f \in Fixtures :
              \/ failures'[run[p].sub][f] = failures[run[p].sub][f]
              \/ /\ failures'[run[p].sub][f] = failures[run[p].sub][f] + 1
                 /\ \E r \in run[p].done : r.event = None /\ r.action.fixture = f
         /\ UNCHANGED <<fixture, open, calendar, budget>>
<1>1. /\ run[p].pc = "execute" /\ run[p].todo = {} /\ run[p].sub \in Subs
      /\ UNCHANGED <<fixture, open, calendar, budget>>
  BY DEF Persist, TypeInv, TypeOK, Run
<1>2. run' \in [Procs -> Run] /\ OthersKept(p) /\ run'[p] = IdleRun
  BY IdleFrame DEF Persist, TypeInv
<1>3. row' = [row EXCEPT ![run[p].sub] = [f \in Fixtures |-> NewRow(p, f, row[run[p].sub][f])]]
  BY DEF Persist
<1>4. [f \in Fixtures |-> NewRow(p, f, row[run[p].sub][f])] \in [Fixtures -> Mapping \cup {None}]
  BY <1>1, NewRowType
<1>5. /\ row' \in [Subs -> [Fixtures -> Mapping \cup {None}]]
      /\ \A s \in Subs \ {run[p].sub} : row'[s] = row[s]
      /\ \A f \in Fixtures : row'[run[p].sub][f] = NewRow(p, f, row[run[p].sub][f])
  BY <1>1, <1>3, <1>4 DEF TypeInv, TypeOK
<1>6. /\ failures' \in [Subs -> [Fixtures -> 0..MaxItemRetries]]
      /\ \A s \in Subs \ {run[p].sub} : failures'[s] = failures[s]
      /\ \A f \in Fixtures :
              \/ failures'[run[p].sub][f] = failures[run[p].sub][f]
              \/ /\ failures'[run[p].sub][f] = failures[run[p].sub][f] + 1
                 /\ \E r \in run[p].done : r.event = None /\ r.action.fixture = f
  <2> DEFINE failed == {r.action.fixture : r \in run[p].done \ Successes(p)}
             old == failures[run[p].sub]
             new == [f \in Fixtures |-> IF f \in failed /\ old[f] < MaxItemRetries
                                        THEN old[f] + 1 ELSE old[f]]
  <2>1. failures' = [failures EXCEPT ![run[p].sub] = new]
    BY DEF Persist, CountFailures
  <2>2. old \in [Fixtures -> 0..MaxItemRetries] /\ MaxItemRetries \in Nat
    BY <1>1, EngineAssumption DEF TypeInv, TypeOK
  <2>3. \A f \in Fixtures : f \in failed => \E r \in run[p].done : r.event = None /\ r.action.fixture = f
    BY DEF Successes
  <2> HIDE DEF failed, old
  <2>4. new \in [Fixtures -> 0..MaxItemRetries]
    BY <2>2
  <2>5. \A f \in Fixtures : new[f] = old[f] \/ (new[f] = old[f] + 1 /\ f \in failed)
    OBVIOUS
  <2> HIDE DEF new
  <2>6. QED
    BY <1>1, <2>1, <2>3, <2>4, <2>5 DEF old, TypeInv, TypeOK
<1>7. QED
  BY <1>1, <1>2, <1>5, <1>6

\* A written event is the rendered body, a deleted one is gone.
LEMMA WriteFrame ==
  ASSUME TypeInv, NEW p \in Procs, NEW a \in run[p].todo, NEW e \in EventIds, Writes(p, a, e)
  PROVE  /\ calendar' \in [EventIds -> Remote \cup {None}]
         /\ \A d \in EventIds \ {e} : calendar'[d] = calendar[d]
         /\ a.type = "delete" => calendar'[e] = None
         /\ a.type # "delete" => calendar'[e] = Body(p, a)
         /\ a.type \in {"create", "recreate", "update", "cancel", "delete"}
         /\ a \in Action /\ Sound(run[p].load, a)
         /\ \E x \in {e, None} : Finish(p, a, x)
<1>1. a \in Action /\ Sound(run[p].load, a)
  BY DEF TypeInv, TypeOK, RunsSound, Run
<1>2. a.type \in {"create", "recreate", "update", "cancel"} => Body(p, a) \in Remote
  BY <1>1, BodyType DEF TypeInv
<1>3. calendar \in [EventIds -> Remote \cup {None}]
  BY DEF TypeInv, TypeOK
<1>4. QED
  BY <1>1, <1>2, <1>3 DEF Writes, Put

-----------------------------------------------------------------------------
\* Every step keeps the types.

\* What TypeInv says of one run.
RunInv(p) ==
  /\ run[p].pc = "idle" <=> run[p].sub = None
  /\ run[p].pc = "idle" => run[p] = IdleRun
  /\ run[p].pc \in {"list", "noop"} => run[p].todo = {} /\ run[p].done = {}
  /\ \A a \in run[p].todo : Mutates(a) /\ Sound(run[p].load, a)
  /\ \A r \in run[p].done :
       Sound(run[p].load, r.action) /\ (r.event # None => Mutates(r.action))
  /\ \A f \in Fixtures : run[p].load.rows[f] # None =>
       row[run[p].sub][f] # None /\ run[p].load.rows[f].event # None

LEMMA RunInvOf ==
  TypeInv <=> /\ TypeOK /\ \A p \in Procs : RunInv(p)
              /\ \A s \in Subs, f \in Fixtures : row[s][f] # None => row[s][f].event # None
  BY DEF TypeInv, TypeOK, RunsSound, RowsConfirmed, RunInv

LEMMA SpendType ==
  ASSUME TypeOK, NEW event \in Events, Spend(event)
  PROVE  /\ budget' \in [Events -> Nat]
         /\ budget[event] > 0 /\ budget'[event] = budget[event] - 1
         /\ \A e \in Events \ {event} : budget'[e] = budget[e]
  BY DEF TypeOK, Spend

LEMMA OthersInv ==
  ASSUME TypeInv, NEW p \in Procs, OthersKept(p), NEW q \in Procs \ {p},
         \A s \in Subs, f \in Fixtures : row[s][f] # None => row'[s][f] # None
  PROVE  RunInv(q)'
<1>1. RunInv(q) /\ run'[q] = run[q]
  BY RunInvOf DEF OthersKept
<1>2. \A f \in Fixtures : run[q].load.rows[f] # None =>
        row[run[q].sub][f] # None /\ run[q].sub \in Subs
  <2>1. CASE run[q].pc = "idle"
    BY <1>1, <2>1, IdleType DEF RunInv, NoLoad
  <2>2. CASE run[q].pc # "idle"
    BY <1>1, <2>2 DEF RunInv, TypeInv, TypeOK, Run
  <2>3. QED
    BY <2>1, <2>2
<1>3. QED
  BY <1>1, <1>2 DEF RunInv

LEMMA IdleInv ==
  ASSUME NEW p \in Procs, run'[p] = IdleRun
  PROVE  RunInv(p)'
  BY IdleType DEF RunInv, NoLoad

LEMMA InitTypeInv == Init => TypeInv
<1> SUFFICES ASSUME Init PROVE TypeInv
  OBVIOUS
<1>1. fixture \in [Fixtures -> Snapshot \cup {None}]
  BY DEF Init, Snapshot
<1>2. /\ import \in Import /\ run \in [Procs -> Run]
      /\ \A p \in Procs : run[p] = IdleRun
  BY IdleType DEF Init, NoImport, Import
<1>3. failures \in [Subs -> [Fixtures -> 0..MaxItemRetries]]
  BY EngineAssumption DEF Init
<1>4. TypeOK
  BY <1>1, <1>2, <1>3, IdleType, EngineAssumption DEF Init, TypeOK
<1>5. \A p \in Procs : RunInv(p)
  BY <1>2, IdleType DEF RunInv, NoLoad
<1>6. QED
  BY <1>4, <1>5, RunInvOf DEF Init

\* A calendar call.
LEMMA CallTypeInv ==
  ASSUME TypeInv, NEW p \in Procs, Calls(p)
  PROVE  TypeInv'
<1>1. PICK a \in run[p].todo :
        (\E e \in EventIds : Writes(p, a, e)) \/ Restages(p, a) \/ Misses(p, a)
  BY CallCases
<1>2. OnlyCall /\ a \in Action /\ Sound(run[p].load, a) /\ Mutates(a) /\ RunInv(p)
      /\ run[p] \in Run
  BY CallCases, RunInvOf DEF TypeInv, TypeOK, RunsSound, Run
<1>3. budget' \in [Events -> Nat]
  BY <1>1, SpendType DEF Writes, Restages, Misses, TypeInv, TypeOK, Events
<1>4. ASSUME NEW x \in EventIds \cup {None}, Finish(p, a, x)
      PROVE  run' \in [Procs -> Run] /\ OthersKept(p) /\ RunInv(p)'
  <2>1. /\ run' \in [Procs -> Run] /\ OthersKept(p) /\ SameRead(p)
        /\ run'[p].pc = run[p].pc /\ run'[p].todo = run[p].todo \ {a}
        /\ run'[p].done = run[p].done \cup {[action |-> a, event |-> x]}
    BY <1>4, FinishFrame DEF TypeInv
  <2>2. run[p].pc = "execute"
    BY <1>2, IdleType DEF RunInv, Run
  <2>3. QED
    BY <1>2, <2>1, <2>2 DEF RunInv, SameRead, OnlyCall
<1>5. ASSUME NEW stage \in {"repair", "remake"}, Restage(p, a, stage)
      PROVE  run' \in [Procs -> Run] /\ OthersKept(p) /\ RunInv(p)'
  <2>1. /\ run' \in [Procs -> Run] /\ OthersKept(p) /\ SameRead(p)
        /\ run'[p].pc = run[p].pc /\ run'[p].done = run[p].done
    BY <1>5, RestageFrame DEF TypeInv
  <2>2. PICK b \in Action :
          /\ b.type = a.type /\ b.fixture = a.fixture /\ b.mapped = a.mapped /\ b.event = a.event
          /\ run'[p].todo = (run[p].todo \ {a}) \cup {b}
    BY <1>5, RestageFrame DEF TypeInv
  <2>3. run[p].pc = "execute"
    BY <1>2, IdleType DEF RunInv, Run
  <2>4. Mutates(b) /\ Sound(run[p].load, b)
    BY <1>2, <2>2 DEF Mutates, Sound
  <2>5. QED
    BY <1>2, <2>1, <2>2, <2>3, <2>4 DEF RunInv, SameRead, OnlyCall
<1>6. run' \in [Procs -> Run] /\ OthersKept(p) /\ RunInv(p)'
  BY <1>1, <1>4, <1>5 DEF Writes, Restages, Misses
<1>7. calendar' \in [EventIds -> Remote \cup {None}]
  <2>1. CASE \E e \in EventIds : Writes(p, a, e)
    BY <2>1, WriteFrame
  <2>2. CASE Restages(p, a) \/ Misses(p, a)
    BY <2>2 DEF Restages, Restage, Misses, TypeInv, TypeOK
  <2>3. QED
    BY <1>1, <2>1, <2>2
<1>8. \A q \in Procs : RunInv(q)'
  BY <1>2, <1>6, OthersInv DEF OnlyCall
<1>9. TypeOK'
  BY <1>2, <1>3, <1>6, <1>7, <1>8 DEF TypeInv, TypeOK, OnlyCall, RunInv
<1>10. QED
  BY <1>2, <1>8, <1>9, RunInvOf DEF TypeInv, RowsConfirmed, RunInv, RunsSound, OnlyCall

\* Reading and planning.
LEMMA PlannedInv ==
  ASSUME TypeInv, NEW p \in Procs, run'[p] \in Run, run'[p].sub \in Subs, row' = row,
         \A f \in Fixtures : run'[p].load.rows[f] # None =>
           row[run'[p].sub][f] # None /\ run'[p].load.rows[f].event # None,
         NEW plan \in Plans(run'[p].load), PlannedAs(p, plan)
  PROVE  RunInv(p)'
<1>1. run'[p].load \in Load
  BY DEF Run
<1>2. \A a \in plan : Sound(run'[p].load, a)
  BY <1>1, PlanSound
<1>3. run'[p].sub # None
  BY NoneType
<1>4. /\ \A a \in run'[p].todo : Mutates(a) /\ Sound(run'[p].load, a)
      /\ \A r \in run'[p].done : r.event = None /\ Sound(run'[p].load, r.action)
      /\ run'[p].pc # "idle" /\ run'[p].pc # "list"
      /\ run'[p].pc = "noop" => run'[p].todo = {} /\ run'[p].done = {}
  BY <1>2 DEF PlannedAs, IsEmpty
<1>5. QED
  BY <1>3, <1>4 DEF RunInv

\* The mappings of a load are rows of the subscription.
LEMMA ReadRows ==
  ASSUME TypeInv, NEW s \in Subs, NEW page, NEW f \in Fixtures, ReadBy(s, page).rows[f] # None
  PROVE  /\ row[s][f] # None /\ row[s][f].event # None /\ f \in LiveRows(s)
         /\ ReadBy(s, page).rows[f] = row[s][f]
<1>1. f \in LiveRows(s) /\ ReadBy(s, page).rows[f] = row[s][f]
  BY DEF ReadBy
<1>2. QED
  BY <1>1 DEF LiveRows, TypeInv, RowsConfirmed

LEMMA LoadTypeInv ==
  ASSUME TypeInv, NEW p \in Procs, NEW s \in Subs, NEW mode \in SyncMode, LoadAndPlan(p, s, mode)
  PROVE  TypeInv'
<1>1. /\ run' \in [Procs -> Run] /\ OthersKept(p)
      /\ run'[p].sub = s /\ import' \in Import
      /\ \/ /\ run'[p].pc = "list" /\ run'[p].todo = {} /\ run'[p].done = {}
         \/ \E plan \in Plans(run'[p].load) : PlannedAs(p, plan)
      /\ UNCHANGED <<fixture, open, fresh, row, failures, calendar, budget>>
  BY LoadFrame DEF TypeInv
<1>2. PICK page \in Pages(Candidates(s, mode)) : run'[p].load = ReadBy(s, page)
  BY LoadFrame DEF TypeInv
<1>3. \A f \in Fixtures : run'[p].load.rows[f] # None =>
        row[s][f] # None /\ run'[p].load.rows[f].event # None
  BY <1>2, ReadRows
<1>4. ASSUME run'[p].pc = "list", run'[p].todo = {}, run'[p].done = {}
      PROVE  RunInv(p)'
  BY <1>1, <1>3, <1>4, NoneType DEF RunInv
<1>5. RunInv(p)'
  BY <1>1, <1>3, <1>4, PlannedInv
<1>6. \A q \in Procs : RunInv(q)'
  BY <1>1, <1>5, OthersInv
<1>7. TypeOK'
  BY <1>1, <1>6 DEF TypeInv, TypeOK, RunInv
<1>8. QED
  BY <1>1, <1>6, <1>7 DEF TypeInv, RowsConfirmed, RunInv, RunsSound

LEMMA ListTypeInv ==
  ASSUME TypeInv, NEW p \in Procs, LoadRemote(p)
  PROVE  TypeInv'
<1>1. /\ run' \in [Procs -> Run] /\ OthersKept(p)
      /\ run[p].pc = "list" /\ run'[p].sub = run[p].sub
      /\ run'[p].load = [run[p].load EXCEPT !.remote = Listed(run[p].load.window), !.known = TRUE]
      /\ UNCHANGED <<fixture, open, fresh, import, row, failures, calendar, budget>>
  BY ListFrame
<1>2. PICK plan \in Plans(run'[p].load) : PlannedAs(p, plan)
  BY ListFrame
<1>3. RunInv(p) /\ run[p].sub \in Subs /\ run'[p].load.rows = run[p].load.rows
  BY <1>1, RunInvOf DEF RunInv, TypeInv, TypeOK, Run, Load
<1>4. RunInv(p)'
  <2>1. \A f \in Fixtures : run'[p].load.rows[f] # None =>
          row[run'[p].sub][f] # None /\ run'[p].load.rows[f].event # None
    BY <1>1, <1>3 DEF RunInv
  <2>2. run'[p] \in Run /\ run'[p].sub \in Subs /\ row' = row
    BY <1>1, <1>3
  <2>3. QED
    BY <1>2, <2>1, <2>2, PlannedInv
<1>5. \A q \in Procs : RunInv(q)'
  BY <1>1, <1>4, OthersInv
<1>6. TypeOK'
  BY <1>1, <1>5 DEF TypeInv, TypeOK, RunInv
<1>7. QED
  BY <1>1, <1>5, <1>6 DEF TypeInv, RowsConfirmed, RunInv, RunsSound

\* The ends of a run.
LEMMA EndTypeInv ==
  ASSUME TypeInv, NEW p \in Procs,
         NothingToDo(p) \/ Persist(p) \/ PersistRejected(p) \/ Crash(p)
  PROVE  TypeInv'
<1>1. run[p].pc # "idle" /\ run[p].sub \in Subs
  BY DEF NothingToDo, Persist, PersistRejected, Crash, TypeInv, TypeOK, Run
<1>2. run' \in [Procs -> Run] /\ OthersKept(p) /\ run'[p] = IdleRun
  BY IdleFrame DEF NothingToDo, Persist, PersistRejected, Crash, TypeInv
<1>3. UNCHANGED <<fixture, open, calendar>>
  BY DEF NothingToDo, Persist, PersistRejected, Crash
<1>4. /\ row' \in [Subs -> [Fixtures -> Mapping \cup {None}]]
      /\ \A s \in Subs, f \in Fixtures :
           /\ row[s][f] # None => row'[s][f] # None
           /\ row'[s][f] # None => row'[s][f].event # None
      /\ failures' \in [Subs -> [Fixtures -> 0..MaxItemRetries]]
  <2>1. CASE Persist(p)
    <3>1. ASSUME NEW s \in Subs, NEW f \in Fixtures, s # run[p].sub
          PROVE  row'[s][f] = row[s][f]
      BY <2>1, <3>1, PersistFrame
    <3>2. ASSUME NEW f \in Fixtures
          PROVE  /\ row[run[p].sub][f] # None => row'[run[p].sub][f] # None
                 /\ row'[run[p].sub][f] # None => row'[run[p].sub][f].event # None
      BY <1>1, <2>1, PersistFrame, NewRowType
    <3>3. QED
      BY <2>1, <3>1, <3>2, PersistFrame DEF TypeInv, RowsConfirmed
  <2>2. CASE NothingToDo(p) \/ PersistRejected(p) \/ Crash(p)
    BY <2>2 DEF NothingToDo, PersistRejected, Crash, TypeInv, TypeOK, RowsConfirmed
  <2>3. QED
    BY <2>1, <2>2
<1>5. fresh' \in [Subs -> SUBSET Fixtures] /\ import' \in Import
  <2>1. CASE AdvanceWatermark(p)
    BY <1>1, <2>1, WatermarkType DEF TypeInv
  <2>2. CASE UNCHANGED <<fresh, import>>
    BY <2>2 DEF TypeInv, TypeOK
  <2>3. QED
    BY <2>1, <2>2 DEF NothingToDo, Persist, PersistRejected, Crash
<1>6. budget' \in [Events -> Nat]
  BY SpendType DEF NothingToDo, Persist, PersistRejected, Crash, TypeInv, TypeOK, Events
<1>7. \A q \in Procs : RunInv(q)'
  BY <1>2, <1>4, OthersInv, IdleInv
<1>8. TypeOK'
  BY <1>2, <1>3, <1>4, <1>5, <1>6, <1>7 DEF TypeInv, TypeOK, RunInv
<1>9. QED
  BY <1>4, <1>7, <1>8 DEF TypeInv, RowsConfirmed, RunInv, RunsSound

\* A fatal error drops what is left to do.
LEMMA AbortFrame ==
  ASSUME TypeInv, NEW p \in Procs, Abort(p)
  PROVE  /\ run' \in [Procs -> Run] /\ OthersKept(p) /\ SameRead(p)
         /\ run'[p].pc = run[p].pc /\ run[p].pc = "execute"
         /\ run'[p].todo = {} /\ run'[p].done = run[p].done /\ run'[p].aborted
         /\ budget' \in [Events -> Nat]
         /\ UNCHANGED <<fixture, open, fresh, import, row, failures, calendar>>
<1>1. run[p] \in Run /\ run[p].todo # {} /\ RunInv(p)
  BY RunInvOf DEF Abort, TypeInv, TypeOK
<1>2. run[p].pc = "execute"
  BY <1>1, IdleType DEF RunInv, Run
<1>3. /\ run' \in [Procs -> Run] /\ OthersKept(p) /\ SameRead(p)
      /\ run'[p].pc = run[p].pc /\ run'[p].todo = {} /\ run'[p].done = run[p].done
      /\ run'[p].aborted
  BY <1>1 DEF Abort, TypeInv, TypeOK, OthersKept, SameRead, Run
<1>4. QED
  BY <1>2, <1>3, SpendType DEF Abort, OnlyCall, TypeInv, Events

LEMMA AbortTypeInv ==
  ASSUME TypeInv, NEW p \in Procs, Abort(p)
  PROVE  TypeInv'
<1>1. /\ run' \in [Procs -> Run] /\ OthersKept(p) /\ SameRead(p)
      /\ run'[p].pc = run[p].pc /\ run[p].pc = "execute"
      /\ run'[p].todo = {} /\ run'[p].done = run[p].done
      /\ budget' \in [Events -> Nat]
      /\ UNCHANGED <<fixture, open, fresh, import, row, failures, calendar>>
  BY AbortFrame
<1>2. RunInv(p)'
  BY <1>1, RunInvOf DEF RunInv, SameRead
<1>3. \A q \in Procs : RunInv(q)'
  BY <1>1, <1>2, OthersInv
<1>4. TypeOK'
  BY <1>1, <1>3 DEF TypeInv, TypeOK, RunInv
<1>5. QED
  BY <1>1, <1>3, <1>4 DEF TypeInv, RowsConfirmed, RunInv, RunsSound

\* What ingestion and time do.
LEMMA CommitTypeInv ==
  ASSUME TypeInv, NEW f \in Fixtures, NEW snapshot \in Snapshot, NEW late, NEW behind,
         Commit(f, snapshot, late, behind),
         budget' \in [Events -> Nat], import' \in Import
  PROVE  TypeInv'
<1>1. /\ fixture' \in [Fixtures -> Snapshot \cup {None}]
      /\ fresh' \in [Subs -> SUBSET Fixtures]
      /\ run' \in [Procs -> Run]
      /\ UNCHANGED <<open, row, failures, calendar>>
  BY CommitFrame DEF TypeInv
<1>2. \A p \in Procs :
        /\ run'[p].pc = run[p].pc /\ run'[p].sub = run[p].sub /\ run'[p].load = run[p].load
        /\ run'[p].todo = run[p].todo /\ run'[p].done = run[p].done
        /\ run[p].pc = "idle" => run'[p] = run[p]
  BY CommitFrame DEF TypeInv
<1>3. \A p \in Procs : RunInv(p)'
  BY <1>1, <1>2, RunInvOf DEF RunInv
<1>4. TypeOK'
  BY <1>1, <1>3 DEF TypeInv, TypeOK, RunInv
<1>5. QED
  BY <1>1, <1>3, <1>4 DEF TypeInv, RowsConfirmed, RunInv, RunsSound

\* The three commits of a fixture in one form.
Commits(f) ==
  \E snapshot \in Snapshot, late \in SUBSET Procs, behind \in SUBSET Subs :
    /\ Commit(f, snapshot, late, behind)
    /\ late # {} \/ behind # {} => import.on
    /\ \/ /\ ~ snapshot.gone /\ fixture[f] # None /\ fixture[f].gone
          /\ Spend("restore")
       \/ /\ ~ snapshot.gone /\ ~ IsGone(f) /\ budget' = budget /\ import.on
       \/ /\ ~ snapshot.gone /\ ~ IsGone(f) /\ Spend("write")
       \/ /\ snapshot.gone /\ fixture[f] # None /\ Spend("gone")
          /\ snapshot.content = fixture[f].content
    /\ import' \in {import, NoImport}

LEMMA CommitCases ==
  ASSUME TypeInv, NEW f \in Fixtures,
         FixtureGone(f) \/ \E c \in Contents : WriteFixture(f, c) \/ ImportCommits(f, c)
  PROVE  Commits(f)
<1>1. fixture[f] \in Snapshot \cup {None} /\ import \in Import
  BY DEF TypeInv, TypeOK
<1>2. {} \in SUBSET Procs /\ {} \in SUBSET Subs
      /\ import.late \in SUBSET Procs /\ import.behind \in SUBSET Subs
  BY <1>1 DEF Import
<1>3. CASE FixtureGone(f)
  <2>1. [fixture[f] EXCEPT !.gone = TRUE] \in Snapshot
        /\ [fixture[f] EXCEPT !.gone = TRUE].gone
        /\ [fixture[f] EXCEPT !.gone = TRUE].content = fixture[f].content
    BY <1>1, <1>3 DEF FixtureGone, Snapshot
  <2>2. QED
    BY <1>2, <1>3, <2>1 DEF FixtureGone, Commits
<1>4. ASSUME NEW c \in Contents PROVE Live(c) \in Snapshot /\ ~ Live(c).gone
  BY DEF Live, Snapshot
<1>5. ASSUME NEW c \in Contents, WriteFixture(f, c)
      PROVE  Commits(f)
  BY <1>1, <1>2, <1>4, <1>5 DEF WriteFixture, Commits, IsGone
<1>6. ASSUME NEW c \in Contents, ImportCommits(f, c)
      PROVE  Commits(f)
  BY <1>1, <1>2, <1>4, <1>6 DEF ImportCommits, Commits
<1>7. QED
  BY <1>3, <1>5, <1>6

LEMMA EnvironmentTypeInv ==
  ASSUME TypeInv, Environment
  PROVE  TypeInv'
<1>1. ASSUME NEW f \in Fixtures, Commits(f)
      PROVE  TypeInv'
  <2>0. NoImport \in Import
    BY DEF NoImport, Import
  <2>1. import' \in Import
    BY <1>1, <2>0 DEF Commits, TypeInv, TypeOK
  <2>2. budget' \in [Events -> Nat]
    BY <1>1, SpendType DEF Commits, TypeInv, TypeOK, Events
  <2>3. QED
    BY <1>1, <2>1, <2>2, CommitTypeInv DEF Commits
<1>2. CASE ImportBegins
  <2>1. [NoImport EXCEPT !.on = TRUE] \in Import
    BY DEF NoImport, Import
  <2>2. /\ import' \in Import
        /\ UNCHANGED <<fixture, open, fresh, row, failures, calendar, run>>
    BY <1>2, <2>1 DEF ImportBegins
  <2>3. budget' \in [Events -> Nat]
    BY <1>2, SpendType DEF ImportBegins, TypeInv, Events
  <2>4. QED
    BY <2>2, <2>3 DEF TypeInv, TypeOK, RunsSound, RowsConfirmed
<1>3. ASSUME NEW c \in Contents, WindowMoves(c) PROVE TypeInv'
  BY <1>3, SpendType DEF WindowMoves, TypeInv, TypeOK, RunsSound, RowsConfirmed, Events
<1>4. CASE FailuresAge
  <2>1. failures' \in [Subs -> [Fixtures -> 0..MaxItemRetries]]
    BY <1>4, EngineAssumption DEF FailuresAge
  <2>2. QED
    BY <1>4, <2>1, SpendType DEF FailuresAge, TypeInv, TypeOK, RunsSound, RowsConfirmed, Events
<1>5. ASSUME NEW e \in EventIds, UserDeletes(e) PROVE TypeInv'
  BY <1>5, SpendType DEF UserDeletes, Put, TypeInv, TypeOK, RunsSound, RowsConfirmed, Events
<1>6. ASSUME NEW e \in EventIds, NEW c \in Contents, UserEdits(e, c) PROVE TypeInv'
  <2>1. [calendar[e] EXCEPT !.shows = c] \in Remote
    BY <1>6 DEF UserEdits, Remote, TypeInv, TypeOK
  <2>2. QED
    BY <1>6, <2>1, SpendType DEF UserEdits, Put, TypeInv, TypeOK, RunsSound, RowsConfirmed, Events
<1>7. QED
  BY <1>1, <1>2, <1>3, <1>4, <1>5, <1>6, CommitCases DEF Environment

\* The steps of Next, as the invariance proofs take them.
LEMMA NextCases ==
  Next => \/ \E p \in Procs :
               Calls(p) \/ LoadRemote(p) \/ NothingToDo(p) \/ Persist(p) \/ PersistRejected(p)
               \/ Crash(p) \/ Abort(p)
          \/ \E p \in Procs, s \in Subs, mode \in SyncMode : mode \in Modes /\ LoadAndPlan(p, s, mode)
          \/ Environment
  BY EngineAssumption DEF Next, RunStep, RunFault, Calls

LEMMA NextTypeInv == TypeInv /\ [Next]_vars => TypeInv'
<1> SUFFICES ASSUME TypeInv, [Next]_vars PROVE TypeInv'
  OBVIOUS
<1>1. CASE Next
  BY <1>1, NextCases, CallTypeInv, ListTypeInv, EndTypeInv, AbortTypeInv, LoadTypeInv,
     EnvironmentTypeInv
<1>2. CASE UNCHANGED vars
  BY <1>2 DEF vars, TypeInv, TypeOK, RunsSound, RowsConfirmed
<1>3. QED
  BY <1>1, <1>2

LEMMA TypeInvAlways == Spec => []TypeInv
<1>1. QED
  BY InitTypeInv, NextTypeInv, PTL DEF Spec

\* The types of runs, rows, calendar and watermarks, whatever is interleaved: a
\* process holds a subscription exactly while its run is in progress.
THEOREM TypeCorrect == Spec => []TypeOK
<1>1. TypeInv => TypeOK
  BY DEF TypeInv
<1>2. QED
  BY <1>1, TypeInvAlways, PTL

-----------------------------------------------------------------------------
\* A run carries its plan out: it acts on a fixture once, and as planned.

VerdictOn(load, f) ==
  IF f \in load.blocked THEN "conflict"
  ELSE Verdict(load.snap[f], load.rows[f], Canonical(load, f),
               load.known /\ IsConfirmed(load.rows[f]))

FromPlan(load, a) ==
  \/ a.fixture \in Loaded(load) /\ a.type = VerdictOn(load, a.fixture)
  \/ /\ a.fixture \in Fixtures \ (load.scope \cup Loaded(load))
     /\ a.type = "delete" /\ IsActive(load.rows[a.fixture])
  \/ a.fixture = None /\ a.type = "delete" /\ a.event \in StrayEvents(load)

\* Inserts may turn into repairs and patches into remakes.
Staged(a) ==
  \/ a.stage = "first"
  \/ a.stage = "repair" /\ a.type \in {"create", "recreate"}
  \/ a.stage = "remake" /\ a.type \in {"update", "cancel"}

PlanKept(p) ==
  /\ \A a \in run[p].todo : FromPlan(run[p].load, a) /\ Staged(a)
  /\ \A r \in run[p].done : FromPlan(run[p].load, r.action)
  /\ \A a, b \in run[p].todo : a.fixture = b.fixture /\ a.fixture # None => a = b
  /\ \A q, r \in run[p].done :
       q.action.fixture = r.action.fixture /\ q.action.fixture # None => q = r
  /\ \A a \in run[p].todo, r \in run[p].done :
       a.fixture = r.action.fixture => a.fixture = None

PlansKept == \A p \in Procs : PlanKept(p)

\* The plan of a run that has just planned.
LEMMA PlannedKept ==
  ASSUME NEW p \in Procs, run'[p] \in Run, NEW plan \in Plans(run'[p].load), PlannedAs(p, plan)
  PROVE  PlanKept(p)'
<1> DEFINE load == run'[p].load
<1>1. load \in Load
  BY DEF Run
<1>2. ASSUME NEW a \in plan
      PROVE  FromPlan(load, a) /\ a.stage = "first"
  <2>1. CASE a \in FixtureActions(load)
    <3>1. a.fixture \in Loaded(load) /\ a.fixture \in Fixtures
      BY <1>1, <2>1, FixtureActionsSound DEF Loaded
    <3>2. a = ActionOn(load, VerdictOn(load, a.fixture), a.fixture)
      BY <1>1, <2>1, FixtureActionsSound DEF VerdictOn
    <3> DEFINE type == VerdictOn(load, a.fixture)
    <3>5. ActionOn(load, type, a.fixture).type = type
      BY DEF ActionOn
    <3>3. a.type = VerdictOn(load, a.fixture)
      BY <3>2, <3>5, Zenon
    <3>4. QED
      BY <1>1, <2>1, <3>1, <3>3, FixtureActionsSound DEF FromPlan
  <2>2. CASE a \in PruneActions(load)
    <3>1. PICK f \in Fixtures \ (load.scope \cup Loaded(load)) :
            IsActive(load.rows[f]) /\ a = ActionOn(load, "delete", f)
      BY <2>2 DEF PruneActions
    <3>2. a.fixture = f
      BY <3>1 DEF ActionOn
    <3>3. QED
      BY <1>1, <2>2, <3>1, <3>2, PruneActionsSound DEF FromPlan
  <2>3. CASE a.fixture = None /\ a.event \in StrayEvents(load)
    <3>1. Sound(load, a) /\ a.stage = "first"
      BY <1>1, PlanSound
    <3>2. QED
      BY <2>3, <3>1 DEF FromPlan, Sound
  <2>4. QED
    BY <1>1, <2>1, <2>2, <2>3, PlanSound
<1>3. \A a, b \in plan : a.fixture = b.fixture /\ a.fixture # None => a = b
  BY <1>1, PlanOnePerFixture
<1>4. /\ run'[p].todo = {a \in plan : Mutates(a)}
      /\ \A r \in run'[p].done :
           r.action \in plan /\ r.action.type = "conflict" /\ r.event = None /\ r \in Result
      /\ \A a \in run'[p].todo : a.type # "conflict"
  BY DEF PlannedAs, Mutates, Run
<1>5. \A q, r \in run'[p].done : q.action = r.action => q = r
  BY <1>4 DEF Result
<1>6. QED
  BY <1>2, <1>3, <1>4, <1>5 DEF PlanKept, Staged

LEMMA CallKept ==
  ASSUME TypeInv, PlansKept, NEW p \in Procs, Calls(p)
  PROVE  PlanKept(p)' /\ OthersKept(p)
<1>1. PICK a \in run[p].todo :
        (\E e \in EventIds : Writes(p, a, e)) \/ Restages(p, a) \/ Misses(p, a)
  BY CallCases
<1>2. PlanKept(p) /\ a \in Action
  BY DEF PlansKept, TypeInv, TypeOK, Run
<1>3. ASSUME NEW x \in EventIds \cup {None}, Finish(p, a, x)
      PROVE  PlanKept(p)' /\ OthersKept(p)
  <2>1. /\ OthersKept(p) /\ run'[p].load = run[p].load /\ run'[p].todo = run[p].todo \ {a}
        /\ run'[p].done = run[p].done \cup {[action |-> a, event |-> x]}
    BY <1>3, FinishFrame DEF TypeInv, SameRead
  <2>2. QED
    BY <1>2, <2>1 DEF PlanKept
<1>4. ASSUME Restages(p, a)
      PROVE  PlanKept(p)' /\ OthersKept(p)
  <2>1. PICK stage \in {"repair", "remake"} :
          /\ Restage(p, a, stage)
          /\ stage = "repair" => a.type \in {"create", "recreate"}
          /\ stage = "remake" => a.type \in {"update", "cancel"}
    BY <1>4 DEF Restages
  <2>2. /\ OthersKept(p) /\ run'[p].load = run[p].load /\ run'[p].done = run[p].done
    BY <2>1, RestageFrame DEF TypeInv, SameRead
  <2>3. PICK b \in Action :
          /\ b.type = a.type /\ b.fixture = a.fixture /\ b.event = a.event /\ b.stage = stage
          /\ run'[p].todo = (run[p].todo \ {a}) \cup {b}
    BY <2>1, RestageFrame DEF TypeInv
  <2>4. FromPlan(run[p].load, b) /\ Staged(b)
    BY <1>2, <2>1, <2>3 DEF PlanKept, FromPlan, Staged
  <2>5. QED
    BY <1>2, <2>2, <2>3, <2>4 DEF PlanKept
<1>5. QED
  BY <1>1, <1>3, <1>4 DEF Writes, Misses

\* What a step does to a run: it is ended, planned, left as it is, aborted or
\* carried on by a call; only commits of fixtures touch several.
LEMMA RunCases ==
  ASSUME TypeInv, [Next]_vars
  PROVE  \/ /\ \E p \in Procs : Calls(p)
         \/ \E p \in Procs :
              /\ OthersKept(p) /\ run'[p] \in Run
              /\ \/ run'[p] = IdleRun
                 \/ run'[p].pc = "list" /\ run'[p].todo = {} /\ run'[p].done = {}
                 \/ \E plan \in Plans(run'[p].load) : PlannedAs(p, plan)
                 \/ SameRead(p) /\ run'[p].todo = {} /\ run'[p].done = run[p].done
         \/ \A p \in Procs :
              /\ run'[p].pc = run[p].pc /\ run'[p].sub = run[p].sub
              /\ run'[p].mode = run[p].mode /\ run'[p].load = run[p].load
              /\ run'[p].todo = run[p].todo /\ run'[p].done = run[p].done
              /\ run'[p].aborted = run[p].aborted
<1> DEFINE some == \E p \in Procs :
              /\ OthersKept(p) /\ run'[p] \in Run
              /\ \/ run'[p] = IdleRun
                 \/ run'[p].pc = "list" /\ run'[p].todo = {} /\ run'[p].done = {}
                 \/ \E plan \in Plans(run'[p].load) : PlannedAs(p, plan)
                 \/ SameRead(p) /\ run'[p].todo = {} /\ run'[p].done = run[p].done
           all == \A p \in Procs :
              /\ run'[p].pc = run[p].pc /\ run'[p].sub = run[p].sub
              /\ run'[p].mode = run[p].mode /\ run'[p].load = run[p].load
              /\ run'[p].todo = run[p].todo /\ run'[p].done = run[p].done
              /\ run'[p].aborted = run[p].aborted
<1>1. ASSUME NEW p \in Procs, LoadRemote(p) PROVE some
  BY <1>1, ListFrame
<1>2. ASSUME NEW p \in Procs, NothingToDo(p) \/ Persist(p) \/ PersistRejected(p) \/ Crash(p)
      PROVE  some
  BY <1>2, IdleFrame, IdleType DEF NothingToDo, Persist, PersistRejected, Crash, TypeInv
<1>3. ASSUME NEW p \in Procs, Abort(p) PROVE some
  BY <1>3, AbortFrame
<1>4. ASSUME NEW p \in Procs, NEW s \in Subs, NEW mode \in SyncMode, LoadAndPlan(p, s, mode)
      PROVE  some
  BY <1>4, LoadFrame DEF TypeInv
<1>5. ASSUME NEW f \in Fixtures, Commits(f) PROVE all
  BY <1>5, CommitFrame DEF Commits, TypeInv
<1>6. ASSUME UNCHANGED run PROVE all
  BY <1>6
<1>7. CASE Environment
  <2>1. \/ \E f \in Fixtures : Commits(f)
        \/ UNCHANGED run
    BY <1>7, CommitCases DEF Environment, ImportBegins, WindowMoves, FailuresAge, UserDeletes, UserEdits
  <2>2. QED
    BY <2>1, <1>5, <1>6
<1>8. CASE UNCHANGED vars
  BY <1>6, <1>8 DEF vars
<1> HIDE DEF some, all
<1>9. (\E p \in Procs : Calls(p)) \/ some \/ all
  BY <1>1, <1>2, <1>3, <1>4, <1>7, <1>8, NextCases DEF some, all
<1>10. QED
  BY <1>9 DEF some, all

LEMMA NextKept ==
  ASSUME TypeInv, PlansKept, [Next]_vars
  PROVE  PlansKept'
<1>1. ASSUME NEW p \in Procs, PlanKept(p)', OthersKept(p)
      PROVE  PlansKept'
  BY <1>1 DEF PlansKept, OthersKept, PlanKept
<1>2. ASSUME NEW p \in Procs, Calls(p)
      PROVE  PlansKept'
  BY <1>1, <1>2, CallKept
<1>3. ASSUME NEW p \in Procs, run'[p].todo = {}, run'[p].done = {}
      PROVE  PlanKept(p)'
  BY <1>3 DEF PlanKept
<1>4. ASSUME NEW p \in Procs, SameRead(p), run'[p].todo = {}, run'[p].done = run[p].done
      PROVE  PlanKept(p)'
  BY <1>4 DEF PlansKept, PlanKept, SameRead
<1>5. ASSUME NEW p \in Procs, OthersKept(p), run'[p] \in Run,
             \/ run'[p] = IdleRun
             \/ run'[p].pc = "list" /\ run'[p].todo = {} /\ run'[p].done = {}
             \/ \E plan \in Plans(run'[p].load) : PlannedAs(p, plan)
             \/ SameRead(p) /\ run'[p].todo = {} /\ run'[p].done = run[p].done
      PROVE  PlansKept'
  BY <1>1, <1>3, <1>4, <1>5, IdleType, PlannedKept
<1>6. ASSUME \A p \in Procs : /\ run'[p].load = run[p].load
                              /\ run'[p].todo = run[p].todo /\ run'[p].done = run[p].done
      PROVE  PlansKept'
  BY <1>6 DEF PlansKept, PlanKept
<1>7. QED
  BY <1>2, <1>5, <1>6, RunCases

-----------------------------------------------------------------------------
\* What is left of the budget, and imports that are only begun when it says so.

BudgetInv ==
  /\ \A e \in Events : budget[e] <= Budget[e]
  /\ Budget["late"] = 0 => ~ import.on

LEMMA NextBudget ==
  ASSUME TypeInv, BudgetInv, [Next]_vars
  PROVE  BudgetInv' /\ \A e \in Events : budget'[e] <= budget[e]
<1> USE DEF Events
<1>1. ASSUME budget' = budget \/ \E e \in Events : Spend(e)
      PROVE  \A e \in Events : budget'[e] <= budget[e] /\ budget'[e] <= Budget[e]
  <2>1. \A e \in Events : budget[e] \in Nat /\ Budget[e] \in Nat /\ budget[e] <= Budget[e]
    BY EngineAssumption DEF TypeInv, TypeOK, BudgetInv
  <2>2. CASE budget' = budget
    BY <2>1, <2>2
  <2>3. ASSUME NEW e \in Events, Spend(e)
        PROVE  \A d \in Events : budget'[d] <= budget[d]
    <3>1. budget[e] > 0 /\ budget'[e] = budget[e] - 1
          /\ \A d \in Events \ {e} : budget'[d] = budget[d]
      BY <2>3, SpendType DEF TypeInv
    <3>2. QED
      BY <2>1, <3>1
  <2>4. \A e \in Events : budget'[e] \in Nat
    BY NextTypeInv DEF TypeInv, TypeOK
  <2>5. \A d \in Events : budget'[d] <= budget[d]
    BY <1>1, <2>1, <2>2, <2>3
  <2>6. QED
    BY <2>1, <2>4, <2>5
<1>2. budget' = budget \/ \E e \in Events : Spend(e)
  <2>1. ASSUME NEW p \in Procs, Calls(p) PROVE budget' = budget \/ \E e \in Events : Spend(e)
    BY <2>1, CallCases DEF Writes, Restages, Misses
  <2>2. ASSUME NEW f \in Fixtures, Commits(f) PROVE budget' = budget \/ \E e \in Events : Spend(e)
    BY <2>2 DEF Commits
  <2>3. ASSUME Environment PROVE budget' = budget \/ \E e \in Events : Spend(e)
    BY <2>2, <2>3, CommitCases DEF Environment, ImportBegins, WindowMoves, FailuresAge, UserDeletes, UserEdits
  <2>4. QED
    BY <2>1, <2>3, NextCases DEF LoadRemote, NothingToDo, Persist, PersistRejected, Crash, Abort,
       LoadAndPlan, vars
<1>3. Budget["late"] = 0 => ~ import'.on
  <2> SUFFICES ASSUME Budget["late"] = 0 PROVE ~ import'.on
    OBVIOUS
  <2>0. ~ import.on /\ import \in Import
    BY DEF BudgetInv, TypeInv, TypeOK
  <2>1. ~ Spend("late")
    <3>1. budget["late"] \in Nat /\ budget["late"] <= 0
      BY DEF BudgetInv, TypeInv, TypeOK
    <3>2. QED
      BY <3>1 DEF Spend
  <2>2. ASSUME NEW p \in Procs, Calls(p) PROVE ~ import'.on
    BY <2>0, <2>2, CallCases DEF OnlyCall
  <2>3. ASSUME NEW p \in Procs, AdvanceWatermark(p) PROVE ~ import'.on
    BY <2>0, <2>3 DEF AdvanceWatermark, Import
  <2>4. ASSUME NEW p \in Procs, NEW s \in Subs, NEW mode \in SyncMode, LoadAndPlan(p, s, mode)
        PROVE  ~ import'.on
    BY <2>0, <2>4, LoadFrame DEF TypeInv
  <2>5. ASSUME Environment PROVE ~ import'.on
    <3>1. ASSUME NEW f \in Fixtures, Commits(f) PROVE ~ import'.on
      BY <2>0, <3>1 DEF Commits, NoImport
    <3>2. QED
      BY <2>0, <2>1, <2>5, <3>1, CommitCases
         DEF Environment, ImportBegins, WindowMoves, FailuresAge, UserDeletes, UserEdits
  <2>6. QED
    BY <2>0, <2>2, <2>3, <2>4, <2>5, NextCases DEF LoadRemote, NothingToDo, Persist,
       PersistRejected, Crash, Abort, OnlyCall, vars
<1>4. QED
  BY <1>1, <1>2, <1>3 DEF BudgetInv

-----------------------------------------------------------------------------
\* What a run has read.

ReadHolds(p) ==
  /\ \A f \in run[p].load.scope :
       run[p].load.snap[f] # None => ~ run[p].load.snap[f].gone
  /\ \A f \in Fixtures : run[p].load.rows[f] # None => ~ run[p].load.rows[f].deleted
  /\ Budget["late"] = 0 =>
       \A f \in Fixtures \ run[p].newer :
         run[p].load.snap[f] # None => run[p].load.snap[f] = fixture[f]
  /\ "reconcile" \notin Modes =>
       /\ run[p].pc # "list" /\ ~ run[p].load.known
       /\ \A e \in EventIds : run[p].load.remote[e] = None

ReadsHold == \A p \in Procs : ReadHolds(p)

LEMMA ReadCases ==
  ASSUME TypeInv, [Next]_vars
  PROVE  \/ \E p \in Procs :
              /\ OthersKept(p) /\ UNCHANGED <<fixture, open>>
              /\ \/ run'[p] = IdleRun
                 \/ \E s \in Subs, mode \in Modes : mode \in SyncMode /\ LoadAndPlan(p, s, mode)
                 \/ LoadRemote(p)
                 \/ SameRead(p) /\ run'[p].pc = run[p].pc
         \/ \E f \in Fixtures : Commits(f)
         \/ UNCHANGED <<run, fixture>>
<1> DEFINE some == \E p \in Procs :
              /\ OthersKept(p) /\ UNCHANGED <<fixture, open>>
              /\ \/ run'[p] = IdleRun
                 \/ \E s \in Subs, mode \in Modes : mode \in SyncMode /\ LoadAndPlan(p, s, mode)
                 \/ LoadRemote(p)
                 \/ SameRead(p) /\ run'[p].pc = run[p].pc
<1>1. ASSUME NEW p \in Procs, LoadRemote(p) PROVE some
  BY <1>1, ListFrame
<1>2. ASSUME NEW p \in Procs, NothingToDo(p) \/ Persist(p) \/ PersistRejected(p) \/ Crash(p)
      PROVE  some
  BY <1>2, IdleFrame DEF NothingToDo, Persist, PersistRejected, Crash, TypeInv
<1>3. ASSUME NEW p \in Procs, Abort(p) PROVE some
  BY <1>3, AbortFrame
<1>4. ASSUME NEW p \in Procs, NEW s \in Subs, NEW mode \in Modes, mode \in SyncMode,
             LoadAndPlan(p, s, mode)
      PROVE  some
  BY <1>4, LoadFrame DEF TypeInv
<1>5. ASSUME NEW p \in Procs, Calls(p) PROVE some
  <2>1. PICK a \in run[p].todo :
          (\E e \in EventIds : Writes(p, a, e)) \/ Restages(p, a) \/ Misses(p, a)
    BY <1>5, CallCases
  <2>2. OnlyCall
    BY <1>5, CallCases
  <2>3. ASSUME NEW x \in EventIds \cup {None}, Finish(p, a, x) PROVE some
    BY <2>2, <2>3, FinishFrame DEF OnlyCall, TypeInv
  <2>4. ASSUME NEW stage \in {"repair", "remake"}, Restage(p, a, stage) PROVE some
    BY <2>2, <2>4, RestageFrame DEF OnlyCall, TypeInv
  <2>5. QED
    BY <2>1, <2>3, <2>4 DEF Writes, Restages, Misses
<1>6. CASE Environment
  BY <1>6, CommitCases DEF Environment, ImportBegins, WindowMoves, FailuresAge, UserDeletes, UserEdits
<1>7. CASE UNCHANGED vars
  BY <1>7 DEF vars
<1> HIDE DEF some
<1>8. some \/ Environment \/ UNCHANGED vars
  BY <1>1, <1>2, <1>3, <1>4, <1>5, NextCases
<1>9. QED
  BY <1>6, <1>7, <1>8 DEF some

LEMMA LoadReads ==
  ASSUME TypeInv, NEW p \in Procs, NEW s \in Subs, NEW mode \in Modes, mode \in SyncMode,
         LoadAndPlan(p, s, mode)
  PROVE  ReadHolds(p)'
<1>1. PICK page \in Pages(Candidates(s, mode)) : run'[p].load = ReadBy(s, page)
  BY LoadFrame DEF TypeInv
<1>2. fixture' = fixture /\ run'[p].newer = {}
  BY LoadFrame DEF TypeInv
<1>3. (\A e \in EventIds : run'[p].load.remote[e] = None) /\ ~ run'[p].load.known
  BY <1>1 DEF ReadBy, NoLoad
<1>4. \A f \in Fixtures :
        /\ run'[p].load.snap[f] # None => run'[p].load.snap[f] = fixture[f]
        /\ run'[p].load.rows[f] # None => ~ run'[p].load.rows[f].deleted
  BY <1>1 DEF ReadBy, LiveRows
<1>5. \A f \in run'[p].load.scope : f \in Fixtures /\ ~ fixture[f].gone
  BY <1>1, EngineAssumption DEF ReadBy, InScope, InWindow
<1>6. "reconcile" \notin Modes => run'[p].pc # "list"
  <2>1. ASSUME "reconcile" \notin Modes PROVE ~ Lists(mode)
    BY <2>1 DEF Lists
  <2>2. QED
    BY <2>1, LoadFrame DEF TypeInv, PlannedAs
<1>7. QED
  BY <1>2, <1>3, <1>4, <1>5, <1>6 DEF ReadHolds

LEMMA NextReads ==
  ASSUME TypeInv, BudgetInv, ReadsHold, [Next]_vars
  PROVE  ReadsHold'
<1>1. ASSUME NEW p \in Procs, OthersKept(p), fixture' = fixture, ReadHolds(p)'
      PROVE  ReadsHold'
  BY <1>1 DEF ReadsHold, ReadHolds, OthersKept
<1>2. ASSUME NEW p \in Procs, run'[p] = IdleRun
      PROVE  ReadHolds(p)'
  BY <1>2, IdleType DEF ReadHolds, NoLoad
<1>3. ASSUME NEW p \in Procs, LoadRemote(p)
      PROVE  ReadHolds(p)'
  <2>1. /\ run[p].pc = "list" /\ fixture' = fixture
        /\ run'[p].load = [run[p].load EXCEPT !.remote = Listed(run[p].load.window), !.known = TRUE]
        /\ run'[p].newer = run[p].newer
    BY <1>3, ListFrame
  <2>2. run[p].load \in Load
    BY DEF TypeInv, TypeOK, Run
  <2>3. /\ run'[p].load.scope = run[p].load.scope /\ run'[p].load.snap = run[p].load.snap
        /\ run'[p].load.rows = run[p].load.rows
    BY <2>1, <2>2 DEF Load
  <2>4. QED
    BY <2>1, <2>3 DEF ReadsHold, ReadHolds
<1>4. ASSUME NEW p \in Procs, SameRead(p), run'[p].pc = run[p].pc, fixture' = fixture
      PROVE  ReadHolds(p)'
  BY <1>4 DEF ReadsHold, ReadHolds, SameRead
<1>5. ASSUME NEW f \in Fixtures, Commits(f)
      PROVE  ReadsHold'
  <2>1. PICK snapshot \in Snapshot, late \in SUBSET Procs, behind \in SUBSET Subs :
          Commit(f, snapshot, late, behind) /\ (late # {} \/ behind # {} => import.on)
    BY <1>5 DEF Commits
  <2>2. \A g \in Fixtures \ {f} : fixture'[g] = fixture[g]
    BY <2>1, CommitFrame DEF TypeInv
  <2>3. ASSUME NEW p \in Procs
        PROVE  ReadHolds(p)'
    <3>1. /\ run'[p].pc = run[p].pc /\ run'[p].load = run[p].load
          /\ run[p].pc = "idle" => run'[p] = run[p]
          /\ run[p].pc # "idle" /\ p \notin late => run'[p].newer = run[p].newer \cup {f}
      BY <2>1, CommitFrame DEF TypeInv
    <3>2. CASE run[p].pc = "idle"
      <4>1. run'[p] = IdleRun
        BY <3>1, <3>2 DEF TypeInv, RunsSound
      <4>2. QED
        BY <1>2, <4>1
    <3>3. CASE run[p].pc # "idle"
      <4>1. Budget["late"] = 0 => late = {}
        BY <2>1 DEF BudgetInv
      <4>2. QED
        BY <2>2, <3>1, <3>3, <4>1 DEF ReadsHold, ReadHolds
    <3>4. QED
      BY <3>2, <3>3
  <2>4. QED
    BY <2>3 DEF ReadsHold
<1>6. CASE UNCHANGED <<run, fixture>>
  BY <1>6 DEF ReadsHold, ReadHolds
<1>7. QED
  BY <1>1, <1>2, <1>3, <1>4, <1>5, <1>6, ReadCases, LoadReads

-----------------------------------------------------------------------------
\* Every event id belongs to one fixture: rows, results and events agree on it.

OwnerOf(e) == IF e \in Fixtures THEN e ELSE MadeFor[e]

EventsOwned ==
  /\ \A e \in EventIds : calendar[e] # None => calendar[e].app = OwnerOf(e)
  /\ \A s \in Subs, f \in Fixtures : row[s][f] # None => OwnerOf(row[s][f].event) = f
  /\ \A p \in Procs :
       /\ \A f \in Fixtures : run[p].load.rows[f] # None =>
            OwnerOf(run[p].load.rows[f].event) = f
       /\ \A r \in run[p].done : r.event # None /\ r.action.fixture # None =>
            OwnerOf(r.event) = r.action.fixture

\* A patch or a delete through a mapping reaches an event of its fixture.
LEMMA ActionOwner ==
  ASSUME TypeInv, EventsOwned, NEW p \in Procs, NEW a \in run[p].todo,
         a.type \in {"update", "cancel", "delete"}, a.fixture # None
  PROVE  OwnerOf(a.event) = a.fixture
<1>1. a \in Action /\ Sound(run[p].load, a)
  BY DEF TypeInv, TypeOK, RunsSound, Run
<1>2. a.fixture \in Fixtures
  BY <1>1 DEF Action
<1>3. run[p].load.rows[a.fixture] # None /\ a.event = run[p].load.rows[a.fixture].event
  BY <1>1 DEF Sound, EventOf
<1>4. QED
  BY <1>2, <1>3 DEF EventsOwned

LEMMA CallOwned ==
  ASSUME TypeInv, EventsOwned, NEW p \in Procs, Calls(p)
  PROVE  EventsOwned'
<1>1. PICK a \in run[p].todo :
        (\E e \in EventIds : Writes(p, a, e)) \/ Restages(p, a) \/ Misses(p, a)
  BY CallCases
<1>2. OnlyCall
  BY CallCases
<1>3. ASSUME NEW x \in EventIds \cup {None}, Finish(p, a, x),
             x # None /\ a.fixture # None => OwnerOf(x) = a.fixture,
             \A e \in EventIds : calendar'[e] # None => calendar'[e].app = OwnerOf(e)
      PROVE  EventsOwned'
  <2>1. /\ OthersKept(p) /\ run'[p].load = run[p].load
        /\ run'[p].done = run[p].done \cup {[action |-> a, event |-> x]}
    BY <1>3, FinishFrame DEF TypeInv, SameRead
  <2>2. \A q \in Procs : run'[q].load = run[q].load
    BY <2>1 DEF OthersKept
  <2>3. \A q \in Procs : \A r \in run'[q].done :
          r.event # None /\ r.action.fixture # None => OwnerOf(r.event) = r.action.fixture
    BY <1>3, <2>1 DEF OthersKept, EventsOwned
  <2>4. QED
    BY <1>2, <1>3, <2>2, <2>3 DEF EventsOwned, OnlyCall, OwnerOf
<1>4. ASSUME NEW e \in EventIds, Writes(p, a, e)
      PROVE  EventsOwned'
  <2>1. /\ \A d \in EventIds \ {e} : calendar'[d] = calendar[d]
        /\ a.type = "delete" => calendar'[e] = None
        /\ a.type # "delete" => calendar'[e] = Body(p, a)
        /\ a.type \in {"create", "recreate", "update", "cancel", "delete"}
        /\ a \in Action /\ Sound(run[p].load, a)
        /\ \E x \in {e, None} : Finish(p, a, x)
    BY <1>4, WriteFrame
  <2>2. a.type # "delete" => /\ a.fixture \in Fixtures /\ Body(p, a).app = a.fixture
                             /\ a.fixture # None
    BY <2>1, BodyType, NoneType DEF TypeInv
  <2>3. a.fixture # None => OwnerOf(e) = a.fixture
    <3>1. CASE a.type \in {"create", "recreate"}
      BY <1>4, <2>2, <3>1 DEF Writes, OwnerOf
    <3>2. CASE a.type \in {"update", "cancel", "delete"} /\ e = a.event
      BY <3>2, ActionOwner
    <3>3. CASE e \in MadeIds /\ MadeFor[e] = a.fixture
      BY <3>3, PlannerAssumption DEF OwnerOf
    <3>4. QED
      BY <1>4, <3>1, <3>2, <3>3 DEF Writes
  <2>4. \A d \in EventIds : calendar'[d] # None => calendar'[d].app = OwnerOf(d)
    BY <2>1, <2>2, <2>3 DEF EventsOwned
  <2>5. QED
    BY <1>3, <2>1, <2>3, <2>4
<1>5. ASSUME NEW stage \in {"repair", "remake"}, Restage(p, a, stage)
      PROVE  EventsOwned'
  <2>1. /\ OthersKept(p) /\ run'[p].load = run[p].load /\ run'[p].done = run[p].done
        /\ calendar' = calendar
    BY <1>5, RestageFrame DEF TypeInv, SameRead
  <2>2. \A q \in Procs : run'[q].load = run[q].load /\ run'[q].done = run[q].done
    BY <2>1 DEF OthersKept
  <2>3. QED
    BY <1>2, <2>1, <2>2 DEF EventsOwned, OnlyCall, OwnerOf
<1>6. CASE Misses(p, a)
  BY <1>3, <1>6 DEF Misses, EventsOwned
<1>7. QED
  BY <1>1, <1>4, <1>5, <1>6 DEF Restages

LEMMA PersistOwned ==
  ASSUME TypeInv, EventsOwned, NEW p \in Procs, Persist(p), NEW s \in Subs, NEW f \in Fixtures,
         row'[s][f] # None
  PROVE  OwnerOf(row'[s][f].event) = f
<1>1. CASE s # run[p].sub
  BY <1>1, PersistFrame DEF EventsOwned
<1>2. CASE s = run[p].sub
  <2> DEFINE old == row[s][f]
             new == NewRow(p, f, old)
  <2>1. row'[s][f] = new /\ run[p].pc # "idle"
    BY <1>2, PersistFrame
  <2>2. old # None => old \in Mapping /\ OwnerOf(old.event) = f
    BY DEF EventsOwned, TypeInv, TypeOK
  <2>3. CASE ResultsOf(p, f) = {}
    BY <2>1, <2>2, <2>3 DEF NewRow
  <2>4. ASSUME NEW r \in ResultsOf(p, f), RowFrom(p, r, old, new)
        PROVE  OwnerOf(new.event) = f
    <3>1. r \in run[p].done /\ r.event # None /\ r.action.fixture = f
      BY DEF ResultsOf, Successes
    <3>2. OwnerOf(r.event) = f
      BY <3>1, NoneType DEF EventsOwned
    <3> HIDE DEF old, new
    <3>3. new.event = r.event \/ (old # None /\ new.event = old.event)
      <4>1. CASE r.action.type \in {"create", "recreate"}
        BY <2>4, <4>1 DEF RowFrom
      <4>2. CASE r.action.type = "update"
        BY <2>2, <2>4, <4>2 DEF RowFrom, Mapping
      <4>3. CASE r.action.type = "cancel"
        BY <2>2, <2>4, <4>3 DEF RowFrom, Mapping
      <4>4. CASE r.action.type = "delete"
        BY <2>2, <2>4, <4>4 DEF RowFrom, Mapping
      <4>5. QED
        BY <2>4, <4>1, <4>2, <4>3, <4>4 DEF RowFrom
    <3>4. QED
      BY <2>2, <3>2, <3>3
  <2>5. QED
    BY <1>2, <2>1, <2>3, <2>4, NewRowCases
<1>3. QED
  BY <1>1, <1>2

LEMMA LoadOwned ==
  ASSUME TypeInv, EventsOwned, NEW p \in Procs, NEW s \in Subs, NEW mode \in SyncMode,
         LoadAndPlan(p, s, mode)
  PROVE  /\ OthersKept(p) /\ row' = row /\ calendar' = calendar
         /\ \A r \in run'[p].done : r.event = None
         /\ \A f \in Fixtures : run'[p].load.rows[f] # None =>
              OwnerOf(run'[p].load.rows[f].event) = f
<1>1. PICK page \in Pages(Candidates(s, mode)) : run'[p].load = ReadBy(s, page)
  BY LoadFrame DEF TypeInv
<1>2. /\ OthersKept(p) /\ row' = row /\ calendar' = calendar
      /\ run'[p].done = {} \/ \E plan \in Plans(run'[p].load) : PlannedAs(p, plan)
  BY LoadFrame DEF TypeInv
<1>3. \A f \in Fixtures : run'[p].load.rows[f] # None => OwnerOf(run'[p].load.rows[f].event) = f
  BY <1>1, ReadRows DEF EventsOwned
<1>4. QED
  BY <1>2, <1>3, PlannedDone

LEMMA ListOwned ==
  ASSUME TypeInv, EventsOwned, NEW p \in Procs, LoadRemote(p)
  PROVE  /\ OthersKept(p) /\ row' = row /\ calendar' = calendar
         /\ \A r \in run'[p].done : r.event = None
         /\ \A f \in Fixtures : run'[p].load.rows[f] # None =>
              OwnerOf(run'[p].load.rows[f].event) = f
<1>1. /\ run'[p].load = [run[p].load EXCEPT !.remote = Listed(run[p].load.window), !.known = TRUE]
      /\ OthersKept(p) /\ row' = row /\ calendar' = calendar
      /\ \E plan \in Plans(run'[p].load) : PlannedAs(p, plan)
  BY ListFrame
<1>2. run[p].load \in Load
  BY DEF TypeInv, TypeOK, Run
<1>3. run'[p].load.rows = run[p].load.rows
  BY <1>1, <1>2 DEF Load
<1>4. QED
  BY <1>1, <1>3, PlannedDone DEF EventsOwned

LEMMA NextOwned ==
  ASSUME TypeInv, EventsOwned, [Next]_vars
  PROVE  EventsOwned'
<1>1. ASSUME NEW p \in Procs, OthersKept(p), UNCHANGED calendar,
             \A s \in Subs, f \in Fixtures : row'[s][f] # None => OwnerOf(row'[s][f].event) = f,
             \A f \in Fixtures : run'[p].load.rows[f] # None => OwnerOf(run'[p].load.rows[f].event) = f,
             \A r \in run'[p].done : r.event # None => r \in run[p].done
      PROVE  EventsOwned'
  BY <1>1 DEF EventsOwned, OthersKept, OwnerOf
<1>2. ASSUME NEW p \in Procs,
             NothingToDo(p) \/ Persist(p) \/ PersistRejected(p) \/ Crash(p)
      PROVE  EventsOwned'
  <2>1. OthersKept(p) /\ run'[p] = IdleRun /\ calendar' = calendar
    BY <1>2, IdleFrame DEF NothingToDo, Persist, PersistRejected, Crash, TypeInv
  <2>2. \A s \in Subs, f \in Fixtures : row'[s][f] # None => OwnerOf(row'[s][f].event) = f
    BY <1>2, PersistOwned DEF NothingToDo, PersistRejected, Crash, EventsOwned
  <2>3. QED
    BY <1>1, <2>1, <2>2, IdleType DEF NoLoad
<1>3. ASSUME NEW p \in Procs, NEW s \in Subs, NEW mode \in SyncMode, LoadAndPlan(p, s, mode)
      PROVE  EventsOwned'
  <2>1. /\ OthersKept(p) /\ row' = row /\ calendar' = calendar
        /\ \A r \in run'[p].done : r.event = None
        /\ \A f \in Fixtures : run'[p].load.rows[f] # None =>
             OwnerOf(run'[p].load.rows[f].event) = f
    BY <1>3, LoadOwned
  <2>2. QED
    BY <1>1, <2>1 DEF EventsOwned
<1>4. ASSUME NEW p \in Procs, LoadRemote(p)
      PROVE  EventsOwned'
  <2>1. /\ OthersKept(p) /\ row' = row /\ calendar' = calendar
        /\ \A r \in run'[p].done : r.event = None
        /\ \A f \in Fixtures : run'[p].load.rows[f] # None =>
             OwnerOf(run'[p].load.rows[f].event) = f
    BY <1>4, ListOwned
  <2>2. QED
    BY <1>1, <2>1 DEF EventsOwned
<1>5. ASSUME NEW p \in Procs, Abort(p)
      PROVE  EventsOwned'
  BY <1>1, <1>5, AbortFrame DEF EventsOwned, SameRead
<1>6. ASSUME \A p \in Procs : run'[p].load = run[p].load /\ run'[p].done = run[p].done,
             UNCHANGED row,
             \A e \in EventIds : calendar'[e] # None =>
               calendar[e] # None /\ calendar'[e].app = calendar[e].app
      PROVE  EventsOwned'
  BY <1>6 DEF EventsOwned, OwnerOf
<1>7. CASE Environment
  <2>1. ASSUME NEW f \in Fixtures, Commits(f) PROVE EventsOwned'
    BY <1>6, <2>1, CommitFrame DEF Commits, TypeInv
  <2>2. ASSUME NEW e \in EventIds, UserDeletes(e) PROVE EventsOwned'
    BY <1>6, <2>2 DEF UserDeletes, Put, TypeInv, TypeOK
  <2>3. ASSUME NEW e \in EventIds, NEW c \in Contents, UserEdits(e, c) PROVE EventsOwned'
    <3>1. calendar[e] \in Remote /\ calendar' = [calendar EXCEPT ![e] = [calendar[e] EXCEPT !.shows = c]]
      BY <2>3 DEF UserEdits, Put, TypeInv, TypeOK
    <3>2. \A d \in EventIds : calendar'[d] # None =>
            calendar[d] # None /\ calendar'[d].app = calendar[d].app
      BY <2>3, <3>1 DEF UserEdits, Remote, TypeInv, TypeOK
    <3>3. QED
      BY <1>6, <2>3, <3>2 DEF UserEdits
  <2>4. CASE ImportBegins \/ FailuresAge \/ \E c \in Contents : WindowMoves(c)
    BY <1>6, <2>4 DEF ImportBegins, FailuresAge, WindowMoves
  <2>5. QED
    BY <1>7, <2>1, <2>2, <2>3, <2>4, CommitCases DEF Environment
<1>8. CASE UNCHANGED vars
  BY <1>6, <1>8 DEF vars
<1>9. QED
  BY <1>2, <1>3, <1>4, <1>5, <1>7, <1>8, NextCases, CallOwned

-----------------------------------------------------------------------------
\* Under its lock a run is alone with its subscription, so the rows it has read
\* stay what they are; rows and loads are of fixtures the subscription covers.

OneRun ==
  Exclusive => \A p, q \in Procs : run[p].sub = run[q].sub /\ run[p].sub # None => p = q

RowsHeld ==
  Exclusive => \A p \in Procs : run[p].pc # "idle" =>
    \A f \in Fixtures :
      run[p].load.rows[f] = IF f \in LiveRows(run[p].sub) THEN row[run[p].sub][f] ELSE None

Scoped ==
  /\ \A s \in Subs, f \in Fixtures : row[s][f] # None => f \in Scope[s]
  /\ \A p \in Procs, f \in Fixtures : run[p].load.snap[f] # None => f \in Scope[run[p].sub]

LockInv == OneRun /\ RowsHeld /\ Scoped

\* Reads and rows change when a run begins, ends or persists, and no other time.
LEMMA LockCases ==
  ASSUME TypeInv, [Next]_vars
  PROVE  \/ /\ row' = row
            /\ \A p \in Procs :
                 /\ run'[p].sub = run[p].sub /\ run'[p].load.rows = run[p].load.rows
                 /\ run'[p].load.snap = run[p].load.snap
                 /\ run'[p].pc = "idle" <=> run[p].pc = "idle"
         \/ \E p \in Procs : /\ OthersKept(p) /\ run'[p] = IdleRun
                             /\ row' = row \/ Persist(p)
         \/ \E p \in Procs, s \in Subs, mode \in Modes : mode \in SyncMode /\ LoadAndPlan(p, s, mode)
<1> DEFINE kept == /\ row' = row
                   /\ \A p \in Procs :
                        /\ run'[p].sub = run[p].sub /\ run'[p].load.rows = run[p].load.rows
                        /\ run'[p].load.snap = run[p].load.snap
                        /\ run'[p].pc = "idle" <=> run[p].pc = "idle"
           ends == \E p \in Procs : /\ OthersKept(p) /\ run'[p] = IdleRun
                                    /\ row' = row \/ Persist(p)
           begins == \E p \in Procs, s \in Subs, mode \in Modes :
                       mode \in SyncMode /\ LoadAndPlan(p, s, mode)
<1>1. ASSUME NEW p \in Procs, Calls(p) PROVE kept
  <2>1. PICK a \in run[p].todo : \/ \E e \in EventIds : Writes(p, a, e)
                                 \/ Restages(p, a)
                                 \/ Misses(p, a)
    BY <1>1, CallCases
  <2>2. SameRead(p) /\ OthersKept(p) /\ run'[p].pc = run[p].pc
    <3>1. ASSUME NEW e \in EventIds \cup {None}, Finish(p, a, e)
          PROVE  SameRead(p) /\ OthersKept(p) /\ run'[p].pc = run[p].pc
      BY <3>1, FinishFrame DEF TypeInv
    <3>2. ASSUME NEW stage \in {"repair", "remake"}, Restage(p, a, stage)
          PROVE  SameRead(p) /\ OthersKept(p) /\ run'[p].pc = run[p].pc
      BY <3>2, RestageFrame DEF TypeInv
    <3>3. QED
      BY <2>1, <3>1, <3>2 DEF Writes, Restages, Misses
  <2>3. row' = row
    BY <1>1, CallCases DEF OnlyCall
  <2>4. QED
    BY <2>2, <2>3 DEF SameRead, OthersKept
<1>2. ASSUME NEW p \in Procs, LoadRemote(p) PROVE kept
  <2>1. run[p].load \in Load
    BY DEF TypeInv, TypeOK, Run
  <2>2. run'[p].load.rows = run[p].load.rows /\ run'[p].load.snap = run[p].load.snap
    <3>1. run'[p].load = [run[p].load EXCEPT !.remote = Listed(run[p].load.window), !.known = TRUE]
      BY <1>2, ListFrame
    <3>2. QED
      BY <2>1, <3>1 DEF Load
  <2>3. run[p].pc # "idle" /\ run'[p].pc # "idle" /\ run'[p].sub = run[p].sub /\ OthersKept(p) /\ row' = row
    BY <1>2, ListFrame DEF PlannedAs
  <2>4. QED
    BY <2>2, <2>3 DEF OthersKept
<1>3. ASSUME NEW p \in Procs, NothingToDo(p) \/ Persist(p) \/ PersistRejected(p) \/ Crash(p)
      PROVE  ends
  BY <1>3, IdleFrame DEF NothingToDo, Persist, PersistRejected, Crash, TypeInv
<1>4. ASSUME NEW p \in Procs, Abort(p) PROVE kept
  BY <1>4, AbortFrame DEF SameRead, OthersKept
<1>5. ASSUME Environment PROVE kept
  <2>1. ASSUME NEW f \in Fixtures, Commits(f) PROVE kept
    BY <2>1, CommitFrame DEF Commits, TypeInv
  <2>2. (\E f \in Fixtures : Commits(f)) \/ UNCHANGED <<run, row>>
    BY <1>5, CommitCases DEF Environment, ImportBegins, WindowMoves, FailuresAge, UserDeletes, UserEdits
  <2>3. QED
    BY <2>1, <2>2
<1>6. ASSUME UNCHANGED vars PROVE kept
  BY <1>6 DEF vars
<1>7. ASSUME NEW p \in Procs, NEW s \in Subs, NEW mode \in SyncMode, mode \in Modes,
             LoadAndPlan(p, s, mode)
      PROVE  begins
  BY <1>7
<1> HIDE DEF kept, ends, begins
<1>8. kept \/ ends \/ begins
  BY <1>1, <1>2, <1>3, <1>4, <1>5, <1>6, <1>7, NextCases
<1>9. QED
  BY <1>8 DEF kept, ends, begins

LEMMA PersistScoped ==
  ASSUME TypeInv, Scoped, NEW p \in Procs, Persist(p)
  PROVE  \A s \in Subs, f \in Fixtures : row'[s][f] # None => f \in Scope[s]
<1> SUFFICES ASSUME NEW s \in Subs, NEW f \in Fixtures, row'[s][f] # None, row[s][f] = None
             PROVE  f \in Scope[s]
  BY DEF Scoped
<1>1. s = run[p].sub /\ run[p].pc # "idle"
  BY PersistFrame
<1>2. row'[s][f] = NewRow(p, f, row[run[p].sub][f]) /\ row[run[p].sub][f] = None
  BY <1>1, PersistFrame
<1>3. PICK r \in ResultsOf(p, f) : RowFrom(p, r, row[run[p].sub][f], NewRow(p, f, row[run[p].sub][f]))
  BY <1>2, NewRowCases
<1>4. r.action.type \in {"create", "recreate"}
  BY <1>2, <1>3 DEF RowFrom
<1>5. r \in run[p].done /\ r.action.fixture = f
  BY DEF ResultsOf, Successes
<1>6. Sound(run[p].load, r.action)
  BY <1>5 DEF TypeInv, RunsSound
<1>7. run[p].load.snap[f] # None
  BY <1>4, <1>5, <1>6 DEF Sound
<1>8. QED
  BY <1>1, <1>7 DEF Scoped

LEMMA NextLock ==
  ASSUME TypeInv, LockInv, [Next]_vars
  PROVE  LockInv'
<1>1. CASE /\ row' = row
           /\ \A p \in Procs :
                /\ run'[p].sub = run[p].sub /\ run'[p].load.rows = run[p].load.rows
                /\ run'[p].load.snap = run[p].load.snap
                /\ run'[p].pc = "idle" <=> run[p].pc = "idle"
  <2>1. OneRun'
    BY <1>1 DEF LockInv, OneRun
  <2>2. RowsHeld'
    <3>1. SUFFICES ASSUME Exclusive, NEW q \in Procs, run'[q].pc # "idle"
                   PROVE  \A f \in Fixtures : run'[q].load.rows[f] =
                            IF f \in LiveRows(run[q].sub)' THEN row'[run'[q].sub][f] ELSE None
      BY <1>1 DEF RowsHeld, LiveRows
    <3>2. LiveRows(run[q].sub)' = LiveRows(run[q].sub)
      BY <1>1 DEF LiveRows
    <3>3. \A f \in Fixtures : run[q].load.rows[f] =
            IF f \in LiveRows(run[q].sub) THEN row[run[q].sub][f] ELSE None
      BY <1>1, <3>1 DEF LockInv, RowsHeld
    <3>4. QED
      BY <1>1, <3>2, <3>3
  <2>3. Scoped'
    BY <1>1 DEF LockInv, Scoped
  <2>4. QED
    BY <2>1, <2>2, <2>3 DEF LockInv
<1>2. ASSUME NEW p \in Procs, OthersKept(p), run'[p] = IdleRun, row' = row \/ Persist(p)
      PROVE  LockInv'
  <2>1. OneRun'
    BY <1>2, IdleType DEF OthersKept, LockInv, OneRun
  <2>2. RowsHeld'
    <3>1. SUFFICES ASSUME Exclusive, NEW q \in Procs, run'[q].pc # "idle"
                   PROVE  \A f \in Fixtures : run'[q].load.rows[f] =
                            IF f \in LiveRows(run[q].sub)' THEN row'[run'[q].sub][f] ELSE None
      BY DEF RowsHeld
    <3>2. q # p /\ run'[q] = run[q]
      BY <1>2, <3>1, IdleType DEF OthersKept
    <3>3. row'[run[q].sub] = row[run[q].sub]
      <4>1. CASE row' = row
        BY <4>1
      <4>2. CASE Persist(p)
        <5>1. run[q].sub \in Subs /\ run[q].sub # None
          BY <3>1, <3>2, NoneType DEF TypeInv, TypeOK, Run
        <5>2. run[q].sub # run[p].sub
          BY <3>1, <3>2, <5>1 DEF LockInv, OneRun
        <5>3. QED
          BY <4>2, <5>1, <5>2, PersistFrame
      <4>3. QED
        BY <1>2, <4>1, <4>2
    <3>4. QED
      BY <3>1, <3>2, <3>3 DEF LockInv, RowsHeld, LiveRows
  <2>3. Scoped'
    <3>1. \A s \in Subs, f \in Fixtures : row'[s][f] # None => f \in Scope[s]
      BY <1>2, PersistScoped DEF LockInv, Scoped
    <3>2. \A q \in Procs, f \in Fixtures : run'[q].load.snap[f] # None => f \in Scope[run'[q].sub]
      BY <1>2, IdleType DEF NoLoad, OthersKept, LockInv, Scoped
    <3>3. QED
      BY <3>1, <3>2 DEF Scoped
  <2>4. QED
    BY <2>1, <2>2, <2>3 DEF LockInv
<1>3. ASSUME NEW p \in Procs, NEW s \in Subs, NEW mode \in SyncMode, LoadAndPlan(p, s, mode)
      PROVE  LockInv'
  <2> TypeOK
    BY DEF TypeInv
  <2>1. /\ OthersKept(p) /\ (Exclusive => \A q \in Procs : run[q].sub # s)
        /\ run'[p].sub = s /\ row' = row /\ fixture' = fixture
    BY <1>3, LoadFrame
  <2>2. PICK page \in Pages(Candidates(s, mode)) : run'[p].load = ReadBy(s, page)
    BY <1>3, LoadFrame
  <2>3. OneRun'
    BY <2>1 DEF OthersKept, LockInv, OneRun
  <2>4. \A f \in Fixtures : run'[p].load.rows[f] = IF f \in LiveRows(s) THEN row[s][f] ELSE None
    BY <2>2 DEF ReadBy
  <2>5. \A t : LiveRows(t)' = LiveRows(t)
    BY <2>1 DEF LiveRows
  <2>6. RowsHeld'
    BY <2>1, <2>4, <2>5 DEF OthersKept, LockInv, RowsHeld
  <2>7. \A f \in Fixtures : run'[p].load.snap[f] # None => f \in Scope[s]
    <3>1. \A f \in Fixtures : run'[p].load.snap[f] # None => f \in page \cup GoneFixtures(s)
      BY <2>2 DEF ReadBy
    <3>2. page \subseteq Scope[s]
      BY CandidatesType DEF InWindow
    <3>3. GoneFixtures(s) \subseteq Scope[s]
      BY DEF GoneFixtures, LiveRows, LockInv, Scoped
    <3>4. QED
      BY <3>1, <3>2, <3>3
  <2>8. Scoped'
    BY <2>1, <2>7 DEF OthersKept, LockInv, Scoped
  <2>9. QED
    BY <2>3, <2>6, <2>8 DEF LockInv
<1>4. QED
  BY <1>1, <1>2, <1>3, LockCases

-----------------------------------------------------------------------------
\* What holds of every instance.

BaseInv == TypeInv /\ PlansKept /\ BudgetInv /\ ReadsHold /\ EventsOwned /\ LockInv

LEMMA InitBase == Init => BaseInv
<1> SUFFICES ASSUME Init PROVE BaseInv
  OBVIOUS
<1>1. TypeInv /\ \A p \in Procs : run[p] = IdleRun
  BY InitTypeInv DEF Init
<1>2. BudgetInv
  BY EngineAssumption DEF Init, BudgetInv, NoImport, Events
<1>3. PlansKept /\ ReadsHold /\ EventsOwned
  BY <1>1, IdleType DEF PlansKept, PlanKept, ReadsHold, ReadHolds, EventsOwned, NoLoad, Init
<1>4. LockInv
  BY <1>1, IdleType DEF LockInv, OneRun, RowsHeld, Scoped, NoLoad, Init
<1>5. QED
  BY <1>1, <1>2, <1>3, <1>4 DEF BaseInv

LEMMA NextBase == BaseInv /\ [Next]_vars => BaseInv'
  BY NextTypeInv, NextKept, NextBudget, NextReads, NextOwned, NextLock DEF BaseInv

LEMMA BaseAlways == Spec => []BaseInv
  BY InitBase, NextBase, PTL DEF Spec

\* A delete of a run that lists no events goes through the mapping of a fixture
\* that is out of scope, gone, or cancelled under the policy that deletes those.
LEMMA DeleteCases ==
  ASSUME BaseInv, "reconcile" \notin Modes, NEW p \in Procs, NEW a \in run[p].todo,
         a.type = "delete"
  PROVE  /\ a.fixture \in Fixtures /\ OwnerOf(a.event) = a.fixture
         /\ a.fixture \in run[p].load.scope =>
              /\ run[p].load.snap[a.fixture] \in Snapshot
              /\ run[p].load.snap[a.fixture].content \in Cancelled
              /\ CancelledPolicy = "delete"
<1> DEFINE load == run[p].load
<1>1. FromPlan(load, a) /\ load \in Load /\ a \in Action
  BY DEF BaseInv, PlansKept, PlanKept, TypeInv, TypeOK, Run
<1>2. a.fixture # None
  <2>1. \A e \in EventIds : load.remote[e] = None
    BY DEF BaseInv, ReadsHold, ReadHolds
  <2>2. StrayEvents(load) = {}
    BY <2>1 DEF StrayEvents
  <2>3. QED
    BY <1>1, <2>2, NoneType DEF FromPlan, Loaded
<1>3. a.fixture \in Fixtures /\ OwnerOf(a.event) = a.fixture
  BY <1>1, <1>2, ActionOwner DEF Action, BaseInv
<1>4. ASSUME a.fixture \in load.scope
      PROVE  /\ load.snap[a.fixture] \in Snapshot /\ load.snap[a.fixture].content \in Cancelled
             /\ CancelledPolicy = "delete"
  <2>1. a.fixture \in Loaded(load) /\ VerdictOn(load, a.fixture) = "delete"
    BY <1>1, <1>2, <1>4 DEF FromPlan
  <2>2. load.snap[a.fixture] # None
    BY <2>1 DEF Loaded
  <2>3. load.snap[a.fixture] \in Snapshot
    BY <1>1, <1>3, <2>2 DEF Load
  <2>4. ~ load.snap[a.fixture].gone
    BY <1>4, <2>2 DEF BaseInv, ReadsHold, ReadHolds
  <2>5. QED
    BY <2>1, <2>3, <2>4 DEF VerdictOn, Verdict
<1>5. QED
  BY <1>3, <1>4

\* Runs that do not reconcile never delete the last event of a fixture they read
\* as in scope, whatever page they loaded and however they overlap: an import that
\* commits late can only matter to a policy that deletes cancelled fixtures.
THEOREM CoveredStays ==
  ASSUME "reconcile" \notin Modes,
         CancelledPolicy = "annotate" \/ Cancelled = {} \/ Budget["late"] = 0
  PROVE  Spec => CoveredNeverDeleted
<1>1. ASSUME BaseInv, NEW p \in Procs, Delete(p), NEW f \in run[p].load.scope \ run[p].newer,
             fixture[f].content \notin Cancelled,
             NEW d \in EventIds, calendar[d] # None, calendar[d].app = f
      PROVE  \E e \in EventIds : calendar'[e] # None /\ calendar'[e].app = f
  <2>1. PICK a \in run[p].todo : a.type = "delete" /\ Put(a.event, None)
    BY <1>1 DEF Delete, Ready
  <2>2. /\ a.fixture \in Fixtures /\ OwnerOf(a.event) = a.fixture
        /\ a.fixture \in run[p].load.scope =>
              /\ run[p].load.snap[a.fixture] \in Snapshot
              /\ run[p].load.snap[a.fixture].content \in Cancelled
              /\ CancelledPolicy = "delete"
    BY <1>1, <2>1, DeleteCases
  <2>3. OwnerOf(d) = f
    BY <1>1 DEF BaseInv, EventsOwned
  <2>4. a.fixture # f
    <3>1. SUFFICES ASSUME a.fixture = f PROVE FALSE
      OBVIOUS
    <3>2. Budget["late"] = 0 /\ run[p].load.snap[f] \in Snapshot
          /\ run[p].load.snap[f].content \in Cancelled
      BY <2>2, <3>1
    <3>3. run[p].load.snap[f] = fixture[f]
      BY <1>1, <2>2, <3>1, <3>2, NoneAssumption DEF BaseInv, ReadsHold, ReadHolds
    <3>4. QED
      BY <1>1, <3>2, <3>3
  <2>5. calendar'[d] = calendar[d]
    BY <2>1, <2>2, <2>3, <2>4 DEF Put, BaseInv, TypeInv, TypeOK
  <2>6. QED
    BY <1>1, <2>5
<1>2. BaseInv /\ [Next]_vars =>
        [\A p \in Procs : Delete(p) =>
           \A f \in run[p].load.scope \ run[p].newer :
             /\ fixture[f].content \notin Cancelled
             /\ \E e \in EventIds : calendar[e] # None /\ calendar[e].app = f
             => \E e \in EventIds : calendar'[e] # None /\ calendar'[e].app = f]_vars
  BY <1>1
<1>3. QED
  BY <1>2, BaseAlways, PTL DEF Spec, CoveredNeverDeleted

-----------------------------------------------------------------------------
\* When the watermark loses nothing.  Each condition is one the code needs: what
\* goes wrong without it is in section 6 of the README.
NothingGetsLost ==
  /\ Exclusive
  /\ \A s, t \in Subs : s # t => Scope[s] \cap Scope[t] = {}
  /\ "reconcile" \notin Modes
  /\ "create" \notin Fallible
  /\ \/ Cancelled = {}
     \/ CancelledPolicy = "annotate" /\ {"update", "cancel"} \cap Fallible = {}
  /\ IsFiniteSet(Fixtures)
  /\ Cardinality(Fixtures) <= MaxFixtures /\ Cardinality(Fixtures) <= MaxActions
  /\ Budget["late"] = 0 /\ Budget["abort"] = 0 /\ Budget["user_delete"] = 0
  /\ Budget["window"] <= 1
  /\ Budget["item"] + Budget["unanswered"] < MaxItemRetries

Spent == (Budget["item"] - budget["item"]) + (Budget["unanswered"] - budget["unanswered"])

\* Nothing is ever out of retries: each failed operation has been paid for.
FailuresPaid ==
  /\ \A s \in Subs, f \in Fixtures : failures[s][f] <= Spent
  /\ \A p \in Procs : /\ run[p].load.blocked = {}
                      /\ \A r \in run[p].done : r.event = None /\ r.action.fixture # None =>
                           failures[run[p].sub][r.action.fixture] < Spent

\* A repair finds the event it is to repair.
RepairsMeet ==
  \A p \in Procs : \A a \in run[p].todo : a.stage = "repair" => calendar[a.fixture] # None

\* A row that is not up to date can be told by its hash.
RowsActive == Cancelled = {} =>
  \A s \in Subs : \A f \in LiveRows(s) : row[s][f].state = "active"

\* What a fixture in scope needs is done, is about to be done, or can be seen to
\* be missing from the row.
TakenCare(p, f) ==
  \/ UpToDate(run[p].sub, f)
  \/ \E a \in run[p].todo :
       /\ a.fixture = f
       /\ a.type \notin Fallible \/ f \in RepairFixtures(run[p].sub)
  \/ \E r \in run[p].done :
       /\ r.action.fixture = f
       /\ r.event # None \/ f \in RepairFixtures(run[p].sub)

RunCovers(p) ==
  run[p].pc # "idle" =>
    /\ ~ run[p].aborted
    /\ \A f \in InScope(run[p].sub) \ run[p].newer :
         f \in run[p].load.scope /\ TakenCare(p, f)

WatermarkInv ==
  /\ NothingForgotten
  /\ budget["window"] = 1 => open = Contents
  /\ FailuresPaid /\ RepairsMeet /\ RowsActive
  /\ \A p \in Procs : RunCovers(p)

-----------------------------------------------------------------------------
\* A run that lists no events acts on fixtures only, once on each, so that a plan
\* that has room for all fixtures is whole.
LEMMA PlanWhole ==
  ASSUME NEW load \in Load, \A e \in EventIds : load.remote[e] = None,
         IsFiniteSet(Fixtures), Cardinality(Fixtures) <= MaxActions,
         NEW plan \in Plans(load)
  PROVE  plan = FixtureActions(load) \cup PruneActions(load)
<1> DEFINE all == FixtureActions(load) \cup PruneActions(load)
           Of == [a \in all |-> a.fixture]
<1>1. AllActions(load) = all
  <2>1. StrayEvents(load) = {}
    BY DEF StrayEvents
  <2>2. QED
    BY <2>1 DEF AllActions
<1>2. \A a \in all : a.fixture \in Fixtures
  BY FixtureActionsSound, PruneActionsSound DEF Loaded
<1>3. ASSUME NEW a \in all, NEW b \in all, a.fixture = b.fixture PROVE a = b
  BY <1>3, FixtureActionsSound, PruneActionsSound
<1>4. Of \in Injection(all, Fixtures)
  <2> HIDE DEF all
  <2>1. Of \in [all -> Fixtures]
    BY <1>2
  <2>2. \A a, b \in all : Of[a] = Of[b] => a = b
    BY <1>3
  <2> HIDE DEF Of
  <2>3. QED
    BY <2>1, <2>2 DEF Injection, IsInjective
<1>5. IsFiniteSet(all) /\ Cardinality(all) <= Cardinality(Fixtures)
  <2> HIDE DEF all, Of
  <2>1. QED
    BY <1>4, FS_Injection
<1>6. Cardinality(all) <= MaxActions
  <2>1. Cardinality(all) \in Nat /\ Cardinality(Fixtures) \in Nat /\ MaxActions \in Nat
    BY <1>5, FS_CardinalityType, PlannerAssumption
  <2>2. QED
    BY <1>5, <2>1
<1>7. QED
  BY <1>1, <1>6 DEF Plans, Truncations

\* What the subscription shows of a fixture it covers: missing or outdated.
LEMMA PageWhole ==
  ASSUME IsFiniteSet(Fixtures), Cardinality(Fixtures) <= MaxFixtures,
         NEW s \in Subs, NEW mode, NEW page \in Pages(Candidates(s, mode))
  PROVE  page = Candidates(s, mode)
<1>1. Candidates(s, mode) \in SUBSET Fixtures
  BY EngineAssumption DEF Candidates, InWindow
<1>2. /\ Cardinality(Candidates(s, mode)) <= Cardinality(Fixtures)
      /\ Cardinality(Candidates(s, mode)) \in Nat /\ Cardinality(Fixtures) \in Nat
  BY <1>1, FS_Subset, FS_CardinalityType
<1>3. ~ Cardinality(Candidates(s, mode)) > MaxFixtures
  BY <1>2, EngineAssumption
<1>4. QED
  BY <1>3 DEF Pages

\* The spent budget, in numbers.
LEMMA SpentType ==
  ASSUME BaseInv, NothingGetsLost
  PROVE  /\ Spent \in Nat /\ Spent < MaxItemRetries /\ MaxItemRetries \in Nat
         /\ budget["item"] \in Nat /\ budget["unanswered"] \in Nat
         /\ Budget["item"] \in Nat /\ Budget["unanswered"] \in Nat
         /\ budget["abort"] = 0 /\ budget["user_delete"] = 0 /\ budget["late"] = 0
         /\ budget["window"] \in Nat /\ budget["window"] <= 1
         /\ ~ import.on
<1> USE DEF Events
<1>1. \A e \in Events : budget[e] \in Nat /\ Budget[e] \in Nat /\ budget[e] <= Budget[e]
  BY EngineAssumption DEF BaseInv, TypeInv, TypeOK, BudgetInv
<1>2. /\ budget["item"] \in Nat /\ budget["unanswered"] \in Nat
      /\ Budget["item"] \in Nat /\ Budget["unanswered"] \in Nat
      /\ budget["item"] <= Budget["item"] /\ budget["unanswered"] <= Budget["unanswered"]
      /\ budget["abort"] \in Nat /\ budget["abort"] <= Budget["abort"]
      /\ budget["user_delete"] \in Nat /\ budget["user_delete"] <= Budget["user_delete"]
      /\ budget["late"] \in Nat /\ budget["late"] <= Budget["late"]
      /\ budget["window"] \in Nat /\ budget["window"] <= Budget["window"] /\ Budget["window"] \in Nat
  BY <1>1
<1>3. /\ Budget["late"] = 0 /\ Budget["abort"] = 0 /\ Budget["user_delete"] = 0
      /\ Budget["window"] <= 1 /\ Budget["item"] + Budget["unanswered"] < MaxItemRetries
      /\ MaxItemRetries \in Nat
  BY EngineAssumption DEF NothingGetsLost
<1>4. ~ import.on
  BY <1>3 DEF BaseInv, BudgetInv
<1>5. QED
  BY <1>2, <1>3, <1>4 DEF Spent

-----------------------------------------------------------------------------
\* A run that has just planned covers all of its scope.
LEMMA LoadCovers ==
  ASSUME BaseInv, NothingGetsLost, WatermarkInv,
         NEW p \in Procs, NEW s \in Subs, NEW mode \in SyncMode, mode \in Modes, LoadAndPlan(p, s, mode)
  PROVE  /\ OthersKept(p) /\ UNCHANGED <<fixture, open, fresh, row, failures, calendar, budget>>
         /\ run'[p].load.blocked = {} /\ run'[p].done = {} /\ ~ run'[p].aborted
         /\ \A a \in run'[p].todo : a.stage = "first"
         /\ run'[p].sub = s
         /\ \A f \in InScope(s) :
              /\ f \in run'[p].load.scope
              /\ \/ UpToDate(s, f)
                 \/ \E a \in run'[p].todo :
                      /\ a.fixture = f
                      /\ a.type \notin Fallible \/ f \in RepairFixtures(s)
<1>t. TypeInv /\ TypeOK
  BY DEF BaseInv, TypeInv
<1>1. PICK page \in Pages(Candidates(s, mode)) : run'[p].load = ReadBy(s, page)
  BY <1>t, LoadFrame
<1>2. /\ OthersKept(p) /\ UNCHANGED <<fixture, open, fresh, row, failures, calendar, budget>>
      /\ run'[p].sub = s /\ run'[p].aborted = FALSE /\ ~ Lists(mode)
  BY <1>t, LoadFrame DEF NothingGetsLost, Lists
<1>3. PICK plan \in Plans(run'[p].load) : PlannedAs(p, plan)
  BY <1>t, <1>2, LoadFrame
<1> DEFINE load == run'[p].load
<1>4. page = Candidates(s, mode) /\ page \subseteq Fixtures /\ load \in Load
  BY <1>t, <1>1, PageWhole, CandidatesType, ReadType DEF NothingGetsLost
<1>5. /\ load.blocked = {f \in Fixtures : failures[s][f] >= MaxItemRetries}
      /\ load.scope = InScope(s) /\ load.known = FALSE
      /\ \A e \in EventIds : load.remote[e] = None
      /\ \A f \in Fixtures : load.snap[f] = IF f \in page \cup GoneFixtures(s) THEN fixture[f] ELSE None
      /\ \A f \in Fixtures : load.rows[f] = IF f \in LiveRows(s) THEN row[s][f] ELSE None
  BY <1>1 DEF ReadBy, NoLoad
<1>6. load.blocked = {}
  <2>1. ASSUME NEW f \in Fixtures PROVE ~ failures[s][f] >= MaxItemRetries
    <3>1. failures[s][f] <= Spent /\ failures[s][f] \in 0..MaxItemRetries
      BY <1>t DEF WatermarkInv, FailuresPaid, TypeOK
    <3>2. QED
      BY <3>1, SpentType
  <2>2. QED
    BY <1>5, <2>1
<1>7. plan = FixtureActions(load) \cup PruneActions(load)
  BY <1>3, <1>4, <1>5, PlanWhole DEF NothingGetsLost
<1>8. ASSUME NEW f \in Fixtures PROVE Canonical(load, f) = None
  BY <1>5 DEF Canonical, EventsOf
<1> HIDE DEF load
<1>9. ASSUME NEW a \in plan PROVE a.type # "conflict"
  <2>1. CASE a \in PruneActions(load)
    BY <1>4, <2>1, PruneActionsSound
  <2>2. CASE a \in FixtureActions(load)
    <3>1. /\ a.fixture \in Fixtures
          /\ a.type = Verdict(load.snap[a.fixture], load.rows[a.fixture], None, FALSE)
      <4>1. a.fixture \in Loaded(load) /\ a.fixture \notin load.blocked
        BY <1>4, <1>6, <2>2, FixtureActionsSound
      <4>2. a = ActionOn(load, Verdict(load.snap[a.fixture], load.rows[a.fixture],
                               Canonical(load, a.fixture),
                               load.known /\ IsConfirmed(load.rows[a.fixture])), a.fixture)
        BY <1>4, <2>2, <4>1, FixtureActionsSound
      <4>3. a.fixture \in Fixtures /\ Canonical(load, a.fixture) = None
        BY <1>8, <4>1 DEF Loaded
      <4>4. a = ActionOn(load, Verdict(load.snap[a.fixture], load.rows[a.fixture], None, FALSE), a.fixture)
        BY <1>5, <4>2, <4>3
      <4>5. \A t, f : ActionOn(load, t, f).type = t
        BY DEF ActionOn
      <4>6. QED
        BY <4>3, <4>4, <4>5
    <3>2. QED
      BY <3>1 DEF Verdict, UserEdited
  <2>3. QED
    BY <1>7, <2>1, <2>2
<1>10. run'[p].done = {} /\ run'[p].todo = {a \in plan : Mutates(a)}
  BY <1>3, <1>9 DEF PlannedAs
<1>11. \A a \in plan : a.stage = "first"
  BY <1>4, <1>7, FixtureActionsSound, PruneActionsSound
<1>12. ASSUME NEW f \in InScope(s), ~ UpToDate(s, f)
       PROVE  \E a \in run'[p].todo :
                 /\ a.fixture = f
                 /\ a.type \notin Fallible \/ f \in RepairFixtures(s)
  <2>1. f \in Fixtures /\ fixture[f] \in Snapshot /\ ~ fixture[f].gone /\ f \in InWindow(s)
    BY <1>t, EngineAssumption DEF InScope, InWindow, TypeOK
  <2>2. f \in page
    BY <1>4, <1>12, <2>1 DEF Candidates, WatermarkInv, NothingForgotten
  <2> DEFINE m == load.rows[f]
             type == Verdict(fixture[f], m, None, FALSE)
             a == ActionOn(load, type, f)
  <2>3. load.snap[f] = fixture[f] /\ f \in Loaded(load)
    BY <1>5, <2>1, <2>2, NoneAssumption DEF Loaded
  <2>4. a \in plan
    <3>1. ActionOn(load, VerdictOn(load, f), f) \in FixtureActions(load)
      BY <2>3 DEF FixtureActions, VerdictOn
    <3>2. VerdictOn(load, f) = type
      BY <1>5, <1>6, <1>8, <2>1, <2>3 DEF VerdictOn
    <3>3. QED
      BY <1>7, <3>1, <3>2
  <2>5. m \in Mapping \cup {None} /\ (m # None => m = row[s][f] /\ f \in LiveRows(s) /\ m.event # None)
        /\ (m = None => f \notin LiveRows(s))
    <3>1. row[s][f] # None => row[s][f].event # None
      BY <1>t, <2>1 DEF TypeInv, RowsConfirmed
    <3>2. m = IF f \in LiveRows(s) THEN row[s][f] ELSE None
      BY <1>5, <2>1
    <3>3. QED
      BY <1>4, <2>1, <3>1, <3>2 DEF Load, LiveRows
  <2>6. /\ type \in {"create", "update", "cancel", "delete"}
        /\ type # "create" => m # None /\ m.hash # fixture[f].content
        /\ type = "delete" => fixture[f].content \in Cancelled /\ CancelledPolicy = "delete"
        /\ type = "cancel" => fixture[f].content \in Cancelled
    <3>1. m # None => ~ m.deleted /\ m.hash # fixture[f].content
      BY <1>12, <2>5 DEF UpToDate, LiveRows
    <3>2. QED
      BY <2>1, <2>5, <3>1 DEF Verdict, IsConfirmed, UserEdited
  <2>7. a.type = type /\ a.fixture = f
    BY DEF ActionOn
  <2>8. type \notin Fallible \/ f \in RepairFixtures(s)
    <3>1. CASE type = "create"
      BY <3>1 DEF NothingGetsLost
    <3>2. CASE Cancelled = {} /\ type # "create"
      <4>1. type = "update" /\ m = row[s][f] /\ f \in LiveRows(s) /\ m.hash # fixture[f].content
        BY <2>5, <2>6, <3>2
      <4>2. row[s][f].state = "active"
        BY <3>2, <4>1 DEF WatermarkInv, RowsActive
      <4>3. QED
        BY <4>1, <4>2 DEF RepairFixtures
    <3>3. CASE Cancelled # {} /\ type # "create"
      BY <2>6, <3>3 DEF NothingGetsLost
    <3>4. QED
      BY <3>1, <3>2, <3>3
  <2>9. a \in run'[p].todo
    <3> HIDE DEF a
    <3>1. a.type # "no_op" /\ a.type # "conflict"
      BY <2>6, <2>7
    <3>2. QED
      BY <1>10, <2>4, <3>1 DEF Mutates
  <2>10. QED
    <3> HIDE DEF a, type
    <3>1. QED
      BY <2>7, <2>8, <2>9
<1>13. QED
  BY <1>2, <1>5, <1>6, <1>10, <1>11, <1>12 DEF load

-----------------------------------------------------------------------------
\* The cover of a run depends on its own rows and on the fixtures in its scope.
LEMMA SameCover ==
  ASSUME NEW q \in Procs, RunCovers(q),
         run'[q].pc = run[q].pc, run'[q].sub = run[q].sub, run'[q].aborted = run[q].aborted,
         run'[q].load.scope = run[q].load.scope, run'[q].todo = run[q].todo,
         run'[q].done = run[q].done, run[q].newer \subseteq run'[q].newer,
         row'[run[q].sub] = row[run[q].sub],
         run[q].pc # "idle" => \A f \in InScope(run[q].sub)' \ run'[q].newer :
           f \in Fixtures /\ f \in InScope(run[q].sub) /\ fixture'[f] = fixture[f]
  PROVE  RunCovers(q)'
<1> SUFFICES ASSUME run[q].pc # "idle", NEW f \in InScope(run[q].sub)' \ run'[q].newer
             PROVE  f \in run[q].load.scope /\ TakenCare(q, f)'
  BY DEF RunCovers
<1>1. f \in Fixtures /\ f \in InScope(run[q].sub) \ run[q].newer /\ fixture'[f] = fixture[f]
  OBVIOUS
<1>2. f \in run[q].load.scope /\ TakenCare(q, f)
  BY <1>1 DEF RunCovers
<1>3. UpToDate(run[q].sub, f)' <=> UpToDate(run[q].sub, f)
  BY <1>1 DEF UpToDate, LiveRows
<1>4. f \in RepairFixtures(run[q].sub)' <=> f \in RepairFixtures(run[q].sub)
  BY <1>1 DEF RepairFixtures, LiveRows
<1>5. QED
  BY <1>2, <1>3, <1>4 DEF TakenCare

\* What a call leaves of its action, and what it costs.
LEMMA CallOutcome ==
  ASSUME BaseInv, NothingGetsLost, WatermarkInv, NEW p \in Procs, Calls(p)
  PROVE  /\ OnlyCall /\ SameRead(p) /\ OthersKept(p)
         /\ run'[p].pc = run[p].pc /\ run'[p].aborted = run[p].aborted
         /\ budget'["window"] = budget["window"]
         /\ Spent' \in {Spent, Spent + 1}
         /\ \E a \in run[p].todo :
              /\ a \in Action /\ a.fixture \in Fixtures
              /\ \/ \E x \in EventIds \cup {None} :
                      /\ run'[p].todo = run[p].todo \ {a}
                      /\ run'[p].done = run[p].done \cup {[action |-> a, event |-> x]}
                      /\ x = None => a.type \in Fallible /\ Spent' = Spent + 1
                      /\ calendar' = calendar \/ \E e \in EventIds : Writes(p, a, e)
                 \/ \E b \in Action :
                      /\ b.type = a.type /\ b.fixture = a.fixture
                      /\ run'[p].todo = (run[p].todo \ {a}) \cup {b}
                      /\ run'[p].done = run[p].done /\ calendar' = calendar
                      /\ b.stage = "repair" => calendar[a.fixture] # None
<1>t. TypeInv /\ TypeOK
  BY DEF BaseInv, TypeInv
<1>1. PICK a \in run[p].todo : \/ \E e \in EventIds : Writes(p, a, e)
                               \/ Restages(p, a)
                               \/ Misses(p, a)
  BY <1>t, CallCases
<1>2. a \in Action /\ a.fixture \in Fixtures
  <2>1. a \in Action /\ Mutates(a) /\ Sound(run[p].load, a)
    BY <1>t DEF TypeInv, TypeOK, RunsSound, Run
  <2>2. a.fixture # None
    <3>1. CASE a.type = "delete"
      BY <3>1, DeleteCases, NoneType DEF NothingGetsLost
    <3>2. CASE a.type # "delete"
      BY <2>1, <3>2 DEF Sound
    <3>3. QED
      BY <3>1, <3>2
  <2>3. QED
    BY <2>1, <2>2 DEF Action
<1>3. ASSUME budget' = budget
      PROVE  Spent' = Spent /\ budget'["window"] = budget["window"]
  BY <1>3 DEF Spent
<1>4. ASSUME NEW event \in {"item", "unanswered"}, Spend(event)
      PROVE  Spent' = Spent + 1 /\ budget'["window"] = budget["window"]
  <2>1. event \in Events
    BY DEF Events
  <2>2. budget'[event] = budget[event] - 1 /\ \A e \in Events \ {event} : budget'[e] = budget[e]
    BY <1>t, <1>4, <2>1, SpendType
  <2>3. /\ "window" \in Events \ {event}
        /\ event = "item" => "unanswered" \in Events \ {event}
        /\ event = "unanswered" => "item" \in Events \ {event}
    BY DEF Events
  <2>4. QED
    BY <2>2, <2>3, SpentType DEF Spent
<1>5. Spent \in Nat
  BY SpentType
<1>6. OnlyCall
  BY <1>t, CallCases
<1>7. ASSUME NEW x \in EventIds \cup {None}, Finish(p, a, x)
      PROVE  /\ SameRead(p) /\ OthersKept(p)
             /\ run'[p].pc = run[p].pc /\ run'[p].aborted = run[p].aborted
             /\ run'[p].todo = run[p].todo \ {a}
             /\ run'[p].done = run[p].done \cup {[action |-> a, event |-> x]}
  BY <1>t, <1>7, FinishFrame
<1>8. ASSUME NEW e \in EventIds, Writes(p, a, e)
      PROVE  \E x \in EventIds \cup {None} :
               /\ Finish(p, a, x)
               /\ x = None => a.type \in Fallible /\ Spent' = Spent + 1
               /\ Spent' \in {Spent, Spent + 1} /\ budget'["window"] = budget["window"]
  <2>1. CASE Finish(p, a, e) /\ budget' = budget
    BY <1>3, <2>1, NoneType
  <2>2. CASE Finish(p, a, None) /\ Spend("unanswered") /\ a.type \in Fallible
    BY <1>4, <2>2
  <2>3. QED
    BY <1>8, <2>1, <2>2 DEF Writes
<1>9. ASSUME NEW e \in EventIds, Writes(p, a, e)
      PROVE  /\ SameRead(p) /\ OthersKept(p)
             /\ run'[p].pc = run[p].pc /\ run'[p].aborted = run[p].aborted
             /\ budget'["window"] = budget["window"] /\ Spent' \in {Spent, Spent + 1}
             /\ \E x \in EventIds \cup {None} :
                  /\ run'[p].todo = run[p].todo \ {a}
                  /\ run'[p].done = run[p].done \cup {[action |-> a, event |-> x]}
                  /\ x = None => a.type \in Fallible /\ Spent' = Spent + 1
  BY <1>7, <1>8, <1>9
<1>10. ASSUME Misses(p, a)
      PROVE  /\ Finish(p, a, None) /\ calendar' = calendar
             /\ a.type \in Fallible /\ Spent' = Spent + 1 /\ budget'["window"] = budget["window"]
  <2>1. ~ (a.stage = "repair" /\ calendar[a.fixture] = None)
    BY DEF WatermarkInv, RepairsMeet
  <2>2. QED
    BY <1>4, <1>10, <2>1 DEF Misses
<1>11. ASSUME Restages(p, a)
       PROVE  /\ SameRead(p) /\ OthersKept(p)
              /\ run'[p].pc = run[p].pc /\ run'[p].aborted = run[p].aborted
              /\ Spent' = Spent /\ budget'["window"] = budget["window"]
              /\ run'[p].done = run[p].done /\ calendar' = calendar
              /\ \E b \in Action :
                   /\ b.type = a.type /\ b.fixture = a.fixture
                   /\ run'[p].todo = (run[p].todo \ {a}) \cup {b}
                   /\ b.stage = "repair" => calendar[a.fixture] # None
  <2>1. ASSUME NEW stage \in {"repair", "remake"}, Restage(p, a, stage),
               stage = "repair" => calendar[a.fixture] # None
        PROVE  /\ SameRead(p) /\ OthersKept(p)
               /\ run'[p].pc = run[p].pc /\ run'[p].aborted = run[p].aborted
               /\ run'[p].done = run[p].done /\ calendar' = calendar
               /\ \E b \in Action :
                    /\ b.type = a.type /\ b.fixture = a.fixture
                    /\ run'[p].todo = (run[p].todo \ {a}) \cup {b}
                    /\ b.stage = "repair" => calendar[a.fixture] # None
    BY <1>t, <2>1, RestageFrame
  <2>2. QED
    BY <1>3, <1>11, <2>1 DEF Restages
<1>12. CASE \E e \in EventIds : Writes(p, a, e)
  BY <1>2, <1>6, <1>9, <1>12
<1>13. CASE Restages(p, a)
  BY <1>2, <1>5, <1>6, <1>11, <1>13
<1>14. CASE Misses(p, a)
  <2>1. Finish(p, a, None) /\ calendar' = calendar /\ a.type \in Fallible
        /\ Spent' = Spent + 1 /\ budget'["window"] = budget["window"]
    BY <1>10, <1>14
  <2>2. None \in EventIds \cup {None}
    OBVIOUS
  <2>3. /\ SameRead(p) /\ OthersKept(p)
        /\ run'[p].pc = run[p].pc /\ run'[p].aborted = run[p].aborted
        /\ run'[p].todo = run[p].todo \ {a}
        /\ run'[p].done = run[p].done \cup {[action |-> a, event |-> None]}
    BY <1>7, <2>1, <2>2
  <2>4. QED
    BY <1>2, <1>6, <2>1, <2>2, <2>3
<1>15. QED
  BY <1>1, <1>12, <1>13, <1>14

-----------------------------------------------------------------------------
\* Nobody deletes an event that is waiting for its repair.
LEMMA CallRepairs ==
  ASSUME BaseInv, NothingGetsLost, WatermarkInv, NEW p \in Procs, Calls(p)
  PROVE  RepairsMeet'
<1>t. TypeInv /\ TypeOK
  BY DEF BaseInv, TypeInv
<1>1. PICK a \in run[p].todo :
         /\ a \in Action /\ a.fixture \in Fixtures
         /\ \/ \E x \in EventIds \cup {None} :
                 /\ run'[p].todo = run[p].todo \ {a}
                 /\ run'[p].done = run[p].done \cup {[action |-> a, event |-> x]}
                 /\ x = None => a.type \in Fallible /\ Spent' = Spent + 1
                 /\ calendar' = calendar \/ \E e \in EventIds : Writes(p, a, e)
            \/ \E b \in Action :
                 /\ b.type = a.type /\ b.fixture = a.fixture
                 /\ run'[p].todo = (run[p].todo \ {a}) \cup {b}
                 /\ run'[p].done = run[p].done /\ calendar' = calendar
                 /\ b.stage = "repair" => calendar[a.fixture] # None
  BY CallOutcome
<1>2. OthersKept(p)
  BY CallOutcome
<1>3. ASSUME NEW q \in Procs, NEW b \in run[q].todo, b.stage = "repair", b # a \/ q # p,
             NEW e \in EventIds, Writes(p, a, e)
      PROVE  calendar'[b.fixture] # None
  <2>1. b \in Action /\ Sound(run[q].load, b) /\ b.type \in {"create", "recreate"}
    BY <1>3, <1>t DEF BaseInv, PlansKept, PlanKept, Staged, TypeInv, TypeOK, RunsSound, Run
  <2>2. b.fixture \in Fixtures /\ run[q].load.snap[b.fixture] # None
    BY <2>1 DEF Sound, Action
  <2>3. calendar[b.fixture] # None
    BY <1>3 DEF WatermarkInv, RepairsMeet
  <2>4. CASE a.type # "delete"
    <3>1. calendar'[e] = Body(p, a) /\ \A d \in EventIds \ {e} : calendar'[d] = calendar[d]
      BY <1>t, <1>3, <2>4, WriteFrame
    <3>2. Sound(run[p].load, a) /\ a.type \in {"create", "recreate", "update", "cancel"}
      BY <1>t, <1>3, <2>4, WriteFrame
    <3>3. calendar'[e] # None
      BY <1>1, <1>t, <3>1, <3>2, BodyType
    <3>4. QED
      BY <2>2, <2>3, <3>1, <3>3 DEF EventIds
  <2>5. CASE a.type = "delete"
    <3>1. e = a.event /\ \A d \in EventIds \ {e} : calendar'[d] = calendar[d]
      BY <1>t, <1>3, <2>5, WriteFrame DEF Writes
    <3>2. OwnerOf(a.event) = a.fixture
      BY <2>5, DeleteCases DEF NothingGetsLost
    <3>3. b.fixture # a.event
      <4>1. SUFFICES ASSUME b.fixture = a.event PROVE FALSE
        OBVIOUS
      <4>2. a.fixture = b.fixture
        BY <2>2, <3>2, <4>1 DEF OwnerOf
      <4>3. CASE q = p
        <5>1. a # b /\ a \in run[p].todo /\ b \in run[p].todo /\ a.fixture # None
          BY <1>1, <1>3, <4>3, NoneType
        <5>2. QED
          BY <4>2, <5>1 DEF BaseInv, PlansKept, PlanKept
      <4>4. CASE q # p
        <5>1. run[p].sub \in Subs /\ run[q].sub \in Subs /\ run[p].sub # run[q].sub
          <6>1. run[p] # IdleRun /\ run[q] # IdleRun
            BY <1>3, IdleType
          <6>2. run[p].sub # None /\ run[q].sub # None
            BY <1>t, <6>1 DEF TypeInv, RunsSound, TypeOK
          <6>3. QED
            BY <1>t, <4>4, <6>2 DEF TypeOK, Run, BaseInv, LockInv, OneRun, NothingGetsLost
        <5>2. b.fixture \in Scope[run[q].sub]
          BY <2>2 DEF BaseInv, LockInv, Scoped
        <5>3. a.fixture \in Scope[run[p].sub]
          <6>1. Sound(run[p].load, a)
            BY <1>t DEF TypeInv, RunsSound
          <6>2. run[p].load.rows[a.fixture] # None
            BY <1>1, <2>5, <6>1, NoneType DEF Sound
          <6>3. row[run[p].sub][a.fixture] # None
            BY <1>1, <1>t, <6>2 DEF TypeInv, RunsSound
          <6>4. QED
            BY <1>1, <5>1, <6>3 DEF BaseInv, LockInv, Scoped
        <5>4. QED
          BY <4>2, <5>1, <5>2, <5>3 DEF NothingGetsLost
      <4>5. QED
        BY <4>3, <4>4
    <3>4. QED
      BY <2>2, <2>3, <3>1, <3>3 DEF EventIds
  <2>6. QED
    BY <2>4, <2>5
<1>4. ASSUME NEW q \in Procs, NEW b \in run'[q].todo, b.stage = "repair"
      PROVE  calendar'[b.fixture] # None
  <2>1. CASE /\ run'[p].todo = run[p].todo \ {a}
             /\ calendar' = calendar \/ \E e \in EventIds : Writes(p, a, e)
    <3>1. b \in run[q].todo /\ (b # a \/ q # p)
      BY <1>2, <2>1 DEF OthersKept
    <3>2. QED
      BY <1>3, <1>4, <2>1, <3>1 DEF WatermarkInv, RepairsMeet
  <2>2. ASSUME NEW c \in Action, c.fixture = a.fixture,
               run'[p].todo = (run[p].todo \ {a}) \cup {c}, calendar' = calendar,
               c.stage = "repair" => calendar[a.fixture] # None
        PROVE  calendar'[b.fixture] # None
    BY <1>2, <1>4, <2>2 DEF OthersKept, WatermarkInv, RepairsMeet
  <2>3. QED
    BY <1>1, <2>1, <2>2
<1>5. QED
  BY <1>4 DEF RepairsMeet

LEMMA CallWatermark ==
  ASSUME BaseInv, NothingGetsLost, WatermarkInv, NEW p \in Procs, Calls(p)
  PROVE  WatermarkInv'
<1>1. /\ OnlyCall /\ SameRead(p) /\ OthersKept(p)
      /\ run'[p].pc = run[p].pc /\ run'[p].aborted = run[p].aborted
      /\ budget'["window"] = budget["window"]
      /\ Spent' \in {Spent, Spent + 1}
  BY CallOutcome
<1>2. PICK a \in run[p].todo :
         /\ a \in Action /\ a.fixture \in Fixtures
         /\ \/ \E x \in EventIds \cup {None} :
                 /\ run'[p].todo = run[p].todo \ {a}
                 /\ run'[p].done = run[p].done \cup {[action |-> a, event |-> x]}
                 /\ x = None => a.type \in Fallible /\ Spent' = Spent + 1
                 /\ calendar' = calendar \/ \E e \in EventIds : Writes(p, a, e)
            \/ \E b \in Action :
                 /\ b.type = a.type /\ b.fixture = a.fixture
                 /\ run'[p].todo = (run[p].todo \ {a}) \cup {b}
                 /\ run'[p].done = run[p].done /\ calendar' = calendar
                 /\ b.stage = "repair" => calendar[a.fixture] # None
  BY CallOutcome
<1>3. /\ NothingForgotten' /\ (budget'["window"] = 1 => open' = Contents) /\ RowsActive'
  BY <1>1 DEF OnlyCall, WatermarkInv, NothingForgotten, RowsActive, InScope, InWindow, UpToDate,
     LiveRows, RepairFixtures
<1>4. FailuresPaid'
  <2>1. Spent \in Nat /\ Spent <= Spent'
    BY <1>1, SpentType
  <2>2. \A s \in Subs, f \in Fixtures : failures'[s][f] = failures[s][f] /\ failures[s][f] \in Nat
    BY <1>1 DEF OnlyCall, BaseInv, TypeInv, TypeOK
  <2>3. \A s \in Subs, f \in Fixtures : failures'[s][f] <= Spent'
    <3> SUFFICES ASSUME NEW s \in Subs, NEW f \in Fixtures PROVE failures'[s][f] <= Spent'
      OBVIOUS
    <3>1. failures[s][f] <= Spent
      BY DEF WatermarkInv, FailuresPaid
    <3>2. QED
      BY <2>1, <2>2, <3>1, <1>1
  <2>4. \A q \in Procs : run'[q].sub = run[q].sub /\ run'[q].load = run[q].load
    BY <1>1 DEF OthersKept, SameRead
  <2>5. ASSUME NEW q \in Procs, NEW r \in run'[q].done, r.event = None, r.action.fixture # None
        PROVE  failures[run[q].sub][r.action.fixture] < Spent'
    <3>1. \/ r \in run[q].done
          \/ q = p /\ r.action = a /\ Spent' = Spent + 1
      BY <1>1, <1>2, <2>5 DEF OthersKept
    <3>2. run[q].sub \in Subs /\ r.action.fixture \in Fixtures
      <4>1. run[q].done # {} \/ run[q].todo # {}
        BY <3>1
      <4>2. run[q].sub # None
        BY <4>1, IdleType DEF BaseInv, TypeInv, TypeOK, RunsSound
      <4>3. r \in run[q].done => r.action \in Action
        BY DEF BaseInv, TypeInv, TypeOK, Run, Result
      <4>4. QED
        BY <1>2, <2>5, <3>1, <4>2, <4>3 DEF BaseInv, TypeInv, TypeOK, Run, Action
    <3>3. failures[run[q].sub][r.action.fixture] \in Nat
      BY <2>2, <3>2
    <3>4. CASE r \in run[q].done
      <4>1. failures[run[q].sub][r.action.fixture] < Spent
        BY <2>5, <3>4 DEF WatermarkInv, FailuresPaid
      <4>2. QED
        BY <1>1, <2>1, <3>3, <4>1
    <3>5. CASE Spent' = Spent + 1
      <4>1. failures[run[q].sub][r.action.fixture] <= Spent
        BY <3>2 DEF WatermarkInv, FailuresPaid
      <4>2. QED
        BY <2>1, <3>3, <3>5, <4>1
    <3>6. QED
      BY <3>1, <3>4, <3>5
  <2>6. QED
    BY <1>1, <2>3, <2>4, <2>5 DEF FailuresPaid, WatermarkInv, OnlyCall
<1>5. ASSUME NEW q \in Procs PROVE RunCovers(q)'
  <2>1. RunCovers(q)
    BY DEF WatermarkInv
  <2>2. /\ InScope(run[q].sub)' = InScope(run[q].sub)
        /\ RepairFixtures(run[q].sub)' = RepairFixtures(run[q].sub)
        /\ \A f : UpToDate(run[q].sub, f)' <=> UpToDate(run[q].sub, f)
    BY <1>1 DEF OnlyCall, OthersKept, SameRead, InScope, InWindow, RepairFixtures, LiveRows, UpToDate
  <2>3. CASE q # p
    <3>1. run'[q] = run[q]
      BY <1>1, <2>3 DEF OthersKept
    <3>2. QED
      BY <2>1, <2>2, <3>1 DEF RunCovers, TakenCare
  <2>4. CASE q = p
    <3> SUFFICES ASSUME run[p].pc # "idle", NEW f \in InScope(run[p].sub) \ run[p].newer
                 PROVE  TakenCare(p, f)'
      BY <1>1, <2>1, <2>2, <2>4 DEF RunCovers, SameRead
    <3>1. TakenCare(p, f)
      BY <2>1, <2>4 DEF RunCovers
    <3>2. CASE UpToDate(run[p].sub, f)
      BY <2>2, <2>4, <3>2 DEF TakenCare
    <3>3. ASSUME NEW r \in run[p].done, r.action.fixture = f,
                 r.event # None \/ f \in RepairFixtures(run[p].sub)
          PROVE  TakenCare(p, f)'
      BY <1>2, <2>2, <2>4, <3>3 DEF TakenCare
    <3>4. ASSUME NEW c \in run[p].todo, c.fixture = f,
                 c.type \notin Fallible \/ f \in RepairFixtures(run[p].sub)
          PROVE  TakenCare(p, f)'
      <4>1. CASE c # a
        BY <1>2, <2>2, <2>4, <3>4, <4>1 DEF TakenCare
      <4>2. ASSUME c = a, NEW x \in EventIds \cup {None},
                   run'[p].done = run[p].done \cup {[action |-> a, event |-> x]},
                   x = None => a.type \in Fallible
            PROVE  TakenCare(p, f)'
        <5>1. /\ [action |-> a, event |-> x] \in run'[p].done
              /\ [action |-> a, event |-> x].action.fixture = f
              /\ [action |-> a, event |-> x].event # None \/ f \in RepairFixtures(run[p].sub)
          BY <3>4, <4>2
        <5>2. QED
          BY <2>2, <2>4, <5>1 DEF TakenCare
      <4>3. ASSUME c = a, NEW b \in Action, b.type = a.type, b.fixture = a.fixture,
                   run'[p].todo = (run[p].todo \ {a}) \cup {b}
            PROVE  TakenCare(p, f)'
        BY <2>2, <2>4, <3>4, <4>3 DEF TakenCare
      <4>4. QED
        BY <1>2, <4>1, <4>2, <4>3
    <3>5. QED
      BY <3>1, <3>2, <3>3, <3>4 DEF TakenCare
  <2>5. QED
    BY <2>3, <2>4
<1>6. QED
  BY <1>3, <1>4, <1>5, CallRepairs DEF WatermarkInv

-----------------------------------------------------------------------------
\* A run that is over has nothing to answer for.
LEMMA IdleCovers ==
  ASSUME NEW p \in Procs, run'[p] = IdleRun
  PROVE  /\ RunCovers(p)' /\ run'[p].load.blocked = {} /\ run'[p].done = {} /\ run'[p].todo = {}
  BY IdleType DEF RunCovers, NoLoad

LEMMA LoadWatermark ==
  ASSUME BaseInv, NothingGetsLost, WatermarkInv,
         NEW p \in Procs, NEW s \in Subs, NEW mode \in SyncMode, mode \in Modes, LoadAndPlan(p, s, mode)
  PROVE  WatermarkInv'
<1>1. /\ OthersKept(p) /\ UNCHANGED <<fixture, open, fresh, row, failures, calendar, budget>>
      /\ run'[p].load.blocked = {} /\ run'[p].done = {} /\ ~ run'[p].aborted
      /\ \A a \in run'[p].todo : a.stage = "first"
      /\ run'[p].sub = s
      /\ \A f \in InScope(s) :
           /\ f \in run'[p].load.scope
           /\ \/ UpToDate(s, f)
              \/ \E a \in run'[p].todo :
                   /\ a.fixture = f
                   /\ a.type \notin Fallible \/ f \in RepairFixtures(s)
  BY LoadCovers
<1>2. /\ NothingForgotten' /\ (budget'["window"] = 1 => open' = Contents) /\ RowsActive'
  BY <1>1 DEF WatermarkInv, NothingForgotten, RowsActive, InScope, InWindow, UpToDate,
     LiveRows, RepairFixtures
<1>3. FailuresPaid' /\ RepairsMeet'
  BY <1>1 DEF WatermarkInv, FailuresPaid, RepairsMeet, OthersKept, Spent
<1>4. ASSUME NEW q \in Procs PROVE RunCovers(q)'
  <2>1. CASE q # p
    <3>1. run'[q] = run[q] /\ RunCovers(q)
      BY <1>1, <2>1 DEF OthersKept, WatermarkInv
    <3>2. run[q].pc # "idle" => \A f \in InScope(run[q].sub)' \ run'[q].newer :
            f \in Fixtures /\ f \in InScope(run[q].sub) /\ fixture'[f] = fixture[f]
      <4>1. run[q].pc # "idle" => run[q].sub \in Subs
        BY DEF BaseInv, TypeInv, TypeOK, Run
      <4>2. InScope(run[q].sub)' = InScope(run[q].sub)
        BY <1>1, <3>1 DEF InScope, InWindow
      <4>3. run[q].sub \in Subs => InScope(run[q].sub) \subseteq Fixtures
        BY EngineAssumption DEF InScope, InWindow
      <4>4. QED
        BY <1>1, <4>1, <4>2, <4>3
    <3>3. QED
      BY <1>1, <3>1, <3>2, SameCover
  <2>2. CASE q = p
    <3>1. /\ InScope(run[q].sub)' = InScope(s)
          /\ RepairFixtures(run[q].sub)' = RepairFixtures(s)
          /\ \A f : UpToDate(run[q].sub, f)' <=> UpToDate(s, f)
      BY <1>1, <2>2 DEF InScope, InWindow, RepairFixtures, LiveRows, UpToDate
    <3>2. QED
      BY <1>1, <2>2, <3>1 DEF RunCovers, TakenCare
  <2>3. QED
    BY <2>1, <2>2
<1>5. QED
  BY <1>2, <1>3, <1>4 DEF WatermarkInv

\* What a step that ends the run of p, and only that, leaves of the others.
LEMMA EndsCovers ==
  ASSUME BaseInv, NothingGetsLost, WatermarkInv, NEW p \in Procs, OthersKept(p), run'[p] = IdleRun,
         UNCHANGED <<fixture, open>>,
         \A s \in Subs : s # run[p].sub => row'[s] = row[s],
         NEW q \in Procs
  PROVE  RunCovers(q)'
<1>1. CASE q = p
  BY <1>1, IdleCovers
<1>2. CASE q # p
  <2>1. run'[q] = run[q] /\ RunCovers(q)
    BY <1>2 DEF OthersKept, WatermarkInv
  <2>2. CASE run[q].pc = "idle"
    BY <2>1, <2>2 DEF RunCovers
  <2>3. CASE run[q].pc # "idle"
    <3>1. run[q].sub \in Subs /\ run[q].sub # None
      BY <2>3 DEF BaseInv, TypeInv, TypeOK, Run
    <3>2. run[q].sub # run[p].sub
      BY <1>2, <3>1 DEF BaseInv, LockInv, OneRun, NothingGetsLost
    <3>3. row'[run[q].sub] = row[run[q].sub]
      BY <3>1, <3>2
    <3>4. InScope(run[q].sub)' = InScope(run[q].sub)
      BY <2>1 DEF InScope, InWindow
    <3>5. InScope(run[q].sub) \subseteq Fixtures
      BY <3>1, EngineAssumption DEF InScope, InWindow
    <3>6. QED
      BY <2>1, <3>3, <3>4, <3>5, SameCover
  <2>4. QED
    BY <2>2, <2>3
<1>3. QED
  BY <1>1, <1>2

\* Such a step that leaves the rows alone loses nothing if the watermark of the
\* subscription stays, or if the run had nothing left to do.
LEMMA EndsWatermark ==
  ASSUME BaseInv, NothingGetsLost, WatermarkInv, NEW p \in Procs,
         NothingToDo(p) \/ PersistRejected(p) \/ Crash(p)
  PROVE  WatermarkInv'
<1>t. TypeInv /\ TypeOK
  BY DEF BaseInv, TypeInv
<1>1. /\ OthersKept(p) /\ run'[p] = IdleRun /\ run[p].pc # "idle"
      /\ UNCHANGED <<fixture, open, row, failures, calendar>>
  BY <1>t, IdleFrame DEF NothingToDo, PersistRejected, Crash
<1>2. budget' = budget \/ Spend("crash")
  BY DEF NothingToDo, PersistRejected, Crash
<1>3. Spent' = Spent /\ budget'["window"] = budget["window"]
  <2>1. CASE budget' = budget
    BY <2>1 DEF Spent
  <2>2. CASE Spend("crash")
    <3>1. "crash" \in Events /\ {"item", "unanswered", "window"} \subseteq Events \ {"crash"}
      BY DEF Events
    <3>2. \A e \in Events \ {"crash"} : budget'[e] = budget[e]
      BY <1>t, <2>2, <3>1, SpendType
    <3>3. QED
      BY <3>1, <3>2 DEF Spent
  <2>3. QED
    BY <1>2, <2>1, <2>2
<1>4. run[p].sub \in Subs
  BY <1>1, <1>t DEF TypeOK, Run
<1>5. NothingForgotten'
  <2> SUFFICES ASSUME NEW s \in Subs, NEW f \in InScope(s)
               PROVE  UpToDate(s, f) \/ f \in fresh'[s] \cup RepairFixtures(s)
    BY <1>1 DEF NothingForgotten, InScope, InWindow, UpToDate, LiveRows, RepairFixtures
  <2>1. UpToDate(s, f) \/ f \in fresh[s] \cup RepairFixtures(s)
    BY DEF WatermarkInv, NothingForgotten
  <2>2. CASE fresh'[s] = fresh[s]
    BY <2>1, <2>2
  <2>3. CASE NothingToDo(p) /\ s = run[p].sub
    <3>1. fresh'[s] = run[p].newer /\ run[p].todo = {} /\ run[p].done = {}
      BY <1>t, <1>4, <2>3, WatermarkType DEF NothingToDo, TypeInv, RunsSound
    <3>2. f \in run[p].newer \/ UpToDate(s, f)
      BY <1>1, <2>3, <3>1 DEF WatermarkInv, RunCovers, TakenCare
    <3>3. QED
      BY <3>1, <3>2
  <2>4. QED
    BY <1>t, <1>4, <2>2, <2>3, WatermarkType DEF NothingToDo, PersistRejected, Crash
<1>6. RowsActive' /\ (budget'["window"] = 1 => open' = Contents)
  BY <1>1, <1>3 DEF WatermarkInv, RowsActive, LiveRows
<1>7. FailuresPaid' /\ RepairsMeet'
  BY <1>1, <1>3, IdleCovers DEF WatermarkInv, FailuresPaid, RepairsMeet, OthersKept
<1>8. \A q \in Procs : RunCovers(q)'
  BY <1>1, EndsCovers
<1>9. QED
  BY <1>3, <1>5, <1>6, <1>7, <1>8 DEF WatermarkInv

-----------------------------------------------------------------------------
\* _persist of a run that failed in nothing it could not see again: a fixture that
\* has not changed meanwhile has a mapping with its content, or one to repair.
LEMMA PersistCovers ==
  ASSUME BaseInv, NothingGetsLost, WatermarkInv, NEW p \in Procs, Persist(p),
         NEW f \in InScope(run[p].sub) \ run[p].newer
  PROVE  \/ /\ row'[run[p].sub][f] # None /\ ~ row'[run[p].sub][f].deleted
            /\ row'[run[p].sub][f].hash = fixture[f].content
         \/ row'[run[p].sub][f] = row[run[p].sub][f] /\ f \in RepairFixtures(run[p].sub)
<1> DEFINE s == run[p].sub
           old == row[s][f]
           new == NewRow(p, f, old)
<1>t. TypeInv /\ TypeOK
  BY DEF BaseInv, TypeInv
<1>1. s \in Subs /\ run[p].pc # "idle" /\ run[p].todo = {}
  BY <1>t, PersistFrame
<1>2. f \in Fixtures /\ fixture[f] # None /\ ~ fixture[f].gone
  BY <1>1, EngineAssumption DEF InScope, InWindow
<1>3. row'[s][f] = new
  BY <1>t, <1>2, PersistFrame
<1>4. f \in run[p].load.scope /\ TakenCare(p, f)
  BY <1>1 DEF WatermarkInv, RunCovers
<1>5. CASE ResultsOf(p, f) = {}
  <2>1. new = old
    BY <1>5 DEF NewRow
  <2>2. UpToDate(s, f) \/ f \in RepairFixtures(s)
    BY <1>1, <1>4, <1>5 DEF TakenCare, ResultsOf, Successes
  <2>3. QED
    BY <1>3, <2>1, <2>2 DEF UpToDate, LiveRows
<1>6. ASSUME NEW r \in ResultsOf(p, f), RowFrom(p, r, old, new)
      PROVE  new # None /\ ~ new.deleted /\ new.hash = fixture[f].content
  <2>1. r \in run[p].done /\ r.event # None /\ r.action.fixture = f /\ r.action \in Action
    BY <1>t DEF ResultsOf, Successes, TypeOK, Run, Result
  <2>2. Sound(run[p].load, r.action) /\ FromPlan(run[p].load, r.action)
    BY <1>t, <2>1 DEF TypeInv, RunsSound, BaseInv, PlansKept, PlanKept
  <2>3. r.action.type # "delete"
    <3>1. SUFFICES ASSUME r.action.type = "delete" PROVE FALSE
      OBVIOUS
    <3>2. f \in Loaded(run[p].load) /\ VerdictOn(run[p].load, f) = "delete"
      BY <1>2, <1>4, <2>1, <2>2, <3>1, NoneType DEF FromPlan
    <3>3. run[p].load.snap[f] \in Snapshot /\ ~ run[p].load.snap[f].gone
      BY <1>2, <1>4, <1>t, <3>2 DEF Loaded, BaseInv, ReadsHold, ReadHolds, TypeOK, Run, Load
    <3>4. run[p].load.snap[f].content \in Cancelled /\ CancelledPolicy = "delete"
      BY <3>2, <3>3 DEF VerdictOn, Verdict
    <3>5. QED
      BY <3>4 DEF NothingGetsLost
  <2>4. r.action.type \in {"create", "recreate", "update", "cancel"}
    BY <1>6, <2>3 DEF RowFrom
  <2>5. run[p].load.snap[f] # None
    BY <2>1, <2>2, <2>4 DEF Sound
  <2>6. run[p].load.snap[f] = fixture[f]
    BY <1>2, <2>5 DEF BaseInv, ReadsHold, ReadHolds, NothingGetsLost
  <2>7. fixture[f].content \in Contents
    BY <1>2, <1>t DEF TypeOK, Snapshot
  <2>8. CASE r.action.type \in {"create", "recreate"}
    <3>1. new = [event |-> r.event, hash |-> fixture[f].content, state |-> "active", deleted |-> FALSE]
      BY <1>6, <2>1, <2>6, <2>8 DEF RowFrom
    <3>2. new \in Mapping
      BY <1>t, <2>1, <2>7, <3>1 DEF Mapping, TypeOK, Run, Result
    <3> HIDE DEF new
    <3>3. new # None
      BY <3>2, NoneAssumption
    <3>4. QED
      BY <3>1, <3>3
  <2>9. ASSUME r.action.type \in {"update", "cancel"}
        PROVE  old \in Mapping /\ ~ old.deleted
    <3>1. run[p].load.rows[f] # None
      BY <1>2, <2>1, <2>2, <2>9, NoneType DEF Sound
    <3>2. f \in LiveRows(s)
      BY <1>1, <1>2, <3>1 DEF BaseInv, LockInv, RowsHeld, NothingGetsLost
    <3>3. QED
      BY <1>1, <1>2, <1>t, <3>2 DEF LiveRows, TypeOK
  <2>10. CASE r.action.type \in {"update", "cancel"}
    <3>1. r.event \in EventIds
      BY <1>t, <2>1 DEF TypeOK, Run, Result
    <3>2. \E state \in {"active", "cancelled"} :
            new = [old EXCEPT !.event = r.event, !.hash = fixture[f].content, !.state = state]
      BY <1>6, <2>1, <2>6, <2>10 DEF RowFrom
    <3> HIDE DEF old, new
    <3>3. new \in Mapping /\ ~ new.deleted /\ new.hash = fixture[f].content
      BY <2>7, <2>9, <2>10, <3>1, <3>2 DEF Mapping
    <3>4. QED
      BY <3>3, NoneAssumption
  <2>11. QED
    BY <2>4, <2>8, <2>10
<1>7. QED
  BY <1>t, <1>2, <1>3, <1>5, <1>6, NewRowCases

\* A row that is live and active stays so unless it is cancelled.
LEMMA PersistActive ==
  ASSUME BaseInv, RowsActive, NEW p \in Procs, Persist(p)
  PROVE  RowsActive'
<1>t. TypeInv /\ TypeOK
  BY DEF BaseInv, TypeInv
<1> SUFFICES ASSUME Cancelled = {}, NEW s \in Subs, NEW f \in Fixtures,
                    row'[s][f] # None, ~ row'[s][f].deleted
             PROVE  row'[s][f].state = "active"
  BY DEF RowsActive, LiveRows
<1>1. CASE s # run[p].sub
  <2>1. row'[s] = row[s]
    BY <1>1, <1>t, PersistFrame
  <2>2. QED
    BY <2>1 DEF RowsActive, LiveRows
<1>2. CASE s = run[p].sub
  <2> DEFINE old == row[run[p].sub][f]
             new == NewRow(p, f, old)
  <2>1. row'[s][f] = new
    BY <1>t, <1>2, PersistFrame
  <2>2. CASE new = old
    BY <1>2, <2>1, <2>2 DEF RowsActive, LiveRows
  <2>3. ASSUME NEW r \in ResultsOf(p, f), RowFrom(p, r, old, new)
        PROVE  new.state = "active"
    <3>1. r \in run[p].done /\ r.action.fixture = f /\ r.action \in Action
      BY <1>t DEF ResultsOf, Successes, TypeOK, Run, Result
    <3>2. FromPlan(run[p].load, r.action) /\ Sound(run[p].load, r.action)
      BY <1>t, <3>1 DEF TypeInv, RunsSound, BaseInv, PlansKept, PlanKept
    <3>3. r.action.type # "cancel"
      BY <3>2 DEF FromPlan, VerdictOn, Verdict
    <3>4. old # None => old \in Mapping
      BY <1>2, <1>t DEF TypeOK
    <3>5. new # None /\ ~ new.deleted
      BY <2>1
    <3> HIDE DEF old, new
    <3>6. CASE r.action.type \in {"create", "recreate"}
      BY <2>3, <3>6 DEF RowFrom
    <3>7. CASE r.action.type = "update"
      BY <2>3, <3>4, <3>7 DEF RowFrom, Mapping
    <3>8. CASE r.action.type = "delete"
      BY <2>3, <3>4, <3>5, <3>8 DEF RowFrom, Mapping
    <3>9. QED
      BY <2>3, <3>3, <3>6, <3>7, <3>8 DEF RowFrom
  <2>4. QED
    BY <1>t, <1>2, <2>1, <2>2, <2>3, NewRowCases
<1>3. QED
  BY <1>1, <1>2

LEMMA PersistWatermark ==
  ASSUME BaseInv, NothingGetsLost, WatermarkInv, NEW p \in Procs, Persist(p)
  PROVE  WatermarkInv'
<1>t. TypeInv /\ TypeOK
  BY DEF BaseInv, TypeInv
<1> DEFINE s == run[p].sub
<1>1. /\ s \in Subs /\ OthersKept(p) /\ run'[p] = IdleRun /\ run[p].pc # "idle"
      /\ \A t \in Subs \ {s} : row'[t] = row[t] /\ failures'[t] = failures[t]
      /\ \A f \in Fixtures :
           \/ failures'[s][f] = failures[s][f]
           \/ /\ failures'[s][f] = failures[s][f] + 1
              /\ \E r \in run[p].done : r.event = None /\ r.action.fixture = f
      /\ UNCHANGED <<fixture, open, calendar, budget>>
  BY <1>t, PersistFrame
<1>2. AdvanceWatermark(p)
  <2>1. ~ run[p].aborted
    BY <1>1 DEF WatermarkInv, RunCovers
  <2>2. QED
    BY <2>1 DEF Persist, Failed
<1>3. fresh'[s] = run[p].newer /\ \A t \in Subs \ {s} : fresh'[t] = fresh[t]
  BY <1>t, <1>1, <1>2, WatermarkType
<1>4. NothingForgotten'
  <2> SUFFICES ASSUME NEW t \in Subs, NEW f \in InScope(t)
               PROVE  UpToDate(t, f)' \/ f \in fresh'[t] \cup RepairFixtures(t)'
    BY <1>1 DEF NothingForgotten, InScope, InWindow
  <2>1. f \in Fixtures
    BY EngineAssumption DEF InScope, InWindow
  <2>2. CASE t # s
    <3>1. row'[t] = row[t] /\ fresh'[t] = fresh[t] /\ fixture' = fixture
      BY <1>1, <1>3, <2>2
    <3>2. UpToDate(t, f) \/ f \in fresh[t] \cup RepairFixtures(t)
      BY DEF WatermarkInv, NothingForgotten
    <3>3. QED
      BY <3>1, <3>2 DEF UpToDate, LiveRows, RepairFixtures
  <2>3. CASE t = s /\ f \in run[p].newer
    BY <1>3, <2>3
  <2>4. CASE t = s /\ f \notin run[p].newer
    <3>1. \/ /\ row'[t][f] # None /\ ~ row'[t][f].deleted
             /\ row'[t][f].hash = fixture[f].content
          \/ row'[t][f] = row[t][f] /\ f \in RepairFixtures(t)
      BY <2>4, PersistCovers
    <3>2. QED
      BY <1>1, <2>1, <3>1 DEF UpToDate, LiveRows, RepairFixtures
  <2>5. QED
    BY <2>2, <2>3, <2>4
<1>5. Spent' = Spent /\ Spent \in Nat /\ budget'["window"] = budget["window"]
  BY <1>1, SpentType DEF Spent
<1>6. FailuresPaid'
  <2>1. ASSUME NEW t \in Subs, NEW f \in Fixtures PROVE failures'[t][f] <= Spent
    <3>1. failures[t][f] <= Spent /\ failures[t][f] \in Nat
      BY <1>t DEF WatermarkInv, FailuresPaid, TypeOK
    <3>2. CASE failures'[t][f] = failures[t][f]
      BY <3>1, <3>2
    <3>3. CASE t = s /\ failures'[t][f] = failures[t][f] + 1
      <4>1. \E r \in run[p].done : r.event = None /\ r.action.fixture = f
        BY <1>1, <3>1, <3>3
      <4>2. failures[t][f] < Spent
        BY <3>3, <4>1, NoneType DEF WatermarkInv, FailuresPaid
      <4>3. QED
        BY <1>5, <3>1, <3>3, <4>2
    <3>4. QED
      BY <1>1, <3>2, <3>3
  <2>2. ASSUME NEW q \in Procs, NEW r \in run'[q].done, r.event = None, r.action.fixture # None
        PROVE  failures'[run'[q].sub][r.action.fixture] < Spent
    <3>1. q # p /\ run'[q] = run[q]
      BY <1>1, <2>2, IdleCovers DEF OthersKept
    <3>2. run[q] # IdleRun
      BY <2>2, <3>1, IdleType
    <3>3. run[q].sub \in Subs /\ run[q].sub # None
      BY <1>t, <3>2 DEF TypeInv, RunsSound, TypeOK, Run
    <3>4. run[q].sub # s
      BY <3>1, <3>3 DEF BaseInv, LockInv, OneRun, NothingGetsLost
    <3>5. failures'[run[q].sub] = failures[run[q].sub]
      BY <1>1, <3>3, <3>4
    <3>6. QED
      BY <2>2, <3>1, <3>5 DEF WatermarkInv, FailuresPaid
  <2>3. \A q \in Procs : run'[q].load.blocked = {}
    BY <1>1, IdleCovers DEF OthersKept, WatermarkInv, FailuresPaid
  <2>4. QED
    BY <1>5, <2>1, <2>2, <2>3 DEF FailuresPaid
<1>7. RepairsMeet'
  BY <1>1, IdleCovers DEF OthersKept, WatermarkInv, RepairsMeet
<1>8. RowsActive'
  BY PersistActive DEF WatermarkInv
<1>9. \A q \in Procs : RunCovers(q)'
  BY <1>1, EndsCovers
<1>10. QED
  BY <1>1, <1>4, <1>5, <1>6, <1>7, <1>8, <1>9 DEF WatermarkInv

-----------------------------------------------------------------------------
\* A commit marks what it changes: newer than the run, newer than the watermark.
LEMMA CommitWatermark ==
  ASSUME BaseInv, NothingGetsLost, WatermarkInv, NEW f \in Fixtures, Commits(f)
  PROVE  WatermarkInv'
<1>t. TypeInv /\ TypeOK
  BY DEF BaseInv, TypeInv
<1>1. PICK snapshot \in Snapshot, late \in SUBSET Procs, behind \in SUBSET Subs :
        /\ Commit(f, snapshot, late, behind)
        /\ late = {} /\ behind = {}
        /\ budget' = budget \/ \E event \in {"restore", "write", "gone"} : Spend(event)
  BY SpentType DEF Commits
<1>2. /\ \A g \in Fixtures \ {f} : fixture'[g] = fixture[g]
      /\ \A s \in Subs : fresh[s] \ {f} \subseteq fresh'[s] /\ f \in fresh'[s]
      /\ \A p \in Procs :
           /\ run'[p].pc = run[p].pc /\ run'[p].sub = run[p].sub
           /\ run'[p].load = run[p].load
           /\ run'[p].todo = run[p].todo /\ run'[p].done = run[p].done
           /\ run'[p].aborted = run[p].aborted
           /\ run[p].pc # "idle" => run'[p].newer = run[p].newer \cup {f}
           /\ run[p].pc = "idle" => run'[p] = run[p]
      /\ UNCHANGED <<open, row, failures, calendar>>
  BY <1>t, <1>1, CommitFrame
<1>3. Spent' = Spent /\ budget'["window"] = budget["window"]
  <2>1. CASE budget' = budget
    BY <2>1 DEF Spent
  <2>2. ASSUME NEW event \in {"restore", "write", "gone"}, Spend(event)
        PROVE  Spent' = Spent /\ budget'["window"] = budget["window"]
    <3>1. event \in Events /\ {"item", "unanswered", "window"} \subseteq Events \ {event}
      BY DEF Events
    <3>2. \A e \in Events \ {event} : budget'[e] = budget[e]
      BY <1>t, <2>2, <3>1, SpendType
    <3>3. QED
      BY <3>1, <3>2 DEF Spent
  <2>3. QED
    BY <1>1, <2>1, <2>2
<1>4. ASSUME NEW s \in Subs, NEW g \in InScope(s)', g # f
      PROVE  g \in Fixtures /\ g \in InScope(s) /\ fixture'[g] = fixture[g]
  BY <1>2, <1>4, EngineAssumption DEF InScope, InWindow
<1>5. NothingForgotten'
  <2> SUFFICES ASSUME NEW s \in Subs, NEW g \in InScope(s)'
               PROVE  UpToDate(s, g)' \/ g \in fresh'[s] \cup RepairFixtures(s)'
    BY DEF NothingForgotten
  <2>1. CASE g = f
    BY <1>2, <2>1
  <2>2. CASE g # f
    <3>1. g \in Fixtures /\ g \in InScope(s) /\ fixture'[g] = fixture[g]
      BY <1>4, <2>2
    <3>2. UpToDate(s, g) \/ g \in fresh[s] \cup RepairFixtures(s)
      BY <3>1 DEF WatermarkInv, NothingForgotten
    <3>3. QED
      BY <1>2, <2>2, <3>1, <3>2 DEF UpToDate, LiveRows, RepairFixtures
  <2>3. QED
    BY <2>1, <2>2
<1>6. RowsActive' /\ (budget'["window"] = 1 => open' = Contents)
  BY <1>2, <1>3 DEF WatermarkInv, RowsActive, LiveRows
<1>7. FailuresPaid' /\ RepairsMeet'
  BY <1>2, <1>3 DEF WatermarkInv, FailuresPaid, RepairsMeet
<1>8. ASSUME NEW q \in Procs PROVE RunCovers(q)'
  <2>1. CASE run[q].pc = "idle"
    BY <1>2, <2>1 DEF RunCovers
  <2>2. CASE run[q].pc # "idle"
    <3>1. PICK s \in Subs : s = run[q].sub
      BY <1>t, <2>2 DEF TypeOK, Run
    <3>2. InScope(run[q].sub)' = InScope(s)'
      BY <1>2, <3>1 DEF InScope, InWindow
    <3>3. \A g \in InScope(s)' \ run'[q].newer :
            g \in Fixtures /\ g \in InScope(s) /\ fixture'[g] = fixture[g]
      BY <1>2, <1>4, <2>2
    <3>4. RunCovers(q)
      BY DEF WatermarkInv
    <3>5. QED
      BY <1>2, <2>2, <3>1, <3>2, <3>3, <3>4, SameCover
  <2>3. QED
    BY <2>1, <2>2
<1>9. QED
  BY <1>5, <1>6, <1>7, <1>8 DEF WatermarkInv

\* The window closes once at most, failures age and users edit: none of it needs a
\* fixture that the watermark has passed.
LEMMA OutsideWatermark ==
  ASSUME BaseInv, NothingGetsLost, WatermarkInv,
         \/ \E c \in Contents : WindowMoves(c)
         \/ FailuresAge
         \/ \E e \in EventIds, c \in Contents : UserEdits(e, c)
         \/ UNCHANGED vars
  PROVE  WatermarkInv'
<1>t. TypeInv /\ TypeOK
  BY DEF BaseInv, TypeInv
<1>1. /\ UNCHANGED <<fixture, fresh, row, run>>
      /\ open' \subseteq open
      /\ budget'["window"] = 1 => open' = Contents
  <2>1. ASSUME NEW c \in Contents, WindowMoves(c)
        PROVE  open' \subseteq open /\ budget'["window"] # 1
    <3>1. "window" \in Events
      BY DEF Events
    <3>2. budget["window"] > 0 /\ budget'["window"] = budget["window"] - 1
      BY <1>t, <2>1, <3>1, SpendType DEF WindowMoves
    <3>3. budget["window"] = 1 /\ open = Contents
      BY <3>2, SpentType DEF WatermarkInv
    <3>4. QED
      BY <2>1, <3>2, <3>3 DEF WindowMoves
  <2>2. ASSUME NEW event \in {"age", "user_edit"}, Spend(event)
        PROVE  budget'["window"] = budget["window"]
    <3>1. event \in Events /\ "window" \in Events \ {event}
      BY DEF Events
    <3>2. QED
      BY <1>t, <2>2, <3>1, SpendType
  <2>3. QED
    BY <2>1, <2>2 DEF WindowMoves, FailuresAge, UserEdits, vars, WatermarkInv
<1>2. /\ Spent' = Spent /\ Spent \in Nat
      /\ \A s \in Subs, f \in Fixtures : failures'[s][f] \in {failures[s][f], 0} 
      /\ \A e \in EventIds : calendar[e] # None => calendar'[e] # None
  <2>1. ASSUME NEW event \in {"age", "user_edit", "window"}, Spend(event)
        PROVE  Spent' = Spent
    <3>1. event \in Events /\ {"item", "unanswered"} \subseteq Events \ {event}
      BY DEF Events
    <3>2. \A e \in Events \ {event} : budget'[e] = budget[e]
      BY <1>t, <2>1, <3>1, SpendType
    <3>3. QED
      BY <3>1, <3>2 DEF Spent
  <2>2. Spent' = Spent
    BY <2>1 DEF WindowMoves, FailuresAge, UserEdits, vars, Spent
  <2>3. \A s \in Subs, f \in Fixtures : failures'[s][f] \in {failures[s][f], 0}
    BY DEF WindowMoves, FailuresAge, UserEdits, vars
  <2>4. ASSUME NEW d \in EventIds, NEW c \in Contents, UserEdits(d, c), NEW e \in EventIds,
               calendar[e] # None
        PROVE  calendar'[e] # None
    <3>1. calendar[d] \in Remote
      BY <1>t, <2>4 DEF UserEdits, TypeOK
    <3>2. [calendar[d] EXCEPT !.shows = c] \in Remote
      BY <3>1 DEF Remote
    <3>3. QED
      BY <1>t, <2>4, <3>2, NoneAssumption DEF UserEdits, Put, TypeOK
  <2>5. \A e \in EventIds : calendar[e] # None => calendar'[e] # None
    BY <2>4 DEF WindowMoves, FailuresAge, vars
  <2>6. QED
    BY <2>2, <2>3, <2>5, SpentType
<1>3. NothingForgotten' /\ RowsActive'
  BY <1>1 DEF WatermarkInv, NothingForgotten, RowsActive, InScope, InWindow, UpToDate,
     LiveRows, RepairFixtures
<1>4. FailuresPaid'
  <2>1. ASSUME NEW s \in Subs, NEW f \in Fixtures
        PROVE  /\ failures'[s][f] <= Spent
               /\ failures[s][f] < Spent => failures'[s][f] < Spent
    <3>1. failures[s][f] <= Spent /\ failures[s][f] \in Nat
      BY <1>t DEF WatermarkInv, FailuresPaid, TypeOK
    <3>2. QED
      BY <1>2, <3>1
  <2>2. ASSUME NEW q \in Procs, NEW r \in run[q].done, r.event = None, r.action.fixture # None
        PROVE  failures'[run[q].sub][r.action.fixture] < Spent
    <3>1. run[q] # IdleRun /\ r.action \in Action
      BY <1>t, <2>2, IdleType DEF TypeOK, Run, Result
    <3>2. run[q].sub \in Subs /\ r.action.fixture \in Fixtures
      BY <1>t, <2>2, <3>1 DEF TypeInv, RunsSound, TypeOK, Run, Action
    <3>3. failures[run[q].sub][r.action.fixture] < Spent
      BY <2>2 DEF WatermarkInv, FailuresPaid
    <3>4. QED
      BY <2>1, <3>2, <3>3
  <2>3. QED
    BY <1>1, <1>2, <2>1, <2>2 DEF FailuresPaid, WatermarkInv
<1>5. RepairsMeet'
  <2> SUFFICES ASSUME NEW q \in Procs, NEW a \in run[q].todo, a.stage = "repair"
               PROVE  calendar'[a.fixture] # None
    BY <1>1 DEF RepairsMeet
  <2>1. a \in Action /\ Sound(run[q].load, a) /\ Staged(a)
    BY <1>t DEF TypeInv, TypeOK, RunsSound, Run, BaseInv, PlansKept, PlanKept
  <2>2. a.fixture \in EventIds
    BY <2>1 DEF Staged, Sound, Action, EventIds
  <2>3. QED
    BY <1>2, <2>2 DEF WatermarkInv, RepairsMeet
<1>6. ASSUME NEW q \in Procs PROVE RunCovers(q)'
  <2>1. CASE run[q].pc = "idle"
    BY <1>1, <2>1 DEF RunCovers
  <2>2. CASE run[q].pc # "idle"
    <3>1. run[q].sub \in Subs
      BY <1>t, <2>2 DEF TypeOK, Run
    <3>2. InScope(run[q].sub)' \subseteq InScope(run[q].sub)
          /\ InScope(run[q].sub) \subseteq Fixtures
      BY <1>1, <3>1, EngineAssumption DEF InScope, InWindow
    <3>3. RunCovers(q)
      BY DEF WatermarkInv
    <3>4. QED
      BY <1>1, <3>2, <3>3, SameCover
  <2>3. QED
    BY <2>1, <2>2
<1>7. QED
  BY <1>1, <1>3, <1>4, <1>5, <1>6 DEF WatermarkInv

LEMMA NextWatermark ==
  ASSUME BaseInv, NothingGetsLost, WatermarkInv, [Next]_vars
  PROVE  WatermarkInv'
<1>t. TypeInv /\ TypeOK
  BY DEF BaseInv, TypeInv
<1>1. ASSUME NEW p \in Procs,
             Calls(p) \/ LoadRemote(p) \/ NothingToDo(p) \/ Persist(p) \/ PersistRejected(p)
             \/ Crash(p) \/ Abort(p)
      PROVE  WatermarkInv'
  <2>1. ~ LoadRemote(p)
    BY <1>t, ListFrame DEF NothingGetsLost, BaseInv, ReadsHold, ReadHolds
  <2>2. ~ Abort(p)
    BY SpentType DEF Abort, Spend
  <2>3. QED
    BY <1>1, <2>1, <2>2, CallWatermark, EndsWatermark, PersistWatermark
<1>2. CASE Environment
  <2>1. ~ ImportBegins /\ \A e \in EventIds : ~ UserDeletes(e)
    BY SpentType DEF ImportBegins, UserDeletes, Spend
  <2>2. \/ \E f \in Fixtures : Commits(f)
        \/ \E c \in Contents : WindowMoves(c)
        \/ FailuresAge
        \/ \E e \in EventIds, c \in Contents : UserEdits(e, c)
    BY <1>t, <1>2, <2>1, CommitCases DEF Environment
  <2>3. QED
    BY <2>2, CommitWatermark, OutsideWatermark
<1>3. CASE UNCHANGED vars
  BY <1>3, OutsideWatermark
<1>4. QED
  BY <1>1, <1>2, <1>3, LoadWatermark, NextCases

\* Under NothingGetsLost the watermark never passes work that is not done: whatever
\* fails, crashes or is changed between two steps, the next incremental run will load
\* every fixture in scope that has no up-to-date mapping.
THEOREM WatermarkSafe ==
  ASSUME NothingGetsLost
  PROVE  Spec => []NothingForgotten
<1>1. Init => WatermarkInv
  <2> SUFFICES ASSUME Init PROVE WatermarkInv
    OBVIOUS
  <2>1. BaseInv /\ (\A p \in Procs : run[p] = IdleRun) /\ budget = Budget
    BY InitBase DEF Init
  <2>2. Spent = 0
    BY <2>1, SpentType DEF Spent
  <2>3. FailuresPaid
    BY <2>1, <2>2, IdleType DEF FailuresPaid, Init, NoLoad
  <2>4. NothingForgotten
    BY EngineAssumption DEF Init, NothingForgotten, InScope, InWindow
  <2>5. RepairsMeet /\ (\A p \in Procs : RunCovers(p)) /\ RowsActive
    BY <2>1, IdleType DEF RepairsMeet, RunCovers, RowsActive, LiveRows, Init
  <2>6. QED
    BY <2>3, <2>4, <2>5 DEF WatermarkInv, Init
<1>2. BaseInv /\ WatermarkInv /\ [Next]_vars => WatermarkInv'
  BY NextWatermark
<1>3. WatermarkInv => NothingForgotten
  BY DEF WatermarkInv
<1>4. QED
  BY <1>1, <1>2, <1>3, BaseAlways, PTL DEF Spec

-----------------------------------------------------------------------------
\* When nothing comes back: a fixture that has gone, or has left the scope, stays away.
NothingComesBack ==
  /\ Budget["restore"] = 0 /\ Budget["window"] = 0
  /\ CancelledPolicy = "annotate" \/ Cancelled = {}

\* Then a mapping that was deleted, or is to be, is of a fixture that has gone.
GoneInv ==
  /\ open = Contents
  /\ Budget["gone"] = 0 => \A f \in Fixtures : ~ IsGone(f)
  /\ \A s \in Subs, f \in Fixtures : row[s][f] # None =>
       fixture[f] # None /\ (row[s][f].deleted => IsGone(f))
  /\ \A p \in Procs : run[p].pc # "idle" =>
       /\ run[p].load.window = Contents
       /\ \A f \in Fixtures : run[p].load.snap[f] # None =>
            fixture[f] # None /\ (run[p].load.snap[f].gone => IsGone(f))
       /\ \A f \in Fixtures \ run[p].load.scope : run[p].load.rows[f] # None => IsGone(f)

\* Nothing restores a fixture, and nothing removes one while none may go.
LEMMA GoneStays ==
  ASSUME BaseInv, NothingComesBack, [Next]_vars, NEW f \in Fixtures
  PROVE  /\ IsGone(f) => IsGone(f)'
         /\ fixture[f] # None => fixture'[f] # None
         /\ Budget["gone"] = 0 => (IsGone(f)' => IsGone(f))
<1>t. TypeInv /\ TypeOK
  BY DEF BaseInv, TypeInv
<1>1. ASSUME NEW event \in {"restore", "gone"}, Budget[event] = 0 PROVE ~ Spend(event)
  <2>1. event \in Events
    BY DEF Events
  <2>2. budget[event] \in Nat /\ budget[event] <= 0
    BY <1>1, <1>t, <2>1 DEF TypeOK, BaseInv, BudgetInv
  <2>3. QED
    BY <2>2 DEF Spend
<1>2. CASE fixture' = fixture
  BY <1>2 DEF IsGone
<1>3. ASSUME NEW g \in Fixtures, Commits(g)
      PROVE  /\ IsGone(f) => IsGone(f)'
             /\ fixture[f] # None => fixture'[f] # None
             /\ Budget["gone"] = 0 => (IsGone(f)' => IsGone(f))
  <2>1. PICK snapshot \in Snapshot, late \in SUBSET Procs, behind \in SUBSET Subs :
          /\ Commit(g, snapshot, late, behind)
          /\ \/ ~ snapshot.gone /\ fixture[g] # None /\ fixture[g].gone /\ Spend("restore")
             \/ ~ snapshot.gone /\ ~ IsGone(g)
             \/ snapshot.gone /\ Spend("gone")
    BY <1>3 DEF Commits
  <2>2. fixture'[g] = snapshot /\ \A h \in Fixtures \ {g} : fixture'[h] = fixture[h]
    BY <1>t, <2>1, CommitFrame
  <2>3. snapshot # None
    BY NoneAssumption
  <2>4. ~ snapshot.gone => ~ IsGone(g)
    BY <1>1, <2>1 DEF NothingComesBack
  <2>5. Budget["gone"] = 0 => ~ snapshot.gone
    BY <1>1, <2>1
  <2>6. CASE f = g
    BY <2>2, <2>3, <2>4, <2>5, <2>6 DEF IsGone
  <2>7. CASE f # g
    BY <2>2, <2>7 DEF IsGone
  <2>8. QED
    BY <2>6, <2>7
<1>4. fixture' = fixture \/ \E g \in Fixtures : Commits(g)
  BY <1>t, ReadCases
<1>5. QED
  BY <1>2, <1>3, <1>4

\* A delete through a mapping is of a fixture that has gone.
LEMMA DeletesGone ==
  ASSUME BaseInv, NothingComesBack, GoneInv, NEW p \in Procs, run[p].pc # "idle",
         NEW a \in Action, FromPlan(run[p].load, a), a.type = "delete", a.fixture # None
  PROVE  /\ IsGone(a.fixture)
         /\ run[p].load.snap[a.fixture] # None => run[p].load.snap[a.fixture].gone
<1> DEFINE load == run[p].load
           f == a.fixture
<1>t. TypeInv /\ TypeOK /\ load \in Load
  BY DEF BaseInv, TypeInv, TypeOK, Run
<1>1. f \in Fixtures
  BY DEF Action
<1>2. CASE f \in Loaded(load) /\ VerdictOn(load, f) = "delete"
  <2>1. load.snap[f] # None /\ load.snap[f] \in Snapshot
    BY <1>1, <1>2, <1>t DEF Loaded, Load
  <2>2. load.snap[f].gone
    <3>1. f \notin load.blocked
      BY <1>2 DEF VerdictOn
    <3>2. Verdict(load.snap[f], load.rows[f], Canonical(load, f),
                  load.known /\ IsConfirmed(load.rows[f])) = "delete"
      BY <1>2, <3>1 DEF VerdictOn
    <3>3. load.snap[f].gone \/ (load.snap[f].content \in Cancelled /\ CancelledPolicy = "delete")
      BY <3>2 DEF Verdict
    <3>4. QED
      BY <2>1, <3>3 DEF NothingComesBack
  <2>3. QED
    BY <1>1, <2>1, <2>2 DEF GoneInv
<1>3. CASE f \in Fixtures \ (load.scope \cup Loaded(load)) /\ IsActive(load.rows[f])
  <2>1. load.rows[f] # None /\ load.snap[f] = None
    BY <1>3 DEF IsActive, Loaded
  <2>2. QED
    BY <1>3, <2>1 DEF GoneInv
<1>4. QED
  BY <1>1, <1>2, <1>3 DEF FromPlan, Loaded

LEMMA PersistGone ==
  ASSUME BaseInv, NothingComesBack, GoneInv, NEW p \in Procs, Persist(p),
         NEW s \in Subs, NEW f \in Fixtures, row'[s][f] # None
  PROVE  fixture[f] # None /\ (row'[s][f].deleted => IsGone(f))
<1>t. TypeInv /\ TypeOK
  BY DEF BaseInv, TypeInv
<1>1. CASE s # run[p].sub
  BY <1>1, <1>t, PersistFrame DEF GoneInv
<1>2. CASE s = run[p].sub
  <2> DEFINE old == row[run[p].sub][f]
             new == NewRow(p, f, old)
  <2>1. row'[s][f] = new /\ run[p].pc # "idle"
    BY <1>2, <1>t, PersistFrame
  <2>2. old # None => old \in Mapping /\ fixture[f] # None /\ (old.deleted => IsGone(f))
    BY <1>2, <1>t DEF GoneInv, TypeOK
  <2>3. CASE new = old
    BY <2>1, <2>2, <2>3
  <2>4. ASSUME NEW r \in ResultsOf(p, f), RowFrom(p, r, old, new)
        PROVE  fixture[f] # None /\ (new.deleted => IsGone(f))
    <3>1. r \in run[p].done /\ r.action.fixture = f /\ r.action \in Action /\ f # None
      BY <1>t, NoneType DEF ResultsOf, Successes, TypeOK, Run, Result
    <3>2. FromPlan(run[p].load, r.action) /\ Sound(run[p].load, r.action)
      BY <1>t, <3>1 DEF TypeInv, RunsSound, BaseInv, PlansKept, PlanKept
    <3>3. CASE r.action.type \in {"create", "recreate"}
      <4>1. run[p].load.snap[f] # None
        BY <3>1, <3>2, <3>3 DEF Sound
      <4>2. fixture[f] # None
        BY <2>1, <4>1 DEF GoneInv
      <4> HIDE DEF old, new
      <4>3. QED
        BY <2>4, <3>3, <4>2 DEF RowFrom
    <3>4. CASE r.action.type = "delete"
      <4>1. IsGone(f)
        BY <2>1, <3>1, <3>2, <3>4, DeletesGone
      <4>2. QED
        BY <4>1 DEF IsGone
    <3>5. CASE r.action.type \in {"update", "cancel"}
      <4> HIDE DEF old, new
      <4>1. old # None /\ new.deleted = old.deleted
        <5>1. CASE r.action.type = "update"
          BY <2>2, <2>4, <5>1 DEF RowFrom, Mapping
        <5>2. CASE r.action.type = "cancel"
          BY <2>2, <2>4, <5>2 DEF RowFrom, Mapping
        <5>3. QED
          BY <3>5, <5>1, <5>2
      <4>2. QED
        BY <2>2, <4>1
    <3>6. QED
      BY <2>4, <3>3, <3>4, <3>5 DEF RowFrom
  <2>5. QED
    BY <1>t, <2>1, <2>3, <2>4, NewRowCases
<1>3. QED
  BY <1>1, <1>2

LEMMA LoadGone ==
  ASSUME BaseInv, GoneInv, NEW p \in Procs, NEW s \in Subs, NEW mode \in SyncMode,
         LoadAndPlan(p, s, mode)
  PROVE  /\ run'[p].load.window = Contents
         /\ \A f \in Fixtures : run'[p].load.snap[f] # None =>
              fixture[f] # None /\ (run'[p].load.snap[f].gone => IsGone(f))
         /\ \A f \in Fixtures \ run'[p].load.scope : run'[p].load.rows[f] # None => IsGone(f)
<1>t. TypeInv /\ TypeOK
  BY DEF BaseInv, TypeInv
<1>1. PICK page \in Pages(Candidates(s, mode)) : run'[p].load = ReadBy(s, page)
  BY <1>t, LoadFrame
<1>2. \A f \in Fixtures : ReadBy(s, page).snap[f] # None => ReadBy(s, page).snap[f] = fixture[f]
  BY DEF ReadBy
<1>3. ReadBy(s, page).window = open /\ ReadBy(s, page).scope = InScope(s)
  BY DEF ReadBy
<1>4. ASSUME NEW f \in Fixtures \ InScope(s), ReadBy(s, page).rows[f] # None
      PROVE  IsGone(f)
  <2>1. row[s][f] # None
    BY <1>t, <1>4, ReadRows
  <2>2. f \in Scope[s] /\ fixture[f] # None
    BY <2>1 DEF BaseInv, LockInv, Scoped, GoneInv
  <2>3. fixture[f].content \in open
    BY <1>t, <2>2 DEF GoneInv, TypeOK, Snapshot
  <2>4. QED
    BY <1>4, <2>2, <2>3 DEF InScope, InWindow, IsGone
<1>5. QED
  BY <1>1, <1>2, <1>3, <1>4 DEF GoneInv, IsGone

LEMMA NextGone ==
  ASSUME BaseInv, NothingComesBack, GoneInv, [Next]_vars
  PROVE  GoneInv'
<1>t. TypeInv /\ TypeOK
  BY DEF BaseInv, TypeInv
<1>1. open' = Contents
  <2>1. ~ Spend("window")
    <3>1. budget["window"] \in Nat /\ budget["window"] <= 0
      BY <1>t DEF TypeOK, BaseInv, BudgetInv, NothingComesBack, Events
    <3>2. QED
      BY <3>1 DEF Spend
  <2>2. ASSUME NEW p \in Procs, Calls(p) PROVE open' = open
    BY <1>t, <2>2, CallCases DEF OnlyCall
  <2>3. ASSUME NEW f \in Fixtures, Commits(f) PROVE open' = open
    BY <2>3 DEF Commits, Commit
  <2>4. CASE Environment
    BY <1>t, <2>1, <2>3, <2>4, CommitCases
       DEF Environment, WindowMoves, ImportBegins, FailuresAge, UserDeletes, UserEdits, GoneInv
  <2>5. QED
    BY <2>2, <2>4, NextCases DEF LoadRemote, NothingToDo, Persist, PersistRejected, Crash, Abort,
       OnlyCall, LoadAndPlan, vars, GoneInv
<1>2. \A f \in Fixtures :
        /\ IsGone(f) => IsGone(f)'
        /\ fixture[f] # None => fixture'[f] # None
        /\ Budget["gone"] = 0 => (IsGone(f)' => IsGone(f))
  BY GoneStays
<1>3. ASSUME NEW s \in Subs, NEW f \in Fixtures, row'[s][f] # None
      PROVE  fixture'[f] # None /\ (row'[s][f].deleted => IsGone(f)')
  <2>1. fixture[f] # None /\ (row'[s][f].deleted => IsGone(f))
    <3>1. row' = row \/ \E p \in Procs : Persist(p)
      <4>1. ASSUME NEW p \in Procs, NEW t \in Subs, NEW mode \in SyncMode, LoadAndPlan(p, t, mode)
            PROVE  row' = row
        BY <1>t, <4>1, LoadFrame
      <4>2. QED
        BY <1>t, <4>1, LockCases
    <3>2. QED
      BY <1>3, <3>1, PersistGone DEF GoneInv
  <2>2. QED
    BY <1>2, <2>1
<1>4. ASSUME NEW p \in Procs, run[p].pc # "idle",
             run'[p].load.snap = run[p].load.snap, run'[p].load.rows = run[p].load.rows,
             run'[p].load.scope = run[p].load.scope, run'[p].load.window = run[p].load.window
      PROVE  /\ run'[p].load.window = Contents
             /\ \A f \in Fixtures : run'[p].load.snap[f] # None =>
                  fixture'[f] # None /\ (run'[p].load.snap[f].gone => IsGone(f)')
             /\ \A f \in Fixtures \ run'[p].load.scope : run'[p].load.rows[f] # None => IsGone(f)'
  BY <1>2, <1>4 DEF GoneInv
<1>5. ASSUME NEW p \in Procs, run'[p].pc # "idle"
      PROVE  /\ run'[p].load.window = Contents
             /\ \A f \in Fixtures : run'[p].load.snap[f] # None =>
                  fixture'[f] # None /\ (run'[p].load.snap[f].gone => IsGone(f)')
             /\ \A f \in Fixtures \ run'[p].load.scope : run'[p].load.rows[f] # None => IsGone(f)'
  <2>1. CASE \E s \in Subs, mode \in SyncMode : LoadAndPlan(p, s, mode)
    BY <1>2, <2>1, LoadGone
  <2>2. CASE LoadRemote(p)
    <3>1. run'[p].load = [run[p].load EXCEPT !.remote = Listed(run[p].load.window), !.known = TRUE]
          /\ run[p].pc = "list"
      BY <1>t, <2>2, ListFrame
    <3>2. run[p].load \in Load
      BY <1>t DEF TypeOK, Run
    <3>3. /\ run'[p].load.snap = run[p].load.snap /\ run'[p].load.rows = run[p].load.rows
          /\ run'[p].load.scope = run[p].load.scope /\ run'[p].load.window = run[p].load.window
      BY <3>1, <3>2 DEF Load
    <3>4. QED
      BY <1>4, <3>1, <3>3
  <2>3. CASE run'[p].pc = run[p].pc /\ run'[p].load = run[p].load
    BY <1>4, <1>5, <2>3
  <2>4. \/ \E s \in Subs, mode \in SyncMode : LoadAndPlan(p, s, mode)
        \/ LoadRemote(p)
        \/ run'[p].pc = run[p].pc /\ run'[p].load = run[p].load
    <3>1. ASSUME NEW f \in Fixtures, Commits(f) PROVE run'[p].pc = run[p].pc /\ run'[p].load = run[p].load
      BY <1>t, <3>1, CommitFrame DEF Commits
    <3>2. run'[p] # IdleRun
      BY <1>5, IdleType
    <3>3. QED
      BY <1>t, <3>1, <3>2, ReadCases DEF OthersKept, SameRead
  <2>5. QED
    BY <2>1, <2>2, <2>3, <2>4
<1>6. Budget["gone"] = 0 => \A f \in Fixtures : ~ IsGone(f)'
  BY <1>2 DEF GoneInv
<1>7. QED
  BY <1>1, <1>3, <1>5, <1>6 DEF GoneInv

LEMMA InitGone == Init => GoneInv
<1> SUFFICES ASSUME Init PROVE GoneInv
  OBVIOUS
<1>1. \A f \in Fixtures : ~ IsGone(f)
  BY DEF Init, IsGone
<1>2. (\A p \in Procs : run[p].pc = "idle") /\ open = Contents
      /\ \A s \in Subs, f \in Fixtures : row[s][f] = None
  BY IdleType DEF Init
<1>3. QED
  BY <1>1, <1>2 DEF GoneInv

-----------------------------------------------------------------------------
\* Runs that share neither a subscription nor a fixture.
RunsApart ==
  /\ Exclusive
  /\ \A s, t \in Subs : s # t => Scope[s] \cap Scope[t] = {}

\* A deleted mapping that a run does not see is of a fixture it read as gone.
DeletedUnread ==
  \A p \in Procs : run[p].pc # "idle" => \A f \in Fixtures :
    row[run[p].sub][f] # None /\ row[run[p].sub][f].deleted /\ run[p].load.snap[f] # None =>
      run[p].load.snap[f].gone

\* What a run that lists the calendar has not found is not there until it makes it.
Missing(p) == run[p].load.known =>
  \A f \in Scope[run[p].sub] :
    EventsOf(run[p].load, f) = {} /\ (\A r \in run[p].done : r.action.fixture # f) =>
      \A e \in EventIds : OwnerOf(e) = f => calendar[e] = None

\* What the successes of a run have left in the calendar.
Answers(p) ==
  \A r \in run[p].done : r.event # None /\ r.action.fixture # None =>
    LET f == r.action.fixture IN
    /\ r.action.type = "delete" => r.event = r.action.event /\ calendar[r.event] = None
    /\ r.action.type # "delete" =>
         /\ calendar[r.event] # None => calendar[r.event].hash = run[p].load.snap[f].content
         /\ f \in LiveRows(run[p].sub) =>
              r.event = row[run[p].sub][f].event \/ calendar[row[run[p].sub][f].event] = None

Written(p, f, e) ==
  \E r \in run[p].done : r.action.fixture = f /\ r.event = e /\ r.action.type # "delete"

RowsTell ==
  Answered => \A s \in Subs : \A f \in LiveRows(s) :
    LET e == row[s][f].event IN
    calendar[e] # None =>
      \/ calendar[e].hash = row[s][f].hash
      \/ \E p \in Procs : run[p].sub = s /\ Written(p, f, e)

EventsSeen ==
  Answered => \A e \in EventIds : calendar[e] # None =>
    \/ \E s \in Subs : \E f \in LiveRows(s) : row[s][f].event = e
    \/ \E p \in Procs, f \in Fixtures : Written(p, f, e)

RemakesMiss(p) == \A a \in run[p].todo : a.stage = "remake" => calendar[a.event] = None

TrackInv ==
  /\ DeletedUnread /\ RowsTell /\ EventsSeen
  /\ \A p \in Procs : Missing(p) /\ Answers(p) /\ RemakesMiss(p)

LEMMA AnsweredStays ==
  ASSUME BaseInv, [Next]_vars, Answered'
  PROVE  Answered
<1>1. /\ \A e \in Events : budget'[e] <= budget[e] /\ budget[e] <= Budget[e]
      /\ \A e \in Events : budget[e] \in Nat /\ Budget[e] \in Nat
  BY NextBudget, EngineAssumption DEF BaseInv, BudgetInv, TypeInv, TypeOK
<1>2. "crash" \in Events /\ "unanswered" \in Events
  BY DEF Events
<1>3. budget'["crash"] = Budget["crash"] /\ budget'["unanswered"] = Budget["unanswered"]
  BY DEF Answered
<1>4. budget["crash"] = Budget["crash"]
  BY <1>1, <1>2, <1>3
<1>5. budget["unanswered"] = Budget["unanswered"]
  BY <1>1, <1>2, <1>3
<1>6. QED
  BY <1>4, <1>5 DEF Answered

\* An action is about a fixture that its run's subscription covers.
LEMMA ActionScope ==
  ASSUME BaseInv, NEW p \in Procs, NEW a \in Action, FromPlan(run[p].load, a), a.fixture # None,
         run[p].todo # {} \/ run[p].done # {}
  PROVE  /\ run[p].pc # "idle" /\ run[p].sub \in Subs /\ run[p].sub # None
         /\ a.fixture \in Fixtures /\ a.fixture \in Scope[run[p].sub]
<1>t. TypeInv /\ TypeOK
  BY DEF BaseInv, TypeInv
<1>1. run[p].pc # "idle"
  BY <1>t, IdleType DEF TypeInv, RunsSound
<1>2. run[p].sub \in Subs /\ run[p].sub # None
  BY <1>1, <1>t DEF TypeOK, Run
<1>3. a.fixture \in Fixtures
  BY DEF Action
<1>4. run[p].load.snap[a.fixture] # None \/ run[p].load.rows[a.fixture] # None
  BY DEF FromPlan, Loaded, IsActive
<1>5. run[p].load.rows[a.fixture] # None => row[run[p].sub][a.fixture] # None
  BY <1>3, <1>t DEF TypeInv, RunsSound
<1>6. QED
  BY <1>1, <1>2, <1>3, <1>4, <1>5 DEF BaseInv, LockInv, Scoped

\* Two runs never act on one fixture.
LEMMA ActApart ==
  ASSUME BaseInv, RunsApart, NEW p \in Procs, NEW q \in Procs, p # q,
         run[p].sub \in Subs, run[q].sub \in Subs, run[p].sub # None,
         NEW f \in Scope[run[p].sub]
  PROVE  f \notin Scope[run[q].sub]
  BY DEF RunsApart, BaseInv, LockInv, OneRun

-----------------------------------------------------------------------------
\* What a call does, once more: it writes the event of its fixture, takes an event
\* away or leaves the calendar alone.
Shrinks == \A d \in EventIds : calendar'[d] \in {calendar[d], None}

Ends(p, a, x) ==
  /\ run'[p].todo = run[p].todo \ {a}
  /\ run'[p].done = run[p].done \cup {[action |-> a, event |-> x]}

PutBy(p, a, e) ==
  /\ a.type # "delete" /\ a.fixture \in Fixtures /\ OwnerOf(e) = a.fixture
  /\ calendar'[e] = Body(p, a) /\ calendar'[e] # None
  /\ calendar'[e].hash = run[p].load.snap[a.fixture].content
  /\ \A d \in EventIds \ {e} : calendar'[d] = calendar[d]
  /\ a.type \in {"update", "cancel"} => e = a.event \/ calendar[a.event] = None

Turned(p, a, b) ==
  /\ b.type = a.type /\ b.fixture = a.fixture /\ b.event = a.event
  /\ run'[p].todo = (run[p].todo \ {a}) \cup {b}
  /\ run'[p].done = run[p].done
  /\ b.stage = "remake" => calendar[b.event] = None

LEMMA CallShape ==
  ASSUME BaseInv, NEW p \in Procs, Calls(p), RemakesMiss(p)
  PROVE  /\ row' = row /\ SameRead(p) /\ OthersKept(p) /\ run'[p].pc = run[p].pc
         /\ \E a \in run[p].todo :
              /\ a \in Action
              /\ \/ \E e \in EventIds, x \in EventIds \cup {None} :
                      /\ PutBy(p, a, e) /\ Ends(p, a, x)
                      /\ x = e \/ (x = None /\ ~ Answered')
                 \/ \E x \in EventIds \cup {None} :
                      /\ Shrinks /\ Ends(p, a, x)
                      /\ x # None => a.type = "delete" /\ x = a.event /\ calendar'[x] = None
                 \/ \E b \in Action : Turned(p, a, b) /\ calendar' = calendar
<1>t. TypeInv /\ TypeOK
  BY DEF BaseInv, TypeInv
<1>1. PICK a \in run[p].todo : \/ \E e \in EventIds : Writes(p, a, e)
                               \/ Restages(p, a)
                               \/ Misses(p, a)
  BY <1>t, CallCases
<1>2. a \in Action /\ Sound(run[p].load, a)
  BY <1>t DEF TypeInv, TypeOK, RunsSound, Run
<1>3. row' = row
  BY <1>t, CallCases DEF OnlyCall
<1>4. ASSUME NEW x \in EventIds \cup {None}, Finish(p, a, x)
      PROVE  SameRead(p) /\ OthersKept(p) /\ run'[p].pc = run[p].pc /\ Ends(p, a, x)
  BY <1>t, <1>4, FinishFrame DEF Ends
<1>5. Spend("unanswered") => ~ Answered'
  <2>1. "unanswered" \in Events
    BY DEF Events
  <2>2. budget["unanswered"] \in Nat /\ budget["unanswered"] <= Budget["unanswered"]
        /\ Budget["unanswered"] \in Nat
    BY <2>1, <1>t, EngineAssumption DEF TypeOK, BaseInv, BudgetInv
  <2>3. Spend("unanswered") => budget'["unanswered"] = budget["unanswered"] - 1
    BY <2>1, <1>t, SpendType
  <2>4. QED
    BY <2>2, <2>3 DEF Answered
<1>6. ASSUME NEW e \in EventIds, Writes(p, a, e)
      PROVE  \E x \in EventIds \cup {None} :
               Finish(p, a, x) /\ (x = e \/ (x = None /\ ~ Answered'))
  BY <1>5, <1>6 DEF Writes
<1>7. ASSUME NEW e \in EventIds, Writes(p, a, e), a.type # "delete"
      PROVE  PutBy(p, a, e)
  <2>1. /\ a.type \in {"create", "recreate", "update", "cancel"}
        /\ calendar'[e] = Body(p, a) /\ \A d \in EventIds \ {e} : calendar'[d] = calendar[d]
    BY <1>t, <1>7, WriteFrame
  <2>2. /\ a.fixture \in Fixtures /\ Body(p, a) # None
        /\ Body(p, a).hash = run[p].load.snap[a.fixture].content
    BY <1>2, <1>t, <2>1, BodyType
  <2>3. OwnerOf(e) = a.fixture
    <3>1. CASE a.type \in {"create", "recreate"}
      BY <1>7, <2>2, <3>1 DEF Writes, OwnerOf
    <3>2. CASE a.type \in {"update", "cancel"}
      <4>1. OwnerOf(a.event) = a.fixture
        BY <1>t, <2>2, <3>2, ActionOwner, NoneType DEF BaseInv
      <4>2. e = a.event \/ (e \in MadeIds /\ MadeFor[e] = a.fixture)
        BY <1>7, <3>2 DEF Writes
      <4>3. QED
        BY <4>1, <4>2, PlannerAssumption DEF OwnerOf
    <3>3. QED
      BY <2>1, <3>1, <3>2
  <2>4. a.type \in {"update", "cancel"} => e = a.event \/ calendar[a.event] = None
    BY <1>7 DEF Writes, RemakesMiss
  <2>5. QED
    BY <2>1, <2>2, <2>3, <2>4 DEF PutBy
<1>8. ASSUME NEW e \in EventIds, Writes(p, a, e), a.type = "delete"
      PROVE  Shrinks /\ e = a.event /\ calendar'[e] = None
  <2>1. e = a.event
    BY <1>8 DEF Writes
  <2>2. calendar'[e] = None /\ \A d \in EventIds \ {e} : calendar'[d] = calendar[d]
    BY <1>t, <1>8, WriteFrame
  <2>3. QED
    BY <2>1, <2>2 DEF Shrinks
<1>9. ASSUME Restages(p, a)
      PROVE  /\ SameRead(p) /\ OthersKept(p) /\ run'[p].pc = run[p].pc
             /\ \E b \in Action : Turned(p, a, b) /\ calendar' = calendar
  <2>1. ASSUME NEW stage \in {"repair", "remake"}, Restage(p, a, stage),
               stage = "remake" => calendar[a.event] = None
        PROVE  /\ SameRead(p) /\ OthersKept(p) /\ run'[p].pc = run[p].pc
               /\ \E b \in Action : Turned(p, a, b) /\ calendar' = calendar
    BY <1>t, <2>1, RestageFrame DEF Turned
  <2>2. QED
    BY <1>9, <2>1 DEF Restages
<1>10. CASE \E e \in EventIds : Writes(p, a, e)
  <2>1. PICK e \in EventIds : Writes(p, a, e)
    BY <1>10
  <2>2. PICK x \in EventIds \cup {None} : Finish(p, a, x) /\ (x = e \/ (x = None /\ ~ Answered'))
    BY <1>6, <2>1
  <2>3. SameRead(p) /\ OthersKept(p) /\ run'[p].pc = run[p].pc /\ Ends(p, a, x)
    BY <1>4, <2>2
  <2>4. CASE a.type = "delete"
    <3>1. Shrinks /\ Ends(p, a, x) /\ (x # None => a.type = "delete" /\ x = a.event /\ calendar'[x] = None)
      BY <1>8, <2>1, <2>2, <2>3, <2>4
    <3>2. QED
      BY <1>2, <1>3, <2>3, <3>1
  <2>5. CASE a.type # "delete"
    <3>1. PutBy(p, a, e) /\ Ends(p, a, x) /\ (x = e \/ (x = None /\ ~ Answered'))
      BY <1>7, <2>1, <2>2, <2>3, <2>5
    <3>2. QED
      BY <1>2, <1>3, <2>3, <3>1
  <2>6. QED
    BY <2>4, <2>5
<1>11. CASE Restages(p, a)
  BY <1>2, <1>3, <1>9, <1>11
<1>12. CASE Misses(p, a)
  <2>1. Finish(p, a, None) /\ calendar' = calendar
    BY <1>12 DEF Misses
  <2>2. SameRead(p) /\ OthersKept(p) /\ run'[p].pc = run[p].pc /\ Ends(p, a, None)
    BY <1>4, <2>1
  <2>3. Shrinks
    BY <2>1 DEF Shrinks
  <2>4. QED
    BY <1>2, <1>3, <2>2, <2>3
<1>13. QED
  BY <1>1, <1>10, <1>11, <1>12

-----------------------------------------------------------------------------
\* What the run of q relies on is left as it is by a step that keeps its results and
\* its rows, and only takes away events of the fixtures it covers.
LEMMA SameTrack ==
  ASSUME BaseInv, NEW q \in Procs, Missing(q), Answers(q), RemakesMiss(q),
         run'[q].sub = run[q].sub, run'[q].load = run[q].load, run'[q].done = run[q].done,
         run'[q].todo \subseteq run[q].todo,
         run[q].pc # "idle" =>
           /\ row'[run[q].sub] = row[run[q].sub]
           /\ \A d \in EventIds : OwnerOf(d) \in Scope[run[q].sub] =>
                (calendar'[d] # None => calendar[d] # None /\ calendar'[d].hash = calendar[d].hash)
  PROVE  Missing(q)' /\ Answers(q)' /\ RemakesMiss(q)'
<1>t. TypeInv /\ TypeOK
  BY DEF BaseInv, TypeInv
<1>1. CASE run[q].pc = "idle"
  <2>1. run[q].todo = {} /\ run[q].done = {} /\ ~ run[q].load.known
    BY <1>1, <1>t, IdleType DEF TypeInv, RunsSound, NoLoad
  <2>2. QED
    BY <2>1 DEF Missing, Answers, RemakesMiss
<1>2. CASE run[q].pc # "idle"
  <2>1. Missing(q)'
    BY <1>2 DEF Missing, EventsOf
  <2>2. ASSUME NEW r \in run[q].done, r.event # None, r.action.fixture # None
        PROVE  /\ r.event \in EventIds /\ r.action.fixture \in Fixtures
               /\ OwnerOf(r.event) \in Scope[run[q].sub]
               /\ r.action.fixture \in LiveRows(run[q].sub) =>
                    LET e == row[run[q].sub][r.action.fixture].event IN
                    e \in EventIds /\ OwnerOf(e) \in Scope[run[q].sub]
    <3>1. r.event \in EventIds /\ r.action \in Action
      BY <2>2, <1>t DEF TypeOK, Run, Result
    <3>2. r.action.fixture \in Fixtures /\ r.action.fixture \in Scope[run[q].sub]
      BY <2>2, <3>1, ActionScope DEF BaseInv, PlansKept, PlanKept
    <3>3. OwnerOf(r.event) = r.action.fixture
      BY <2>2 DEF BaseInv, EventsOwned
    <3>4. ASSUME r.action.fixture \in LiveRows(run[q].sub)
          PROVE  LET e == row[run[q].sub][r.action.fixture].event IN
                 e \in EventIds /\ OwnerOf(e) = r.action.fixture
      <4>1. run[q].sub \in Subs /\ row[run[q].sub][r.action.fixture] # None
        BY <1>2, <3>2, <3>4, <1>t DEF TypeOK, Run, LiveRows
      <4>2. row[run[q].sub][r.action.fixture] \in Mapping
            /\ row[run[q].sub][r.action.fixture].event # None
        BY <3>2, <4>1, <1>t DEF TypeOK, TypeInv, RowsConfirmed
      <4>3. OwnerOf(row[run[q].sub][r.action.fixture].event) = r.action.fixture
        BY <3>2, <4>1 DEF BaseInv, EventsOwned
      <4>4. QED
        BY <4>2, <4>3 DEF Mapping
    <3>5. QED
      BY <3>1, <3>2, <3>3, <3>4
  <2>3. Answers(q)'
    <3>0. /\ run'[q].done = run[q].done /\ run'[q].sub = run[q].sub /\ run'[q].load = run[q].load
          /\ row'[run[q].sub] = row[run[q].sub]
          /\ LiveRows(run[q].sub)' = LiveRows(run[q].sub)
      BY <1>2 DEF LiveRows
    <3> SUFFICES ASSUME NEW r \in run[q].done, r.event # None, r.action.fixture # None
                 PROVE  LET f == r.action.fixture IN
    /\ r.action.type = "delete" => r.event = r.action.event /\ calendar'[r.event] = None
    /\ r.action.type # "delete" =>
         /\ calendar'[r.event] # None => calendar'[r.event].hash = run[q].load.snap[f].content
         /\ f \in LiveRows(run[q].sub) =>
              r.event = row[run[q].sub][f].event \/ calendar'[row[run[q].sub][f].event] = None
      BY <3>0, SMTT(30) DEF Answers
    <3>1. calendar'[r.event] # None =>
            calendar[r.event] # None /\ calendar'[r.event].hash = calendar[r.event].hash
      BY <1>2, <2>2
    <3>2. r.action.fixture \in LiveRows(run[q].sub) =>
            LET e == row[run[q].sub][r.action.fixture].event IN
            calendar'[e] # None => calendar[e] # None
      BY <1>2, <2>2
    <3>3. LET f == r.action.fixture IN
          /\ r.action.type = "delete" => r.event = r.action.event /\ calendar[r.event] = None
          /\ r.action.type # "delete" =>
               /\ calendar[r.event] # None => calendar[r.event].hash = run[q].load.snap[f].content
               /\ f \in LiveRows(run[q].sub) =>
                    r.event = row[run[q].sub][f].event \/ calendar[row[run[q].sub][f].event] = None
      BY DEF Answers
    <3>4. CASE r.action.type = "delete"
      BY <3>1, <3>3, <3>4
    <3>5. CASE r.action.type # "delete"
      BY <3>1, <3>2, <3>3, <3>5
    <3>6. QED
      BY <3>4, <3>5
  <2>4. RemakesMiss(q)'
    <3> SUFFICES ASSUME NEW a \in run[q].todo, a.stage = "remake"
                 PROVE  calendar'[a.event] = None
      BY DEF RemakesMiss
    <3>1. a \in Action /\ Sound(run[q].load, a) /\ FromPlan(run[q].load, a) /\ Staged(a)
      BY <1>t DEF TypeInv, TypeOK, RunsSound, Run, BaseInv, PlansKept, PlanKept
    <3>2. a.type \in {"update", "cancel"} /\ a.fixture # None
      BY <3>1 DEF Staged, Sound
    <3>3. a.event \in EventIds
      BY <1>t, <3>1, <3>2, EventType
    <3>4. OwnerOf(a.event) \in Scope[run[q].sub]
      BY <1>t, <3>1, <3>2, ActionOwner, ActionScope DEF BaseInv
    <3>5. QED
      BY <1>2, <3>3, <3>4 DEF RemakesMiss
  <2>5. QED
    BY <2>1, <2>3, <2>4
<1>3. QED
  BY <1>1, <1>2

LEMMA IdleTrack ==
  ASSUME NEW p \in Procs, run'[p] = IdleRun
  PROVE  Missing(p)' /\ Answers(p)' /\ RemakesMiss(p)' /\ \A f, e : ~ Written(p, f, e)'
BY IdleType DEF Missing, Answers, RemakesMiss, Written, NoLoad

\* A create or recreate of a mapped fixture is of one whose event is not there.
LEMMA CreateUnmapped ==
  ASSUME BaseInv, RunsApart, NEW p \in Procs, Missing(p), NEW a \in run[p].todo,
         a.type \in {"create", "recreate"}, a.fixture \in LiveRows(run[p].sub)
  PROVE  calendar[row[run[p].sub][a.fixture].event] = None
<1> DEFINE load == run[p].load
           f == a.fixture
           m == row[run[p].sub][f]
<1>t. TypeInv /\ TypeOK /\ load \in Load
  BY DEF BaseInv, TypeInv, TypeOK, Run
<1>1. a \in Action /\ FromPlan(load, a) /\ Sound(load, a)
  BY <1>t DEF TypeInv, TypeOK, RunsSound, Run, BaseInv, PlansKept, PlanKept
<1>2. f # None
  BY <1>1 DEF Sound
<1>3. run[p].pc # "idle" /\ run[p].sub \in Subs /\ f \in Fixtures /\ f \in Scope[run[p].sub]
  BY <1>1, <1>2, ActionScope
<1>4. load.rows[f] = m /\ m # None /\ ~ m.deleted
  BY <1>3 DEF BaseInv, LockInv, RowsHeld, RunsApart, LiveRows
<1>5. m \in Mapping /\ m.event # None
  BY <1>3, <1>4, <1>t DEF TypeOK, TypeInv, RowsConfirmed
<1>6. m.event \in EventIds /\ OwnerOf(m.event) = f
  BY <1>3, <1>4, <1>5 DEF Mapping, BaseInv, EventsOwned
<1>7. f \in Loaded(load) /\ f \notin load.blocked
      /\ Verdict(load.snap[f], load.rows[f], Canonical(load, f),
                 load.known /\ IsConfirmed(load.rows[f])) = a.type
  BY <1>1 DEF FromPlan, VerdictOn
<1>8. IsConfirmed(load.rows[f])
  BY <1>4, <1>5 DEF IsConfirmed
<1>9. load.known /\ Canonical(load, f) = None
  BY <1>4, <1>7, <1>8 DEF Verdict
<1>10. EventsOf(load, f) = {}
  <2>1. \A e \in EventsOf(load, f) : load.remote[e] # None
    BY DEF EventsOf
  <2>2. QED
    BY <1>9, <2>1 DEF Canonical
<1>11. \A r \in run[p].done : r.action.fixture # f
  BY <1>2 DEF BaseInv, PlansKept, PlanKept
<1>12. QED
  BY <1>3, <1>6, <1>9, <1>10, <1>11 DEF Missing

\* The run whose call it is.
LEMMA CallAnswers ==
  ASSUME BaseInv, RunsApart, NEW p \in Procs, Calls(p), Missing(p), Answers(p), RemakesMiss(p)
  PROVE  Missing(p)' /\ Answers(p)' /\ RemakesMiss(p)'
<1>t. TypeInv /\ TypeOK
  BY DEF BaseInv, TypeInv
<1>r. row' = row /\ SameRead(p)
  BY CallShape
<1>1. PICK a \in run[p].todo :
              /\ a \in Action
              /\ \/ \E e \in EventIds, x \in EventIds \cup {None} :
                      /\ PutBy(p, a, e) /\ Ends(p, a, x)
                      /\ x = e \/ (x = None /\ ~ Answered')
                 \/ \E x \in EventIds \cup {None} :
                      /\ Shrinks /\ Ends(p, a, x)
                      /\ x # None => a.type = "delete" /\ x = a.event /\ calendar'[x] = None
                 \/ \E b \in Action : Turned(p, a, b) /\ calendar' = calendar
  BY CallShape
<1>2. FromPlan(run[p].load, a) /\ Sound(run[p].load, a)
  BY <1>t DEF TypeInv, RunsSound, BaseInv, PlansKept, PlanKept
<1>3. ASSUME NEW r \in run[p].done, r.event # None, r.action.fixture # None
      PROVE  /\ r.event \in EventIds /\ OwnerOf(r.event) = r.action.fixture
             /\ r.action.fixture \in Fixtures /\ r.action.fixture # a.fixture
             /\ r.action.fixture \in LiveRows(run[p].sub) =>
                  LET e == row[run[p].sub][r.action.fixture].event IN
                  e \in EventIds /\ OwnerOf(e) = r.action.fixture
  <2>1. r.event \in EventIds /\ r.action \in Action
    BY <1>3, <1>t DEF TypeOK, Run, Result
  <2>2. r.action.fixture \in Fixtures /\ run[p].sub \in Subs
    BY <1>3, <2>1, ActionScope DEF BaseInv, PlansKept, PlanKept
  <2>3. OwnerOf(r.event) = r.action.fixture /\ r.action.fixture # a.fixture
    BY <1>3 DEF BaseInv, EventsOwned, PlansKept, PlanKept
  <2>4. r.action.fixture \in LiveRows(run[p].sub) =>
          /\ row[run[p].sub][r.action.fixture] \in Mapping
          /\ row[run[p].sub][r.action.fixture].event # None
          /\ OwnerOf(row[run[p].sub][r.action.fixture].event) = r.action.fixture
    BY <2>2, <1>t DEF TypeOK, TypeInv, RowsConfirmed, LiveRows, BaseInv, EventsOwned
  <2>5. QED
    BY <2>1, <2>2, <2>3, <2>4 DEF Mapping
<1>4. ASSUME NEW b \in run[p].todo, b.stage = "remake", b # a
      PROVE  b.event \in EventIds /\ OwnerOf(b.event) # a.fixture
  <2>1. b \in Action /\ Sound(run[p].load, b) /\ Staged(b)
    BY <1>t DEF TypeInv, TypeOK, RunsSound, Run, BaseInv, PlansKept, PlanKept
  <2>2. b.type \in {"update", "cancel"} /\ b.fixture # None
    BY <1>4, <2>1 DEF Staged, Sound
  <2>3. b.event \in EventIds
    BY <1>t, <2>1, <2>2, EventType
  <2>4. OwnerOf(b.event) = b.fixture
    BY <1>t, <2>2, ActionOwner DEF BaseInv
  <2>5. b.fixture # a.fixture
    BY <1>4, <2>2 DEF BaseInv, PlansKept, PlanKept
  <2>6. QED
    BY <2>3, <2>4, <2>5
<1>5. ASSUME NEW e \in EventIds, NEW x \in EventIds \cup {None}, PutBy(p, a, e), Ends(p, a, x),
             x = e \/ (x = None /\ ~ Answered')
      PROVE  Missing(p)' /\ Answers(p)' /\ RemakesMiss(p)'
  <2>1. \A d \in EventIds : OwnerOf(d) # a.fixture => calendar'[d] = calendar[d]
    BY <1>5 DEF PutBy
  <2>2. Missing(p)'
    <3>1. \A f \in Scope[run[p].sub] :
            (\A r \in run'[p].done : r.action.fixture # f) => f # a.fixture
      <4>1. [action |-> a, event |-> x] \in run'[p].done /\ [action |-> a, event |-> x].action = a
        BY <1>5 DEF Ends
      <4>2. QED
        BY <4>1
    <3>2. \A r \in run[p].done : r \in run'[p].done
      BY <1>5 DEF Ends
    <3>3. QED
      BY <1>r, <2>1, <3>1, <3>2 DEF Missing, EventsOf, SameRead
  <2>3. RemakesMiss(p)'
    BY <1>4, <1>5, <2>1 DEF RemakesMiss, Ends
  <2>4. Answers(p)'
    <3> SUFFICES ASSUME NEW r \in run'[p].done, r.event # None, r.action.fixture # None
                 PROVE  LET f == r.action.fixture IN
    /\ r.action.type = "delete" => r.event = r.action.event /\ calendar'[r.event] = None
    /\ r.action.type # "delete" =>
         /\ calendar'[r.event] # None => calendar'[r.event].hash = run[p].load.snap[f].content
         /\ f \in LiveRows(run[p].sub) =>
              r.event = row[run[p].sub][f].event \/ calendar'[row[run[p].sub][f].event] = None
      BY <1>r DEF Answers, LiveRows, SameRead
    <3>1. CASE r \in run[p].done
      BY <1>3, <2>1, <3>1 DEF Answers
    <3>2. CASE r = [action |-> a, event |-> x]
      <4>1. r.action = a /\ r.event = e
        BY <1>5, <3>2
      <4>2. a.type # "delete" /\ calendar'[e].hash = run[p].load.snap[a.fixture].content
        BY <1>5 DEF PutBy
      <4>3. ASSUME a.fixture \in LiveRows(run[p].sub)
            PROVE  e = row[run[p].sub][a.fixture].event
                   \/ calendar'[row[run[p].sub][a.fixture].event] = None
        <5>1. /\ run[p].pc # "idle" /\ run[p].sub \in Subs /\ a.fixture \in Fixtures
          BY <1>1, <1>2, <3>2, ActionScope
        <5>2. row[run[p].sub][a.fixture] \in Mapping
              /\ row[run[p].sub][a.fixture].event \in EventIds
          BY <1>t, <4>3, <5>1 DEF TypeOK, TypeInv, RowsConfirmed, LiveRows, Mapping
        <5>3. a.event = EventOf(run[p].load.rows[a.fixture])
          BY <1>2, <3>2 DEF Sound
        <5>4. run[p].load.rows[a.fixture] = row[run[p].sub][a.fixture]
              /\ row[run[p].sub][a.fixture] # None
          BY <4>3, <5>1 DEF BaseInv, LockInv, RowsHeld, RunsApart, LiveRows
        <5>5. a.event = row[run[p].sub][a.fixture].event
          BY <5>3, <5>4 DEF EventOf
        <5>6. \A d \in EventIds : d = e \/ calendar'[d] = calendar[d]
          BY <1>5 DEF PutBy
        <5>7. CASE a.type \in {"create", "recreate"}
          <6>1. calendar[row[run[p].sub][a.fixture].event] = None
            BY <4>3, <5>7, CreateUnmapped
          <6>2. QED
            BY <5>2, <5>6, <6>1
        <5>8. CASE a.type \in {"update", "cancel"}
          <6>1. e = a.event \/ calendar[a.event] = None
            BY <1>5, <5>8 DEF PutBy
          <6>2. QED
            BY <5>2, <5>5, <5>6, <6>1
        <5>9. a.type \in {"create", "recreate", "update", "cancel"}
          <6>1. Mutates(a) /\ a.type \in ActionType
            BY <1>t, <1>1 DEF TypeInv, RunsSound, Action
          <6>2. QED
            BY <4>2, <6>1 DEF Mutates, ActionType
        <5>10. QED
          BY <5>7, <5>8, <5>9
      <4>4. QED
        BY <4>1, <4>2, <4>3
    <3>3. QED
      BY <1>5, <3>1, <3>2 DEF Ends
  <2>5. QED
    BY <2>2, <2>3, <2>4
<1>6. ASSUME NEW x \in EventIds \cup {None}, Shrinks, Ends(p, a, x),
             x # None => a.type = "delete" /\ x = a.event /\ calendar'[x] = None
      PROVE  Missing(p)' /\ Answers(p)' /\ RemakesMiss(p)'
  <2>1. \A d \in EventIds : calendar'[d] = calendar[d] \/ calendar'[d] = None
    BY <1>6 DEF Shrinks
  <2>2. Missing(p)'
    <3>1. \A r \in run[p].done : r \in run'[p].done
      BY <1>6 DEF Ends
    <3>2. QED
      BY <1>r, <2>1, <3>1 DEF Missing, EventsOf, SameRead
  <2>3. RemakesMiss(p)'
    <3>1. \A b \in run'[p].todo : b \in run[p].todo /\ b # a
      BY <1>6 DEF Ends
    <3>2. QED
      BY <1>4, <2>1, <3>1 DEF RemakesMiss
  <2>4. Answers(p)'
    <3> SUFFICES ASSUME NEW r \in run'[p].done, r.event # None, r.action.fixture # None
                 PROVE  LET f == r.action.fixture IN
    /\ r.action.type = "delete" => r.event = r.action.event /\ calendar'[r.event] = None
    /\ r.action.type # "delete" =>
         /\ calendar'[r.event] # None => calendar'[r.event].hash = run[p].load.snap[f].content
         /\ f \in LiveRows(run[p].sub) =>
              r.event = row[run[p].sub][f].event \/ calendar'[row[run[p].sub][f].event] = None
      BY <1>r DEF Answers, LiveRows, SameRead
    <3>1. CASE r \in run[p].done
      BY <1>3, <2>1, <3>1 DEF Answers
    <3>2. CASE r = [action |-> a, event |-> x]
      BY <1>6, <3>2
    <3>3. QED
      BY <1>6, <3>1, <3>2 DEF Ends
  <2>5. QED
    BY <2>2, <2>3, <2>4
<1>7. ASSUME NEW b \in Action, Turned(p, a, b), calendar' = calendar
      PROVE  Missing(p)' /\ Answers(p)' /\ RemakesMiss(p)'
  <2>1. Missing(p)'
    BY <1>7, <1>r DEF Missing, Turned, SameRead, EventsOf
  <2>2. Answers(p)'
    <3>1. /\ run'[p].done = run[p].done /\ run'[p].sub = run[p].sub
          /\ run'[p].load = run[p].load /\ row' = row /\ calendar' = calendar
      BY <1>7, <1>r DEF Turned, SameRead
    <3>2. LiveRows(run[p].sub)' = LiveRows(run[p].sub)
      BY <3>1 DEF LiveRows
    <3>3. QED
      BY ONLY <3>1, <3>2, Answers(p) DEF Answers
  <2>3. RemakesMiss(p)'
    BY <1>7 DEF RemakesMiss, Turned
  <2>4. QED
    BY <2>1, <2>2, <2>3
<1>8. QED
  BY <1>1, <1>5, <1>6, <1>7

-----------------------------------------------------------------------------
\* What rows and results say of the calendar does not depend on what is still to do.
LEMMA CallSeen ==
  ASSUME BaseInv, RunsApart, TrackInv, NEW p \in Procs, Calls(p), Answered' => Answered
  PROVE  RowsTell' /\ EventsSeen'
<1>t. TypeInv /\ TypeOK
  BY DEF BaseInv, TypeInv
<1>r. row' = row /\ SameRead(p) /\ OthersKept(p)
  BY CallShape DEF TrackInv
<1>1. PICK a \in run[p].todo :
              /\ a \in Action
              /\ \/ \E e \in EventIds, x \in EventIds \cup {None} :
                      /\ PutBy(p, a, e) /\ Ends(p, a, x)
                      /\ x = e \/ (x = None /\ ~ Answered')
                 \/ \E x \in EventIds \cup {None} :
                      /\ Shrinks /\ Ends(p, a, x)
                      /\ x # None => a.type = "delete" /\ x = a.event /\ calendar'[x] = None
                 \/ \E b \in Action : Turned(p, a, b) /\ calendar' = calendar
  BY CallShape DEF TrackInv
<1>2. FromPlan(run[p].load, a)
  BY <1>t DEF BaseInv, PlansKept, PlanKept
<1>3. run[p].done \subseteq run'[p].done
  BY <1>1 DEF Ends, Turned
<1>4. \A q \in Procs : \A f, e : Written(q, f, e) => Written(q, f, e)' /\ run'[q].sub = run[q].sub
  <2>1. ASSUME NEW q \in Procs PROVE run[q].done \subseteq run'[q].done /\ run'[q].sub = run[q].sub
    BY <1>r, <1>3 DEF OthersKept, SameRead
  <2>2. QED
    BY <2>1 DEF Written
<1>5. \A s \in Subs : LiveRows(s)' = LiveRows(s)
  BY <1>r DEF LiveRows
<1>6. \A s \in Subs : \A f \in LiveRows(s) :
        f \in Fixtures /\ row[s][f].event \in EventIds /\ OwnerOf(row[s][f].event) = f /\ f \in Scope[s]
  <2>1. ASSUME NEW s \in Subs, NEW f \in LiveRows(s)
        PROVE  f \in Fixtures /\ row[s][f] \in Mapping /\ row[s][f].event # None /\ row[s][f] # None
    BY <1>t DEF LiveRows, TypeOK, TypeInv, RowsConfirmed
  <2>2. QED
    BY <2>1 DEF BaseInv, EventsOwned, LockInv, Scoped, Mapping
<1>7. ASSUME NEW e \in EventIds, NEW x \in EventIds \cup {None}, PutBy(p, a, e), Ends(p, a, x),
             x = e \/ (x = None /\ ~ Answered')
      PROVE  RowsTell' /\ EventsSeen'
  <2>1. CASE ~ Answered'
    BY <2>1 DEF RowsTell, EventsSeen
  <2>2. CASE Answered'
    <3>1. Written(p, a.fixture, e)'
      <4>1. [action |-> a, event |-> e] \in run'[p].done
        BY <1>7, <2>2 DEF Ends
      <4>2. a.type # "delete"
        BY <1>7 DEF PutBy
      <4>3. QED
        BY <4>1, <4>2 DEF Written
    <3>2. a.fixture \in Fixtures /\ OwnerOf(e) = a.fixture
          /\ \A d \in EventIds \ {e} : calendar'[d] = calendar[d]
      BY <1>7 DEF PutBy
    <3>3. run'[p].sub = run[p].sub /\ run[p].sub \in Subs /\ a.fixture \in Scope[run[p].sub]
      BY <1>r, <1>1, <1>2, <3>2, NoneType, ActionScope DEF SameRead
    <3>4. RowsTell'
      <4> SUFFICES ASSUME NEW s \in Subs, NEW f \in LiveRows(s), NEW d, d = row[s][f].event,
                          calendar'[d] # None
                   PROVE  \/ calendar'[d].hash = row[s][f].hash
                          \/ \E q \in Procs : run'[q].sub = s /\ Written(q, f, d)'
        BY <1>r, <1>5 DEF RowsTell
      <4>1. CASE d = e
        <5>1. f = a.fixture /\ f \in Scope[s]
          BY <1>6, <3>2, <4>1
        <5>2. s = run[p].sub
          BY <3>3, <5>1 DEF RunsApart
        <5>3. QED
          BY <3>1, <3>3, <4>1, <5>1, <5>2
      <4>2. CASE d # e
        <5>1. calendar'[d] = calendar[d]
          BY <1>6, <3>2, <4>2
        <5>2. \/ calendar[d].hash = row[s][f].hash
              \/ \E q \in Procs : run[q].sub = s /\ Written(q, f, d)
          BY <2>2, <5>1 DEF TrackInv, RowsTell
        <5>3. QED
          BY <1>4, <5>1, <5>2
      <4>3. QED
        BY <4>1, <4>2
    <3>5. EventsSeen'
      <4> SUFFICES ASSUME NEW d \in EventIds, calendar'[d] # None
                   PROVE  \/ \E s \in Subs : \E f \in LiveRows(s) : row[s][f].event = d
                          \/ \E q \in Procs, f \in Fixtures : Written(q, f, d)'
        BY <1>r, <1>5 DEF EventsSeen
      <4>1. CASE d = e
        BY <3>1, <3>2, <4>1
      <4>2. CASE d # e
        <5>1. \/ \E s \in Subs : \E f \in LiveRows(s) : row[s][f].event = d
              \/ \E q \in Procs, f \in Fixtures : Written(q, f, d)
          BY <2>2, <3>2, <4>2 DEF TrackInv, EventsSeen
        <5>2. QED
          BY <1>4, <5>1
      <4>3. QED
        BY <4>1, <4>2
    <3>6. QED
      BY <3>4, <3>5
  <2>3. QED
    BY <2>1, <2>2
<1>8. ASSUME \A d \in EventIds : calendar'[d] \in {calendar[d], None}
      PROVE  RowsTell' /\ EventsSeen'
  <2>1. \A d \in EventIds : calendar'[d] # None => calendar'[d] = calendar[d]
    BY <1>8
  <2>2. RowsTell'
    <3> SUFFICES ASSUME Answered', NEW s \in Subs, NEW f \in LiveRows(s), NEW d,
                        d = row[s][f].event, calendar'[d] # None
                 PROVE  \/ calendar'[d].hash = row[s][f].hash
                        \/ \E q \in Procs : run'[q].sub = s /\ Written(q, f, d)'
      BY <1>r, <1>5 DEF RowsTell
    <3>1. calendar'[d] = calendar[d]
      BY <1>6, <2>1
    <3>2. \/ calendar[d].hash = row[s][f].hash
          \/ \E q \in Procs : run[q].sub = s /\ Written(q, f, d)
      BY <3>1 DEF TrackInv, RowsTell
    <3>3. QED
      BY <1>4, <3>1, <3>2
  <2>3. EventsSeen'
    <3> SUFFICES ASSUME Answered', NEW d \in EventIds, calendar'[d] # None
                 PROVE  \/ \E s \in Subs : \E f \in LiveRows(s) : row[s][f].event = d
                        \/ \E q \in Procs, f \in Fixtures : Written(q, f, d)'
      BY <1>r, <1>5 DEF EventsSeen
    <3>1. \/ \E s \in Subs : \E f \in LiveRows(s) : row[s][f].event = d
          \/ \E q \in Procs, f \in Fixtures : Written(q, f, d)
      BY <2>1 DEF TrackInv, EventsSeen
    <3>2. QED
      BY <1>4, <3>1
  <2>4. QED
    BY <2>2, <2>3
<1>9. QED
  BY <1>1, <1>7, <1>8 DEF Shrinks

LEMMA CallTrack ==
  ASSUME BaseInv, RunsApart, TrackInv, NEW p \in Procs, Calls(p), Answered' => Answered
  PROVE  TrackInv'
<1>t. TypeInv /\ TypeOK
  BY DEF BaseInv, TypeInv
<1>1. RowsTell' /\ EventsSeen'
  BY CallSeen
<1>2. row' = row /\ SameRead(p) /\ OthersKept(p) /\ run'[p].pc = run[p].pc
  BY CallShape DEF TrackInv
<1>3. DeletedUnread'
  <2>1. ASSUME NEW q \in Procs
        PROVE  run'[q].pc = run[q].pc /\ run'[q].sub = run[q].sub /\ run'[q].load = run[q].load
    BY <1>2 DEF OthersKept, SameRead
  <2>2. QED
    BY <1>2, <2>1 DEF TrackInv, DeletedUnread
<1>4. Missing(p)' /\ Answers(p)' /\ RemakesMiss(p)'
  BY CallAnswers DEF TrackInv
<1>5. ASSUME NEW q \in Procs, q # p PROVE Missing(q)' /\ Answers(q)' /\ RemakesMiss(q)'
  <2>1. run'[q] = run[q]
    BY <1>2, <1>5 DEF OthersKept
  <2>2. ASSUME run[q].pc # "idle", NEW d \in EventIds, OwnerOf(d) \in Scope[run[q].sub]
        PROVE  calendar'[d] # None => calendar[d] # None /\ calendar'[d].hash = calendar[d].hash
    <3>1. PICK a \in run[p].todo :
              /\ a \in Action
              /\ \/ \E e \in EventIds, x \in EventIds \cup {None} : PutBy(p, a, e) /\ Ends(p, a, x)
                 \/ Shrinks
                 \/ calendar' = calendar
      BY CallShape DEF TrackInv
    <3>2. ASSUME NEW e \in EventIds, PutBy(p, a, e) PROVE calendar'[d] = calendar[d]
      <4>1. FromPlan(run[p].load, a) /\ a.fixture # None
        BY <3>2, NoneType DEF PutBy, BaseInv, PlansKept, PlanKept
      <4>2. run[p].sub \in Subs /\ run[p].sub # None /\ a.fixture \in Scope[run[p].sub]
        BY <3>1, <4>1, ActionScope
      <4>3. run[q].sub \in Subs /\ run[q].sub # None
        BY <1>t, <2>2 DEF TypeOK, Run
      <4>4. a.fixture \notin Scope[run[q].sub]
        BY <1>5, <4>2, <4>3, ActApart
      <4>5. d # e
        BY <2>2, <3>2, <4>4 DEF PutBy
      <4>6. QED
        BY <3>2, <4>5 DEF PutBy
    <3>3. QED
      BY <3>1, <3>2 DEF Shrinks
  <2>3. QED
    BY <1>2, <2>1, <2>2, SameTrack DEF TrackInv
<1>6. QED
  BY <1>1, <1>3, <1>4, <1>5 DEF TrackInv

\* A step that writes no mapping and no event.  Events may only go, or keep their
\* hash; the results of a run that ends must not be needed any more.
LEMMA QuietTrack ==
  ASSUME BaseInv, TrackInv, Answered' => Answered, row' = row,
         \A d \in EventIds :
           calendar'[d] # None => calendar[d] # None /\ calendar'[d].hash = calendar[d].hash,
         \A q \in Procs :
           \/ /\ run'[q].sub = run[q].sub /\ run'[q].load = run[q].load
              /\ run'[q].done = run[q].done /\ run'[q].todo \subseteq run[q].todo
              /\ run'[q].pc = run[q].pc
           \/ run[q].done = {} /\ Missing(q)' /\ Answers(q)' /\ RemakesMiss(q)',
         DeletedUnread'
  PROVE  TrackInv'
<1>t. TypeInv /\ TypeOK
  BY DEF BaseInv, TypeInv
<1>1. \A q \in Procs : Missing(q)' /\ Answers(q)' /\ RemakesMiss(q)'
  BY SameTrack DEF TrackInv
<1>2. \A q \in Procs : \A f, e : Written(q, f, e) => Written(q, f, e)' /\ run'[q].sub = run[q].sub
  BY DEF Written
<1>3. \A s \in Subs : LiveRows(s)' = LiveRows(s)
  BY DEF LiveRows
<1>4. \A s \in Subs : \A f \in LiveRows(s) : row[s][f].event \in EventIds
  <2>1. ASSUME NEW s \in Subs, NEW f \in LiveRows(s)
        PROVE  row[s][f] \in Mapping /\ row[s][f].event # None
    BY <1>t DEF LiveRows, TypeOK, TypeInv, RowsConfirmed
  <2>2. QED
    BY <2>1 DEF Mapping
<1>5. RowsTell'
  <2> SUFFICES ASSUME Answered', NEW s \in Subs, NEW f \in LiveRows(s), NEW d,
                      d = row[s][f].event, calendar'[d] # None
               PROVE  \/ calendar'[d].hash = row[s][f].hash
                      \/ \E q \in Procs : run'[q].sub = s /\ Written(q, f, d)'
    BY <1>3 DEF RowsTell
  <2>1. calendar[d] # None /\ calendar'[d].hash = calendar[d].hash
    BY <1>4
  <2>2. \/ calendar[d].hash = row[s][f].hash
        \/ \E q \in Procs : run[q].sub = s /\ Written(q, f, d)
    BY <2>1 DEF TrackInv, RowsTell
  <2>3. QED
    BY <1>2, <2>1, <2>2
<1>6. EventsSeen'
  <2> SUFFICES ASSUME Answered', NEW d \in EventIds, calendar'[d] # None
               PROVE  \/ \E s \in Subs : \E f \in LiveRows(s) : row[s][f].event = d
                      \/ \E q \in Procs, f \in Fixtures : Written(q, f, d)'
    BY <1>3 DEF EventsSeen
  <2>1. \/ \E s \in Subs : \E f \in LiveRows(s) : row[s][f].event = d
        \/ \E q \in Procs, f \in Fixtures : Written(q, f, d)
    BY DEF TrackInv, EventsSeen
  <2>2. QED
    BY <1>2, <2>1
<1>7. QED
  BY <1>1, <1>5, <1>6 DEF TrackInv

-----------------------------------------------------------------------------
\* What a run has just read and planned.
LEMMA LoadTrack ==
  ASSUME BaseInv, RunsApart, GoneInv, TrackInv, NEW p \in Procs, NEW s \in Subs,
         NEW mode \in SyncMode, LoadAndPlan(p, s, mode), Answered' => Answered
  PROVE  TrackInv'
<1>t. TypeInv /\ TypeOK
  BY DEF BaseInv, TypeInv
<1>1. /\ OthersKept(p) /\ run[p].pc = "idle" /\ run'[p].sub = s
      /\ row' = row /\ calendar' = calendar /\ fixture' = fixture
  BY <1>t, LoadFrame
<1>2. PICK page \in Pages(Candidates(s, mode)) : run'[p].load = ReadBy(s, page)
  BY <1>t, LoadFrame
<1>3. ~ run'[p].load.known
  BY <1>2 DEF ReadBy
<1>4. /\ \A r \in run'[p].done : r.event = None
      /\ \A a \in run'[p].todo : a.stage = "first"
  <2>1. \/ run'[p].todo = {} /\ run'[p].done = {}
        \/ \E plan \in Plans(run'[p].load) : PlannedAs(p, plan)
    BY <1>t, LoadFrame
  <2>2. ASSUME NEW plan \in Plans(run'[p].load), PlannedAs(p, plan)
        PROVE  /\ \A r \in run'[p].done : r.event = None
               /\ \A a \in run'[p].todo : a.stage = "first"
    <3>1. \A r \in run'[p].done : r.event = None
      BY <2>2, PlannedDone
    <3>2. run'[p].load \in Load
      BY <1>t, LoadFrame DEF Run
    <3>3. \A a \in plan : a.stage = "first"
      BY <2>2, <3>2, PlanSound
    <3>4. QED
      BY <2>2, <3>1, <3>3 DEF PlannedAs
  <2>3. QED
    BY <2>1, <2>2
<1>5. Missing(p)' /\ Answers(p)' /\ RemakesMiss(p)'
  BY <1>3, <1>4 DEF Missing, Answers, RemakesMiss
<1>6. DeletedUnread'
  <2>1. ASSUME NEW f \in Fixtures, row[s][f] # None, row[s][f].deleted, run'[p].load.snap[f] # None
        PROVE  run'[p].load.snap[f].gone
    <3>1. run'[p].load.snap[f] = fixture[f]
      BY <1>2, <2>1 DEF ReadBy
    <3>2. QED
      BY <2>1, <3>1 DEF GoneInv, IsGone
  <2>2. ASSUME NEW q \in Procs, run'[q].pc # "idle", NEW f \in Fixtures,
               row[run'[q].sub][f] # None, row[run'[q].sub][f].deleted, run'[q].load.snap[f] # None
        PROVE  run'[q].load.snap[f].gone
    <3>1. CASE q = p
      BY <1>1, <2>1, <2>2, <3>1
    <3>2. CASE q # p
      <4>1. run'[q] = run[q]
        BY <1>1, <3>2 DEF OthersKept
      <4>2. QED
        BY <2>2, <4>1 DEF TrackInv, DeletedUnread
    <3>3. QED
      BY <3>1, <3>2
  <2>3. QED
    BY <1>1, <2>2 DEF DeletedUnread
<1>7. ASSUME NEW q \in Procs
      PROVE  \/ /\ run'[q].sub = run[q].sub /\ run'[q].load = run[q].load
                /\ run'[q].done = run[q].done /\ run'[q].todo \subseteq run[q].todo
                /\ run'[q].pc = run[q].pc
             \/ run[q].done = {} /\ Missing(q)' /\ Answers(q)' /\ RemakesMiss(q)'
  <2>1. run[p].done = {}
    BY <1>1, <1>t, IdleType DEF TypeInv, RunsSound
  <2>2. QED
    BY <1>1, <1>5, <2>1 DEF OthersKept
<1>8. QED
  BY <1>1, <1>6, <1>7, QuietTrack

\* A listing is of the whole calendar: every event it leaves out is missing.
LEMMA ListTrack ==
  ASSUME BaseInv, RunsApart, GoneInv, TrackInv, NEW p \in Procs, LoadRemote(p),
         Answered' => Answered
  PROVE  TrackInv'
<1>t. TypeInv /\ TypeOK
  BY DEF BaseInv, TypeInv
<1>1. /\ OthersKept(p) /\ run[p].pc = "list" /\ run'[p].sub = run[p].sub
      /\ row' = row /\ calendar' = calendar
      /\ run'[p].load = [run[p].load EXCEPT !.remote = Listed(run[p].load.window), !.known = TRUE]
      /\ run'[p].load \in Load
      /\ \E plan \in Plans(run'[p].load) : PlannedAs(p, plan)
  BY <1>t, ListFrame
<1>2. run[p].load \in Load /\ run[p].load.window = Contents
  BY <1>1, <1>t DEF TypeOK, Run, GoneInv
<1>3. run'[p].load.remote = Listed(Contents) /\ run'[p].load.snap = run[p].load.snap
  BY <1>1, <1>2 DEF Load
<1>4. \A e \in EventIds : calendar[e] # None => run'[p].load.remote[e] = calendar[e]
  <2>1. \A e \in EventIds : calendar[e] # None => calendar[e].shows \in Contents
    BY <1>t DEF TypeOK, Remote
  <2>2. QED
    BY <1>3, <2>1 DEF Listed
<1>5. PICK plan \in Plans(run'[p].load) : PlannedAs(p, plan)
  BY <1>1
<1>6. Missing(p)'
  <2>1. ASSUME NEW f, NEW e \in EventIds, EventsOf(run'[p].load, f) = {}, OwnerOf(e) = f
        PROVE  calendar[e] = None
    <3>1. calendar[e] # None => calendar[e].app = f /\ run'[p].load.remote[e] = calendar[e]
      BY <1>4, <2>1 DEF BaseInv, EventsOwned
    <3>2. QED
      BY <2>1, <3>1 DEF EventsOf
  <2>2. QED
    BY <1>1, <2>1 DEF Missing
<1>7. Answers(p)' /\ RemakesMiss(p)'
  <2>1. \A r \in run'[p].done : r.event = None
    BY <1>5, PlannedDone
  <2>2. \A a \in plan : a.stage = "first"
    BY <1>1, <1>5, PlanSound
  <2>3. QED
    BY <1>5, <2>1, <2>2 DEF Answers, RemakesMiss, PlannedAs
<1>8. DeletedUnread'
  <2>1. ASSUME NEW q \in Procs
        PROVE  run'[q].sub = run[q].sub /\ run'[q].load.snap = run[q].load.snap
               /\ (run'[q].pc # "idle" => run[q].pc # "idle")
    BY <1>1, <1>3 DEF OthersKept
  <2>2. QED
    BY <1>1, <2>1 DEF TrackInv, DeletedUnread
<1>9. ASSUME NEW q \in Procs
      PROVE  \/ /\ run'[q].sub = run[q].sub /\ run'[q].load = run[q].load
                /\ run'[q].done = run[q].done /\ run'[q].todo \subseteq run[q].todo
                /\ run'[q].pc = run[q].pc
             \/ run[q].done = {} /\ Missing(q)' /\ Answers(q)' /\ RemakesMiss(q)'
  <2>1. run[p].done = {}
    BY <1>1, <1>t DEF TypeInv, RunsSound
  <2>2. QED
    BY <1>1, <1>6, <1>7, <2>1 DEF OthersKept
<1>10. QED
  BY <1>1, <1>8, <1>9, QuietTrack

\* The plain insert of a fixture without a mapping never meets a deleted one.
LEMMA NoDuplicates ==
  ASSUME BaseInv, RunsApart, TrackInv, NEW p \in Procs
  PROVE  ~ PersistRejected(p)
<1> SUFFICES ASSUME PersistRejected(p) PROVE FALSE
  OBVIOUS
<1> DEFINE load == run[p].load
<1>t. TypeInv /\ TypeOK /\ load \in Load
  BY DEF BaseInv, TypeInv, TypeOK, Run
<1>1. run[p].pc # "idle"
  BY DEF PersistRejected
<1>2. PICK r \in run[p].done : /\ r.action.type = "create" /\ ~ r.action.mapped
                               /\ row[run[p].sub][r.action.fixture] # None
  BY DEF PersistRejected, Duplicates, Successes
<1> DEFINE f == r.action.fixture
<1>3. r.action \in Action /\ FromPlan(load, r.action) /\ Sound(load, r.action)
  BY <1>t DEF TypeInv, TypeOK, RunsSound, Run, Result, BaseInv, PlansKept, PlanKept
<1>4. f \in Loaded(load) /\ f \in Fixtures /\ f \notin load.blocked /\ load.snap[f] # None
      /\ Verdict(load.snap[f], load.rows[f], Canonical(load, f),
                 load.known /\ IsConfirmed(load.rows[f])) = "create"
  BY <1>2, <1>3 DEF FromPlan, VerdictOn, Loaded
<1>5. ~ load.snap[f].gone
  BY <1>4 DEF Verdict
<1>6. load.rows[f] = None
  BY <1>2, <1>3, <1>4, NoneType DEF Sound
<1>7. f \notin LiveRows(run[p].sub)
  BY <1>1, <1>4, <1>6 DEF BaseInv, LockInv, RowsHeld, RunsApart, LiveRows
<1>8. row[run[p].sub][f].deleted
  BY <1>2, <1>4, <1>7 DEF LiveRows
<1>9. QED
  BY <1>1, <1>2, <1>4, <1>5, <1>8 DEF TrackInv, DeletedUnread

\* A run that has nothing to do, or dies, leaves its mappings as they are.
LEMMA EndTrack ==
  ASSUME BaseInv, RunsApart, TrackInv, NEW p \in Procs, NothingToDo(p) \/ Crash(p),
         Answered' => Answered
  PROVE  TrackInv'
<1>t. TypeInv /\ TypeOK
  BY DEF BaseInv, TypeInv
<1>1. OthersKept(p) /\ run'[p] = IdleRun /\ row' = row /\ calendar' = calendar
  BY <1>t, IdleFrame DEF NothingToDo, Crash
<1>2. Missing(p)' /\ Answers(p)' /\ RemakesMiss(p)'
  BY <1>1, IdleTrack
<1>3. DeletedUnread'
  <2>1. ASSUME NEW q \in Procs, run'[q].pc # "idle" PROVE run'[q] = run[q]
    BY <1>1, <2>1, IdleType DEF OthersKept
  <2>2. QED
    BY <1>1, <2>1 DEF TrackInv, DeletedUnread
<1>4. CASE NothingToDo(p)
  <2>1. run[p].done = {}
    BY <1>4, <1>t DEF NothingToDo, TypeInv, RunsSound
  <2>2. QED
    BY <1>1, <1>2, <1>3, <2>1, QuietTrack DEF OthersKept
<1>5. CASE Crash(p)
  <2>1. ~ Answered'
    <3>1. "crash" \in Events /\ Spend("crash")
      BY <1>5 DEF Events, Crash
    <3>2. budget["crash"] \in Nat /\ budget["crash"] <= Budget["crash"] /\ Budget["crash"] \in Nat
      BY <3>1, <1>t, EngineAssumption DEF TypeOK, BaseInv, BudgetInv
    <3>3. budget'["crash"] = budget["crash"] - 1
      BY <3>1, <1>t, SpendType
    <3>4. QED
      BY <3>2, <3>3 DEF Answered
  <2>2. \A q \in Procs : Missing(q)' /\ Answers(q)' /\ RemakesMiss(q)'
    <3>1. ASSUME NEW q \in Procs, q # p PROVE Missing(q)' /\ Answers(q)' /\ RemakesMiss(q)'
      BY <1>1, <3>1, SameTrack DEF TrackInv, OthersKept
    <3>2. QED
      BY <1>2, <3>1
  <2>3. QED
    BY <1>3, <2>1, <2>2 DEF TrackInv, RowsTell, EventsSeen
<1>6. QED
  BY <1>4, <1>5

-----------------------------------------------------------------------------
\* What _persist writes for a success: the event and hash it has left, in a mapping
\* that stays live; the mapping of a deleted event is closed.
LEMMA ResultRow ==
  ASSUME BaseInv, RunsApart, TrackInv, NEW p \in Procs, Persist(p), NEW f \in Fixtures,
         NEW r \in ResultsOf(p, f), NEW s \in Subs, s = run[p].sub
  PROVE  LET new == row'[s][f] IN
         /\ r \in run[p].done /\ r.event # None /\ r.action.fixture = f
         /\ r.action.type = "delete" =>
              /\ f \notin LiveRows(s)'
              /\ f \in LiveRows(s) => calendar[row[s][f].event] = None
         /\ r.action.type # "delete" =>
              /\ f \in LiveRows(s)' /\ new.event = r.event
              /\ calendar[new.event] # None => calendar[new.event].hash = new.hash
<1> DEFINE old == row[s][f]
           new == row'[s][f]
           load == run[p].load
<1>t. TypeInv /\ TypeOK
  BY DEF BaseInv, TypeInv
<1>1. r \in run[p].done /\ r.event # None /\ r.action.fixture = f /\ f # None /\ r.action \in Action
  BY <1>t, NoneType DEF ResultsOf, Successes, TypeOK, Run, Result
<1>2. s \in Subs /\ run[p].pc # "idle" /\ new = NewRow(p, f, old) /\ calendar' = calendar
      /\ new \in Mapping \cup {None}
  BY <1>t, PersistFrame
<1>3. RowFrom(p, r, old, new)
  <2>1. PICK q \in ResultsOf(p, f) : RowFrom(p, q, old, new)
    BY <1>2, <1>t, NewRowCases
  <2>2. q = r
    BY <1>1, <2>1 DEF ResultsOf, Successes, BaseInv, PlansKept, PlanKept
  <2>3. QED
    BY <2>1, <2>2
<1>4. Sound(load, r.action) /\ Mutates(r.action)
  BY <1>1, <1>t DEF TypeInv, RunsSound
<1>5. load.rows[f] = IF f \in LiveRows(s) THEN old ELSE None
  BY <1>2 DEF BaseInv, LockInv, RowsHeld, RunsApart
<1>6. CASE r.action.type = "delete"
  <2>1. new.deleted /\ new # None
    <3>1. old # None /\ new = [old EXCEPT !.state = "deleted", !.deleted = TRUE]
      BY <1>3, <1>6 DEF RowFrom
    <3>2. old \in Mapping
      BY <1>2, <1>t, <3>1 DEF TypeOK
    <3> HIDE DEF old, new
    <3>3. new.deleted /\ new \in Mapping
      BY <3>1, <3>2 DEF Mapping
    <3>4. QED
      BY <3>3, NoneAssumption
  <2>2. f \notin LiveRows(s)'
    BY <2>1, <1>2, <1>t DEF LiveRows
  <2>3. ASSUME f \in LiveRows(s) PROVE calendar[old.event] = None
    <3>1. r.event = r.action.event /\ calendar[r.event] = None
      BY <1>1, <1>6 DEF TrackInv, Answers
    <3>2. load.rows[f] = old /\ old # None
      BY <1>5, <2>3 DEF LiveRows
    <3>3. r.action.event = old.event
      BY <1>1, <1>4, <3>2 DEF Sound, EventOf
    <3>4. QED
      BY <3>1, <3>3
  <2>4. QED
    BY <1>1, <1>6, <2>2, <2>3
<1>7. CASE r.action.type # "delete"
  <2>1. new \in Mapping /\ new.event = r.event /\ new.hash = load.snap[f].content /\ ~ new.deleted
    <3>1. CASE r.action.type \in {"create", "recreate"}
      <4>1. new = [event |-> r.event, hash |-> load.snap[f].content, state |-> "active",
                   deleted |-> FALSE]
        BY <1>1, <1>3, <3>1 DEF RowFrom
      <4> HIDE DEF old, new, load
      <4>2. new # None
        <5>1. r.event \in EventIds /\ load.snap[f] \in Snapshot
          BY <1>1, <1>t, <1>4, <3>1, <1>2 DEF TypeOK, Run, Load, Result, Sound, load
        <5>2. new \in Mapping
          BY <4>1, <5>1 DEF Mapping, Snapshot
        <5>3. QED
          BY <5>2, NoneAssumption
      <4>3. QED
        BY <1>2, <4>1, <4>2
    <3>2. CASE r.action.type \in {"update", "cancel"}
      <4>1. load.rows[f] # None
        BY <1>1, <1>4, <3>2 DEF Sound
      <4>2. old \in Mapping /\ ~ old.deleted /\ old # None
        BY <1>5, <1>2, <1>t, <4>1 DEF LiveRows, TypeOK
      <4>3. new.event = r.event /\ new.hash = load.snap[f].content /\ new.deleted = old.deleted
            /\ new \in [event : EventIds \cup {None}, hash : {load.snap[f].content},
                        state : {"active", "cancelled", "deleted"}, deleted : BOOLEAN]
        <5>1. CASE r.action.type = "update"
          <6>1. new = [old EXCEPT !.event = r.event, !.hash = load.snap[f].content, !.state = "active"]
            BY <1>1, <1>3, <5>1 DEF RowFrom
          <6>2. r.event \in EventIds
            BY <1>1, <1>t DEF TypeOK, Run, Result
          <6> HIDE DEF old, new, load
          <6>3. QED
            BY <4>2, <6>1, <6>2 DEF Mapping
        <5>2. CASE r.action.type = "cancel"
          <6>1. new = [old EXCEPT !.event = r.event, !.hash = load.snap[f].content, !.state = "cancelled"]
            BY <1>1, <1>3, <5>2 DEF RowFrom
          <6>2. r.event \in EventIds
            BY <1>1, <1>t DEF TypeOK, Run, Result
          <6> HIDE DEF old, new, load
          <6>3. QED
            BY <4>2, <6>1, <6>2 DEF Mapping
        <5>3. QED
          BY <3>2, <5>1, <5>2
      <4>4. new # None
        <5>1. load.snap[f] \in Snapshot
          BY <1>1, <1>t, <1>4, <3>2 DEF TypeOK, Run, Load, Sound
        <5> HIDE DEF old, new, load
        <5>2. new \in Mapping
          BY <4>3, <5>1 DEF Mapping, Snapshot
        <5>3. QED
          BY <5>2, NoneAssumption
      <4>5. QED
        BY <1>2, <4>2, <4>3, <4>4
    <3>3. r.action.type \in {"create", "recreate", "update", "cancel"}
      BY <1>1, <1>4, <1>7 DEF Mutates, Action, ActionType
    <3>4. QED
      BY <3>1, <3>2, <3>3
  <2>2. f \in LiveRows(s)'
    <3>1. new # None
      BY <2>1, NoneAssumption
    <3>2. QED
      BY <2>1, <3>1 DEF LiveRows
  <2>3. calendar[r.event] # None => calendar[r.event].hash = load.snap[f].content
    BY <1>1, <1>7 DEF TrackInv, Answers
  <2>4. QED
    BY <1>1, <1>7, <2>1, <2>2, <2>3
<1>8. QED
  BY <1>6, <1>7

LEMMA PersistTrack ==
  ASSUME BaseInv, RunsApart, TrackInv, NEW p \in Procs, Persist(p), Answered' => Answered
  PROVE  TrackInv'
<1>t. TypeInv /\ TypeOK
  BY DEF BaseInv, TypeInv
<1>s. PICK s \in Subs : s = run[p].sub
  BY <1>t, PersistFrame
<1>1. /\ OthersKept(p) /\ run'[p] = IdleRun /\ calendar' = calendar /\ run[p].pc # "idle"
      /\ s # None /\ \A u \in Subs \ {s} : row'[u] = row[u]
  BY <1>t, <1>s, PersistFrame DEF TypeOK
<1>2. \A q \in Procs : run[q].sub = s => q = p
  BY <1>1, <1>s DEF BaseInv, LockInv, OneRun, RunsApart
<1>3. ASSUME NEW q \in Procs, q # p
      PROVE  /\ run'[q] = run[q]
             /\ run[q].pc # "idle" => run[q].sub \in Subs /\ row'[run[q].sub] = row[run[q].sub]
  <2>1. run[q].pc # "idle" => run[q].sub \in Subs /\ run[q].sub # s
    BY <1>2, <1>3, <1>t DEF TypeOK, Run
  <2>2. QED
    BY <1>1, <1>3, <2>1 DEF OthersKept
<1>4. ASSUME NEW q \in Procs PROVE Missing(q)' /\ Answers(q)' /\ RemakesMiss(q)'
  <2>1. CASE q = p
    BY <1>1, <2>1, IdleTrack
  <2>2. CASE q # p
    BY <1>1, <1>3, <2>2, SameTrack DEF TrackInv
  <2>3. QED
    BY <2>1, <2>2
<1>5. DeletedUnread'
  <2>1. ASSUME NEW q \in Procs, run'[q].pc # "idle"
        PROVE  run'[q] = run[q] /\ row'[run[q].sub] = row[run[q].sub]
    BY <1>1, <1>3, <2>1, IdleType
  <2>2. QED
    BY <2>1 DEF TrackInv, DeletedUnread
<1>6. \A f \in Fixtures : ResultsOf(p, f) = {} => row'[s][f] = row[s][f]
  BY <1>t, <1>s, PersistFrame, NewRowCases
<1>7. \A u \in Subs \ {s} : LiveRows(u)' = LiveRows(u)
  BY <1>1 DEF LiveRows
<1>8. RowsTell'
  <2> SUFFICES ASSUME Answered', NEW u \in Subs, NEW f \in Fixtures, f \in LiveRows(u)',
                      NEW d, d = row'[u][f].event, calendar[d] # None
               PROVE  \/ calendar[d].hash = row'[u][f].hash
                      \/ \E q \in Procs : run'[q].sub = u /\ Written(q, f, d)'
    BY <1>1 DEF RowsTell, LiveRows
  <2>1. ASSUME row'[u][f] = row[u][f]
        PROVE  \/ calendar[d].hash = row'[u][f].hash
               \/ \E q \in Procs : run[q].sub = u /\ Written(q, f, d)
    <3>1. f \in LiveRows(u)
      BY <2>1 DEF LiveRows
    <3>2. QED
      BY <2>1, <3>1 DEF TrackInv, RowsTell
  <2>2. CASE u # s
    <3>1. ASSUME NEW q \in Procs, run[q].sub = u, Written(q, f, d)
          PROVE  run'[q].sub = u /\ Written(q, f, d)'
      BY <1>1, <1>s, <2>2, <3>1 DEF OthersKept, Written
    <3>2. QED
      BY <1>1, <2>1, <2>2, <3>1
  <2>3. CASE u = s
    <3>1. CASE ResultsOf(p, f) = {}
      <4>1. ~ Written(p, f, d)
        <5>1. ASSUME Written(p, f, d) PROVE FALSE
          <6>1. d \in EventIds \cup {None} /\ d # None
            <7>1. row'[s][f] = row[s][f] /\ row[s][f] # None
              BY <1>6, <2>3, <3>1 DEF LiveRows
            <7>2. row[s][f] \in Mapping /\ row[s][f].event # None
              BY <1>1, <1>t, <7>1 DEF TypeOK, TypeInv, RowsConfirmed
            <7>3. QED
              BY <2>3, <7>1, <7>2 DEF Mapping
          <6>2. QED
            BY <3>1, <5>1, <6>1 DEF Written, ResultsOf, Successes
        <5>2. QED
          BY <5>1
      <4>2. QED
        BY <1>2, <1>6, <2>1, <2>3, <3>1, <4>1
    <3>2. CASE ResultsOf(p, f) # {}
      <4>1. PICK r \in ResultsOf(p, f) : TRUE
        BY <3>2
      <4>2. QED
        BY <1>s, <2>3, <4>1, ResultRow
    <3>3. QED
      BY <3>1, <3>2
  <2>4. QED
    BY <2>2, <2>3
<1>9. EventsSeen'
  <2> SUFFICES ASSUME Answered', NEW d \in EventIds, calendar[d] # None
               PROVE  \/ \E u \in Subs : \E f \in Fixtures : f \in LiveRows(u)' /\ row'[u][f].event = d
                      \/ \E q \in Procs, f \in Fixtures : Written(q, f, d)'
    BY <1>1 DEF EventsSeen, LiveRows
  <2>1. \/ \E u \in Subs : \E f \in LiveRows(u) : row[u][f].event = d
        \/ \E q \in Procs, f \in Fixtures : Written(q, f, d)
    BY DEF TrackInv, EventsSeen
  <2>2. ASSUME NEW u \in Subs, NEW f \in LiveRows(u), row[u][f].event = d
        PROVE  f \in Fixtures /\ f \in LiveRows(u)' /\ row'[u][f].event = d
    <3>1. f \in Fixtures
      BY DEF LiveRows
    <3>2. CASE row'[u][f] = row[u][f]
      BY <2>2, <3>1, <3>2 DEF LiveRows
    <3>3. ASSUME u = s, NEW r \in ResultsOf(p, f)
          PROVE  f \in LiveRows(u)' /\ row'[u][f].event = d
      <4>1. r \in run[p].done /\ r.event # None /\ r.action.fixture = f /\ r.action.type # "delete"
            /\ f \in LiveRows(s)' /\ row'[s][f].event = r.event
        BY <1>s, <2>2, <3>1, <3>3, ResultRow
      <4>2. r.event = row[s][f].event \/ calendar[row[s][f].event] = None
        BY <1>s, <2>2, <3>1, <3>3, <4>1, NoneType DEF TrackInv, Answers
      <4>3. QED
        BY <2>2, <3>3, <4>1, <4>2
    <3>4. QED
      BY <1>1, <1>6, <3>1, <3>2, <3>3
  <2>3. ASSUME NEW q \in Procs, q # p, NEW f \in Fixtures, Written(q, f, d)
        PROVE  Written(q, f, d)'
    BY <1>1, <2>3 DEF OthersKept, Written
  <2>4. ASSUME NEW f \in Fixtures, Written(p, f, d)
        PROVE  f \in LiveRows(s)' /\ row'[s][f].event = d
    <3>1. PICK r \in run[p].done : r.action.fixture = f /\ r.event = d /\ r.action.type # "delete"
      BY <2>4 DEF Written
    <3>2. r \in ResultsOf(p, f)
      BY <3>1, NoneType DEF ResultsOf, Successes
    <3>3. QED
      BY <1>s, <3>1, <3>2, ResultRow
  <2>5. CASE \E u \in Subs : \E f \in LiveRows(u) : row[u][f].event = d
    BY <2>2, <2>5
  <2>6. CASE \E q \in Procs, f \in Fixtures : Written(q, f, d)
    BY <1>1, <2>3, <2>4, <2>6
  <2>7. QED
    BY <2>1, <2>5, <2>6
<1>10. QED
  BY <1>4, <1>5, <1>8, <1>9 DEF TrackInv

LEMMA NextTrack ==
  ASSUME BaseInv, NothingComesBack, RunsApart, GoneInv, TrackInv, [Next]_vars
  PROVE  TrackInv'
<1>t. TypeInv /\ TypeOK
  BY DEF BaseInv, TypeInv
<1>1. Answered' => Answered
  BY AnsweredStays
<1>2. ASSUME row' = row,
             \A d \in EventIds :
               calendar'[d] # None => calendar[d] # None /\ calendar'[d].hash = calendar[d].hash,
             \A q \in Procs :
               /\ run'[q].sub = run[q].sub /\ run'[q].load = run[q].load
               /\ run'[q].done = run[q].done /\ run'[q].todo \subseteq run[q].todo
               /\ run'[q].pc = run[q].pc
      PROVE  TrackInv'
  <2>1. DeletedUnread'
    BY <1>2 DEF TrackInv, DeletedUnread
  <2>2. QED
    BY <1>1, <1>2, <2>1, QuietTrack
<1>3. ASSUME NEW p \in Procs, Abort(p) PROVE TrackInv'
  <2>1. /\ OthersKept(p) /\ SameRead(p) /\ run'[p].pc = run[p].pc
        /\ run'[p].todo = {} /\ run'[p].done = run[p].done /\ row' = row /\ calendar' = calendar
    BY <1>t, <1>3, AbortFrame
  <2>2. QED
    BY <1>2, <2>1 DEF OthersKept, SameRead
<1>4. ASSUME NEW f \in Fixtures, Commits(f) PROVE TrackInv'
  BY <1>2, <1>4, <1>t, CommitFrame DEF Commits
<1>5. ASSUME NEW e \in EventIds, UserDeletes(e) \/ \E c \in Contents : UserEdits(e, c)
      PROVE  TrackInv'
  <2>1. row' = row /\ run' = run
    BY <1>5 DEF UserDeletes, UserEdits
  <2>2. \A d \in EventIds :
          calendar'[d] # None => calendar[d] # None /\ calendar'[d].hash = calendar[d].hash
    <3>1. CASE UserDeletes(e)
      BY <1>t, <3>1 DEF UserDeletes, Put, TypeOK
    <3>2. ASSUME NEW c \in Contents, UserEdits(e, c)
          PROVE \A d \in EventIds :
                  (calendar'[d] # None => calendar[d] # None /\ calendar'[d].hash = calendar[d].hash)
      <4>1. calendar[e] # None /\ calendar[e] \in Remote
            /\ calendar' = [calendar EXCEPT ![e] = [calendar[e] EXCEPT !.shows = c]]
        BY <1>t, <3>2 DEF UserEdits, Put, TypeOK
      <4>2. [calendar[e] EXCEPT !.shows = c].hash = calendar[e].hash
        BY <4>1 DEF Remote
      <4>3. QED
        BY <1>t, <4>1, <4>2 DEF TypeOK
    <3>3. QED
      BY <1>5, <3>1, <3>2
  <2>3. QED
    BY <1>2, <2>1, <2>2
<1>6. ASSUME UNCHANGED <<row, calendar, run>> PROVE TrackInv'
  BY <1>2, <1>6
<1>7. CASE Environment
  <2>1. ASSUME NEW c \in Contents, WindowMoves(c) PROVE TrackInv'
    BY <1>6, <2>1 DEF WindowMoves
  <2>2. CASE ImportBegins \/ FailuresAge
    BY <1>6, <2>2 DEF ImportBegins, FailuresAge
  <2>3. QED
    BY <1>t, <1>4, <1>5, <1>7, <2>1, <2>2, CommitCases DEF Environment
<1>8. CASE UNCHANGED vars
  BY <1>6, <1>8 DEF vars
<1>9. ASSUME NEW p \in Procs,
             Calls(p) \/ LoadRemote(p) \/ NothingToDo(p) \/ Persist(p) \/ PersistRejected(p)
             \/ Crash(p) \/ Abort(p)
      PROVE  TrackInv'
  BY <1>1, <1>3, <1>9, CallTrack, ListTrack, EndTrack, PersistTrack, NoDuplicates
<1>10. ASSUME NEW p \in Procs, NEW s \in Subs, NEW mode \in SyncMode, LoadAndPlan(p, s, mode)
       PROVE  TrackInv'
  BY <1>1, <1>10, LoadTrack
<1>11. QED
  BY <1>7, <1>8, <1>9, <1>10, NextCases

LEMMA TrackAlways ==
  ASSUME NothingComesBack, RunsApart
  PROVE  Spec => [](BaseInv /\ TrackInv)
<1>1. Init => TrackInv
  <2> SUFFICES ASSUME Init PROVE TrackInv
    OBVIOUS
  <2>1. \A p \in Procs : run[p] = IdleRun
    BY DEF Init
  <2>2. \A e \in EventIds : calendar[e] = None
    BY DEF Init
  <2>3. \A s \in Subs : LiveRows(s) = {}
    BY DEF Init, LiveRows
  <2>4. QED
    BY <2>1, <2>2, <2>3, IdleType
       DEF TrackInv, DeletedUnread, RowsTell, EventsSeen, Missing, Answers, RemakesMiss, NoLoad
<1>2. BaseInv /\ GoneInv /\ TrackInv /\ [Next]_vars => GoneInv' /\ TrackInv'
  BY NextGone, NextTrack
<1>3. QED
  BY <1>1, <1>2, InitGone, BaseAlways, PTL DEF Spec

\* An idle subscription has no results in hand, so its rows speak for themselves: while
\* no run has died, the stored hash of a mapping is that of its event.  A fixture that
\* comes back, a policy that deletes cancelled fixtures, or runs that share fixtures
\* would break it: section 6 of the README.
THEOREM RowsTellEvents ==
  ASSUME NothingComesBack, RunsApart
  PROVE  Spec => []RowTellsEvent
<1>1. BaseInv /\ TrackInv => RowTellsEvent
  <2> SUFFICES ASSUME BaseInv, TrackInv, NEW s \in Subs, Answered, Idle(s), NEW f \in LiveRows(s),
                      NEW e, e = row[s][f].event, calendar[e] # None
               PROVE  calendar[e].hash = row[s][f].hash
    BY DEF RowTellsEvent
  <2>1. \A p \in Procs : run[p].sub # s
    BY DEF Idle
  <2>2. QED
    BY <2>1 DEF TrackInv, RowsTell
<1>2. QED
  BY <1>1, TrackAlways, PTL

\* Whatever is aborted, missed or repaired, an event the engine has made is the event
\* of a live mapping once no run is in progress: none is lost sight of.
THEOREM EventsTracked ==
  ASSUME NothingComesBack, RunsApart
  PROVE  Spec => []EventIsTracked
<1>1. BaseInv /\ TrackInv => EventIsTracked
  <2> SUFFICES ASSUME BaseInv, TrackInv, Answered, \A s \in Subs : Idle(s),
                      NEW e \in EventIds, calendar[e] # None
               PROVE  \E s \in Subs : \E f \in LiveRows(s) : row[s][f].event = e
    BY DEF EventIsTracked
  <2>1. ASSUME NEW p \in Procs PROVE run[p].done = {}
    <3>1. run[p].sub = None
      BY DEF Idle, BaseInv, TypeInv, TypeOK, Run
    <3>2. run[p] = IdleRun
      BY <3>1 DEF BaseInv, TypeInv, TypeOK, RunsSound
    <3>3. QED
      BY <3>2, IdleType
  <2>2. QED
    BY <2>1 DEF TrackInv, EventsSeen, Written
<1>2. QED
  BY <1>1, TrackAlways, PTL

-----------------------------------------------------------------------------
\* When no event is ever made a second time: nobody deletes the event of a fixture
\* that is still wanted, so that no patch misses and the calendar assigns no id.
NothingRemade ==
  /\ NothingComesBack /\ "reconcile" \notin Modes /\ Budget["user_delete"] = 0
  /\ RunsApart \/ Budget["gone"] = 0

\* What a run knows of events: those of its mappings and those it has written.
RunKept(p) ==
  /\ \A f \in Fixtures : run[p].load.rows[f] # None =>
       /\ run[p].load.rows[f].event = f
       /\ run[p].load.snap[f] # None /\ ~ run[p].load.snap[f].gone => calendar[f] # None
  /\ \A a \in run[p].todo : a.stage # "remake"
  /\ \A r \in run[p].done : r.event # None /\ r.action.type # "delete" =>
       r.event = r.action.fixture /\ calendar[r.event] # None

\* Every event has the id derived from its fixture, and stays while that is there.
KeptInv ==
  /\ \A e \in EventIds : calendar[e] # None => e \in Fixtures
  /\ \A s \in Subs, f \in Fixtures : row[s][f] # None =>
       row[s][f].event = f /\ (IsGone(f) \/ calendar[f] # None)
  /\ \A p \in Procs : RunKept(p)

\* A call is about the one event of its fixture, which it takes away only if the
\* fixture has gone; a patch finds it.
LEMMA KeptCall ==
  ASSUME BaseInv, NothingRemade, GoneInv, KeptInv, NEW p \in Procs, Calls(p)
  PROVE  /\ row' = row /\ fixture' = fixture /\ SameRead(p) /\ OthersKept(p)
         /\ \E a \in run[p].todo :
              /\ a \in Action /\ a.fixture \in Fixtures
              /\ \A g \in EventIds \ {a.fixture} : calendar'[g] = calendar[g]
              /\ \/ calendar'[a.fixture] # None
                 \/ calendar'[a.fixture] = calendar[a.fixture]
                 \/ /\ IsGone(a.fixture)
                    /\ run[p].load.snap[a.fixture] # None => run[p].load.snap[a.fixture].gone
              /\ \A b \in run'[p].todo : b \in run[p].todo \/ b.stage = "repair"
              /\ \A r \in run'[p].done :
                   \/ r \in run[p].done
                   \/ r.event # None /\ r.action.type # "delete" =>
                        r.event = r.action.fixture /\ calendar'[r.event] # None
<1>t. TypeInv /\ TypeOK
  BY DEF BaseInv, TypeInv
<1>1. PICK a \in run[p].todo : \/ \E e \in EventIds : Writes(p, a, e)
                               \/ Restages(p, a)
                               \/ Misses(p, a)
  BY <1>t, CallCases
<1>2. row' = row /\ fixture' = fixture
  BY <1>t, CallCases DEF OnlyCall
<1>3. a \in Action /\ Sound(run[p].load, a) /\ FromPlan(run[p].load, a) /\ a.stage # "remake"
  BY <1>t DEF TypeInv, TypeOK, RunsSound, Run, BaseInv, PlansKept, PlanKept, KeptInv, RunKept
<1>4. a.fixture \in Fixtures /\ a.fixture # None
  <2>1. CASE a.type = "delete"
    BY <2>1, DeleteCases, NoneType DEF NothingRemade
  <2>2. CASE a.type # "delete"
    BY <1>3, <2>2 DEF Sound, Action
  <2>3. QED
    BY <2>1, <2>2
<1>5. run[p].pc # "idle"
  BY <1>t, IdleType DEF TypeInv, RunsSound
<1>6. a.type \in {"update", "cancel", "delete"} => a.event = a.fixture
  <2>1. ASSUME a.type \in {"update", "cancel", "delete"} PROVE a.event = a.fixture
    <3>1. run[p].load.rows[a.fixture] # None /\ a.event = EventOf(run[p].load.rows[a.fixture])
      BY <1>3, <1>4, <2>1 DEF Sound
    <3>2. QED
      BY <1>4, <3>1 DEF EventOf, KeptInv, RunKept
  <2>2. QED
    BY <2>1
<1>7. a.type \in {"update", "cancel"} => calendar[a.event] # None
  <2>1. ASSUME a.type \in {"update", "cancel"} PROVE calendar[a.fixture] # None
    <3>1. /\ run[p].load.snap[a.fixture] # None
          /\ Verdict(run[p].load.snap[a.fixture], run[p].load.rows[a.fixture],
                     Canonical(run[p].load, a.fixture),
                     run[p].load.known /\ IsConfirmed(run[p].load.rows[a.fixture])) = a.type
      BY <1>3, <1>4, <2>1 DEF FromPlan, VerdictOn, Loaded
    <3>2. ~ run[p].load.snap[a.fixture].gone
      BY <2>1, <3>1 DEF Verdict
    <3>3. run[p].load.rows[a.fixture] # None
      BY <1>3, <1>4, <2>1 DEF Sound
    <3>4. QED
      BY <1>4, <3>1, <3>2, <3>3 DEF KeptInv, RunKept
  <2>2. QED
    BY <1>6, <2>1
<1>8. ASSUME NEW x \in EventIds \cup {None}, Finish(p, a, x)
      PROVE  /\ SameRead(p) /\ OthersKept(p)
             /\ \A b \in run'[p].todo : b \in run[p].todo
             /\ \A r \in run'[p].done : r \in run[p].done \/ (r.action = a /\ r.event = x)
  <2>1. /\ SameRead(p) /\ OthersKept(p) /\ run'[p].todo = run[p].todo \ {a}
        /\ run'[p].done = run[p].done \cup {[action |-> a, event |-> x]}
    BY <1>t, <1>8, FinishFrame
  <2>2. QED
    BY <2>1
<1>9. ASSUME NEW e \in EventIds, Writes(p, a, e)
      PROVE  /\ e = a.fixture
             /\ \A g \in EventIds \ {e} : calendar'[g] = calendar[g]
             /\ a.type # "delete" => calendar'[e] # None
  <2>1. e = a.fixture
    BY <1>3, <1>6, <1>9 DEF Writes
  <2>2. /\ a.type \in {"create", "recreate", "update", "cancel", "delete"}
        /\ \A g \in EventIds \ {e} : calendar'[g] = calendar[g]
        /\ a.type # "delete" => calendar'[e] = Body(p, a)
    BY <1>t, <1>9, WriteFrame
  <2>3. a.type # "delete" => Body(p, a) # None
    BY <1>3, <1>t, <2>2, BodyType
  <2>4. QED
    BY <2>1, <2>2, <2>3
<1>10. a.type = "delete" =>
         /\ IsGone(a.fixture)
         /\ run[p].load.snap[a.fixture] # None => run[p].load.snap[a.fixture].gone
  BY <1>3, <1>4, <1>5, DeletesGone DEF NothingRemade
<1>11. CASE \E e \in EventIds : Writes(p, a, e)
  <2>1. PICK e \in EventIds : Writes(p, a, e)
    BY <1>11
  <2>2. PICK x \in {e, None} : Finish(p, a, x)
    BY <2>1 DEF Writes
  <2>3. x \in EventIds \cup {None}
    OBVIOUS
  <2>4. /\ SameRead(p) /\ OthersKept(p)
        /\ \A b \in run'[p].todo : b \in run[p].todo
        /\ \A r \in run'[p].done : r \in run[p].done \/ (r.action = a /\ r.event = x)
    BY <1>8, <2>2, <2>3
  <2>5. QED
    BY <1>2, <1>3, <1>4, <1>9, <1>10, <2>1, <2>4
<1>12. CASE Restages(p, a)
  <2>1. PICK stage \in {"repair", "remake"} :
          Restage(p, a, stage) /\ (stage = "remake" => a.type \in {"update", "cancel"} /\ calendar[a.event] = None)
    BY <1>12 DEF Restages
  <2>2. stage = "repair"
    BY <1>7, <2>1
  <2>3. /\ OthersKept(p) /\ SameRead(p) /\ run'[p].done = run[p].done /\ calendar' = calendar
        /\ \E b \in Action : b.stage = stage /\ run'[p].todo = (run[p].todo \ {a}) \cup {b}
    BY <1>t, <2>1, RestageFrame
  <2>4. QED
    BY <1>2, <1>3, <1>4, <2>2, <2>3
<1>13. CASE Misses(p, a)
  <2>1. Finish(p, a, None) /\ calendar' = calendar
    BY <1>13 DEF Misses
  <2>2. /\ SameRead(p) /\ OthersKept(p)
        /\ \A b \in run'[p].todo : b \in run[p].todo
        /\ \A r \in run'[p].done : r \in run[p].done \/ (r.action = a /\ r.event = None)
    BY <1>8, <2>1
  <2>3. QED
    BY <1>2, <1>3, <1>4, <2>1, <2>2
<1>14. QED
  BY <1>1, <1>11, <1>12, <1>13

LEMMA CallKeeps ==
  ASSUME BaseInv, NothingRemade, GoneInv, KeptInv, NEW p \in Procs, Calls(p)
  PROVE  KeptInv'
<1>t. TypeInv /\ TypeOK
  BY DEF BaseInv, TypeInv
<1>1. row' = row /\ fixture' = fixture /\ SameRead(p) /\ OthersKept(p)
  BY KeptCall
<1>2. PICK a \in run[p].todo :
              /\ a \in Action /\ a.fixture \in Fixtures
              /\ \A g \in EventIds \ {a.fixture} : calendar'[g] = calendar[g]
              /\ \/ calendar'[a.fixture] # None
                 \/ calendar'[a.fixture] = calendar[a.fixture]
                 \/ /\ IsGone(a.fixture)
                    /\ run[p].load.snap[a.fixture] # None => run[p].load.snap[a.fixture].gone
              /\ \A b \in run'[p].todo : b \in run[p].todo \/ b.stage = "repair"
              /\ \A r \in run'[p].done :
                   \/ r \in run[p].done
                   \/ r.event # None /\ r.action.type # "delete" =>
                        r.event = r.action.fixture /\ calendar'[r.event] # None
  BY KeptCall
<1>3. \A e \in EventIds : calendar'[e] # None => e \in Fixtures
  BY <1>2 DEF KeptInv
<1>4. \A g \in Fixtures : g \in EventIds
  BY DEF EventIds
<1>5. \A s \in Subs, f \in Fixtures : row'[s][f] # None =>
       row'[s][f].event = f /\ (IsGone(f)' \/ calendar'[f] # None)
  BY <1>1, <1>2, <1>4 DEF KeptInv, IsGone
<1>6. RunKept(p)'
  <2>1. \A f \in Fixtures : run[p].load.rows[f] # None =>
       /\ run[p].load.rows[f].event = f
       /\ run[p].load.snap[f] # None /\ ~ run[p].load.snap[f].gone => calendar'[f] # None
    BY <1>2, <1>4 DEF KeptInv, RunKept
  <2>2. \A b \in run'[p].todo : b.stage # "remake"
    BY <1>2 DEF KeptInv, RunKept
  <2>3. \A r \in run'[p].done : r.event # None /\ r.action.type # "delete" =>
       r.event = r.action.fixture /\ calendar'[r.event] # None
    <3>1. ASSUME NEW r \in run[p].done, r.event # None, r.action.type # "delete"
          PROVE  r.event = r.action.fixture /\ calendar'[r.event] # None
      <4>1. r.event = r.action.fixture /\ calendar[r.event] # None /\ r.event \in EventIds
        BY <3>1, <1>t DEF KeptInv, RunKept, TypeOK, Run, Result
      <4>2. r.action.fixture # a.fixture
        BY <1>2, NoneType DEF BaseInv, PlansKept, PlanKept
      <4>3. QED
        BY <1>2, <4>1, <4>2
    <3>2. QED
      BY <1>2, <3>1
  <2>4. QED
    BY <1>1, <2>1, <2>2, <2>3 DEF RunKept, SameRead
<1>7. ASSUME NEW q \in Procs, q # p PROVE RunKept(q)'
  <2>1. run'[q] = run[q]
    BY <1>1, <1>7 DEF OthersKept
  <2>2. CASE run[q].pc = "idle"
    <3>1. run[q].todo = {} /\ run[q].done = {} /\ \A f \in Fixtures : run[q].load.rows[f] = None
      BY <2>2, <1>t, IdleType DEF TypeInv, RunsSound, NoLoad
    <3>2. QED
      BY <2>1, <3>1 DEF RunKept
  <2>3. CASE run[q].pc # "idle"
    <3>1. run[q].sub \in Subs /\ run[q].sub # None
      BY <1>t, <2>3 DEF TypeOK, Run
    <3>2. ASSUME NEW f \in Fixtures, f \in Scope[run[q].sub], calendar[f] # None
          PROVE  calendar'[f] # None
      <4>1. CASE f # a.fixture
        BY <1>2, <1>4, <3>2, <4>1
      <4>2. CASE f = a.fixture
        <5>1. ~ IsGone(f)
          <6>1. CASE RunsApart
            <7>1. FromPlan(run[p].load, a)
              BY DEF BaseInv, PlansKept, PlanKept
            <7>2. run[p].sub \in Subs /\ run[p].sub # None /\ f \in Scope[run[p].sub]
              BY <1>2, <4>2, <7>1, NoneType, ActionScope
            <7>3. QED
              BY <1>7, <3>1, <3>2, <6>1, <7>2, ActApart
          <6>2. CASE Budget["gone"] = 0
            BY <6>2 DEF GoneInv
          <6>3. QED
            BY <6>1, <6>2 DEF NothingRemade
        <5>2. QED
          BY <1>2, <3>2, <4>2, <5>1
      <4>3. QED
        BY <4>1, <4>2
    <3>3. ASSUME NEW f \in Fixtures, run[q].load.rows[f] # None PROVE f \in Scope[run[q].sub]
      BY <1>t, <3>1, <3>3 DEF TypeInv, RunsSound, BaseInv, LockInv, Scoped
    <3>4. ASSUME NEW r \in run[q].done, r.event # None, r.action.type # "delete"
          PROVE  r.event = r.action.fixture /\ calendar'[r.event] # None
      <4>1. r.event = r.action.fixture /\ calendar[r.event] # None /\ r.action \in Action
        BY <3>4, <1>t DEF KeptInv, RunKept, TypeOK, Run, Result
      <4>2. r.action.fixture \in Fixtures /\ r.action.fixture \in Scope[run[q].sub]
        BY <3>4, <4>1, ActionScope DEF BaseInv, PlansKept, PlanKept
      <4>3. QED
        BY <3>2, <4>1, <4>2
    <3>5. QED
      BY <2>1, <3>2, <3>3, <3>4 DEF KeptInv, RunKept
  <2>4. QED
    BY <2>2, <2>3
<1>8. QED
  BY <1>3, <1>5, <1>6, <1>7 DEF KeptInv

-----------------------------------------------------------------------------
\* What a run reads is as the calendar has it, and it reads no calendar.
LEMMA LoadKeeps ==
  ASSUME BaseInv, NothingRemade, KeptInv, NEW p \in Procs, NEW s \in Subs,
         NEW mode \in SyncMode, mode \in Modes, LoadAndPlan(p, s, mode)
  PROVE  RunKept(p)'
<1>t. TypeInv /\ TypeOK
  BY DEF BaseInv, TypeInv
<1>m. ~ Lists(mode)
  BY DEF NothingRemade, Lists
<1>1. calendar' = calendar /\ run'[p].load \in Load
  BY <1>t, LoadFrame DEF Run
<1>2. PICK page \in Pages(Candidates(s, mode)) : run'[p].load = ReadBy(s, page)
  BY <1>t, LoadFrame
<1>3. PICK plan \in Plans(run'[p].load) : PlannedAs(p, plan)
  BY <1>t, <1>m, LoadFrame
<1>4. \A a \in run'[p].todo : a.stage # "remake"
  <2>1. \A a \in plan : a.stage = "first"
    BY <1>1, <1>3, PlanSound
  <2>2. QED
    BY <1>3, <2>1 DEF PlannedAs
<1>5. \A r \in run'[p].done : r.event = None
  BY <1>3, PlannedDone
<1>6. ASSUME NEW f \in Fixtures, run'[p].load.rows[f] # None
      PROVE  /\ run'[p].load.rows[f].event = f
             /\ run'[p].load.snap[f] # None /\ ~ run'[p].load.snap[f].gone => calendar[f] # None
  <2>1. row[s][f] # None /\ run'[p].load.rows[f] = row[s][f]
    BY <1>t, <1>2, <1>6, ReadRows
  <2>2. run'[p].load.snap[f] # None => run'[p].load.snap[f] = fixture[f]
    BY <1>2 DEF ReadBy
  <2>3. QED
    BY <2>1, <2>2 DEF KeptInv, IsGone
<1>7. QED
  BY <1>1, <1>4, <1>5, <1>6 DEF RunKept

LEMMA PersistKeeps ==
  ASSUME BaseInv, KeptInv, NEW p \in Procs, Persist(p), NEW s \in Subs, NEW f \in Fixtures,
         row'[s][f] # None
  PROVE  row'[s][f].event = f /\ (IsGone(f) \/ calendar[f] # None)
<1>t. TypeInv /\ TypeOK
  BY DEF BaseInv, TypeInv
<1>1. CASE s # run[p].sub
  BY <1>1, <1>t, PersistFrame DEF KeptInv
<1>2. CASE s = run[p].sub
  <2> DEFINE old == row[run[p].sub][f]
             new == NewRow(p, f, old)
  <2>1. row'[s][f] = new
    BY <1>2, <1>t, PersistFrame
  <2>2. old # None => old \in Mapping /\ old.event = f /\ (IsGone(f) \/ calendar[f] # None)
    BY <1>2, <1>t DEF KeptInv, TypeOK
  <2>3. CASE new = old
    BY <2>1, <2>2, <2>3
  <2>4. ASSUME NEW r \in ResultsOf(p, f), RowFrom(p, r, old, new)
        PROVE  new.event = f /\ (IsGone(f) \/ calendar[f] # None)
    <3>1. r \in run[p].done /\ r.action.fixture = f /\ r.event # None /\ r.event \in EventIds
      BY <1>t DEF ResultsOf, Successes, TypeOK, Run, Result
    <3>2. r.action.type # "delete" => r.event = f /\ calendar[f] # None
      BY <3>1 DEF KeptInv, RunKept
    <3>3. CASE r.action.type \in {"create", "recreate"}
      <4> HIDE DEF old, new
      <4>1. QED
        BY <2>4, <3>2, <3>3 DEF RowFrom
    <3>4. CASE r.action.type = "update"
      <4> HIDE DEF old, new
      <4>1. QED
        BY <2>2, <2>4, <3>2, <3>4 DEF RowFrom, Mapping
    <3>5. CASE r.action.type = "cancel"
      <4> HIDE DEF old, new
      <4>1. QED
        BY <2>2, <2>4, <3>2, <3>5 DEF RowFrom, Mapping
    <3>6. CASE r.action.type = "delete"
      <4> HIDE DEF old, new
      <4>1. QED
        BY <2>2, <2>4, <3>6 DEF RowFrom, Mapping
    <3>7. QED
      BY <2>4, <3>3, <3>4, <3>5, <3>6 DEF RowFrom
  <2>5. QED
    BY <1>t, <2>1, <2>3, <2>4, NewRowCases
<1>3. QED
  BY <1>1, <1>2

LEMMA NextKeeps ==
  ASSUME BaseInv, NothingRemade, GoneInv, KeptInv, [Next]_vars
  PROVE  KeptInv'
<1>t. TypeInv /\ TypeOK
  BY DEF BaseInv, TypeInv
<1>1. \A f \in Fixtures : IsGone(f) => IsGone(f)'
  BY GoneStays DEF NothingRemade
<1>2. ASSUME \A d \in EventIds : calendar'[d] # None <=> calendar[d] # None,
             \A s \in Subs, f \in Fixtures : row'[s][f] # None =>
               row'[s][f].event = f /\ (IsGone(f) \/ calendar[f] # None),
             \A q \in Procs :
               \/ RunKept(q)'
               \/ /\ run'[q].load = run[q].load /\ run'[q].done = run[q].done
                  /\ run'[q].todo \subseteq run[q].todo
      PROVE  KeptInv'
  <2>1. \A f \in Fixtures : f \in EventIds
    BY DEF EventIds
  <2>2. ASSUME NEW q \in Procs, run'[q].load = run[q].load, run'[q].done = run[q].done,
               run'[q].todo \subseteq run[q].todo
        PROVE  RunKept(q)'
    <3>1. \A r \in run[q].done : r.event # None => r.event \in EventIds
      BY <1>t DEF TypeOK, Run, Result
    <3>2. QED
      BY <1>2, <2>1, <2>2, <3>1 DEF KeptInv, RunKept
  <2>3. QED
    BY <1>1, <1>2, <2>1, <2>2 DEF KeptInv
<1>3. \A p \in Procs : run'[p] = IdleRun => RunKept(p)'
  BY IdleType DEF RunKept, NoLoad
<1>4. ASSUME NEW p \in Procs, OthersKept(p), RunKept(p)', calendar' = calendar,
             \A s \in Subs, f \in Fixtures : row'[s][f] # None =>
               row'[s][f].event = f /\ (IsGone(f) \/ calendar[f] # None)
      PROVE  KeptInv'
  BY <1>2, <1>4 DEF OthersKept
<1>5. ASSUME row' = row
      PROVE  \A s \in Subs, f \in Fixtures : row'[s][f] # None =>
               row'[s][f].event = f /\ (IsGone(f) \/ calendar[f] # None)
  BY <1>5 DEF KeptInv
<1>6. ASSUME NEW p \in Procs, NothingToDo(p) \/ PersistRejected(p) \/ Crash(p) PROVE KeptInv'
  <2>1. OthersKept(p) /\ run'[p] = IdleRun /\ row' = row /\ calendar' = calendar
    BY <1>t, <1>6, IdleFrame DEF NothingToDo, PersistRejected, Crash
  <2>2. QED
    BY <1>3, <1>4, <1>5, <2>1
<1>7. ASSUME NEW p \in Procs, Persist(p) PROVE KeptInv'
  <2>1. OthersKept(p) /\ run'[p] = IdleRun /\ calendar' = calendar
    BY <1>t, <1>7, PersistFrame
  <2>2. QED
    BY <1>3, <1>4, <1>7, <2>1, PersistKeeps
<1>8. ASSUME NEW p \in Procs, Abort(p) PROVE KeptInv'
  <2>1. /\ OthersKept(p) /\ SameRead(p) /\ run'[p].todo = {} /\ run'[p].done = run[p].done
        /\ row' = row /\ calendar' = calendar
    BY <1>t, <1>8, AbortFrame
  <2>2. QED
    BY <1>2, <1>5, <2>1 DEF OthersKept, SameRead
<1>9. ASSUME NEW p \in Procs, LoadRemote(p) PROVE FALSE
  <2>1. run[p].pc = "list"
    BY <1>9 DEF LoadRemote
  <2>2. QED
    BY <2>1 DEF BaseInv, ReadsHold, ReadHolds, NothingRemade
<1>10. ASSUME NEW p \in Procs, NEW s \in Subs, NEW mode \in SyncMode, mode \in Modes,
              LoadAndPlan(p, s, mode)
       PROVE  KeptInv'
  <2>1. OthersKept(p) /\ row' = row /\ calendar' = calendar
    BY <1>t, <1>10, LoadFrame
  <2>2. RunKept(p)'
    BY <1>10, LoadKeeps
  <2>3. QED
    BY <1>4, <1>5, <2>1, <2>2
<1>11. ASSUME NEW f \in Fixtures, Commits(f) PROVE KeptInv'
  <2>1. row' = row /\ calendar' = calendar
        /\ \A q \in Procs : /\ run'[q].load = run[q].load /\ run'[q].done = run[q].done
                            /\ run'[q].todo = run[q].todo
    BY <1>t, <1>11, CommitFrame DEF Commits
  <2>2. QED
    BY <1>2, <1>5, <2>1
<1>12. ASSUME NEW e \in EventIds PROVE ~ UserDeletes(e)
  <2>1. budget["user_delete"] \in Nat /\ budget["user_delete"] <= 0
    BY <1>t DEF TypeOK, BaseInv, BudgetInv, NothingRemade, Events
  <2>2. QED
    BY <2>1 DEF UserDeletes, Spend
<1>13. ASSUME NEW e \in EventIds, NEW c \in Contents, UserEdits(e, c) PROVE KeptInv'
  <2>1. row' = row /\ run' = run /\ calendar[e] # None /\ calendar[e] \in Remote
        /\ calendar' = [calendar EXCEPT ![e] = [calendar[e] EXCEPT !.shows = c]]
    BY <1>t, <1>13 DEF UserEdits, Put, TypeOK
  <2>2. [calendar[e] EXCEPT !.shows = c] # None
    <3>1. [calendar[e] EXCEPT !.shows = c] \in Remote
      BY <2>1 DEF Remote
    <3>2. QED
      BY <3>1, NoneAssumption
  <2>3. \A d \in EventIds : calendar'[d] # None <=> calendar[d] # None
    BY <1>t, <2>1, <2>2 DEF TypeOK
  <2>4. QED
    BY <1>2, <1>5, <2>1, <2>3
<1>14. ASSUME UNCHANGED <<row, calendar, run>> PROVE KeptInv'
  BY <1>2, <1>5, <1>14
<1>15. CASE Environment
  <2>1. ASSUME NEW c \in Contents, WindowMoves(c) PROVE KeptInv'
    BY <1>14, <2>1 DEF WindowMoves
  <2>2. CASE ImportBegins \/ FailuresAge
    BY <1>14, <2>2 DEF ImportBegins, FailuresAge
  <2>3. QED
    BY <1>t, <1>11, <1>12, <1>13, <1>15, <2>1, <2>2, CommitCases DEF Environment
<1>16. CASE UNCHANGED vars
  BY <1>14, <1>16 DEF vars
<1>17. ASSUME NEW p \in Procs,
             Calls(p) \/ LoadRemote(p) \/ NothingToDo(p) \/ Persist(p) \/ PersistRejected(p)
             \/ Crash(p) \/ Abort(p)
       PROVE  KeptInv'
  BY <1>6, <1>7, <1>8, <1>9, <1>17, CallKeeps
<1>18. QED
  BY <1>10, <1>15, <1>16, <1>17, NextCases

\* I2 without a lock: runs that only read the database, however many of them are in
\* one subscription and whichever of them die, write one event per fixture as long as
\* no patch has to make its event again.
THEOREM OneEventEach ==
  ASSUME NothingRemade
  PROVE  Spec => []AtMostOneEvent
<1>1. Init => KeptInv
  <2> SUFFICES ASSUME Init PROVE KeptInv
    OBVIOUS
  <2>1. \A p \in Procs : RunKept(p)
    BY IdleType DEF Init, RunKept, NoLoad
  <2>2. QED
    BY <2>1 DEF Init, KeptInv
<1>2. BaseInv /\ GoneInv /\ KeptInv /\ [Next]_vars => GoneInv' /\ KeptInv'
  BY NextGone, NextKeeps DEF NothingRemade
<1>3. BaseInv /\ KeptInv => AtMostOneEvent
  <2> SUFFICES ASSUME BaseInv, KeptInv, NEW d \in EventIds, NEW e \in EventIds,
                      calendar[d] # None, calendar[e] # None, calendar[d].app = calendar[e].app
               PROVE  d = e
    BY DEF AtMostOneEvent
  <2>1. d \in Fixtures /\ e \in Fixtures
    BY DEF KeptInv
  <2>2. calendar[d].app = d /\ calendar[e].app = e
    BY <2>1 DEF BaseInv, EventsOwned, OwnerOf
  <2>3. QED
    BY <2>2
<1>4. QED
  BY <1>1, <1>2, <1>3, InitGone, BaseAlways, PTL DEF Spec
=============================================================================
