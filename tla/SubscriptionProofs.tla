-------------------------- MODULE SubscriptionProofs --------------------------
(***************************************************************************)
(* Proofs about Subscriptions and the CalendarCatalog it composes: what    *)
(* they store keeps its type, and no run or stale request undoes what the  *)
(* user did, for every number of calendars, subscriptions, requests and    *)
(* workers and every batch.                                                *)
(*                                                                         *)
(* A request and a run act on rows they loaded in an earlier transaction.  *)
(* That those rows still exist is what the types do not say and the        *)
(* invariant adds: rows of both tables are only ever marked deleted.       *)
(***************************************************************************)
EXTENDS Subscriptions, FiniteSetTheorems, TLAPS

\* What a request loaded is still in its table.
RequestSound(r) ==
  /\ r.op \in {"choose", "select"} => calendar[r.calendar] # None
  /\ r.op = "select" => \A c \in Calendars : r.rows[c] # None => calendar[c] # None
  /\ r.op \in {"pause", "resume", "delete"} => sub[r.sub] # None

\* What a run has still to do is not empty and consists of rows of the table.
RunSound(run) ==
  run # IdleRun =>
    run.todo # <<>> /\ \A n \in DOMAIN run.todo : sub[run.todo[n]] # None

Loaded ==
  /\ \A q \in Requests : RequestSound(req[q])
  /\ \A w \in Workers : RunSound(worker[w])

Inv == TypeOK /\ Loaded

-----------------------------------------------------------------------------
\* The shape of requests and runs

LEMMA RequestTypes ==
  ASSUME TypeOK, NEW q \in Requests
  PROVE  /\ req[q].op = "discover" => req[q].listed \in [Calendars -> Roles \cup {None}]
         /\ req[q].op \in {"choose", "select", "create"} => req[q].calendar \in Calendars
         /\ req[q].op = "choose" => req[q].row \in Row
         /\ req[q].op = "select" => req[q].rows \in Table
         /\ req[q].op = "create" => req[q].scope \in Scopes
         /\ req[q].op \in {"pause", "resume", "delete"} =>
              req[q].sub \in Subs /\ req[q].status \in Statuses
<1>1. req[q] \in ApiRequests
  BY DEF TypeOK
<1>2. QED
  BY <1>1 DEF ApiRequests, Idle

LEMMA RunTypes ==
  ASSUME TypeOK, NEW w \in Workers, worker[w] # IdleRun
  PROVE  /\ worker[w].pc \in {"plan", "write", "persist"}
         /\ worker[w].todo \in Seq(Subs) /\ worker[w].locked \in BOOLEAN
         /\ worker[w].status \in Statuses
         /\ worker[w].pc \in {"write", "persist"} => worker[w].good \in BOOLEAN
         /\ worker[w].pc = "persist" =>
              worker[w].result \in Results /\ worker[w].stop \in BOOLEAN
<1>1. worker[w] \in Runs
  BY DEF TypeOK
<1>2. QED
  BY <1>1 DEF Runs

\* A request ends, or another one takes a free place.
LEMMA EndType ==
  ASSUME req \in [Requests -> ApiRequests], NEW q \in Requests, End(q)
  PROVE  /\ req' \in [Requests -> ApiRequests] /\ req'[q] = Idle
         /\ \A p \in Requests \ {q} : req'[p] = req[p]
  BY DEF End, ApiRequests

\* Runs that have begun, that go on, and what they are at.
LEMMA BegunType ==
  ASSUME NEW todo \in Seq(Subs), NEW locked \in BOOLEAN, NEW status \in Statuses
  PROVE  /\ Begun(todo, locked, status) \in Runs
         /\ Begun(todo, locked, status).todo = todo
  BY DEF Begun, Runs

LEMMA HeadLoaded ==
  ASSUME Inv, NEW w \in Workers, worker[w] # IdleRun
  PROVE  Head(worker[w].todo) \in Subs /\ sub[Head(worker[w].todo)] # None
<1>1. worker[w].todo \in Seq(Subs) /\ worker[w].todo # <<>>
  BY RunTypes DEF Inv, Loaded, RunSound
<1>2. /\ 1 \in DOMAIN worker[w].todo /\ Head(worker[w].todo) = worker[w].todo[1]
      /\ worker[w].todo[1] \in Subs
  BY <1>1
<1>3. QED
  BY <1>2 DEF Inv, Loaded, RunSound

\* The order of the due, when one leaves it or joins it at the end.
LEMMA WithoutType ==
  ASSUME DueTypeOK, NEW i \in Subs, due' = Without(i)
  PROVE  DueTypeOK'
  BY DEF DueTypeOK, Without, IsDue

LEMMA WithLastType ==
  ASSUME DueTypeOK, NEW i \in Subs, due' = WithLast(i)
  PROVE  DueTypeOK'
<1>1. \A j, k \in Subs : <<j, k>> \in due' <=>
        \/ <<j, k>> \in due /\ j # i /\ k # i
        \/ k = i /\ (IsDue(j) \/ j = i)
  BY DEF WithLast, Without
<1>2. due' \subseteq Subs \X Subs
  BY DEF DueTypeOK, WithLast, Without
<1>3. \A j \in Subs : IsDue(j)' <=> IsDue(j) \/ j = i
  BY <1>1 DEF IsDue
<1>4. QED
  BY <1>1, <1>2, <1>3 DEF DueTypeOK

-----------------------------------------------------------------------------
\* What a step keeps

\* Rows stay in both tables.
RowsStay ==
  /\ \A c \in Calendars : calendar[c] # None => calendar'[c] # None
  /\ \A i \in Subs : sub[i] # None => sub'[i] # None

\* What UserWins says of a step.
UserStep ==
  \A i \in Subs : sub[i] # None =>
    /\ sub'[i] # None /\ (sub[i].deleted => sub'[i].deleted)
    /\ sub[i].status = "PAUSED" /\ sub'[i].status = "ACTIVE" =>
         \E q \in Requests : req[q].op = "resume" /\ req[q].sub = i /\ req'[q] = Idle

LEMMA SoundStays ==
  ASSUME Inv, RowsStay,
         \A q \in Requests : req'[q] = req[q] \/ RequestSound(req[q])',
         \A w \in Workers : worker'[w] = worker[w] \/ RunSound(worker[w])'
  PROVE  Loaded'
<1>1. ASSUME NEW q \in Requests, req'[q] = req[q]
      PROVE  RequestSound(req[q])'
  <2>1. RequestSound(req[q])
    BY DEF Inv, Loaded
  <2>2. QED
    BY <1>1, <2>1, RequestTypes DEF Inv, RequestSound, RowsStay
<1>2. ASSUME NEW w \in Workers, worker'[w] = worker[w]
      PROVE  RunSound(worker[w])'
  <2>1. RunSound(worker[w])
    BY DEF Inv, Loaded
  <2>2. worker[w] # IdleRun => \A n \in DOMAIN worker[w].todo : worker[w].todo[n] \in Subs
    BY RunTypes DEF Inv
  <2>3. QED
    BY <1>2, <2>1, <2>2 DEF RunSound, RowsStay
<1>3. QED
  BY <1>1, <1>2 DEF Loaded

LEMMA IdleSound == RequestSound(Idle)' /\ RunSound(IdleRun)'
  BY DEF RequestSound, RunSound, Idle

-----------------------------------------------------------------------------
\* Requests about calendars

LEMMA DiscoveredType ==
  ASSUME calendar \in Table, NEW c \in Calendars, NEW role \in Roles \cup {None}
  PROVE  /\ Discovered(c, role) \in Row \cup {None}
         /\ calendar[c] # None => Discovered(c, role) # None
<1>1. None \notin Row /\ None \notin Roles
  BY NoneIsNoRow
<1>2. calendar[c] \in Row \cup {None}
  BY DEF Table
<1>3. CASE calendar[c] # None
  <2>1. [calendar[c] EXCEPT !.live = FALSE] \in Row
    BY <1>2, <1>3 DEF Row
  <2>2. role # None => [calendar[c] EXCEPT !.live = TRUE, !.role = role] \in Row
    BY <1>2, <1>3 DEF Row
  <2>3. QED
    BY <1>1, <1>3, <2>1, <2>2 DEF Discovered
<1>4. CASE calendar[c] = None
  BY <1>1, <1>4 DEF Discovered, Row
<1>5. QED
  BY <1>3, <1>4

LEMMA SelectedType ==
  ASSUME calendar \in Table, NEW c \in Calendars, NEW chosen \in Calendars,
         NEW row \in Row \cup {None}, row # None => calendar[c] # None
  PROVE  /\ Selected(c, chosen, row) \in Row \cup {None}
         /\ calendar[c] # None => Selected(c, chosen, row) \in Row
<1>1. calendar[c] \in Row \cup {None}
  BY DEF Table
<1>2. ASSUME calendar[c] # None
      PROVE  [calendar[c] EXCEPT !.target = (c = chosen)] \in Row
  <2>1. (c = chosen) \in BOOLEAN
    OBVIOUS
  <2>2. QED
    BY <1>1, <1>2, <2>1 DEF Row
<1>3. QED
  BY <1>1, <1>2 DEF Selected

LEMMA CatalogInv ==
  ASSUME Inv, NEW q \in Requests, CatalogStep(q),
         UNCHANGED <<subVars, queued, worker, left>>
  PROVE  Inv' /\ UserStep
<1>t. TypeOK /\ CatalogTypeOK
  BY DEF Inv, TypeOK
<1>u. UserStep
  BY DEF UserStep, subVars
<1>n. None \notin Row
  BY NoneIsNoRow
<1>1. CASE Discover(q)
  <2>1. [op |-> "discover", listed |-> remote] \in ApiRequests
    BY <1>t DEF ApiRequests, CatalogTypeOK
  <2>2. req' = [req EXCEPT ![q] = [op |-> "discover", listed |-> remote]]
        /\ UNCHANGED catalogVars
    BY <1>1 DEF Discover
  <2>3. TypeOK'
    BY <1>t, <2>1, <2>2 DEF TypeOK, CatalogTypeOK, catalogVars, subVars, DueTypeOK, IsDue
  <2>4. req'[q] = [op |-> "discover", listed |-> remote]
    BY <1>t, <2>2 DEF TypeOK
  <2>5. RequestSound(req[q])'
    BY <2>4 DEF RequestSound
  <2>6. Loaded'
    BY <1>t, <2>2, <2>5, SoundStays DEF TypeOK, RowsStay, catalogVars, subVars
  <2>7. QED
    BY <1>u, <2>3, <2>6 DEF Inv
<1>2. CASE Reconcile(q)
  <2>1. req' \in [Requests -> ApiRequests] /\ req'[q] = Idle
        /\ \A p \in Requests \ {q} : req'[p] = req[p]
    BY <1>2, <1>t, EndType DEF Reconcile, TypeOK
  <2>2. \A c \in Calendars : /\ Discovered(c, req[q].listed[c]) \in Row \cup {None}
                             /\ calendar[c] # None => Discovered(c, req[q].listed[c]) # None
    BY <1>2, <1>t, RequestTypes, DiscoveredType DEF Reconcile, CatalogTypeOK
  <2>3. calendar' \in Table /\ RowsStay
    <3>1. DOMAIN calendar' = Calendars /\ calendar' = [c \in Calendars |-> calendar'[c]]
      BY <1>2 DEF Reconcile
    <3>2. \A c \in Calendars : calendar'[c] = Discovered(c, req[q].listed[c])
      BY <1>2 DEF Reconcile
    <3>3. \A c \in Calendars : /\ calendar'[c] \in Row \cup {None}
                               /\ calendar[c] # None => calendar'[c] # None
      BY <2>2, <3>2
    <3>4. calendar' \in Table
      BY <3>1, <3>3 DEF Table
    <3>5. RowsStay
      BY <3>3 DEF RowsStay, subVars
    <3>6. QED
      BY <3>4, <3>5
  <2>4. TypeOK'
    BY <1>2, <1>t, <2>1, <2>3 DEF Reconcile, TypeOK, CatalogTypeOK, subVars, DueTypeOK, IsDue
  <2>5. Loaded'
    BY <2>1, <2>3, IdleSound, SoundStays DEF RequestSound, Idle, subVars
  <2>6. QED
    BY <1>u, <2>4, <2>5 DEF Inv
<1>3. ASSUME NEW c \in Calendars, Choose(q, c) PROVE Inv' /\ UserStep
  <2> DEFINE r == [op |-> "choose", calendar |-> c, row |-> calendar[c]]
  <2>1. calendar[c] \in Row /\ calendar[c] # None
    BY <1>3, <1>t, <1>n DEF Choose, Live, CatalogTypeOK, Table
  <2>2. r \in ApiRequests
    BY <2>1 DEF ApiRequests
  <2>3. req' = [req EXCEPT ![q] = r] /\ UNCHANGED catalogVars
    BY <1>3 DEF Choose
  <2>4. TypeOK'
    BY <1>t, <2>2, <2>3 DEF TypeOK, CatalogTypeOK, catalogVars, subVars, DueTypeOK, IsDue
  <2>5. req'[q] = r /\ calendar' = calendar
    BY <1>t, <2>3 DEF TypeOK, catalogVars
  <2>6. RequestSound(req[q])'
    BY <2>1, <2>5 DEF RequestSound
  <2>7. Loaded'
    BY <1>t, <2>3, <2>6, SoundStays DEF TypeOK, RowsStay, catalogVars, subVars
  <2>8. QED
    BY <1>u, <2>4, <2>7 DEF Inv
<1>4. CASE ListRows(q)
  <2> DEFINE rows == [c \in Calendars |-> IF ~ Live(c) THEN None
                                        ELSE IF c = req[q].calendar THEN req[q].row ELSE calendar[c]]
             r == [op |-> "select", calendar |-> req[q].calendar, rows |-> rows]
  <2>1. req[q].op = "choose" /\ req[q].calendar \in Calendars /\ req[q].row \in Row
        /\ calendar[req[q].calendar] # None
    BY <1>4, <1>t, RequestTypes DEF ListRows, Inv, Loaded, RequestSound
  <2>2. rows \in Table /\ \A c \in Calendars : rows[c] # None => calendar[c] # None
    BY <1>t, <2>1 DEF Table, CatalogTypeOK, Live
  <2>3. r \in ApiRequests
    BY <2>1, <2>2 DEF ApiRequests
  <2>4. req' = [req EXCEPT ![q] = r] /\ UNCHANGED catalogVars
    BY <1>4 DEF ListRows
  <2>5. TypeOK'
    BY <1>t, <2>3, <2>4 DEF TypeOK, CatalogTypeOK, catalogVars, subVars, DueTypeOK, IsDue
  <2>6. req'[q] = r /\ calendar' = calendar
    BY <1>t, <2>4 DEF TypeOK, catalogVars
  <2>7. r.op = "select" /\ r.calendar = req[q].calendar /\ r.rows = rows
    OBVIOUS
  <2> HIDE DEF rows, r
  <2>8. RequestSound(req[q])'
    BY <2>1, <2>2, <2>6, <2>7 DEF RequestSound
  <2>9. Loaded'
    BY <1>t, <2>4, <2>8, SoundStays DEF TypeOK, RowsStay, catalogVars, subVars
  <2>10. QED
    BY <1>u, <2>5, <2>9 DEF Inv
<1>5. CASE SetDefault(q)
  <2>1. req[q].op = "select" /\ req[q].calendar \in Calendars /\ req[q].rows \in Table
        /\ calendar[req[q].calendar] # None
        /\ \A c \in Calendars : req[q].rows[c] # None => calendar[c] # None
    BY <1>5, <1>t, RequestTypes DEF SetDefault, Inv, Loaded, RequestSound
  <2>2. req' \in [Requests -> ApiRequests] /\ req'[q] = Idle
        /\ \A p \in Requests \ {q} : req'[p] = req[p]
    BY <1>5, <1>t, EndType DEF SetDefault, TypeOK
  <2>3. ASSUME NEW c \in Calendars
        PROVE  /\ calendar'[c] \in Row \cup {None}
               /\ calendar[c] # None => calendar'[c] # None
    <3> DEFINE row == Selected(c, req[q].calendar, req[q].rows[c])
    <3>1. row \in Row \cup {None} /\ (calendar[c] # None => row \in Row)
      BY <1>t, <2>1, SelectedType DEF CatalogTypeOK, Table
    <3>2. calendar'[c] = IF c = req[q].calendar /\ (req[q].rows[c] = None \/ req[q].rows[c].role # "writer")
                         THEN [row EXCEPT !.role = "writer"] ELSE row
      BY <1>5 DEF SetDefault
    <3>3. row \in Row => [row EXCEPT !.role = "writer"] \in Row
      BY DEF Row, Roles
    <3> HIDE DEF row
    <3>4. QED
      BY <1>n, <2>1, <3>1, <3>2, <3>3
  <2>4. DOMAIN calendar' = Calendars /\ calendar' = [c \in Calendars |-> calendar'[c]]
    BY <1>5 DEF SetDefault
  <2>5. calendar' \in Table /\ RowsStay
    BY <2>3, <2>4 DEF Table, RowsStay, subVars
  <2>6. TypeOK'
    BY <1>5, <1>t, <2>2, <2>5 DEF SetDefault, TypeOK, CatalogTypeOK, subVars, DueTypeOK, IsDue
  <2>7. Loaded'
    BY <2>2, <2>5, IdleSound, SoundStays DEF RequestSound, Idle, subVars
  <2>8. QED
    BY <1>u, <2>6, <2>7 DEF Inv
<1>6. QED
  BY <1>1, <1>2, <1>3, <1>4, <1>5 DEF CatalogStep

-----------------------------------------------------------------------------
\* Requests about subscriptions

\* A request is taken in: nothing but req changes.
LEMMA TakenIn ==
  ASSUME Inv, NEW q \in Requests, NEW r \in ApiRequests, req' = [req EXCEPT ![q] = r],
         UNCHANGED <<catalogVars, subVars, queued, worker>>, left' \in 0..MaxEvents,
         RequestSound(r)
  PROVE  Inv' /\ UserStep
<1>1. TypeOK'
  BY DEF Inv, TypeOK, CatalogTypeOK, catalogVars, subVars, DueTypeOK, IsDue
<1>2. req'[q] = r /\ \A p \in Requests \ {q} : req'[p] = req[p]
  BY DEF Inv, TypeOK
<1>3. RequestSound(r)'
  BY DEF RequestSound, catalogVars, subVars
<1>4. RequestSound(req[q])'
  BY <1>2, <1>3 DEF RequestSound
<1>5. Loaded'
  BY <1>2, <1>4, SoundStays DEF RowsStay, catalogVars, subVars
<1>6. QED
  BY <1>1, <1>5 DEF Inv, UserStep, subVars

LEMMA EventType ==
  ASSUME Inv, Event \/ UNCHANGED left
  PROVE  left' \in 0..MaxEvents
  BY SubscriptionsAssumption DEF Inv, TypeOK, Event

LEMMA BeginInv ==
  ASSUME Inv, NEW q \in Requests,
         \/ \E c \in Calendars, k \in Scopes : BeginCreate(q, c, k)
         \/ \E op \in {"pause", "resume", "delete"}, i \in Subs : Begin(q, op, i)
  PROVE  Inv' /\ UserStep
<1>1. ASSUME NEW c \in Calendars, NEW k \in Scopes, BeginCreate(q, c, k)
      PROVE  Inv' /\ UserStep
  <2>1. [op |-> "create", calendar |-> c, scope |-> k] \in ApiRequests
    BY DEF ApiRequests
  <2>2. RequestSound([op |-> "create", calendar |-> c, scope |-> k])
    BY DEF RequestSound
  <2>3. QED
    BY <1>1, <2>1, <2>2, TakenIn, EventType DEF BeginCreate
<1>2. ASSUME NEW op \in {"pause", "resume", "delete"}, NEW i \in Subs, Begin(q, op, i)
      PROVE  Inv' /\ UserStep
  <2> DEFINE r == [op |-> op, sub |-> i, status |-> sub[i].status]
  <2>1. sub[i] # None /\ sub[i].status \in Statuses
    BY <1>2 DEF Begin, Present, Inv, TypeOK, Subscription
  <2>2. r \in ApiRequests
    BY <2>1 DEF ApiRequests
  <2>3. RequestSound(r)
    BY <2>1 DEF RequestSound
  <2>4. /\ req' = [req EXCEPT ![q] = r]
        /\ UNCHANGED <<catalogVars, subVars, queued, worker>>
        /\ Event \/ UNCHANGED left
    BY <1>2 DEF Begin
  <2> HIDE DEF r
  <2>5. QED
    BY <2>2, <2>3, <2>4, TakenIn, EventType
<1>3. QED
  BY <1>1, <1>2

\* A request ends that leaves no gap in the table.
LEMMA Ended ==
  ASSUME Inv, NEW q \in Requests, End(q), UNCHANGED <<catalogVars, synced, queued, worker, left>>,
         sub' \in [Subs -> Subscription \cup {None}], DueTypeOK', RowsStay
  PROVE  Inv'
<1>1. req' \in [Requests -> ApiRequests] /\ req'[q] = Idle
      /\ \A p \in Requests \ {q} : req'[p] = req[p]
  BY EndType DEF Inv, TypeOK
<1>2. TypeOK'
  BY <1>1 DEF Inv, TypeOK, CatalogTypeOK, catalogVars
<1>3. RequestSound(req[q])'
  BY <1>1 DEF RequestSound, Idle
<1>4. Loaded'
  BY <1>1, <1>3, SoundStays
<1>5. QED
  BY <1>2, <1>4 DEF Inv

\* Columns of a row that is there are written.
LEMMA Written ==
  ASSUME Inv, NEW i \in Subs, sub[i] # None
  PROVE  /\ \A s \in Statuses :
              LET new == [sub EXCEPT ![i].status = s] IN
              /\ new \in [Subs -> Subscription \cup {None}]
              /\ new[i] # None /\ new[i].deleted = sub[i].deleted /\ new[i].status = s
              /\ \A j \in Subs \ {i} : new[j] = sub[j]
         /\ LET new == [sub EXCEPT ![i].deleted = TRUE] IN
            /\ new \in [Subs -> Subscription \cup {None}]
            /\ new[i] # None /\ new[i].deleted /\ new[i].status = sub[i].status
            /\ \A j \in Subs \ {i} : new[j] = sub[j]
<1>1. sub \in [Subs -> Subscription \cup {None}] /\ sub[i] \in Subscription
  BY DEF Inv, TypeOK
<1>2. None \notin Subscription
  BY NoneIsNoRow
<1>3. /\ \A s \in Statuses : [sub[i] EXCEPT !.status = s] \in Subscription
      /\ [sub[i] EXCEPT !.deleted = TRUE] \in Subscription
  BY <1>1 DEF Subscription
<1>4. /\ \A s \in Statuses : /\ [sub[i] EXCEPT !.status = s].status = s
                             /\ [sub[i] EXCEPT !.status = s].deleted = sub[i].deleted
      /\ [sub[i] EXCEPT !.deleted = TRUE].deleted
      /\ [sub[i] EXCEPT !.deleted = TRUE].status = sub[i].status
  BY <1>1 DEF Subscription
<1>5. QED
  BY <1>1, <1>2, <1>3, <1>4

LEMMA StatusWritten ==
  ASSUME Inv, NEW i \in Subs, sub[i] # None, NEW s \in Statuses,
         sub' = sub \/ sub' = [sub EXCEPT ![i].status = s]
  PROVE  /\ sub' \in [Subs -> Subscription \cup {None}]
         /\ sub' = sub \/ sub'[i].status = s
         /\ sub'[i] # None /\ sub'[i].deleted = sub[i].deleted
         /\ \A j \in Subs \ {i} : sub'[j] = sub[j]
<1>1. CASE sub' = sub
  BY <1>1 DEF Inv, TypeOK
<1>2. CASE sub' = [sub EXCEPT ![i].status = s]
  BY <1>2, Written
<1>3. QED
  BY <1>1, <1>2

LEMMA WriteInv ==
  ASSUME Inv, NEW q \in Requests, Create(q) \/ Pause(q) \/ Resume(q) \/ Delete(q)
  PROVE  Inv' /\ UserStep
<1>t. TypeOK /\ DueTypeOK
  BY DEF Inv, TypeOK
<1>n. None \notin Subscription
  BY NoneIsNoRow
<1>1. CASE Create(q)
  <2>1. PICK i \in Subs :
          /\ sub[i] = None
          /\ sub' = [sub EXCEPT ![i] = [calendar |-> req[q].calendar, scope |-> req[q].scope,
                                        status |-> "ACTIVE", deleted |-> FALSE]]
          /\ due' = WithLast(i)
    BY <1>1 DEF Create
  <2>2. [calendar |-> req[q].calendar, scope |-> req[q].scope,
         status |-> "ACTIVE", deleted |-> FALSE] \in Subscription
    BY <1>1, <1>t, RequestTypes DEF Create, Subscription, Statuses
  <2>3. /\ sub' \in [Subs -> Subscription \cup {None}]
        /\ sub'[i] \in Subscription /\ \A j \in Subs \ {i} : sub'[j] = sub[j]
    BY <1>t, <2>1, <2>2 DEF TypeOK
  <2>4. RowsStay
    BY <1>1, <1>n, <2>3 DEF Create, RowsStay, catalogVars
  <2>5. Inv'
    BY <1>1, <1>t, <2>1, <2>3, <2>4, WithLastType, Ended DEF Create
  <2>6. UserStep
    BY <1>n, <2>1, <2>3 DEF UserStep
  <2>7. QED
    BY <2>5, <2>6
<1>2. CASE Pause(q)
  <2> DEFINE i == req[q].sub
  <2>1. i \in Subs /\ sub[i] # None
    BY <1>2, <1>t, RequestTypes DEF Pause, Inv, Loaded, RequestSound
  <2>2. sub' = sub \/ sub' = [sub EXCEPT ![i].status = "PAUSED"]
    BY <1>2 DEF Pause
  <2> HIDE DEF i
  <2>3. /\ sub' \in [Subs -> Subscription \cup {None}]
        /\ sub' = sub \/ sub'[i].status = "PAUSED"
        /\ sub'[i] # None /\ sub'[i].deleted = sub[i].deleted
        /\ \A j \in Subs \ {i} : sub'[j] = sub[j]
    BY <2>1, <2>2, StatusWritten DEF Statuses
  <2>4. RowsStay
    BY <1>2, <2>1, <2>3 DEF Pause, RowsStay, catalogVars
  <2>5. DueTypeOK'
    BY <1>2, <1>t DEF Pause, DueTypeOK, IsDue
  <2>6. Inv'
    BY <1>2, <2>3, <2>4, <2>5, Ended DEF Pause
  <2>7. UserStep
    BY <2>1, <2>3 DEF UserStep
  <2>8. QED
    BY <2>6, <2>7
<1>3. CASE Resume(q)
  <2> DEFINE i == req[q].sub
  <2>1. i \in Subs /\ sub[i] # None
    BY <1>3, <1>t, RequestTypes DEF Resume, Inv, Loaded, RequestSound
  <2>2. req[q].op = "resume" /\ req[q].sub = i /\ req'[q] = Idle
    BY <1>3, <1>t, EndType DEF Resume, TypeOK
  <2>3. due' = WithLast(i) /\ (sub' = sub \/ sub' = [sub EXCEPT ![i].status = "ACTIVE"])
    BY <1>3 DEF Resume
  <2> HIDE DEF i
  <2>4. /\ sub' \in [Subs -> Subscription \cup {None}]
        /\ sub'[i] # None /\ sub'[i].deleted = sub[i].deleted
        /\ \A j \in Subs \ {i} : sub'[j] = sub[j]
    BY <2>1, <2>3, StatusWritten DEF Statuses
  <2>5. RowsStay
    BY <1>3, <2>1, <2>4 DEF Resume, RowsStay, catalogVars
  <2>6. Inv'
    BY <1>3, <1>t, <2>1, <2>4, <2>3, <2>5, WithLastType, Ended DEF Resume
  <2>7. UserStep
    BY <2>1, <2>4, <2>2 DEF UserStep
  <2>8. QED
    BY <2>6, <2>7
<1>4. CASE Delete(q)
  <2> DEFINE i == req[q].sub
  <2>1. i \in Subs /\ sub[i] # None
    BY <1>4, <1>t, RequestTypes DEF Delete, Inv, Loaded, RequestSound
  <2>2. /\ sub' \in [Subs -> Subscription \cup {None}]
        /\ sub'[i] # None /\ sub'[i].deleted /\ sub'[i].status = sub[i].status
        /\ \A j \in Subs \ {i} : sub'[j] = sub[j]
    BY <1>4, <1>t, <2>1, Written DEF Delete
  <2>3. due' = Without(i)
    BY <1>4 DEF Delete
  <2> HIDE DEF i
  <2>4. RowsStay
    BY <1>4, <2>1, <2>2 DEF Delete, RowsStay, catalogVars
  <2>5. Inv'
    BY <1>4, <1>t, <2>1, <2>2, <2>3, <2>4, WithoutType, Ended DEF Delete
  <2>6. UserStep
    BY <2>1, <2>2 DEF UserStep
  <2>7. QED
    BY <2>5, <2>6
<1>5. QED
  BY <1>1, <1>2, <1>3, <1>4

-----------------------------------------------------------------------------
\* The scheduler, the fixtures and the provider

LEMMA OutsideInv ==
  ASSUME Inv,
         \/ \E i \in Subs : SyncNow(i) \/ TimePasses(i) \/ FixturesChange(i)
         \/ Scan \/ Provider
  PROVE  Inv' /\ UserStep
<1>t. TypeOK /\ DueTypeOK /\ CatalogTypeOK
  BY DEF Inv, TypeOK
<1>1. CASE UNCHANGED <<catalogVars, req, sub>> /\ DueTypeOK' /\ synced' \in [Subs -> BOOLEAN]
           /\ queued' \subseteq Subs /\ left' \in 0..MaxEvents /\ worker' = worker
  <2>1. TypeOK'
    BY <1>1, <1>t DEF TypeOK, CatalogTypeOK, catalogVars
  <2>2. Loaded'
    BY <1>1, SoundStays DEF RowsStay, catalogVars
  <2>3. QED
    BY <1>1, <2>1, <2>2 DEF Inv, UserStep
<1>2. ASSUME NEW i \in Subs, SyncNow(i)
      PROVE  Inv' /\ UserStep
  BY <1>1, <1>2, <1>t, EventType DEF SyncNow, subVars, DueTypeOK, IsDue, TypeOK
<1>3. ASSUME NEW i \in Subs, TimePasses(i)
      PROVE  Inv' /\ UserStep
  BY <1>1, <1>3, <1>t, WithLastType DEF TimePasses, TypeOK
<1>4. CASE Scan
  <2>1. ListDue \subseteq Subs
    BY DEF ListDue
  <2>2. QED
    BY <1>1, <1>4, <1>t, <2>1 DEF Scan, subVars, DueTypeOK, IsDue, TypeOK
<1>5. ASSUME NEW i \in Subs, FixturesChange(i)
      PROVE  Inv' /\ UserStep
  <2>1. /\ UNCHANGED <<catalogVars, req, sub, due, queued>> /\ synced' \in [Subs -> BOOLEAN]
        /\ left' \in 0..MaxEvents
    BY <1>5, <1>t, EventType DEF FixturesChange, TypeOK
  <2>2. ASSUME NEW w \in Workers
        PROVE  /\ worker'[w] \in Runs
               /\ worker'[w] = worker[w] \/ (worker'[w].todo = worker[w].todo /\ worker[w] # IdleRun)
    <3>1. CASE worker'[w] = worker[w]
      BY <1>t, <3>1 DEF TypeOK
    <3>2. CASE worker[w].pc = "write" /\ worker'[w] = [worker[w] EXCEPT !.good = FALSE]
      <4>1. worker[w] \in [pc : {"write"}, todo : Seq(Subs), locked : BOOLEAN,
                           status : Statuses, good : BOOLEAN]
        BY <1>t, <3>2 DEF TypeOK, Runs, IdleRun
      <4>2. /\ worker'[w] \in [pc : {"write"}, todo : Seq(Subs), locked : BOOLEAN,
                               status : Statuses, good : BOOLEAN]
            /\ worker'[w].todo = worker[w].todo
        BY <3>2, <4>1
      <4>3. QED
        BY <3>2, <4>2 DEF Runs, IdleRun
    <3>3. CASE worker[w].pc = "persist" /\ worker'[w] = [worker[w] EXCEPT !.good = FALSE]
      <4>1. worker[w] \in [pc : {"persist"}, todo : Seq(Subs), locked : BOOLEAN,
                           status : Statuses, good : BOOLEAN, result : Results, stop : BOOLEAN]
        BY <1>t, <3>3 DEF TypeOK, Runs, IdleRun
      <4>2. /\ worker'[w] \in [pc : {"persist"}, todo : Seq(Subs), locked : BOOLEAN,
                               status : Statuses, good : BOOLEAN, result : Results, stop : BOOLEAN]
            /\ worker'[w].todo = worker[w].todo
        BY <3>3, <4>1
      <4>3. QED
        BY <3>3, <4>2 DEF Runs, IdleRun
    <3>4. QED
      BY <1>5, <3>1, <3>2, <3>3 DEF FixturesChange
  <2>3. worker' \in [Workers -> Runs]
    BY <1>5, <2>2 DEF FixturesChange
  <2>4. TypeOK'
    BY <1>t, <2>1, <2>3 DEF TypeOK, CatalogTypeOK, catalogVars, DueTypeOK, IsDue
  <2>5. ASSUME NEW w \in Workers, worker'[w] # worker[w]
        PROVE  RunSound(worker[w])'
    <3>1. RunSound(worker[w]) /\ worker[w] # IdleRun /\ worker'[w].todo = worker[w].todo
      BY <2>2, <2>5 DEF Inv, Loaded
    <3>2. QED
      BY <2>1, <3>1 DEF RunSound
  <2>6. Loaded'
    BY <2>1, <2>5, SoundStays DEF RowsStay, catalogVars
  <2>7. QED
    BY <2>1, <2>4, <2>6 DEF Inv, UserStep
<1>6. CASE Provider
  <2>1. CatalogTypeOK' /\ calendar' = calendar
    BY <1>6, <1>t DEF Provider, RemoteChanges, ConsentChanges, CatalogTypeOK
  <2>2. left' \in 0..MaxEvents /\ UNCHANGED <<req, sub, due, synced, queued, worker>>
    BY <1>6, EventType DEF Provider, subVars
  <2>3. TypeOK'
    BY <1>t, <2>1, <2>2 DEF TypeOK, DueTypeOK, IsDue
  <2>4. Loaded'
    BY <2>1, <2>2, SoundStays DEF RowsStay
  <2>5. QED
    BY <2>2, <2>3, <2>4 DEF Inv, UserStep
<1>7. QED
  BY <1>2, <1>3, <1>4, <1>5, <1>6

-----------------------------------------------------------------------------
\* Runs of the engine

\* A run is replaced by a sound one; nothing that is stored changes.
LEMMA RunReplaced ==
  ASSUME Inv, NEW w \in Workers, NEW run \in Runs, worker' = [worker EXCEPT ![w] = run],
         RunSound(run), UNCHANGED <<catalogVars, req, subVars>>,
         queued' \subseteq Subs, left' \in 0..MaxEvents
  PROVE  Inv' /\ UserStep
<1>1. TypeOK'
  BY DEF Inv, TypeOK, CatalogTypeOK, catalogVars, subVars, DueTypeOK, IsDue
<1>2. worker'[w] = run /\ \A v \in Workers \ {w} : worker'[v] = worker[v]
  BY DEF Inv, TypeOK
<1>3. RunSound(run)'
  BY DEF RunSound, subVars
<1>4. RunSound(worker[w])'
  BY <1>2, <1>3 DEF RunSound
<1>5. Loaded'
  BY <1>2, <1>4, SoundStays DEF RowsStay, catalogVars, subVars
<1>6. QED
  BY <1>1, <1>5 DEF Inv, UserStep, subVars

LEMMA IdleRunType == IdleRun \in Runs /\ RunSound(IdleRun)
  BY DEF Runs, RunSound

LEMMA StartJobInv ==
  ASSUME Inv, NEW w \in Workers, NEW i \in Subs, StartJob(w, i)
  PROVE  Inv' /\ UserStep
<1>1. /\ queued' \subseteq Subs /\ left' \in 0..MaxEvents
      /\ UNCHANGED <<catalogVars, req, subVars>>
  BY EventType DEF StartJob, Inv, TypeOK
<1>2. CASE worker' = worker
  <2>1. worker' = [worker EXCEPT ![w] = worker[w]] /\ worker[w] \in Runs /\ RunSound(worker[w])
    BY <1>2 DEF Inv, TypeOK, Loaded
  <2>2. QED
    BY <1>1, <2>1, RunReplaced
<1>3. CASE Present(i) /\ worker' = [worker EXCEPT ![w] = Begun(<<i>>, TRUE, sub[i].status)]
  <2>1. sub[i] # None /\ sub[i].status \in Statuses /\ <<i>> \in Seq(Subs)
    BY <1>3 DEF Present, Inv, TypeOK, Subscription
  <2>2. /\ Begun(<<i>>, TRUE, sub[i].status) \in Runs
        /\ Begun(<<i>>, TRUE, sub[i].status).todo = <<i>>
    BY <2>1, BegunType
  <2>3. RunSound(Begun(<<i>>, TRUE, sub[i].status))
    <3>1. <<i>> # <<>> /\ \A n \in DOMAIN <<i>> : <<i>>[n] = i
      OBVIOUS
    <3>2. QED
      BY <2>1, <2>2, <3>1 DEF RunSound
  <2>4. QED
    BY <1>1, <1>3, <2>2, <2>3, RunReplaced
<1>4. QED
  BY <1>2, <1>3 DEF StartJob

LEMMA StartManyInv ==
  ASSUME Inv, NEW w \in Workers, NEW rows \in SUBSET {i \in Subs : Active(i)},
         NEW ids \in Listings(rows), StartMany(w, ids)
  PROVE  Inv' /\ UserStep
<1>1. rows \subseteq Subs /\ \A i \in rows : sub[i] # None
  BY DEF Active, Present
<1>2. Cardinality(rows) \in Nat
  BY <1>1, FS_Subset, FS_CardinalityType, SubscriptionsAssumption
<1>3. /\ ids \in Seq(Subs) /\ ids # <<>>
      /\ \A n \in DOMAIN ids : sub[ids[n]] # None
  BY <1>1, <1>2 DEF Listings
<1>4. Begun(ids, FALSE, "ACTIVE") \in Runs /\ Begun(ids, FALSE, "ACTIVE").todo = ids
  BY <1>3, BegunType DEF Statuses
<1>5. RunSound(Begun(ids, FALSE, "ACTIVE"))
  BY <1>3, <1>4 DEF RunSound
<1>6. /\ queued' \subseteq Subs /\ left' \in 0..MaxEvents
      /\ UNCHANGED <<catalogVars, req, subVars>>
  BY EventType DEF StartMany, Inv, TypeOK
<1>7. worker' = [worker EXCEPT ![w] = Begun(ids, FALSE, "ACTIVE")]
  BY DEF StartMany
<1>8. QED
  BY <1>4, <1>5, <1>6, <1>7, RunReplaced

\* The run of a user's subscriptions, or of a calendar's.
LEMMA SyncAllInv ==
  ASSUME Inv, NEW w \in Workers, SyncUser(w) \/ \E c \in Calendars : SyncCalendar(w, c)
  PROVE  Inv' /\ UserStep
<1>1. CASE SyncUser(w)
  <2>1. PICK ids \in Listings({i \in Subs : Active(i)}) : StartMany(w, ids)
    BY <1>1 DEF SyncUser
  <2>2. QED
    BY <2>1, StartManyInv
<1>2. ASSUME NEW c \in Calendars, SyncCalendar(w, c)
      PROVE  Inv' /\ UserStep
  <2> DEFINE rows == {i \in Subs : Active(i) /\ sub[i].calendar = c}
  <2>1. PICK ids \in Listings(rows) : StartMany(w, ids)
    BY <1>2 DEF SyncCalendar
  <2>2. rows \in SUBSET {i \in Subs : Active(i)}
    OBVIOUS
  <2>3. QED
    BY <2>1, <2>2, StartManyInv
<1>3. QED
  BY <1>1, <1>2

\* The run that goes on with the rest of its list, or ends.
LEMMA NextInLineType ==
  ASSUME Inv, NEW w \in Workers, worker[w] # IdleRun, NextInLine(w)
  PROVE  \E run \in Runs : worker' = [worker EXCEPT ![w] = run] /\ RunSound(run)
<1> DEFINE todo == worker[w].todo  rest == Tail(todo)
<1>1. todo \in Seq(Subs) /\ todo # <<>> /\ worker[w].locked \in BOOLEAN
      /\ \A n \in DOMAIN todo : sub[todo[n]] # None
  BY RunTypes DEF Inv, Loaded, RunSound
<1>2. /\ rest \in Seq(Subs)
      /\ \A n \in DOMAIN rest : n + 1 \in DOMAIN todo /\ rest[n] = todo[n + 1]
  BY <1>1
<1>3. CASE rest = <<>>
  BY <1>3, IdleRunType DEF NextInLine
<1>4. CASE rest # <<>>
  <2>1. worker' = [worker EXCEPT ![w] = Begun(rest, worker[w].locked, "ACTIVE")]
    BY <1>4 DEF NextInLine
  <2> HIDE DEF rest, todo
  <2>2. /\ Begun(rest, worker[w].locked, "ACTIVE") \in Runs
        /\ Begun(rest, worker[w].locked, "ACTIVE").todo = rest
    BY <1>1, <1>2, BegunType DEF Statuses
  <2>3. RunSound(Begun(rest, worker[w].locked, "ACTIVE"))
    BY <1>1, <1>2, <1>4, <2>2 DEF RunSound
  <2>4. QED
    BY <2>1, <2>2, <2>3
<1>5. QED
  BY <1>3, <1>4

LEMMA ExecutedType ==
  ASSUME Inv, NEW w \in Workers, worker[w].pc = "write",
         NEW result \in Results, NEW stop \in BOOLEAN, Executed(w, result, stop)
  PROVE  \E run \in Runs : worker' = [worker EXCEPT ![w] = run] /\ RunSound(run)
<1> DEFINE run == [pc |-> "persist", todo |-> worker[w].todo, locked |-> worker[w].locked,
                   status |-> worker[w].status, good |-> worker[w].good, result |-> result,
                   stop |-> stop]
<1>1. worker[w] # IdleRun /\ RunSound(worker[w])
  BY DEF Inv, Loaded, IdleRun
<1>2. run \in Runs
  BY <1>1, RunTypes DEF Inv, Runs
<1>3. run.todo = worker[w].todo /\ worker' = [worker EXCEPT ![w] = run]
  BY DEF Executed
<1> HIDE DEF run
<1>4. RunSound(run)
  BY <1>1, <1>3 DEF RunSound
<1>5. QED
  BY <1>2, <1>3, <1>4

\* The steps of a run before it stores what it did.
LEMMA WorkInv ==
  ASSUME Inv, NEW w \in Workers,
         \/ Plan(w) \/ Write(w) \/ WriteRefused(w) \/ WriteDenied(w) \/ WriteGone(w)
         \/ WriteFails(w) \/ Crash(w)
  PROVE  Inv' /\ UserStep
<1>1. /\ queued' \subseteq Subs /\ left' \in 0..MaxEvents
      /\ UNCHANGED <<catalogVars, req, subVars>>
  BY EventType DEF Plan, Write, WriteRefused, WriteDenied, WriteGone, WriteFails, Crash, Inv, TypeOK
<1>2. CASE Plan(w)
  <2> DEFINE run == [pc |-> "write", todo |-> worker[w].todo, locked |-> worker[w].locked,
                     status |-> worker[w].status, good |-> TRUE]
  <2>1. worker[w] # IdleRun /\ RunSound(worker[w])
    BY <1>2 DEF Plan, Inv, Loaded, IdleRun
  <2>2. run \in Runs
    BY <2>1, RunTypes DEF Inv, Runs
  <2>3. run.todo = worker[w].todo /\ worker' = [worker EXCEPT ![w] = run]
    BY <1>2 DEF Plan
  <2> HIDE DEF run
  <2>4. RunSound(run)
    BY <2>1, <2>3 DEF RunSound
  <2>5. QED
    BY <1>1, <2>2, <2>3, <2>4, RunReplaced
<1>3. CASE Write(w) \/ WriteRefused(w) \/ WriteDenied(w) \/ WriteFails(w)
  <2>1. worker[w].pc = "write" /\ \E result \in Results, stop \in BOOLEAN : Executed(w, result, stop)
    BY <1>3 DEF Write, WriteRefused, WriteDenied, WriteFails, Results
  <2>2. QED
    BY <1>1, <2>1, ExecutedType, RunReplaced
<1>4. CASE WriteGone(w) \/ Crash(w)
  BY <1>1, <1>4, IdleRunType, RunReplaced DEF WriteGone, Crash
<1>5. QED
  BY <1>2, <1>3, <1>4

\* What a run stores it stores into a row that is there, and no status but PAUSED.
LEMMA StoreInv ==
  ASSUME Inv, NEW w \in Workers, PlanNothing(w) \/ Persist(w)
  PROVE  Inv' /\ UserStep
<1> DEFINE i == Head(worker[w].todo)
<1>t. TypeOK /\ DueTypeOK
  BY DEF Inv, TypeOK
<1>1. worker[w] # IdleRun /\ NextInLine(w)
      /\ UNCHANGED <<catalogVars, req, queued, left>>
  BY DEF PlanNothing, Persist, IdleRun
<1>2. i \in Subs /\ sub[i] # None
  BY <1>1, HeadLoaded
<1>3. PICK run \in Runs : worker' = [worker EXCEPT ![w] = run] /\ RunSound(run)
  BY <1>1, NextInLineType
<1>4. sub' = sub \/ sub' = [sub EXCEPT ![i].status = "PAUSED"]
  BY DEF PlanNothing, Persist
<1>5. due' = due \/ due' = Without(i)
  BY DEF PlanNothing, Persist
<1>6. synced' \in [Subs -> BOOLEAN]
  <2>1. CASE PlanNothing(w)
    BY <1>t, <2>1 DEF PlanNothing, TypeOK
  <2>2. CASE Persist(w)
    <3>1. worker[w].good \in BOOLEAN
      BY <1>1, <1>t, <2>2, RunTypes DEF Persist
    <3>2. synced' = synced \/ synced' = [synced EXCEPT ![i] = worker[w].good]
      BY <2>2 DEF Persist
    <3> HIDE DEF i
    <3>3. QED
      BY <1>t, <3>1, <3>2 DEF TypeOK
  <2>3. QED
    BY <2>1, <2>2
<1> HIDE DEF i
<1>7. /\ sub' \in [Subs -> Subscription \cup {None}]
      /\ sub' = sub \/ sub'[i].status = "PAUSED"
      /\ sub'[i] # None /\ sub'[i].deleted = sub[i].deleted
      /\ \A j \in Subs \ {i} : sub'[j] = sub[j]
  BY <1>2, <1>4, StatusWritten DEF Statuses
<1>8. DueTypeOK'
  BY <1>t, <1>2, <1>5, WithoutType DEF DueTypeOK, IsDue
<1>9. worker' \in [Workers -> Runs] /\ worker'[w] = run
      /\ \A v \in Workers \ {w} : worker'[v] = worker[v]
  BY <1>t, <1>3 DEF TypeOK
<1>10. TypeOK'
  BY <1>t, <1>1, <1>7, <1>6, <1>8, <1>9 DEF TypeOK, CatalogTypeOK, catalogVars
<1>11. RowsStay
  BY <1>1, <1>2, <1>7 DEF RowsStay, catalogVars
<1>12. RunSound(worker[w])'
  <2>1. run # IdleRun => run.todo \in Seq(Subs)
    BY <1>3 DEF Runs
  <2>2. QED
    BY <1>3, <1>9, <1>11, <2>1 DEF RunSound, RowsStay
<1>13. Loaded'
  BY <1>1, <1>9, <1>11, <1>12, SoundStays
<1>14. UserStep
  BY <1>2, <1>7 DEF UserStep
<1>15. QED
  BY <1>10, <1>13, <1>14 DEF Inv

-----------------------------------------------------------------------------
\* Theorems

LEMMA InitInv == Init => Inv
<1> SUFFICES ASSUME Init PROVE Inv
  OBVIOUS
<1>1. CatalogTypeOK
  BY DEF Init, CatalogInit, CatalogTypeOK, Table, Roles
<1>2. TypeOK
  BY <1>1, SubscriptionsAssumption DEF Init, TypeOK, DueTypeOK, IsDue, ApiRequests, Runs
<1>3. Loaded
  BY DEF Init, Loaded, RequestSound, RunSound, Idle
<1>4. QED
  BY <1>2, <1>3 DEF Inv

LEMMA NextInv ==
  ASSUME Inv, [Next]_vars
  PROVE  Inv' /\ UserStep
<1>1. CASE UNCHANGED vars
  <2>1. UNCHANGED <<catalogVars, req, sub, due, synced, queued, worker, left>>
    BY <1>1 DEF vars
  <2>2. TypeOK'
    BY <2>1 DEF Inv, TypeOK, CatalogTypeOK, catalogVars, DueTypeOK, IsDue
  <2>3. Loaded'
    BY <2>1, SoundStays DEF RowsStay, catalogVars
  <2>4. QED
    BY <2>1, <2>2, <2>3 DEF Inv, UserStep
<1>2. ASSUME NEW q \in Requests, ApiStep(q)
      PROVE  Inv' /\ UserStep
  BY <1>2, CatalogInv, BeginInv, WriteInv DEF ApiStep
<1>3. CASE \/ \E i \in Subs : SyncNow(i) \/ TimePasses(i) \/ FixturesChange(i)
           \/ Scan \/ Provider
  BY <1>3, OutsideInv
<1>4. ASSUME NEW w \in Workers, RunStep(w) \/ WriteFails(w) \/ Crash(w)
      PROVE  Inv' /\ UserStep
  BY <1>4, WorkInv, StoreInv DEF RunStep
<1>5. QED
  BY <1>1, <1>2, <1>3, <1>4, StartJobInv, SyncAllInv DEF Next

LEMMA Invariance == Spec => []Inv
<1>1. Inv /\ [Next]_vars => Inv'
  BY NextInv
<1>2. QED
  BY <1>1, InitInv, PTL DEF Spec

\* Whatever rows change between the transaction that loads them and the one that
\* writes them, calendars, subscriptions, requests and runs keep their types, and
\* the due subscriptions stay in one order.
THEOREM SubscriptionTypes == Spec => []TypeOK
<1>1. Inv => TypeOK
  BY DEF Inv
<1>2. QED
  BY <1>1, Invariance, PTL

\* No run and no request that loaded a subscription earlier brings back what its
\* user deleted, and only a request to resume sets what is paused to active.
THEOREM UserChoiceStands == Spec => UserWins
<1>1. Inv /\ [Next]_vars => [UserStep]_vars
  BY NextInv
<1>2. [UserStep]_vars => [\A i \in Subs : sub[i] # None =>
       /\ sub'[i] # None /\ (sub[i].deleted => sub'[i].deleted)
       /\ sub[i].status = "PAUSED" /\ sub'[i].status = "ACTIVE" =>
            \E q \in Requests : req[q].op = "resume" /\ req[q].sub = i /\ req'[q] = Idle]_vars
  BY DEF UserStep
<1>3. QED
  BY <1>1, <1>2, Invariance, PTL DEF Spec, UserWins

=============================================================================
