--------------------------- MODULE CalendarCatalog ---------------------------
(***************************************************************************)
(* CalendarService, but for its event calls: the calendars table of one    *)
(* linked account, kept in step with the provider's calendar list, and the *)
(* choice of the sync target.  The provider is external: it may drop a     *)
(* calendar, change the user's role in it or lose his consent.             *)
(*                                                                         *)
(* A request is a unit of work of its own: it writes the columns it        *)
(* changes of the rows it loaded, whatever the rows have become since.     *)
(***************************************************************************)
EXTENDS Integers, Sequences, FiniteSets, SequencesExt

CONSTANTS
  None,
  Calendars,  \* calendars the provider may list
  Requests    \* API requests that may be in flight

Roles == {"writer", "reader"}

VARIABLES
  remote,    \* external: the user's role in each calendar the provider lists
  consent,   \* external: the account's grant is good
  calendar,  \* the calendars table
  req        \* API requests in flight

catalogVars == <<remote, consent, calendar>>

Row == [live : BOOLEAN, target : BOOLEAN, role : Roles]
Table == [Calendars -> Row \cup {None}]

Idle == [op |-> "idle"]

\* Requests are alike: a new one takes the first free place.
Free(q) == req[q] = Idle /\ \A p \in Requests : p < q => req[p] # Idle
End(q) == req' = [req EXCEPT ![q] = Idle]

CatalogInit ==
  /\ remote = [c \in Calendars |-> "writer"]
  /\ consent = TRUE
  /\ calendar = [c \in Calendars |-> None]

\* list_for_user, list_for_account
Live(c) == calendar[c] # None /\ calendar[c].live

\* validate_remote and require_write
Writable(c) == consent /\ remote[c] = "writer"

-----------------------------------------------------------------------------

\* discover_calendars fetches the provider's list ...
Discover(q) ==
  /\ Free(q) /\ consent
  /\ req' = [req EXCEPT ![q] = [op |-> "discover", listed |-> remote]]
  /\ UNCHANGED catalogVars

Discovered(c, role) ==
  IF role = None
  THEN IF calendar[c] = None THEN None ELSE [calendar[c] EXCEPT !.live = FALSE]
  ELSE IF calendar[c] = None THEN [live |-> TRUE, target |-> FALSE, role |-> role]
  ELSE [calendar[c] EXCEPT !.live = TRUE, !.role = role]

\* ... and brings the table in step with it.
Reconcile(q) ==
  /\ req[q].op = "discover"
  /\ calendar' = [c \in Calendars |-> Discovered(c, req[q].listed[c])]
  /\ End(q)
  /\ UNCHANGED <<remote, consent>>

\* set_default_calendar loads the calendar and validates it with the provider.
Choose(q, c) ==
  /\ Free(q) /\ Live(c) /\ Writable(c)
  /\ req' = [req EXCEPT ![q] = [op |-> "choose", calendar |-> c, row |-> calendar[c]]]
  /\ UNCHANGED catalogVars

\* The rows of the account, as the loop reads them; the chosen one is the one it holds.
ListRows(q) ==
  /\ req[q].op = "choose"
  /\ LET rows == [c \in Calendars |-> IF ~ Live(c) THEN None
                                      ELSE IF c = req[q].calendar THEN req[q].row ELSE calendar[c]] IN
     req' = [req EXCEPT ![q] = [op |-> "select", calendar |-> req[q].calendar, rows |-> rows]]
  /\ UNCHANGED catalogVars

\* The target flag, where the loaded row had another one.
Selected(c, chosen, row) ==
  IF row = None \/ row.target = (c = chosen) THEN calendar[c]
  ELSE [calendar[c] EXCEPT !.target = (c = chosen)]

\* The commit; the validated role is that of a writer.
SetDefault(q) ==
  /\ req[q].op = "select"
  /\ LET chosen == req[q].calendar IN
     calendar' = [c \in Calendars |->
       LET row == Selected(c, chosen, req[q].rows[c]) IN
       IF c = chosen /\ (req[q].rows[c] = None \/ req[q].rows[c].role # "writer")
       THEN [row EXCEPT !.role = "writer"] ELSE row]
  /\ End(q)
  /\ UNCHANGED <<remote, consent>>

-----------------------------------------------------------------------------
\* The provider's side

RemoteChanges(c) ==
  /\ \E role \in Roles \cup {None} : role # remote[c] /\ remote' = [remote EXCEPT ![c] = role]
  /\ UNCHANGED <<consent, calendar>>

\* The grant is revoked, or given again by a new login.
ConsentChanges ==
  /\ consent' = ~ consent
  /\ UNCHANGED <<remote, calendar>>

CatalogStep(q) ==
  \/ Discover(q) \/ Reconcile(q)
  \/ (\E c \in Calendars : Choose(q, c))
  \/ ListRows(q) \/ SetDefault(q)

CatalogTypeOK ==
  /\ remote \in [Calendars -> Roles \cup {None}]
  /\ consent \in BOOLEAN
  /\ calendar \in Table

\* set_default_calendar: exactly one sync target per account.
OneTarget ==
  Cardinality({c \in Calendars : Live(c) /\ calendar[c].target}) <= 1
=============================================================================
