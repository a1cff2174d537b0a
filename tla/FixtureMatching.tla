--------------------------- MODULE FixtureMatching ---------------------------
(***************************************************************************)
(* The pure part of fixture ingestion (domain/fixtures): which records of  *)
(* a payload are usable, which of them describe one match, which stored    *)
(* fixture a record belongs to, whether it says anything new, and how the  *)
(* change is classified.                                                   *)
(*                                                                         *)
(* A kick-off is a slot; a status stands for every other field the content *)
(* hash digests; a revision is the provider's updated-at, 0 when it sends  *)
(* none.  sides are the provider's participants, teams those of them that  *)
(* the catalog knows, stored as home_team_id and away_team_id.             *)
(***************************************************************************)
EXTENDS Integers, FiniteSets, SequencesExt

CONSTANTS
  None,
  Competitions, Pids,   \* competitions, and the provider's fixture ids
  Teams,                \* participants of matches
  Slots, DayLength,     \* kick-off times, and how many of them make a UTC day
  Tolerance,            \* fixture_match_tolerance_hours, in slots
  Statuses              \* the statuses the provider reports

FixtureStatus == {"scheduled", "live", "finished", "postponed", "cancelled"}

ASSUME MatchingAssumption ==
  /\ Slots \subseteq Nat
  /\ DayLength \in Nat \ {0} /\ Tolerance \in Nat
  /\ Statuses \subseteq FixtureStatus
  /\ None \notin Nat \cup Pids \cup Competitions

\* The Fixture DTO of a provider, and the same with its teams resolved.
Record == [comp : Competitions, pid : Pids, sides : SUBSET Teams, slot : Slots,
           status : Statuses, rev : Nat]
Candidate == [comp : Competitions, pid : Pids, sides : SUBSET Teams, slot : Slots,
              status : Statuses, rev : Nat, teams : SUBSET Teams]

\* _resolve_sides: participants the catalog does not know become null.
Resolve(r, catalog) ==
  [comp |-> r.comp, pid |-> r.pid, sides |-> r.sides, slot |-> r.slot,
   status |-> r.status, rev |-> r.rev, teams |-> r.sides \cap catalog]

-----------------------------------------------------------------------------
\* Identity

Day(slot) == slot \div DayLength

\* compute_identity_key: sport and competition, sorted participants, UTC day.
Identity(r) == <<r.comp, r.sides, Day(r.slot)>>

Near(s, t) == s - t <= Tolerance /\ t - s <= Tolerance

\* The third rung of the ladder, the only heuristic one.
SameEncounter(q, r) == q.teams # {} /\ q.teams = r.teams /\ Near(q.slot, r.slot)

-----------------------------------------------------------------------------
\* Validation

WarningCodes == {"single_participant"}
ErrorCodes ==
  {"not_normalized_start", "naive_datetime", "not_utc", "not_normalized_status",
   "not_normalized_id", "missing_external_id", "missing_competition", "missing_sport",
   "no_participants", "blank_participant_id", "duplicate_participants",
   "blank_participant_name", "implausible_date", "naive_end", "end_before_start",
   "missing_start"}

HasErrors(issues) == issues \cap ErrorCodes # {}

\* A payload maps records to the issues the two validation passes find; records
\* with errors are dropped, and by import policy those outside the window.
Usable(payload, window) ==
  {r \in DOMAIN payload : ~ HasErrors(payload[r]) /\ r.slot \in window}

-----------------------------------------------------------------------------
\* Deduplication and matching

\* Two records of one payload that dedupe_batch takes for one match.
Duplicate(q, r) == q.pid = r.pid \/ Identity(q) = Identity(r) \/ SameEncounter(q, r)

\* dedupe_batch keeps the first record of each match.  The provider's order is
\* arbitrary, so the outcomes are the maximal sets without duplicates.
Deduped(records) ==
  {kept \in SUBSET records :
     /\ \A q, r \in kept : q # r => ~ Duplicate(q, r)
     /\ \A q \in records \ kept : \E r \in kept : Duplicate(q, r)}

\* FixtureMatcher.match: provider id, then identity key, then participants near
\* in time.  Of several rows on the last rung any may come first.
Targets(r, existing, rows) ==
  LET byId       == {i \in existing : rows[i].pid = r.pid}
      byIdentity == {i \in existing : Identity(rows[i]) = Identity(r)}
      byTeams    == {i \in existing : SameEncounter(rows[i], r)} IN
  IF byId # {} THEN byId
  ELSE IF byIdentity # {} THEN byIdentity
  ELSE IF byTeams # {} THEN byTeams
  ELSE {None}

-----------------------------------------------------------------------------
\* Version detection

\* A provider regression: an older revision than the one stored.
Stale(r, row) == r.rev # 0 /\ row.rev # 0 /\ r.rev < row.rev

\* diff_states: the fields worth a version that differ.
DiffStates(row, r) ==
  {f \in {"scheduled_start", "status", "participants"} :
     \/ f = "scheduled_start" /\ row.slot # r.slot
     \/ f = "status" /\ row.status # r.status
     \/ f = "participants" /\ row.teams # r.teams}

\* compute_content_hash digests the provider's participants, not the teams.
SameHash(r, row) == <<r.slot, r.status, r.sides>> = <<row.slot, row.hashed, row.sides>>

\* Mutant of Unchanged: the marks of the row are not looked at.
SaysNothing(r, row) == SameHash(r, row) \/ DiffStates(row, r) = {}

\* The record changes nothing: an equal hash is believed before any comparison.
Unchanged(r, row) ==
  (SameHash(r, row) \/ DiffStates(row, r) = {}) /\ ~ row.deleted /\ ~ row.missing

\* classify_change.
ChangeType(row, r) ==
  CASE r.status = "cancelled" -> IF row.status = "live" THEN "abandoned" ELSE "cancelled"
    [] r.status = "postponed" -> "postponed"
    [] /\ r.status \in {"scheduled", "live"}
       /\ row.deleted \/ row.status \in {"cancelled", "postponed", "deleted"} -> "restored"
    [] OTHER -> "updated"

ChangeTypes == {"created", "updated", "postponed", "cancelled", "abandoned", "restored", "deleted"}
=============================================================================
