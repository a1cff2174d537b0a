---------------------------- MODULE ProviderCalls ----------------------------
(***************************************************************************)
(* Calls of a sports provider: the circuit breaker each process keeps for  *)
(* it, and the attempts of ResilientHttpClient under it.  The provider is  *)
(* external: it is up or down, and may fail a call while it is up.         *)
(*                                                                         *)
(* A call is what one task of a process has under way; the module that      *)
(* extends this one says what the call is for.                             *)
(***************************************************************************)
EXTENDS Integers

CONSTANTS
  Processes,    \* each has a breaker of its own
  Threshold,    \* CircuitBreakerConfig.failure_threshold
  MaxAttempts,  \* RetryPolicy.max_attempts
  MaxEvents     \* bound: outages, blips and changes

ASSUME ProviderAssumption ==
  /\ Threshold \in Nat \ {0} /\ MaxAttempts \in Nat \ {0} /\ MaxEvents \in Nat

VARIABLES
  up,       \* external: the provider answers
  breaker,  \* the breaker of each process
  left      \* events left

callVars == <<up, breaker, left>>

\* elapsed: reset_timeout has passed since the breaker opened.
Breaker == [state : {"closed", "open", "half_open"}, failures : Nat, elapsed : BOOLEAN]

ClosedBreaker == [state |-> "closed", failures |-> 0, elapsed |-> FALSE]

CallInit ==
  /\ up = TRUE
  /\ breaker = [p \in Processes |-> ClosedBreaker]
  /\ left = MaxEvents

Event == left > 0 /\ left' = left - 1

-----------------------------------------------------------------------------
\* The breaker

\* The state property: an open breaker whose time is up is half open.
Seen(b) == IF b.state = "open" /\ b.elapsed THEN [b EXCEPT !.state = "half_open"] ELSE b

\* call: fails at once while the breaker is open.
Admits(b) == Seen(b).state # "open"

\* Mutant of Succeeded: the count of failures is kept.
ClosedOnly(b) == [b EXCEPT !.state = "closed", !.elapsed = FALSE]

\* record_success, from whatever state.
Succeeded(b) == ClosedBreaker

\* record_failure; the count matters up to the threshold only.
Failed(b) ==
  LET n == IF b.failures < Threshold THEN b.failures + 1 ELSE Threshold IN
  IF n >= Threshold THEN [state |-> "open", failures |-> n, elapsed |-> FALSE]
  ELSE [b EXCEPT !.failures = n]

-----------------------------------------------------------------------------
\* An attempt of a call that is at attempt n: what becomes of the breaker of its
\* process, and whether there is another attempt.

Succeeds(p) ==
  /\ up
  /\ breaker' = [breaker EXCEPT ![p] = Succeeded(@)]
  /\ UNCHANGED <<up, left>>

\* A transport error, 429 or 5xx: of a provider that is down, or a blip.
Trouble == IF up THEN Event ELSE UNCHANGED left

\* Mutant of TriesAgain: one attempt too many.
TriesOnceMore(n) ==
  /\ n <= MaxAttempts
  /\ Trouble
  /\ UNCHANGED <<up, breaker>>

TriesAgain(n) ==
  /\ n < MaxAttempts
  /\ Trouble
  /\ UNCHANGED <<up, breaker>>

\* The last attempt: ProviderUnavailableError, which the breaker counts.
GivesUp(p, n) ==
  /\ n = MaxAttempts
  /\ Trouble
  /\ breaker' = [breaker EXCEPT ![p] = Failed(@)]
  /\ UNCHANGED up

\* Another status, 429 to the end, or no JSON: the breaker records neither.
Refuses ==
  /\ up /\ Event
  /\ UNCHANGED <<up, breaker>>

-----------------------------------------------------------------------------

ProviderTurns == Event /\ up' = ~ up /\ UNCHANGED breaker

Elapses(p) ==
  /\ breaker[p].state = "open" /\ ~ breaker[p].elapsed
  /\ breaker' = [breaker EXCEPT ![p].elapsed = TRUE]
  /\ UNCHANGED <<up, left>>

CallTypeOK ==
  /\ up \in BOOLEAN
  /\ breaker \in [Processes -> Breaker]
  /\ left \in 0..MaxEvents

\* However late the answers of calls come that were let through before: a breaker
\* is closed exactly while fewer than the threshold have failed in a row.
BreakerCounts ==
  \A p \in Processes : breaker[p].state = "closed" <=> breaker[p].failures < Threshold
=============================================================================
