------------------------------ MODULE RedisLease ------------------------------
(***************************************************************************)
(* infrastructure/locks.py for one lock name: SET NX PX with a fresh       *)
(* token, a LockGuard whose renewer wakes every third of the TTL, and a    *)
(* WATCH / GET / MULTI / EXEC compare-and-swap for renewal and release.    *)
(* Time advances in ticks; Redis drops the key when its TTL reaches zero.  *)
(***************************************************************************)
EXTENDS Integers

CONSTANTS
  Clients,     \* processes that enter the guard
  Ttl,         \* lease length, in ticks
  MaxDelay,    \* how many ticks a due renewal may be late
  MaxTokens,   \* bound: acquisitions (each draws a fresh token)
  MaxDeaths,   \* bound: processes that die inside the guard
  MaxErrors,   \* bound: Redis errors met by a renewal
  Free, Orphan \* lease values of the abstract lock

ASSUME RedisLeaseAssumption ==
  /\ Ttl \in Nat \ {0} /\ MaxDelay \in Nat
  /\ MaxTokens \in Nat /\ MaxDeaths \in Nat /\ MaxErrors \in Nat
  /\ Free \notin Clients /\ Orphan \notin Clients /\ Free # Orphan

VARIABLES
  value,   \* lock:{name}: the owner's token, 0 when the key does not exist
  ttl,     \* its remaining time to live
  drawn,   \* tokens drawn so far
  token,   \* each client's LockHandle.token
  pc,      \* "out", "body", or "release" (__aexit__, renewer cancelled)
  sleep,   \* ticks until the client's renewer is due (negative: late)
  renewer, \* "on", "off" (lease found lost, or cancelled), "broken" (it raised)
  watch,   \* the compare-and-swaps between their GET and their EXEC
  dirty,   \* those whose watched key has been touched since
  deaths, errors

vars == <<value, ttl, drawn, token, pc, sleep, renewer, watch, dirty, deaths, errors>>

Swaps == Clients \X {"renew", "delete"}

\* Mutant of RenewInterval: the renewer sleeps for a whole lease.
RenewOnceALease == Ttl

\* _renew_loop sleeps max(ttl / 3, epsilon): never zero ticks.
RenewInterval == IF Ttl \div 3 = 0 THEN 1 ELSE Ttl \div 3

TypeOK ==
  /\ value \in 0..MaxTokens /\ drawn \in 0..MaxTokens
  /\ ttl \in 0..Ttl /\ (ttl = 0 <=> value = 0)
  /\ token \in [Clients -> 0..MaxTokens]
  /\ pc \in [Clients -> {"out", "body", "release"}]
  /\ sleep \in [Clients -> (0 - MaxDelay)..RenewInterval]
  /\ renewer \in [Clients -> {"on", "off", "broken"}]
  /\ watch \in SUBSET Swaps /\ dirty \in SUBSET watch
  /\ deaths \in 0..MaxDeaths /\ errors \in 0..MaxErrors

Init ==
  /\ value = 0 /\ ttl = 0 /\ drawn = 0
  /\ token = [c \in Clients |-> 0]
  /\ pc = [c \in Clients |-> "out"]
  /\ sleep = [c \in Clients |-> 0]
  /\ renewer = [c \in Clients |-> "off"]
  /\ watch = {} /\ dirty = {}
  /\ deaths = 0 /\ errors = 0

\* The key now holds v for t ticks: every other EXEC under WATCH will fail.
Write(v, t, writers) ==
  /\ value' = v
  /\ ttl' = t
  /\ watch' = watch \ writers
  /\ dirty' = watch \ writers

\* The end of a compare-and-swap that writes nothing.
Unwatch(swap) ==
  /\ watch' = watch \ {swap}
  /\ dirty' = dirty \ {swap}
  /\ UNCHANGED <<value, ttl>>

-----------------------------------------------------------------------------
\* Mutant of Acquire: SET NX without PX.
AcquireForever(c) ==
  /\ pc[c] = "out"
  /\ drawn < MaxTokens
  /\ value = 0
  /\ drawn' = drawn + 1
  /\ Write(drawn + 1, 0, {})
  /\ token' = [token EXCEPT ![c] = drawn + 1]
  /\ pc' = [pc EXCEPT ![c] = "body"]
  /\ sleep' = [sleep EXCEPT ![c] = RenewInterval]
  /\ renewer' = [renewer EXCEPT ![c] = "on"]
  /\ UNCHANGED <<deaths, errors>>

\* LockManager.acquire inside LockGuard.__aenter__: SET NX, then the renewer
\* starts with a full sleep.  A key that exists leaves everything as it was.
Acquire(c) ==
  /\ pc[c] = "out"
  /\ drawn < MaxTokens
  /\ value = 0
  /\ drawn' = drawn + 1
  /\ Write(drawn + 1, Ttl, {})
  /\ token' = [token EXCEPT ![c] = drawn + 1]
  /\ pc' = [pc EXCEPT ![c] = "body"]
  /\ sleep' = [sleep EXCEPT ![c] = RenewInterval]
  /\ renewer' = [renewer EXCEPT ![c] = "on"]
  /\ UNCHANGED <<deaths, errors>>

\* WATCH and GET by a renewer whose sleep is over: on a foreign or missing
\* token it stops for good, on its own it goes on to MULTI.
RenewRead(c) ==
  /\ renewer[c] = "on" /\ sleep[c] <= 0
  /\ <<c, "renew">> \notin watch
  /\ IF value = token[c]
       THEN /\ watch' = watch \cup {<<c, "renew">>}
            /\ UNCHANGED renewer
       ELSE /\ renewer' = [renewer EXCEPT ![c] = "off"]
            /\ UNCHANGED watch
  /\ UNCHANGED <<value, ttl, drawn, token, pc, sleep, dirty, deaths, errors>>

\* Mutant of RenewExec: PEXPIRE outside the transaction, whoever owns the key.
RenewExecUnwatched(c) ==
  /\ <<c, "renew">> \in watch
  /\ Write(value, IF value = 0 THEN 0 ELSE Ttl, {<<c, "renew">>})
  /\ sleep' = IF renewer[c] = "on" THEN [sleep EXCEPT ![c] = RenewInterval] ELSE sleep
  /\ UNCHANGED <<drawn, token, pc, renewer, deaths, errors>>

\* EXEC of PEXPIRE.  Refused with WatchError when the key was touched: a live
\* renewer reads again at once.
RenewExec(c) ==
  LET swap == <<c, "renew">> IN
  /\ swap \in watch
  /\ IF swap \in dirty
       THEN Unwatch(swap) /\ UNCHANGED sleep
       ELSE /\ Write(value, Ttl, {swap})
            /\ sleep' = IF renewer[c] = "on"
                          THEN [sleep EXCEPT ![c] = RenewInterval] ELSE sleep
  /\ UNCHANGED <<drawn, token, pc, renewer, deaths, errors>>

\* A Redis error in renew is not caught by _renew_loop: the renewer task ends.
RenewError(c) ==
  /\ renewer[c] = "on" /\ sleep[c] <= 0
  /\ errors < MaxErrors
  /\ errors' = errors + 1
  /\ renewer' = [renewer EXCEPT ![c] = "broken"]
  /\ Unwatch(<<c, "renew">>)
  /\ UNCHANGED <<drawn, token, pc, sleep, deaths>>

\* __aexit__ cancels the renewer; an EXEC already sent may still be applied.
Exit(c) ==
  /\ pc[c] = "body" /\ renewer[c] # "broken"
  /\ pc' = [pc EXCEPT ![c] = "release"]
  /\ renewer' = [renewer EXCEPT ![c] = "off"]
  /\ UNCHANGED <<value, ttl, drawn, token, sleep, watch, dirty, deaths, errors>>

\* Mutant of ExitUnreleased: the renewer is left running when the guard is left.
ExitStillRenewing(c) ==
  /\ pc[c] = "body"
  /\ pc' = [pc EXCEPT ![c] = "out"]
  /\ renewer' = [renewer EXCEPT ![c] = "on"]
  /\ UNCHANGED <<value, ttl, drawn, token, sleep, watch, dirty, deaths, errors>>

\* Awaiting a renewer that raised re-raises its error before the release: the
\* guard is left and the key stays until its TTL runs out.
ExitUnreleased(c) ==
  /\ pc[c] = "body" /\ renewer[c] = "broken"
  /\ pc' = [pc EXCEPT ![c] = "out"]
  /\ renewer' = [renewer EXCEPT ![c] = "off"]
  /\ UNCHANGED <<value, ttl, drawn, token, sleep, watch, dirty, deaths, errors>>

\* release: WATCH and GET; a lost lease is left alone.
ReleaseRead(c) ==
  /\ pc[c] = "release"
  /\ <<c, "delete">> \notin watch
  /\ IF value = token[c]
       THEN /\ watch' = watch \cup {<<c, "delete">>}
            /\ UNCHANGED pc
       ELSE /\ pc' = [pc EXCEPT ![c] = "out"]
            /\ UNCHANGED watch
  /\ UNCHANGED <<value, ttl, drawn, token, sleep, renewer, dirty, deaths, errors>>

\* Mutant of ReleaseExec: DEL without the transaction.
ReleaseExecUnwatched(c) ==
  /\ <<c, "delete">> \in watch
  /\ Write(0, 0, {<<c, "delete">>})
  /\ pc' = [pc EXCEPT ![c] = "out"]
  /\ UNCHANGED <<drawn, token, sleep, renewer, deaths, errors>>

\* EXEC of DEL, or WatchError and another round.
ReleaseExec(c) ==
  LET swap == <<c, "delete">> IN
  /\ swap \in watch
  /\ IF swap \in dirty
       THEN Unwatch(swap) /\ UNCHANGED pc
       ELSE /\ Write(0, 0, {swap})
            /\ pc' = [pc EXCEPT ![c] = "out"]
  /\ UNCHANGED <<drawn, token, sleep, renewer, deaths, errors>>

\* The client's process dies: nobody renews or releases its lease.
Die(c) ==
  /\ pc[c] # "out"
  /\ deaths < MaxDeaths
  /\ deaths' = deaths + 1
  /\ pc' = [pc EXCEPT ![c] = "out"]
  /\ renewer' = [renewer EXCEPT ![c] = "off"]
  /\ watch' = watch \ ({c} \X {"renew", "delete"})
  /\ dirty' = dirty \ ({c} \X {"renew", "delete"})
  /\ UNCHANGED <<value, ttl, drawn, token, sleep, errors>>

\* A tick of time, unless a live renewal is as late as it can be.
Tick ==
  /\ \A c \in Clients : renewer[c] = "on" => sleep[c] > 0 - MaxDelay
  /\ value # 0
  /\ sleep' = [c \in Clients |-> IF renewer[c] = "on" THEN sleep[c] - 1 ELSE sleep[c]]
  /\ IF ttl = 1 THEN Write(0, 0, {})
     ELSE ttl' = ttl - 1 /\ UNCHANGED <<value, watch, dirty>>
  /\ UNCHANGED <<drawn, token, pc, renewer, deaths, errors>>

Renew(c)     == RenewRead(c) \/ RenewExec(c)
LeaveBody(c) == Exit(c) \/ ExitUnreleased(c)
Release(c)   == ReleaseRead(c) \/ ReleaseExec(c)

Next ==
  \/ \E c \in Clients :
       Acquire(c) \/ Renew(c) \/ RenewError(c) \/ LeaveBody(c) \/ Release(c) \/ Die(c)
  \/ Tick

Spec == Init /\ [][Next]_vars

\* A live run ends within its time limit, its renewer and its release are
\* scheduled, and time passes.
FairSpec ==
  /\ Spec
  /\ WF_vars(Tick)
  /\ \A c \in Clients : WF_vars(Renew(c)) /\ WF_vars(LeaveBody(c)) /\ WF_vars(Release(c))

-----------------------------------------------------------------------------
\* What the lock promises.  A client owns the lease while the key holds its
\* token and it is inside; a key whose token nobody inside holds is orphaned.
Inside == {c \in Clients : pc[c] # "out"}
Lapsed == {c \in Inside : value # token[c]}
Owner ==
  IF value = 0 THEN Free
  ELSE IF \E c \in Inside : token[c] = value
       THEN CHOOSE c \in Inside : token[c] = value
       ELSE Orphan

Promise == INSTANCE LeaseMutex WITH owner <- Owner, inside <- Inside, lapsed <- Lapsed

\* The module's docstring: "a worker whose lease already expired can never
\* release or extend a lock that a different worker now owns".  Token, WATCH
\* and EXEC, interleaved with expiry, are a lease that only its owner frees.
ImplementsMutex == Promise!Spec

\* A due renewal is late by less than two thirds of the lease.
Punctual == Ttl >= 3 /\ 3 * MaxDelay < 2 * Ttl

\* Renewal keeps the lease of a live run: "long jobs don't lose their lock
\* mid-run".  A lease runs out under a live renewer only when the renewal that
\* was due is late by two thirds of the lease or more.
LapsesOnlyWhenLate ==
  Ttl >= 3 =>
    \A c \in Clients : pc[c] = "body" /\ renewer[c] = "on" /\ value # token[c]
                         => 3 * sleep[c] <= 0 - 2 * Ttl

\* A renewal never shortens or revives anybody else's lease: a step that
\* lengthens the TTL of an existing key is its owner's (docs, G3).
OnlyOwnersExtend ==
  [][ttl' > ttl /\ value # 0 => \E c \in Clients : <<c, "renew">> \in watch /\ token[c] = value]_vars

\* G2: a taken lock is eventually free again, even when its owner dies or its
\* renewer breaks.
EventuallyFree == (value # 0) ~> (value = 0)

\* The comment in LockGuard.__aenter__: "two consecutive renewal failures still
\* leave a full third of the lease to recover in".
SurvivesRenewalFailure ==
  Punctual =>
    \A c \in Clients : pc[c] = "body" => value = token[c]
=============================================================================
