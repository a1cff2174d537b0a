----------------------------- MODULE LeaseProofs -----------------------------
(***************************************************************************)
(* One Redis lock, for every number of clients, every TTL and every delay  *)
(* of a renewal: it implements LeaseMutex, only the owner ever extends the *)
(* lease, and a lease is lost under a live renewer only when its renewal   *)
(* was late by two thirds of the TTL.                                      *)
(*                                                                         *)
(* The argument: tokens are never drawn twice, so at most one client has   *)
(* the token the key holds; and a compare-and-swap whose key was not   *)
(* touched since its GET still meets the token it read.                    *)
(***************************************************************************)
EXTENDS RedisLease, TLAPS

-----------------------------------------------------------------------------
\* The invariant

\* No token is drawn twice, and inside a client has one.
TokensFresh ==
  /\ value <= drawn
  /\ \A c \in Clients : token[c] <= drawn /\ (pc[c] # "out" => token[c] # 0)
  /\ \A c, d \in Clients : token[c] = token[d] /\ token[c] # 0 => c = d

\* Where the renewer and the compare-and-swaps of a client can be.
SwapsOwned ==
  \A c \in Clients :
    /\ renewer[c] # "off" => pc[c] = "body"
    /\ <<c, "delete">> \in watch => pc[c] = "release"

\* A compare-and-swap that would succeed meets the token it read.
CleanMeetsOwn ==
  \A c \in Clients, k \in {"renew", "delete"} :
    <<c, k>> \in watch \ dirty => value = token[c] /\ value # 0

\* The lease of a client with a live renewer has lost as much as the sleep has.
LeaseTellsSleep ==
  \A c \in Clients : renewer[c] = "on" =>
    IF value = token[c] THEN ttl >= Ttl - RenewInterval + sleep[c]
                        ELSE sleep[c] <= RenewInterval - Ttl

LeaseInv == TypeOK /\ TokensFresh /\ SwapsOwned /\ CleanMeetsOwn /\ LeaseTellsSleep

LEMMA Interval ==
  /\ RenewInterval \in Nat \ {0} /\ RenewInterval <= Ttl
  /\ Ttl >= 3 => 3 * RenewInterval <= Ttl
  BY RedisLeaseAssumption DEF RenewInterval

LEMMA LeaseStarts == Init => LeaseInv
  BY RedisLeaseAssumption, Interval
     DEF Init, LeaseInv, TypeOK, TokensFresh, SwapsOwned, CleanMeetsOwn, LeaseTellsSleep, Swaps

-----------------------------------------------------------------------------
\* Steps

LEMMA AcquireKeeps ==
  ASSUME LeaseInv, NEW c \in Clients, Acquire(c)
  PROVE  LeaseInv'
  <1>1. /\ value' = drawn + 1 /\ ttl' = Ttl /\ drawn' = drawn + 1
        /\ watch' = watch /\ dirty' = watch
    BY DEF Acquire, Write
  <1>2. \A d \in Clients :
          /\ token'[d] = IF d = c THEN drawn + 1 ELSE token[d]
          /\ pc'[d] = IF d = c THEN "body" ELSE pc[d]
          /\ sleep'[d] = IF d = c THEN RenewInterval ELSE sleep[d]
          /\ renewer'[d] = IF d = c THEN "on" ELSE renewer[d]
    BY DEF Acquire, LeaseInv, TypeOK
  <1>3. TypeOK'
    BY <1>1, RedisLeaseAssumption, Interval DEF Acquire, LeaseInv, TypeOK
  <1>4. TokensFresh'
    BY <1>1, <1>2 DEF LeaseInv, TypeOK, TokensFresh
  <1>5. SwapsOwned'
    BY <1>1, <1>2 DEF Acquire, LeaseInv, SwapsOwned
  <1>6. CleanMeetsOwn'
    BY <1>1 DEF CleanMeetsOwn
  <1>7. LeaseTellsSleep'
    <2> SUFFICES ASSUME NEW d \in Clients, renewer'[d] = "on"
                 PROVE  IF value' = token'[d] THEN ttl' >= Ttl - RenewInterval + sleep'[d]
                                              ELSE sleep'[d] <= RenewInterval - Ttl
      BY DEF LeaseTellsSleep, RenewInterval
    <2>1. CASE d = c
      BY <1>1, <1>2, <2>1, RedisLeaseAssumption, Interval
    <2>2. CASE d # c
      <3>1. renewer[d] = "on" /\ token[d] # 0 /\ value = 0 /\ token[d] <= drawn
        BY <1>2, <2>2 DEF Acquire, LeaseInv, TokensFresh, SwapsOwned
      <3>2. token[d] \in Nat /\ drawn \in Nat
        BY DEF LeaseInv, TypeOK
      <3> QED
        BY <1>1, <1>2, <2>2, <3>1, <3>2 DEF LeaseInv, LeaseTellsSleep
    <2> QED
      BY <2>1, <2>2
  <1> QED
    BY <1>3, <1>4, <1>5, <1>6, <1>7 DEF LeaseInv

LEMMA RenewReadKeeps ==
  ASSUME LeaseInv, NEW c \in Clients, RenewRead(c)
  PROVE  LeaseInv'
  <1>1. UNCHANGED <<value, ttl, drawn, token, pc, sleep, dirty, deaths, errors>>
    BY DEF RenewRead
  <1>2. \A d \in Clients : renewer'[d] = renewer[d] \/ (d = c /\ renewer'[d] = "off")
    BY DEF RenewRead, LeaseInv, TypeOK
  <1>3. watch' = watch \/ (watch' = watch \cup {<<c, "renew">>} /\ value = token[c])
    BY DEF RenewRead
  <1>4. token[c] # 0
    BY DEF RenewRead, LeaseInv, SwapsOwned, TokensFresh
  <1>5. TypeOK'
    <2>1. watch' \in SUBSET Swaps /\ dirty' \in SUBSET watch'
      BY <1>1, <1>3 DEF LeaseInv, TypeOK, Swaps
    <2>2. renewer' \in [Clients -> {"on", "off", "broken"}]
      BY DEF RenewRead, LeaseInv, TypeOK
    <2> QED
      BY <1>1, <2>1, <2>2 DEF LeaseInv, TypeOK, RenewInterval
  <1>6. TokensFresh'
    BY <1>1 DEF LeaseInv, TokensFresh
  <1>10. \A d \in Clients, k \in {"renew", "delete"} :
           <<d, k>> \in watch' => <<d, k>> \in watch \/ (d = c /\ k = "renew" /\ value = token[c])
    BY <1>3
  <1>7. SwapsOwned'
    BY <1>1, <1>2, <1>10 DEF LeaseInv, SwapsOwned
  <1>8. CleanMeetsOwn'
    <2> SUFFICES ASSUME NEW d \in Clients, NEW k \in {"renew", "delete"},
                        <<d, k>> \in watch', <<d, k>> \notin dirty
                 PROVE  value = token[d] /\ value # 0
      BY <1>1 DEF CleanMeetsOwn
    <2>1. CASE <<d, k>> \in watch
      BY <2>1 DEF LeaseInv, CleanMeetsOwn
    <2>2. CASE d = c /\ value = token[c]
      BY <1>4, <2>2
    <2> QED
      BY <1>10, <2>1, <2>2
  <1>9. LeaseTellsSleep'
    BY <1>1, <1>2 DEF LeaseInv, LeaseTellsSleep, RenewInterval
  <1> QED
    BY <1>5, <1>6, <1>7, <1>8, <1>9 DEF LeaseInv

LEMMA RenewExecKeeps ==
  ASSUME LeaseInv, NEW c \in Clients, RenewExec(c)
  PROVE  LeaseInv'
  <1> DEFINE swap == <<c, "renew">>
  <1>1. swap \in watch /\ UNCHANGED <<value, drawn, token, pc, renewer, deaths, errors>>
    BY DEF RenewExec, Write, Unwatch
  <1>2. CASE swap \in dirty
    <2>1. /\ UNCHANGED <<ttl, sleep>>
          /\ watch' = watch \ {swap} /\ dirty' = dirty \ {swap}
      BY <1>2 DEF RenewExec, Unwatch
    <2> QED
      BY <1>1, <2>1 DEF LeaseInv, TypeOK, TokensFresh, SwapsOwned, CleanMeetsOwn,
                        LeaseTellsSleep, RenewInterval
  <1>3. CASE swap \notin dirty
    <2>1. /\ ttl' = Ttl /\ watch' = watch \ {swap} /\ dirty' = watch \ {swap}
          /\ sleep' = IF renewer[c] = "on" THEN [sleep EXCEPT ![c] = RenewInterval] ELSE sleep
      BY <1>3 DEF RenewExec, Write
    <2>2. value = token[c] /\ value # 0
      BY <1>1, <1>3 DEF LeaseInv, CleanMeetsOwn
    <2>3. \A d \in Clients : sleep'[d] = IF d = c /\ renewer[c] = "on" THEN RenewInterval
                                                                      ELSE sleep[d]
      BY <2>1 DEF LeaseInv, TypeOK
    <2>4. sleep' \in [Clients -> (0 - MaxDelay)..RenewInterval]
      BY <2>1, Interval, RedisLeaseAssumption DEF LeaseInv, TypeOK
    <2>5. TypeOK'
      BY <1>1, <2>1, <2>2, <2>4, RedisLeaseAssumption DEF LeaseInv, TypeOK, RenewInterval
    <2>6. TokensFresh' /\ SwapsOwned' /\ CleanMeetsOwn'
      BY <1>1, <2>1 DEF LeaseInv, TokensFresh, SwapsOwned, CleanMeetsOwn
    <2>7. LeaseTellsSleep'
      <3> SUFFICES ASSUME NEW d \in Clients, renewer[d] = "on"
                   PROVE  IF value = token[d] THEN ttl' >= Ttl - RenewInterval + sleep'[d]
                                              ELSE sleep'[d] <= RenewInterval - Ttl
        BY <1>1 DEF LeaseTellsSleep, RenewInterval
      <3>1. CASE d = c
        BY <2>1, <2>2, <2>3, <3>1, RedisLeaseAssumption, Interval
      <3>2. CASE d # c
        <4>1. value # token[d]
          BY <1>1, <2>2, <3>2 DEF LeaseInv, TokensFresh, SwapsOwned, CleanMeetsOwn
        <4> QED
          BY <2>3, <3>2, <4>1 DEF LeaseInv, LeaseTellsSleep
      <3> QED
        BY <3>1, <3>2
    <2> QED
      BY <2>5, <2>6, <2>7 DEF LeaseInv
  <1> QED
    BY <1>2, <1>3

LEMMA RenewErrorKeeps ==
  ASSUME LeaseInv, NEW c \in Clients, RenewError(c)
  PROVE  LeaseInv'
  <1>1. /\ UNCHANGED <<value, ttl, drawn, token, pc, sleep, deaths>>
        /\ watch' = watch \ {<<c, "renew">>} /\ dirty' = dirty \ {<<c, "renew">>}
    BY DEF RenewError, Unwatch
  <1>2. pc[c] = "body"
    BY DEF RenewError, LeaseInv, SwapsOwned
  <1>3. renewer' = [renewer EXCEPT ![c] = "broken"]
    BY DEF RenewError
  <1>4. \A d \in Clients : renewer'[d] = IF d = c THEN "broken" ELSE renewer[d]
    BY <1>3 DEF LeaseInv, TypeOK
  <1>5. TypeOK'
    <2>1. renewer' \in [Clients -> {"on", "off", "broken"}] /\ errors' \in 0..MaxErrors
      BY <1>3, RedisLeaseAssumption DEF RenewError, LeaseInv, TypeOK
    <2>2. watch' \in SUBSET Swaps /\ dirty' \in SUBSET watch'
      BY <1>1 DEF LeaseInv, TypeOK
    <2> QED
      BY <1>1, <2>1, <2>2 DEF LeaseInv, TypeOK, RenewInterval
  <1>6. SwapsOwned' /\ LeaseTellsSleep'
    BY <1>1, <1>2, <1>4 DEF LeaseInv, SwapsOwned, LeaseTellsSleep, RenewInterval
  <1> QED
    BY <1>1, <1>5, <1>6 DEF LeaseInv, TokensFresh, CleanMeetsOwn

\* A step out of the body: no token, no time and no key.
LEMMA LeavingKeeps ==
  ASSUME LeaseInv, NEW c \in Clients, NEW p \in {"out", "release"},
         pc[c] = "body", pc' = [pc EXCEPT ![c] = p],
         renewer' = [renewer EXCEPT ![c] = "off"],
         UNCHANGED <<value, ttl, drawn, token, sleep, watch, dirty, deaths, errors>>
  PROVE  LeaseInv'
  <1>1. \A d \in Clients : /\ renewer'[d] = IF d = c THEN "off" ELSE renewer[d]
                           /\ pc'[d] = IF d = c THEN p ELSE pc[d]
    BY DEF LeaseInv, TypeOK
  <1>2. TypeOK'
    BY DEF LeaseInv, TypeOK, RenewInterval
  <1>3. TokensFresh' /\ SwapsOwned'
    BY <1>1 DEF LeaseInv, TokensFresh, SwapsOwned
  <1>4. LeaseTellsSleep'
    BY <1>1 DEF LeaseInv, LeaseTellsSleep, RenewInterval
  <1> QED
    BY <1>2, <1>3, <1>4 DEF LeaseInv, CleanMeetsOwn

LEMMA ReleaseReadKeeps ==
  ASSUME LeaseInv, NEW c \in Clients, ReleaseRead(c)
  PROVE  LeaseInv'
  <1>1. UNCHANGED <<value, ttl, drawn, token, sleep, renewer, dirty, deaths, errors>>
    BY DEF ReleaseRead
  <1>2. token[c] # 0 /\ renewer[c] = "off" /\ pc[c] = "release" /\ <<c, "delete">> \notin watch
    BY DEF ReleaseRead, LeaseInv, TokensFresh, SwapsOwned, TypeOK
  <1>3. CASE value = token[c]
    <2>1. watch' = watch \cup {<<c, "delete">>} /\ pc' = pc
      BY <1>3 DEF ReleaseRead
    <2>2. \A d \in Clients, k \in {"renew", "delete"} :
            <<d, k>> \in watch' => <<d, k>> \in watch \/ (d = c /\ k = "delete")
      BY <2>1
    <2>3. watch' \in SUBSET Swaps /\ dirty' \in SUBSET watch'
      BY <1>1, <2>1 DEF LeaseInv, TypeOK, Swaps
    <2>4. TypeOK'
      BY <1>1, <2>1, <2>3 DEF LeaseInv, TypeOK, RenewInterval
    <2>5. SwapsOwned'
      BY <1>1, <1>2, <2>1, <2>2 DEF LeaseInv, SwapsOwned
    <2>6. CleanMeetsOwn'
      <3> SUFFICES ASSUME NEW d \in Clients, NEW k \in {"renew", "delete"},
                          <<d, k>> \in watch', <<d, k>> \notin dirty
                   PROVE  value = token[d] /\ value # 0
        BY <1>1 DEF CleanMeetsOwn
      <3>1. CASE <<d, k>> \in watch
        BY <3>1 DEF LeaseInv, CleanMeetsOwn
      <3>2. CASE d = c
        BY <1>2, <1>3, <3>2
      <3> QED
        BY <2>2, <3>1, <3>2
    <2> QED
      BY <1>1, <2>1, <2>4, <2>5, <2>6 DEF LeaseInv, TokensFresh, LeaseTellsSleep, RenewInterval
  <1>4. CASE value # token[c]
    <2>1. watch' = watch /\ pc' = [pc EXCEPT ![c] = "out"]
      BY <1>4 DEF ReleaseRead
    <2>2. \A d \in Clients : pc'[d] = IF d = c THEN "out" ELSE pc[d]
      BY <2>1 DEF LeaseInv, TypeOK
    <2>3. TypeOK'
      BY <1>1, <2>1 DEF LeaseInv, TypeOK, RenewInterval
    <2>4. TokensFresh' /\ SwapsOwned'
      BY <1>1, <1>2, <2>1, <2>2 DEF LeaseInv, TokensFresh, SwapsOwned
    <2> QED
      BY <1>1, <2>1, <2>3, <2>4 DEF LeaseInv, CleanMeetsOwn, LeaseTellsSleep, RenewInterval
  <1> QED
    BY <1>3, <1>4

LEMMA ReleaseExecKeeps ==
  ASSUME LeaseInv, NEW c \in Clients, ReleaseExec(c)
  PROVE  LeaseInv'
  <1> DEFINE swap == <<c, "delete">>
  <1>1. swap \in watch /\ UNCHANGED <<drawn, token, sleep, renewer, deaths, errors>>
    BY DEF ReleaseExec
  <1>2. CASE swap \in dirty
    <2>1. /\ UNCHANGED <<value, ttl, pc>>
          /\ watch' = watch \ {swap} /\ dirty' = dirty \ {swap}
      BY <1>2 DEF ReleaseExec, Unwatch
    <2> QED
      BY <1>1, <2>1 DEF LeaseInv, TypeOK, TokensFresh, SwapsOwned, CleanMeetsOwn,
                        LeaseTellsSleep, RenewInterval
  <1>3. CASE swap \notin dirty
    <2>1. /\ value' = 0 /\ ttl' = 0 /\ watch' = watch \ {swap} /\ dirty' = watch \ {swap}
          /\ pc' = [pc EXCEPT ![c] = "out"]
      BY <1>3 DEF ReleaseExec, Write
    <2>2. value = token[c] /\ value # 0 /\ pc[c] = "release" /\ renewer[c] = "off"
      BY <1>1, <1>3 DEF LeaseInv, CleanMeetsOwn, SwapsOwned, TypeOK
    <2>3. \A d \in Clients : pc'[d] = IF d = c THEN "out" ELSE pc[d]
      BY <2>1 DEF LeaseInv, TypeOK
    <2>4. TypeOK'
      <3>1. pc' \in [Clients -> {"out", "body", "release"}]
        BY <2>1 DEF LeaseInv, TypeOK
      <3>2. value' \in 0..MaxTokens /\ ttl' \in 0..Ttl /\ (ttl' = 0 <=> value' = 0)
        BY <2>1, RedisLeaseAssumption
      <3>3. watch' \in SUBSET Swaps /\ dirty' \in SUBSET watch'
        BY <2>1 DEF LeaseInv, TypeOK
      <3> QED
        BY <1>1, <3>1, <3>2, <3>3 DEF LeaseInv, TypeOK, RenewInterval
    <2>5. TokensFresh' /\ CleanMeetsOwn'
      BY <1>1, <2>1, <2>3 DEF LeaseInv, TypeOK, TokensFresh, CleanMeetsOwn
    <2>6. SwapsOwned'
      <3> SUFFICES ASSUME NEW d \in Clients
                   PROVE  /\ renewer[d] # "off" => pc'[d] = "body"
                          /\ <<d, "delete">> \in watch \ {swap} => pc'[d] = "release"
        BY <1>1, <2>1 DEF SwapsOwned
      <3> QED
        BY <2>2, <2>3 DEF LeaseInv, SwapsOwned
    <2>7. LeaseTellsSleep'
      <3> SUFFICES ASSUME NEW d \in Clients, renewer[d] = "on"
                   PROVE  IF value' = token[d] THEN ttl' >= Ttl - RenewInterval + sleep[d]
                                               ELSE sleep[d] <= RenewInterval - Ttl
        BY <1>1 DEF LeaseTellsSleep, RenewInterval
      <3>1. token[d] # 0 /\ token[d] # value
        BY <2>2 DEF LeaseInv, TokensFresh, SwapsOwned
      <3> QED
        BY <2>1, <3>1 DEF LeaseInv, LeaseTellsSleep
    <2> QED
      BY <2>4, <2>5, <2>6, <2>7 DEF LeaseInv
  <1> QED
    BY <1>2, <1>3

LEMMA DieKeeps ==
  ASSUME LeaseInv, NEW c \in Clients, Die(c)
  PROVE  LeaseInv'
  <1>1. /\ UNCHANGED <<value, ttl, drawn, token, sleep, errors>>
        /\ watch' = watch \ ({c} \X {"renew", "delete"})
        /\ dirty' = dirty \ ({c} \X {"renew", "delete"})
        /\ deaths' \in 0..MaxDeaths
    BY RedisLeaseAssumption DEF Die, LeaseInv, TypeOK
  <1>2. \A d \in Clients : /\ renewer'[d] = IF d = c THEN "off" ELSE renewer[d]
                           /\ pc'[d] = IF d = c THEN "out" ELSE pc[d]
    BY DEF Die, LeaseInv, TypeOK
  <1>3. \A d \in Clients, k \in {"renew", "delete"} :
          /\ <<d, k>> \in watch' => <<d, k>> \in watch /\ d # c
          /\ <<d, k>> \in watch' /\ <<d, k>> \notin dirty' => <<d, k>> \notin dirty
    BY <1>1
  <1>4. TypeOK'
    <2>1. /\ pc' \in [Clients -> {"out", "body", "release"}]
          /\ renewer' \in [Clients -> {"on", "off", "broken"}]
      BY DEF Die, LeaseInv, TypeOK
    <2> QED
      BY <1>1, <2>1 DEF LeaseInv, TypeOK, RenewInterval
  <1>5. TokensFresh' /\ SwapsOwned'
    BY <1>1, <1>2, <1>3 DEF LeaseInv, TokensFresh, SwapsOwned
  <1>6. CleanMeetsOwn'
    BY <1>1, <1>3 DEF LeaseInv, CleanMeetsOwn
  <1>7. LeaseTellsSleep'
    BY <1>1, <1>2 DEF LeaseInv, LeaseTellsSleep, RenewInterval
  <1> QED
    BY <1>4, <1>5, <1>6, <1>7 DEF LeaseInv

LEMMA TickKeeps ==
  ASSUME LeaseInv, Tick
  PROVE  LeaseInv'
  <1>1. UNCHANGED <<drawn, token, pc, renewer, deaths, errors>>
    BY DEF Tick
  <1>2. \A d \in Clients : sleep'[d] = IF renewer[d] = "on" THEN sleep[d] - 1 ELSE sleep[d]
    BY DEF Tick
  <1>3. sleep' \in [Clients -> (0 - MaxDelay)..RenewInterval]
    BY Interval, RedisLeaseAssumption DEF Tick, LeaseInv, TypeOK
  <1>4. \A d \in Clients : sleep[d] \in Int /\ token[d] \in Nat
    BY RedisLeaseAssumption, Interval DEF LeaseInv, TypeOK
  <1>5. CASE ttl = 1
    <2>1. value' = 0 /\ ttl' = 0 /\ watch' = watch /\ dirty' = watch
      BY <1>5 DEF Tick, Write
    <2>2. TypeOK'
      <3>1. value' \in 0..MaxTokens /\ ttl' \in 0..Ttl /\ (ttl' = 0 <=> value' = 0)
        BY <2>1, RedisLeaseAssumption
      <3>2. watch' \in SUBSET Swaps /\ dirty' \in SUBSET watch'
        BY <2>1 DEF LeaseInv, TypeOK
      <3> QED
        BY <1>1, <1>3, <3>1, <3>2 DEF LeaseInv, TypeOK, RenewInterval
    <2>3. TokensFresh' /\ SwapsOwned' /\ CleanMeetsOwn'
      BY <1>1, <2>1 DEF LeaseInv, TypeOK, TokensFresh, SwapsOwned, CleanMeetsOwn
    <2>4. LeaseTellsSleep'
      <3> SUFFICES ASSUME NEW d \in Clients, renewer[d] = "on"
                   PROVE  IF value' = token[d] THEN ttl' >= Ttl - RenewInterval + sleep'[d]
                                               ELSE sleep'[d] <= RenewInterval - Ttl
        BY <1>1 DEF LeaseTellsSleep, RenewInterval
      <3>1. token[d] # 0
        BY DEF LeaseInv, TokensFresh, SwapsOwned
      <3>2. IF value = token[d] THEN ttl >= Ttl - RenewInterval + sleep[d]
                                ELSE sleep[d] <= RenewInterval - Ttl
        BY DEF LeaseInv, LeaseTellsSleep
      <3> QED
        BY <1>2, <1>4, <1>5, <2>1, <3>1, <3>2, RedisLeaseAssumption, Interval
    <2> QED
      BY <2>2, <2>3, <2>4 DEF LeaseInv
  <1>6. CASE ttl # 1
    <2>1. ttl' = ttl - 1 /\ UNCHANGED <<value, watch, dirty>> /\ value # 0
      BY <1>6 DEF Tick
    <2>2. ttl \in 2..Ttl
      BY <1>6, <2>1, RedisLeaseAssumption DEF LeaseInv, TypeOK
    <2>3. TypeOK'
      BY <1>1, <1>3, <2>1, <2>2, RedisLeaseAssumption DEF LeaseInv, TypeOK, RenewInterval
    <2>4. TokensFresh' /\ SwapsOwned' /\ CleanMeetsOwn'
      BY <1>1, <2>1 DEF LeaseInv, TokensFresh, SwapsOwned, CleanMeetsOwn
    <2>5. LeaseTellsSleep'
      <3> SUFFICES ASSUME NEW d \in Clients, renewer[d] = "on"
                   PROVE  IF value = token[d] THEN ttl' >= Ttl - RenewInterval + sleep'[d]
                                              ELSE sleep'[d] <= RenewInterval - Ttl
        BY <1>1, <2>1 DEF LeaseTellsSleep, RenewInterval
      <3>2. IF value = token[d] THEN ttl >= Ttl - RenewInterval + sleep[d]
                                ELSE sleep[d] <= RenewInterval - Ttl
        BY DEF LeaseInv, LeaseTellsSleep
      <3> QED
        BY <1>2, <1>4, <2>1, <2>2, <3>2, RedisLeaseAssumption, Interval
    <2> QED
      BY <2>3, <2>4, <2>5 DEF LeaseInv
  <1> QED
    BY <1>5, <1>6

LEMMA LeaseContinues == LeaseInv /\ [Next]_vars => LeaseInv'
  <1> SUFFICES ASSUME LeaseInv, [Next]_vars
               PROVE  LeaseInv'
    OBVIOUS
  <1>1. ASSUME NEW c \in Clients, LeaveBody(c)
        PROVE  LeaseInv'
    BY <1>1, LeavingKeeps DEF LeaveBody, Exit, ExitUnreleased
  <1>2. ASSUME NEW c \in Clients, Renew(c) \/ Release(c)
        PROVE  LeaseInv'
    BY <1>2, RenewReadKeeps, RenewExecKeeps, ReleaseReadKeeps, ReleaseExecKeeps
       DEF Renew, Release
  <1>3. CASE UNCHANGED vars
    BY <1>3 DEF vars, LeaseInv, TypeOK, TokensFresh, SwapsOwned, CleanMeetsOwn,
                LeaseTellsSleep, RenewInterval
  <1> QED
    BY <1>1, <1>2, <1>3, AcquireKeeps, RenewErrorKeeps, DieKeeps, TickKeeps DEF Next

LEMMA LeaseAlways == Spec => []LeaseInv
  BY LeaseStarts, LeaseContinues, PTL DEF Spec

-----------------------------------------------------------------------------
\* Theorems

\* Every variable keeps its type; in particular the key has a TTL as long as it
\* exists: no lock of infrastructure/locks.py stays for ever.
THEOREM LeaseTypes == Spec => []TypeOK
  <1>1. LeaseInv => TypeOK
    BY DEF LeaseInv
  <1> QED
    BY <1>1, LeaseAlways, PTL

\* "Long jobs don't lose their lock mid-run": whatever the TTL, a lease runs
\* out under a live renewer only when the renewal that was due is late by two
\* thirds of the lease.
THEOREM LeaseOutlastsDelay == Spec => []LapsesOnlyWhenLate
  <1>1. LeaseInv => LapsesOnlyWhenLate
    <2> SUFFICES ASSUME LeaseInv, Ttl >= 3, NEW c \in Clients,
                        renewer[c] = "on", value # token[c]
                 PROVE  3 * sleep[c] <= 0 - 2 * Ttl
      BY DEF LapsesOnlyWhenLate
    <2>1. sleep[c] <= RenewInterval - Ttl
      BY DEF LeaseInv, LeaseTellsSleep
    <2>2. sleep[c] \in Int
      BY RedisLeaseAssumption, Interval DEF LeaseInv, TypeOK
    <2> QED
      BY <2>1, <2>2, RedisLeaseAssumption, Interval
  <1> QED
    BY <1>1, LeaseAlways, PTL

\* G3 of the docs: a step that lengthens the TTL of an existing key is the
\* renewal of the client whose token the key holds.
THEOREM OwnersExtend == Spec => OnlyOwnersExtend
  <1> DEFINE Extends == ttl' > ttl /\ value # 0 =>
               \E c \in Clients : <<c, "renew">> \in watch /\ token[c] = value
  <1>1. LeaseInv /\ [Next]_vars => [Extends]_vars
    <2> SUFFICES ASSUME LeaseInv, Next, ttl' > ttl, value # 0
                 PROVE  \E c \in Clients : <<c, "renew">> \in watch /\ token[c] = value
      OBVIOUS
    <2>1. ttl \in Nat
      BY RedisLeaseAssumption DEF LeaseInv, TypeOK
    <2>2. ASSUME NEW c \in Clients, RenewExec(c)
          PROVE  <<c, "renew">> \in watch /\ token[c] = value
      <3>1. CASE <<c, "renew">> \in dirty
        BY <2>1, <2>2, <3>1 DEF RenewExec, Unwatch
      <3>2. CASE <<c, "renew">> \notin dirty
        BY <2>2, <3>2 DEF RenewExec, LeaseInv, CleanMeetsOwn
      <3> QED
        BY <3>1, <3>2
    <2>3. ASSUME NEW c \in Clients, ReleaseExec(c)
          PROVE  FALSE
      BY <2>1, <2>3, RedisLeaseAssumption DEF ReleaseExec, Unwatch, Write
    <2>4. ~ Tick
      BY <2>1 DEF Tick, Write
    <2>5. ASSUME NEW c \in Clients,
                 Acquire(c) \/ RenewRead(c) \/ RenewError(c) \/ LeaveBody(c) \/ ReleaseRead(c)
                   \/ Die(c)
          PROVE  FALSE
      BY <2>1, <2>5 DEF Acquire, RenewRead, RenewError, Unwatch, LeaveBody, Exit,
                        ExitUnreleased, ReleaseRead, Die
    <2> QED
      BY <2>2, <2>3, <2>4, <2>5 DEF Next, Renew, Release
  <1>2. [][Extends]_vars => OnlyOwnersExtend
    BY DEF OnlyOwnersExtend
  <1> QED
    BY <1>1, <1>2, LeaseAlways, PTL DEF Spec

-----------------------------------------------------------------------------
\* Refinement

\* Who owns the lease, without the CHOOSE.
OwnerTells ==
  /\ value = 0 => Owner = Free
  /\ \A c \in Clients : pc[c] # "out" /\ token[c] = value /\ value # 0 => Owner = c
  /\ value # 0 /\ (\A c \in Clients : pc[c] = "out" \/ token[c] # value) => Owner = Orphan

LEMMA OwnerNow == LeaseInv => OwnerTells
  <1> SUFFICES ASSUME LeaseInv
               PROVE  OwnerTells
    OBVIOUS
  <1>1. ASSUME NEW c \in Clients, pc[c] # "out", token[c] = value, value # 0
        PROVE  Owner = c
    <2>1. c \in Inside
      BY <1>1 DEF Inside
    <2>2. \A d \in Inside : token[d] = value => d = c
      BY <1>1 DEF Inside, LeaseInv, TokensFresh
    <2> QED
      BY <1>1, <2>1, <2>2 DEF Owner
  <1> QED
    BY <1>1 DEF OwnerTells, Owner, Inside

LEMMA OwnerNext == LeaseInv' => OwnerTells'
  BY OwnerNow, PTL

LEMMA SameLease ==
  ASSUME UNCHANGED <<value, token>>, Inside' = Inside
  PROVE  UNCHANGED Promise!lease
  BY DEF Promise!lease, Owner, Lapsed

LEMMA AcquireEnters ==
  ASSUME LeaseInv, LeaseInv', NEW c \in Clients, Acquire(c)
  PROVE  Promise!Enter(c)
  <1>1. /\ value = 0 /\ value' = drawn + 1 /\ pc[c] = "out" /\ drawn \in Nat
        /\ \A d \in Clients : /\ token'[d] = IF d = c THEN drawn + 1 ELSE token[d]
                              /\ pc'[d] = IF d = c THEN "body" ELSE pc[d]
    BY DEF Acquire, Write, LeaseInv, TypeOK
  <1>2. Owner = Free /\ Owner' = c
    BY <1>1, OwnerNow, OwnerNext DEF OwnerTells
  <1>3. c \notin Inside /\ Inside' = Inside \cup {c}
    BY <1>1 DEF Inside
  <1>4. \A d \in Clients : pc[d] # "out" => token[d] # 0 /\ token[d] # drawn + 1
    BY <1>1 DEF LeaseInv, TypeOK, TokensFresh
  <1>5. Lapsed' = Lapsed
    BY <1>1, <1>4 DEF Lapsed, Inside
  <1> QED
    BY <1>2, <1>3, <1>5 DEF Promise!Enter

\* Leaving without a word to Redis: the lease stays behind.
LEMMA LeavesBehind ==
  ASSUME LeaseInv, LeaseInv', NEW c \in Clients, pc[c] # "out",
         pc' = [pc EXCEPT ![c] = "out"], UNCHANGED <<value, token>>
  PROVE  Promise!Die(c)
  <1>1. \A d \in Clients : pc'[d] = IF d = c THEN "out" ELSE pc[d]
    BY DEF LeaseInv, TypeOK
  <1>2. c \in Inside /\ Inside' = Inside \ {c} /\ Lapsed' = Lapsed \ {c}
    BY <1>1 DEF Inside, Lapsed
  <1>3. Owner' = IF Owner = c THEN Orphan ELSE Owner
    <2>1. CASE value = 0
      BY <2>1, OwnerNow, OwnerNext, RedisLeaseAssumption DEF OwnerTells
    <2>2. CASE value # 0 /\ token[c] = value
      <3>1. \A d \in Clients : token[d] = value => d = c
        BY <2>2 DEF LeaseInv, TokensFresh
      <3> QED
        BY <1>1, <2>2, <3>1, OwnerNow, OwnerNext DEF OwnerTells
    <2>3. CASE value # 0 /\ token[c] # value
      <3>1. CASE \E d \in Clients : pc[d] # "out" /\ token[d] = value
        BY <1>1, <2>3, <3>1, OwnerNow, OwnerNext DEF OwnerTells
      <3>2. CASE ~ \E d \in Clients : pc[d] # "out" /\ token[d] = value
        BY <1>1, <2>3, <3>2, OwnerNow, OwnerNext, RedisLeaseAssumption DEF OwnerTells
      <3> QED
        BY <3>1, <3>2
    <2> QED
      BY <2>1, <2>2, <2>3
  <1> QED
    BY <1>2, <1>3 DEF Promise!Die

LEMMA ReleaseLeaves ==
  ASSUME LeaseInv, LeaseInv', NEW c \in Clients, Release(c)
  PROVE  Promise!Leave(c) \/ UNCHANGED Promise!lease
  <1>1. CASE ReleaseRead(c) /\ value # token[c]
    <2>1. pc' = [pc EXCEPT ![c] = "out"] /\ pc[c] = "release" /\ UNCHANGED <<value, token>>
      BY <1>1 DEF ReleaseRead
    <2>2. Promise!Die(c)
      BY <2>1, LeavesBehind
    <2>3. Owner # c
      <3>1. CASE value # 0 /\ \E d \in Clients : pc[d] # "out" /\ token[d] = value
        BY <1>1, <3>1, OwnerNow DEF OwnerTells
      <3>2. CASE value = 0 \/ ~ \E d \in Clients : pc[d] # "out" /\ token[d] = value
        BY <3>2, OwnerNow, RedisLeaseAssumption DEF OwnerTells
      <3> QED
        BY <3>1, <3>2
    <2> QED
      BY <2>2, <2>3 DEF Promise!Die, Promise!Leave
  <1>2. CASE ReleaseRead(c) /\ value = token[c]
    BY <1>2, SameLease DEF ReleaseRead, Inside
  <1>3. CASE ReleaseExec(c) /\ <<c, "delete">> \in dirty
    BY <1>3, SameLease DEF ReleaseExec, Unwatch, Inside
  <1>4. CASE ReleaseExec(c) /\ <<c, "delete">> \notin dirty
    <2>1. /\ value' = 0 /\ token' = token /\ <<c, "delete">> \in watch
          /\ \A d \in Clients : pc'[d] = IF d = c THEN "out" ELSE pc[d]
      BY <1>4 DEF ReleaseExec, Write, LeaseInv, TypeOK
    <2>2. value = token[c] /\ value # 0 /\ pc[c] = "release"
      BY <1>4, <2>1 DEF LeaseInv, CleanMeetsOwn, SwapsOwned
    <2>3. Owner = c /\ Owner' = Free
      BY <2>1, <2>2, OwnerNow, OwnerNext DEF OwnerTells
    <2>4. c \in Inside /\ Inside' = Inside \ {c}
      BY <2>1, <2>2 DEF Inside
    <2>5. \A d \in Clients : pc[d] # "out" /\ d # c => token[d] # value /\ token[d] # 0
      BY <2>2 DEF LeaseInv, TokensFresh
    <2>6. Lapsed' = Lapsed \ {c}
      BY <2>1, <2>2, <2>5 DEF Lapsed, Inside
    <2> QED
      BY <2>3, <2>4, <2>6 DEF Promise!Leave
  <1> QED
    BY <1>1, <1>2, <1>3, <1>4 DEF Release

LEMMA TickExpires ==
  ASSUME LeaseInv, LeaseInv', Tick
  PROVE  \/ \E c \in Clients : Promise!Lapse(c)
         \/ Promise!Expire
         \/ UNCHANGED Promise!lease
  <1>1. UNCHANGED <<token, pc>> /\ value # 0 /\ Inside' = Inside
    BY DEF Tick, Inside
  <1>2. CASE ttl = 1
    <2>1. value' = 0 /\ Owner' = Free
      BY <1>2, OwnerNext DEF Tick, Write, OwnerTells
    <2>2. \A d \in Clients : pc[d] # "out" => token[d] # 0
      BY DEF LeaseInv, TokensFresh
    <2>3. CASE \E c \in Clients : pc[c] # "out" /\ token[c] = value
      <3>1. PICK c \in Clients : pc[c] # "out" /\ token[c] = value
        BY <2>3
      <3>2. Owner = c
        BY <1>1, <3>1, OwnerNow DEF OwnerTells
      <3>3. \A d \in Clients : token[d] = value => d = c
        BY <1>1, <3>1 DEF LeaseInv, TokensFresh
      <3>4. Lapsed' = Lapsed \cup {c}
        BY <1>1, <2>1, <2>2, <3>1, <3>3 DEF Lapsed, Inside
      <3>5. Promise!Lapse(c)
        BY <1>1, <2>1, <3>2, <3>4 DEF Promise!Lapse
      <3> QED
        BY <3>5
    <2>4. CASE ~ \E c \in Clients : pc[c] # "out" /\ token[c] = value
      <3>1. Owner = Orphan
        BY <1>1, <2>4, OwnerNow DEF OwnerTells
      <3>2. Lapsed' = Lapsed
        BY <1>1, <2>1, <2>2, <2>4 DEF Lapsed, Inside
      <3> QED
        BY <1>1, <2>1, <3>1, <3>2 DEF Promise!Expire
    <2> QED
      BY <2>3, <2>4
  <1>3. CASE ttl # 1
    BY <1>1, <1>3, SameLease DEF Tick
  <1> QED
    BY <1>2, <1>3

\* "A worker whose lease already expired can never release or extend a lock
\* that a different worker now owns": token, TTL and compare-and-swap implement
\* LeaseMutex, for every number of clients, every TTL and every delay.
THEOREM MutexImplemented == Spec => ImplementsMutex
  <1>1. Init => Promise!Init
    BY DEF Init, Promise!Init, Owner, Inside, Lapsed
  <1>2. LeaseInv /\ LeaseInv' /\ [Next]_vars => [Promise!Next]_(Promise!lease)
    <2> SUFFICES ASSUME LeaseInv, LeaseInv', [Next]_vars
                 PROVE  Promise!Next \/ UNCHANGED Promise!lease
      OBVIOUS
    <2>1. ASSUME NEW c \in Clients, RenewRead(c) \/ RenewExec(c) \/ RenewError(c)
          PROVE  UNCHANGED Promise!lease
      <3>1. UNCHANGED <<value, token, pc>>
        BY <2>1 DEF RenewRead, RenewExec, RenewError, Write, Unwatch
      <3> QED
        BY <3>1, SameLease DEF Inside
    <2>2. ASSUME NEW c \in Clients, Exit(c)
          PROVE  UNCHANGED Promise!lease
      <3>1. /\ pc[c] = "body" /\ UNCHANGED <<value, token>>
            /\ \A d \in Clients : pc'[d] = IF d = c THEN "release" ELSE pc[d]
        BY <2>2 DEF Exit, LeaseInv, TypeOK
      <3> QED
        BY <3>1, SameLease DEF Inside
    <2>3. ASSUME NEW c \in Clients, ExitUnreleased(c) \/ Die(c)
          PROVE  Promise!Die(c)
      BY <2>3, LeavesBehind DEF ExitUnreleased, Die
    <2>4. CASE UNCHANGED vars
      BY <2>4, SameLease DEF vars, Inside
    <2> QED
      BY <2>1, <2>2, <2>3, <2>4, AcquireEnters, ReleaseLeaves, TickExpires
         DEF Next, Renew, LeaveBody, Promise!Next
  <1> QED
    BY <1>1, <1>2, LeaseAlways, PTL DEF Spec, ImplementsMutex, Promise!Spec
=============================================================================
