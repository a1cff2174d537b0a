---------------------------- MODULE SessionProofs ----------------------------
(***************************************************************************)
(* Accounts and sessions, for every instance of Sessions: logins that race *)
(* and token refreshes beside them keep accounts whole and expiries true,  *)
(* and lose no consent.                                                    *)
(***************************************************************************)
EXTENDS Sessions, TLAPS

-----------------------------------------------------------------------------
\* What a request has at hand at each step, and that an account it has found is
\* still there.
Sound(r, accounts) ==
  /\ r.pc # "idle" => r.browser \in Browsers
  /\ r.pc \in {"verify", "consume", "exchange"} => r.state \in States
  /\ r.pc = "provision" =>
       /\ r.subject \in Subjects
       /\ r.grant \in Token /\ r.grant.expires = r.grant.access
       /\ r.found => accounts[r.subject] # None
  /\ r.pc \in {"open", "rotate"} => r.user \in Emails
  /\ r.pc \in {"check", "rotate", "delete", "in"} => r.sid \in Sids
  /\ r.pc \in {"check", "in"} => r.secret \in Secrets

\* A calendar call refreshes the token of an account that has one.
HoldsToken ==
  \A w \in Workers : worker[w] # None => token[worker[w].subject] # None

TablesInv == AccountsTypeOK /\ NoHalfAccount /\ ExpiryIsOfAccess /\ HoldsToken

SessionInv ==
  /\ TypeOK /\ TablesInv
  /\ \A q \in Requests : Sound(req[q], account)

\* Accounts stay.
AccountsStay == \A s \in Subjects : account[s] # None => account'[s] # None

-----------------------------------------------------------------------------
\* The tables

LEMMA UpsertedTyped ==
  ASSUME NEW old \in Token \cup {None}, NEW new \in Token, new.expires = new.access,
         old # None => old.expires = old.access
  PROVE  /\ Upserted(old, new) \in Token
         /\ Upserted(old, new).expires = Upserted(old, new).access
  BY DEF Upserted, Token

LEMMA ProvisionKeepsTables ==
  ASSUME TablesInv, NEW s \in Subjects, NEW found \in BOOLEAN, NEW linked \in BOOLEAN,
         NEW new \in Token, new.expires = new.access,
         found => account[s] # None,
         ~ Collides(s, found, linked), Provisioned(s, found, new), UNCHANGED worker
  PROVE  TablesInv' /\ AccountsStay /\ account'[s] \in Emails
  <1>1. EmailOf[s] \in Emails /\ EmailOf[s] # None /\ None \notin Token
    BY AccountsAssumption DEF Emails
  <1>2. token[s] \in Token \cup {None} /\ (token[s] # None => token[s].expires = token[s].access)
    BY DEF TablesInv, AccountsTypeOK, ExpiryIsOfAccess
  <1>3. /\ token'[s] \in Token /\ token'[s].expires = token'[s].access
        /\ token' = [token EXCEPT ![s] = token'[s]]
    BY <1>2, UpsertedTyped DEF Provisioned, TablesInv, AccountsTypeOK
  <1>4. token'[s] # None
    BY <1>1, <1>3
  <1>5. /\ AccountsStay /\ account'[s] \in Emails /\ account'[s] # None
        /\ account' \in [Subjects -> Emails \cup {None}]
        /\ \A t \in Subjects \ {s} : account'[t] = account[t]
    BY <1>1 DEF Provisioned, AccountsStay, TablesInv, AccountsTypeOK
  <1>6. users' = users \cup {account'[s]} /\ users' \subseteq Emails
    <2>1. CASE found
      BY <1>5, <2>1 DEF Provisioned, TablesInv, NoHalfAccount, AccountsTypeOK
    <2>2. CASE ~ found
      BY <1>1, <2>2 DEF Provisioned, TablesInv, AccountsTypeOK
    <2> QED
      BY <2>1, <2>2
  <1>7. users' = {account'[t] : t \in {u \in Subjects : account'[u] # None}}
    <2>1. users = {account[t] : t \in {u \in Subjects : account[u] # None}}
      BY DEF TablesInv, NoHalfAccount
    <2>2. account[s] = None \/ account'[s] = account[s]
      BY DEF Provisioned, Collides, TablesInv, AccountsTypeOK
    <2>3. ASSUME NEW e \in users'
          PROVE  e \in {account'[t] : t \in {u \in Subjects : account'[u] # None}}
      BY <1>5, <1>6, <2>1, <2>2, <2>3
    <2>4. ASSUME NEW t \in Subjects, account'[t] # None
          PROVE  account'[t] \in users'
      BY <1>5, <1>6, <2>1, <2>4
    <2> QED
      BY <2>3, <2>4
  <1>8. \A t \in Subjects : account'[t] # None <=> token'[t] # None
    BY <1>3, <1>4, <1>5 DEF TablesInv, NoHalfAccount, AccountsTypeOK
  <1>9. AccountsTypeOK' /\ NoHalfAccount' /\ ExpiryIsOfAccess'
    BY <1>3, <1>5, <1>6, <1>7, <1>8
       DEF TablesInv, AccountsTypeOK, NoHalfAccount, ExpiryIsOfAccess
  <1>10. HoldsToken'
    <2>1. ASSUME NEW w \in Workers, worker[w] # None
          PROVE  token'[worker[w].subject] # None
      <3>1. worker[w].subject \in Subjects
        BY <2>1 DEF TablesInv, AccountsTypeOK, Holding
      <3> QED
        BY <2>1, <3>1, <1>3, <1>4 DEF TablesInv, HoldsToken, AccountsTypeOK
    <2> QED
      BY <2>1 DEF HoldsToken
  <1> QED
    BY <1>5, <1>9, <1>10 DEF TablesInv

LEMMA WorkerKeepsTables ==
  ASSUME TablesInv, NEW w \in Workers,
         \/ StoreAccess(w) \/ RollBack(w)
         \/ \E s \in Subjects, n \in Grants : RefreshAccess(w, s, n)
  PROVE  TablesInv' /\ UNCHANGED account
  <1>1. CASE StoreAccess(w)
    <2> DEFINE s == worker[w].subject  n == worker[w].access
    <2>1. s \in Subjects /\ n \in Grants /\ token[s] \in Token /\ token[s] # None
      BY <1>1 DEF StoreAccess, TablesInv, AccountsTypeOK, HoldsToken, Holding
    <2>2. token' = [token EXCEPT ![s] = [token[s] EXCEPT !.access = n, !.expires = n]]
      BY <1>1, <2>1 DEF StoreAccess, TablesInv, AccountsTypeOK
    <2>3. /\ [token[s] EXCEPT !.access = n, !.expires = n] \in Token
          /\ [token[s] EXCEPT !.access = n, !.expires = n].expires
               = [token[s] EXCEPT !.access = n, !.expires = n].access
      BY <2>1 DEF Token
    <2> HIDE DEF s, n
    <2>4. /\ token'[s] \in Token /\ token'[s] # None /\ token'[s].expires = token'[s].access
          /\ \A t \in Subjects \ {s} : token'[t] = token[t]
          /\ token' \in [Subjects -> Token \cup {None}]
      BY <2>1, <2>2, <2>3, AccountsAssumption DEF TablesInv, AccountsTypeOK
    <2>5. worker' \in [Workers -> Holding \cup {None}] /\ UNCHANGED <<users, account>>
      BY <1>1 DEF StoreAccess, TablesInv, AccountsTypeOK
    <2>6. AccountsTypeOK' /\ NoHalfAccount' /\ ExpiryIsOfAccess'
      BY <2>1, <2>4, <2>5 DEF TablesInv, AccountsTypeOK, NoHalfAccount, ExpiryIsOfAccess
    <2>7. ASSUME NEW v \in Workers, worker'[v] # None
          PROVE  token'[worker'[v].subject] # None
      <3>1. worker'[v] = worker[v]
        BY <1>1, <2>7 DEF StoreAccess, TablesInv, AccountsTypeOK
      <3>2. worker[v].subject \in Subjects
        BY <2>7, <3>1 DEF TablesInv, AccountsTypeOK, Holding
      <3> QED
        BY <2>4, <2>7, <3>1, <3>2 DEF TablesInv, HoldsToken
    <2> QED
      BY <2>5, <2>6, <2>7 DEF TablesInv, HoldsToken
  <1>2. CASE RollBack(w)
    BY <1>2 DEF RollBack, TablesInv, AccountsTypeOK, NoHalfAccount, ExpiryIsOfAccess, HoldsToken
  <1>3. ASSUME NEW s \in Subjects, NEW n \in Grants, RefreshAccess(w, s, n)
        PROVE  TablesInv' /\ UNCHANGED account
    <2> DEFINE held == [subject |-> s, refresh |-> token[s].refresh, access |-> n]
    <2>1. token[s] \in Token /\ token[s] # None /\ held \in Holding /\ held.subject = s
      BY <1>3 DEF RefreshAccess, TablesInv, AccountsTypeOK, Token, Holding
    <2>2. worker' = [worker EXCEPT ![w] = held] /\ UNCHANGED <<users, account, token>>
      BY <1>3 DEF RefreshAccess
    <2> HIDE DEF held
    <2> QED
      BY <2>1, <2>2
         DEF TablesInv, AccountsTypeOK, NoHalfAccount, ExpiryIsOfAccess, HoldsToken
  <1> QED
    BY <1>1, <1>2, <1>3

-----------------------------------------------------------------------------
\* Requests

\* Sessions, cookies and the rest, without the requests and the tables.
OthersTyped ==
  /\ states \subseteq States /\ redeemed \subseteq States
  /\ session \in [Sids -> Session \cup {None}]
  /\ cookie \in [Browsers -> Cookies]
  /\ faults \in Nat

LEMMA IdleIsSound == IdleRequest \in Request /\ \A a : Sound(IdleRequest, a)
  BY DEF IdleRequest, Request, Steps, Sound

\* One request changes; what the others rest on stays.
LEMMA OneRequest ==
  ASSUME SessionInv, AccountsStay, NEW q \in Requests, NEW r \in Request, Sound(r, account'),
         req' = [req EXCEPT ![q] = r], TablesInv', OthersTyped'
  PROVE  SessionInv'
  <1>1. req' \in [Requests -> Request]
    BY DEF SessionInv, TypeOK
  <1>2. ASSUME NEW p \in Requests
        PROVE  Sound(req'[p], account')
    <2>1. CASE p = q
      BY <2>1 DEF SessionInv, TypeOK
    <2>2. CASE p # q
      <3>1. req'[p] = req[p] /\ Sound(req[p], account)
        BY <2>2 DEF SessionInv, TypeOK
      <3> QED
        BY <3>1 DEF Sound, AccountsStay
    <2> QED
      BY <2>1, <2>2
  <1> QED
    BY <1>1, <1>2 DEF SessionInv, TypeOK, TablesInv, OthersTyped

LEMMA NoRequest ==
  ASSUME SessionInv, UNCHANGED <<account, req>>, TablesInv', OthersTyped'
  PROVE  SessionInv'
  BY DEF SessionInv, TypeOK, TablesInv, OthersTyped

\* The tables are left alone.
LEMMA SameTables ==
  ASSUME SessionInv, UNCHANGED accountVars
  PROVE  TablesInv' /\ AccountsStay
  BY DEF SessionInv, TablesInv, AccountsTypeOK, NoHalfAccount, ExpiryIsOfAccess, HoldsToken,
         accountVars, AccountsStay

LEMMA Smallest == \A S : Least(S) \subseteq S
  BY DEF Least

LEMMA NewValues ==
  /\ NewState \subseteq States /\ NewSid \subseteq Sids /\ NewGrant \subseteq Grants
  /\ \A s : NewSecret(s) \subseteq Secrets
  BY Smallest DEF NewState, NewSid, NewGrant, NewSecret

\* What the invariant says of a request and of the rest.
LEMMA Known ==
  ASSUME SessionInv, NEW q \in Requests
  PROVE  req[q] \in Request /\ Sound(req[q], account) /\ OthersTyped
  BY DEF SessionInv, TypeOK, OthersTyped

LEMMA LoginKeeps ==
  ASSUME SessionInv, NEW b \in Browsers, Login(b)
  PROVE  SessionInv'
  <1>1. OthersTyped
    BY DEF SessionInv, TypeOK, OthersTyped
  <1>2. PICK st \in NewState :
          /\ states' = states \cup {st} /\ redeemed' = redeemed \ {st}
          /\ cookie' = [cookie EXCEPT ![b].state = st]
    BY DEF Login
  <1>3. st \in States
    BY NewValues
  <1>4. cookie' \in [Browsers -> Cookies]
    BY <1>1, <1>2, <1>3 DEF OthersTyped, Cookies
  <1>5. OthersTyped'
    BY <1>1, <1>2, <1>3, <1>4 DEF OthersTyped, Login
  <1> QED
    BY <1>5, SameTables, NoRequest DEF Login, accountVars

\* The steps that only move a request, or begin one.
LEMMA MovesKeep ==
  ASSUME SessionInv, NEW q \in Requests,
         \/ ReadState(q) \/ DropState(q) \/ ExchangeRefused(q) \/ ExchangeFails(q)
         \/ ProvisionCollides(q) \/ DeleteSession(q) \/ Lose(q)
  PROVE  SessionInv'
  <1> DEFINE to(pc) == [req[q] EXCEPT !.pc = pc]
  <1>1. req[q] \in Request /\ Sound(req[q], account) /\ OthersTyped
    BY Known
  <1>2. TablesInv' /\ AccountsStay /\ account' = account
    BY SameTables DEF ReadState, DropState, ExchangeRefused, ExchangeFails, ProvisionCollides,
                      DeleteSession, Lose, accountVars
  <1>3. CASE ReadState(q) \/ DropState(q) \/ ExchangeRefused(q) \/ DeleteSession(q)
    <2>1. \E pc \in {"consume", "refused", "exchange", "out"} :
            /\ req' = [req EXCEPT ![q] = to(pc)]
            /\ pc \in {"consume", "exchange"} => req[q].pc \in {"verify", "consume"}
            /\ req[q].pc # "idle"
      BY <1>3 DEF ReadState, DropState, ExchangeRefused, DeleteSession, Goto
    <2>2. PICK pc \in {"consume", "refused", "exchange", "out"} :
            /\ req' = [req EXCEPT ![q] = to(pc)]
            /\ pc \in {"consume", "exchange"} => req[q].pc \in {"verify", "consume"}
            /\ req[q].pc # "idle"
      BY <2>1
    <2>3. to(pc) \in Request /\ Sound(to(pc), account')
      BY <1>1, <1>2, <2>2 DEF Request, Steps, Sound
    <2>4. OthersTyped'
      BY <1>1, <1>3 DEF OthersTyped, ReadState, DropState, ExchangeRefused, DeleteSession, Goto
    <2> HIDE DEF to
    <2> QED
      BY <1>2, <2>2, <2>3, <2>4, OneRequest
  <1>4. CASE ExchangeFails(q) \/ ProvisionCollides(q) \/ Lose(q)
    <2>1. req' = [req EXCEPT ![q] = IdleRequest]
      BY <1>4 DEF ExchangeFails, ProvisionCollides, Lose, End
    <2>2. OthersTyped'
      BY <1>1, <1>4 DEF OthersTyped, ExchangeFails, ProvisionCollides, Lose, Fault
    <2> QED
      BY <1>2, <2>1, <2>2, IdleIsSound, OneRequest
  <1> QED
    BY <1>3, <1>4

LEMMA BeginsKeep ==
  ASSUME SessionInv, NEW q \in Requests, NEW b \in Browsers,
         Callback(q, b) \/ Refresh(q, b) \/ Logout(q, b)
  PROVE  SessionInv'
  <1>1. OthersTyped /\ cookie[b] \in Cookies
    BY DEF SessionInv, TypeOK, OthersTyped
  <1>2. TablesInv' /\ AccountsStay
    BY SameTables DEF Callback, Refresh, Logout, accountVars
  <1>3. OthersTyped'
    BY <1>1 DEF OthersTyped, Callback, Refresh, Logout, Fault
  <1>4. CASE Callback(q, b)
    <2> DEFINE r == [IdleRequest EXCEPT !.pc = "verify", !.browser = b, !.state = cookie[b].state]
    <2>1. r \in Request /\ Sound(r, account')
      BY <1>1, <1>4 DEF Callback, IdleRequest, Request, Steps, Sound, Cookies
    <2>2. req' = [req EXCEPT ![q] = r]
      BY <1>4 DEF Callback
    <2> HIDE DEF r
    <2> QED
      BY <1>2, <1>3, <2>1, <2>2, OneRequest
  <1>5. CASE Refresh(q, b)
    <2> DEFINE r == [IdleRequest EXCEPT !.pc = "check", !.browser = b,
                       !.sid = cookie[b].refresh.sid, !.secret = cookie[b].refresh.secret]
    <2>1. cookie[b].refresh \in RefreshToken
      BY <1>1, <1>5 DEF Refresh, Cookies
    <2>2. r \in Request /\ Sound(r, account')
      BY <2>1 DEF IdleRequest, Request, Steps, Sound, RefreshToken
    <2>3. req' = [req EXCEPT ![q] = r]
      BY <1>5 DEF Refresh
    <2> HIDE DEF r
    <2> QED
      BY <1>2, <1>3, <2>2, <2>3, OneRequest
  <1>6. CASE Logout(q, b)
    <2> DEFINE s == IF cookie[b].access # None THEN cookie[b].access ELSE cookie[b].refresh.sid
               r == [IdleRequest EXCEPT !.pc = "delete", !.browser = b, !.sid = s]
    <2>1. s \in Sids
      BY <1>1, <1>6 DEF Logout, Cookies, RefreshToken
    <2>2. req' = [req EXCEPT ![q] = r]
      BY <1>6 DEF Logout
    <2> HIDE DEF s
    <2>3. r \in Request /\ Sound(r, account')
      BY <2>1 DEF IdleRequest, Request, Steps, Sound
    <2> HIDE DEF r
    <2> QED
      BY <1>2, <1>3, <2>2, <2>3, OneRequest
  <1> QED
    BY <1>4, <1>5, <1>6

LEMMA ExchangeKeeps ==
  ASSUME SessionInv, NEW q \in Requests, NEW s \in Subjects, Exchange(q, s)
  PROVE  SessionInv'
  <1>1. req[q] \in Request /\ Sound(req[q], account) /\ OthersTyped
    BY Known
  <1>2. TablesInv' /\ AccountsStay /\ account' = account
    BY SameTables DEF Exchange, accountVars
  <1>3. PICK n \in NewGrant, again \in BOOLEAN :
          req' = [req EXCEPT ![q].pc = "provision", ![q].subject = s,
                    ![q].grant = [access |-> n, expires |-> n, refresh |-> IF again THEN n ELSE None],
                    ![q].found = account[s] # None, ![q].linked = LinksTo(s)]
    BY DEF Exchange
  <1> DEFINE g == [access |-> n, expires |-> n, refresh |-> IF again THEN n ELSE None]
             f == account[s] # None
             l == LinksTo(s)
             r == [req[q] EXCEPT !.pc = "provision", !.subject = s, !.grant = g,
                                 !.found = f, !.linked = l]
  <1>4. g \in Token /\ g.expires = g.access
    BY NewValues DEF Token
  <1>5. f \in BOOLEAN /\ l \in BOOLEAN /\ (f => account[s] # None)
    BY DEF LinksTo
  <1>6. req' = [req EXCEPT ![q] = r]
    BY <1>3
  <1>7. OthersTyped'
    BY <1>1 DEF OthersTyped, Exchange, Sound
  <1> HIDE DEF g, f, l
  <1>8. r \in Request /\ Sound(r, account')
    <2>1. r \in Request
      BY <1>1, <1>4, <1>5 DEF Request, Steps
    <2>2. r.subject = s /\ r.grant = g /\ r.found = f /\ r.pc = "provision" /\ r.browser = req[q].browser
      BY <1>1 DEF Request
    <2>3. req[q].browser \in Browsers
      BY <1>1 DEF Sound, Exchange
    <2> HIDE DEF r
    <2>4. Sound(r, account')
      BY <1>2, <1>4, <1>5, <2>2, <2>3 DEF Sound
    <2> QED
      BY <2>1, <2>4
  <1> HIDE DEF r
  <1> QED
    BY <1>2, <1>6, <1>7, <1>8, OneRequest

LEMMA ProvisionKeeps ==
  ASSUME SessionInv, NEW q \in Requests, Provision(q)
  PROVE  SessionInv'
  <1>1. req[q] \in Request /\ Sound(req[q], account) /\ OthersTyped
    BY Known
  <1>2. /\ req[q].subject \in Subjects /\ req[q].grant \in Token
        /\ req[q].grant.expires = req[q].grant.access
        /\ req[q].found \in BOOLEAN /\ req[q].linked \in BOOLEAN
        /\ req[q].found => account[req[q].subject] # None
    BY <1>1 DEF Provision, Sound, Request
  <1>3. TablesInv' /\ AccountsStay /\ account'[req[q].subject] \in Emails
    BY <1>2, ProvisionKeepsTables DEF Provision, SessionInv
  <1> DEFINE u == account'[req[q].subject]
             r == [req[q] EXCEPT !.pc = "open", !.user = u, !.grant = None,
                                 !.found = FALSE, !.linked = FALSE]
  <1>4. req' = [req EXCEPT ![q] = r]
    BY DEF Provision
  <1>5. OthersTyped'
    BY <1>1 DEF OthersTyped, Provision
  <1> HIDE DEF u
  <1>6. r \in Request /\ Sound(r, account')
    BY <1>1, <1>3 DEF Request, Steps, Sound, Provision, u
  <1> HIDE DEF r
  <1> QED
    BY <1>3, <1>4, <1>5, <1>6, OneRequest

\* The steps that write a session record.
LEMMA RecordsKeep ==
  ASSUME SessionInv, NEW q \in Requests, OpenSession(q) \/ Rotate(q)
  PROVE  SessionInv'
  <1>1. req[q] \in Request /\ Sound(req[q], account) /\ OthersTyped
    BY Known
  <1>2. TablesInv' /\ AccountsStay /\ account' = account
    BY SameTables DEF OpenSession, Rotate, accountVars
  <1>3. PICK s \in Sids, x \in Secrets :
          /\ session' = [session EXCEPT ![s] = [user |-> req[q].user, secret |-> x]]
          /\ req' = [req EXCEPT ![q] = [req[q] EXCEPT !.pc = "in", !.sid = s, !.secret = x]]
    <2>1. CASE OpenSession(q)
      <3>1. PICK s \in NewSid : \E x \in NewSecret(s) :
              /\ session' = [session EXCEPT ![s] = [user |-> req[q].user, secret |-> x]]
              /\ req' = [req EXCEPT ![q].pc = "in", ![q].sid = s, ![q].secret = x]
        BY <2>1 DEF OpenSession
      <3>2. PICK x \in NewSecret(s) :
              /\ session' = [session EXCEPT ![s] = [user |-> req[q].user, secret |-> x]]
              /\ req' = [req EXCEPT ![q].pc = "in", ![q].sid = s, ![q].secret = x]
        BY <3>1
      <3>3. s \in Sids /\ x \in Secrets
        BY NewValues
      <3>4. req' = [req EXCEPT ![q] = [req[q] EXCEPT !.pc = "in", !.sid = s, !.secret = x]]
        BY <3>2
      <3> QED
        BY <3>2, <3>3, <3>4
    <2>2. CASE Rotate(q)
      <3>1. req[q].sid \in Sids
        BY <1>1, <2>2 DEF Rotate, Sound
      <3>2. PICK x \in NewSecret(req[q].sid) :
              /\ session' = [session EXCEPT ![req[q].sid] = [user |-> req[q].user, secret |-> x]]
              /\ req' = [req EXCEPT ![q].pc = "in", ![q].secret = x]
        BY <2>2 DEF Rotate
      <3>3. [req[q] EXCEPT !.pc = "in", !.sid = req[q].sid, !.secret = x]
              = [req[q] EXCEPT !.pc = "in", !.secret = x]
        BY <1>1 DEF Request
      <3>4. req' = [req EXCEPT ![q] = [req[q] EXCEPT !.pc = "in", !.sid = req[q].sid,
                                                   !.secret = x]]
        BY <3>2, <3>3
      <3> QED
        BY <3>1, <3>2, <3>4, NewValues
    <2> QED
      BY <2>1, <2>2
  <1>4. req[q].user \in Emails
    BY <1>1 DEF OpenSession, Rotate, Sound
  <1> DEFINE r == [req[q] EXCEPT !.pc = "in", !.sid = s, !.secret = x]
  <1>5. r \in Request /\ Sound(r, account')
    BY <1>1 DEF Request, Steps, Sound, OpenSession, Rotate
  <1>6. OthersTyped'
    BY <1>1, <1>3, <1>4 DEF OthersTyped, Session, OpenSession, Rotate
  <1> HIDE DEF r
  <1> QED
    BY <1>2, <1>3, <1>5, <1>6, OneRequest DEF r

LEMMA CheckKeeps ==
  ASSUME SessionInv, NEW q \in Requests, Check(q)
  PROVE  SessionInv'
  <1>1. req[q] \in Request /\ Sound(req[q], account) /\ OthersTyped
    BY Known
  <1>2. TablesInv' /\ AccountsStay /\ account' = account /\ OthersTyped'
    BY <1>1, SameTables DEF Check, accountVars, OthersTyped
  <1>3. req[q].sid \in Sids /\ session[req[q].sid] \in Session \cup {None}
    BY <1>1 DEF Check, Sound, OthersTyped
  <1> DEFINE record == session[req[q].sid]
             pc == IF record = None THEN "out"
                   ELSE IF record.secret # req[q].secret THEN "delete" ELSE "rotate"
             u == IF record = None THEN None ELSE record.user
             r == [req[q] EXCEPT !.pc = pc, !.user = u]
  <1>4. /\ pc \in {"out", "delete", "rotate"} /\ u \in Emails \cup {None}
        /\ pc = "rotate" => u \in Emails
    BY <1>3 DEF Session
  <1>5. req' = [req EXCEPT ![q] = r]
    BY DEF Check
  <1> HIDE DEF pc, u
  <1>6. r \in Request /\ Sound(r, account')
    BY <1>1, <1>3, <1>4 DEF Request, Steps, Sound, Check
  <1> HIDE DEF r
  <1> QED
    BY <1>2, <1>5, <1>6, OneRequest

LEMMA AnswerKeeps ==
  ASSUME SessionInv, NEW q \in Requests, Answer(q)
  PROVE  SessionInv'
  <1>1. req[q] \in Request /\ Sound(req[q], account) /\ OthersTyped
    BY Known
  <1>2. TablesInv' /\ AccountsStay
    BY SameTables DEF Answer, accountVars
  <1>3. req[q].browser \in Browsers /\ cookie[req[q].browser] \in Cookies
    BY <1>1 DEF Answer, Sound, OthersTyped
  <1>4. CookiesAfter(cookie[req[q].browser], req[q]) \in Cookies
    <2>1. CASE req[q].pc = "in"
      BY <1>1, <1>3, <2>1 DEF CookiesAfter, Cookies, RefreshToken, Sound
    <2>2. CASE req[q].pc = "out"
      BY <1>3, <2>2 DEF CookiesAfter, Without, Cookies
    <2>3. CASE req[q].pc = "refused"
      BY <1>3, <2>3 DEF CookiesAfter, Cookies
    <2> QED
      BY <2>1, <2>2, <2>3 DEF Answer
  <1>5. OthersTyped'
    BY <1>1, <1>3, <1>4 DEF OthersTyped, Answer
  <1> QED
    BY <1>2, <1>5, IdleIsSound, OneRequest DEF Answer, End

LEMMA EnvironmentKeeps ==
  ASSUME SessionInv,
         \/ \E b \in Browsers : AccessLapses(b)
         \/ \E s \in Sids : SessionEnds(s)
         \/ \E st \in States : StateEnds(st)
  PROVE  SessionInv'
  <1>1. OthersTyped
    BY DEF SessionInv, TypeOK, OthersTyped
  <1>2. TablesInv' /\ UNCHANGED <<account, req>>
    BY SameTables DEF AccessLapses, SessionEnds, StateEnds, accountVars
  <1>3. OthersTyped'
    <2>1. ASSUME NEW b \in Browsers, AccessLapses(b)
          PROVE  OthersTyped'
      <3>1. cookie' \in [Browsers -> Cookies]
        BY <1>1, <2>1 DEF OthersTyped, AccessLapses, Cookies
      <3> QED
        BY <1>1, <2>1, <3>1 DEF OthersTyped, AccessLapses, Fault
    <2>2. ASSUME NEW s \in Sids, SessionEnds(s)
          PROVE  OthersTyped'
      BY <1>1, <2>2 DEF OthersTyped, SessionEnds, Fault
    <2>3. ASSUME NEW st \in States, StateEnds(st)
          PROVE  OthersTyped'
      BY <1>1, <2>3 DEF OthersTyped, StateEnds, Fault
    <2> QED
      BY <2>1, <2>2, <2>3
  <1> QED
    BY <1>2, <1>3, NoRequest

LEMMA BackgroundKeeps ==
  ASSUME SessionInv, NEW w \in Workers, Background(w)
  PROVE  SessionInv'
  <1>1. \/ StoreAccess(w) \/ RollBack(w)
        \/ \E s \in Subjects, n \in Grants : RefreshAccess(w, s, n)
    BY NewValues DEF Background
  <1>2. TablesInv' /\ UNCHANGED account
    BY <1>1, WorkerKeepsTables DEF SessionInv
  <1>3. OthersTyped'
    BY DEF Background, Fault, OthersTyped, SessionInv, TypeOK
  <1> QED
    BY <1>2, <1>3, NoRequest DEF Background

LEMMA SessionStepKeeps ==
  ASSUME SessionInv, [Next]_vars
  PROVE  SessionInv'
  <1>1. CASE UNCHANGED vars
    <2>1. OthersTyped'
      BY <1>1 DEF vars, sessionVars, OthersTyped, SessionInv, TypeOK
    <2> QED
      BY <1>1, <2>1, SameTables, NoRequest DEF vars, sessionVars, accountVars
  <1>2. ASSUME NEW q \in Requests,
               LoginStep(q) \/ SessionStep(q) \/ Answer(q) \/ ExchangeFails(q) \/ Lose(q)
        PROVE  SessionInv'
    BY <1>2, MovesKeep, ExchangeKeeps, ProvisionKeeps, RecordsKeep, CheckKeeps, AnswerKeeps
       DEF LoginStep, SessionStep
  <1>3. ASSUME NEW b \in Browsers, Try(b) \/ \E q \in Requests : Logout(q, b)
        PROVE  SessionInv'
    BY <1>3, LoginKeeps, BeginsKeep DEF Try
  <1> QED
    BY <1>1, <1>2, <1>3, EnvironmentKeeps, BackgroundKeeps DEF Next

LEMMA SessionInit == Init => SessionInv
  <1> SUFFICES ASSUME Init
               PROVE  SessionInv
    OBVIOUS
  <1>1. AccountsTypeOK /\ NoHalfAccount /\ ExpiryIsOfAccess /\ HoldsToken
    BY DEF Init, AccountsInit, AccountsTypeOK, NoHalfAccount, ExpiryIsOfAccess, HoldsToken
  <1>2. OthersTyped
    BY SessionsAssumption DEF Init, OthersTyped, Cookies
  <1>3. req \in [Requests -> Request] /\ \A q \in Requests : Sound(req[q], account)
    BY IdleIsSound DEF Init
  <1> QED
    BY <1>1, <1>2, <1>3 DEF SessionInv, TypeOK, TablesInv, OthersTyped

-----------------------------------------------------------------------------
\* Results

LEMMA SessionInvHolds == Spec => []SessionInv
  BY SessionInit, SessionStepKeeps, PTL DEF Spec

\* Every variable of accounts and sessions keeps its type, for every number of
\* browsers, requests, subjects and background jobs.
THEOREM SessionTypes == Spec => []TypeOK
  <1>1. SessionInv => TypeOK
    BY DEF SessionInv
  <1> QED
    BY <1>1, SessionInvHolds, PTL

\* Logins that race, collide or die leave no user without an account, no account
\* without its user or its tokens.
THEOREM AccountsWhole == Spec => []NoHalfAccount
  <1>1. SessionInv => NoHalfAccount
    BY DEF SessionInv, TablesInv
  <1> QED
    BY <1>1, SessionInvHolds, PTL

\* The expiry stored is that of the access token stored beside it, whatever logins and
\* token refreshes write the row.
THEOREM ExpiryTrue == Spec => []ExpiryIsOfAccess
  <1>1. SessionInv => ExpiryIsOfAccess
    BY DEF SessionInv, TablesInv
  <1> QED
    BY <1>1, SessionInvHolds, PTL

\* Only a login replaces a stored refresh token.
THEOREM ConsentsKept == Spec => ConsentKept
  <1> DEFINE Kept ==
        \A s \in Subjects :
          token[s] # None /\ token'[s] # None /\ token'[s].refresh # token[s].refresh =>
            \E q \in Requests : req[q].pc = "provision" /\ req[q].subject = s
                                /\ req'[q].pc = "open"
  <1>1. SessionInv /\ [Next]_vars => [Kept]_vars
    <2> SUFFICES ASSUME SessionInv, Next
                 PROVE  Kept
      BY DEF vars
    <2>1. CASE UNCHANGED token
      BY <2>1
    <2>2. ASSUME NEW q \in Requests, Provision(q)
          PROVE  Kept
      <3>1. req[q].subject \in Subjects /\ req'[q].pc = "open" /\ req[q].pc = "provision"
        BY <2>2, Known DEF Provision, Sound, SessionInv, TypeOK, Request
      <3>2. \A s \in Subjects : s # req[q].subject => token'[s] = token[s]
        BY <2>2 DEF Provision, Provisioned, SessionInv, TypeOK, AccountsTypeOK
      <3> QED
        BY <3>1, <3>2
    <2>3. ASSUME NEW w \in Workers, StoreAccess(w)
          PROVE  Kept
      <3> DEFINE s == worker[w].subject
      <3>1. s \in Subjects /\ token[s] \in Token
        BY <2>3 DEF StoreAccess, SessionInv, TypeOK, TablesInv, AccountsTypeOK, HoldsToken, Holding
      <3>2. token' = [token EXCEPT ![s] = [token[s] EXCEPT !.access = worker[w].access,
                                                           !.expires = worker[w].access]]
        BY <2>3, <3>1 DEF StoreAccess, SessionInv, TypeOK, AccountsTypeOK
      <3>3. token'[s].refresh = token[s].refresh
        BY <3>1, <3>2 DEF SessionInv, TypeOK, AccountsTypeOK, Token
      <3>4. \A t \in Subjects : t # s => token'[t] = token[t]
        BY <3>1, <3>2 DEF SessionInv, TypeOK, AccountsTypeOK
      <3> QED
        BY <3>3, <3>4
    <2>4. \/ UNCHANGED token
          \/ \E q \in Requests : Provision(q)
          \/ \E w \in Workers : StoreAccess(w)
      <3>1. ASSUME NEW b \in Browsers, Try(b) \/ AccessLapses(b) \/ \E q \in Requests : Logout(q, b)
            PROVE  UNCHANGED token
        BY <3>1 DEF Try, Login, Callback, Refresh, Logout, AccessLapses, accountVars
      <3>2. ASSUME NEW q \in Requests, LoginStep(q)
            PROVE  UNCHANGED token \/ Provision(q)
        BY <3>2 DEF LoginStep, ReadState, DropState, Exchange, ExchangeRefused, ProvisionCollides,
                    OpenSession, accountVars
      <3>3. ASSUME NEW q \in Requests, SessionStep(q) \/ Answer(q)
            PROVE  UNCHANGED token
        BY <3>3 DEF SessionStep, Check, Rotate, DeleteSession, Answer, accountVars
      <3>4. ASSUME NEW q \in Requests, ExchangeFails(q) \/ Lose(q)
            PROVE  UNCHANGED token
        BY <3>4 DEF ExchangeFails, Lose, accountVars
      <3>5. ASSUME NEW w \in Workers, Background(w)
            PROVE  UNCHANGED token \/ StoreAccess(w)
        BY <3>5 DEF Background, RefreshAccess, RollBack, accountVars
      <3>6. (\E s \in Sids : SessionEnds(s)) \/ (\E st \in States : StateEnds(st)) => UNCHANGED token
        BY DEF SessionEnds, StateEnds, accountVars
      <3> QED
        BY <3>1, <3>2, <3>3, <3>4, <3>5, <3>6 DEF Next
    <2> QED
      BY <2>1, <2>2, <2>3, <2>4
  <1> QED
    BY <1>1, SessionInvHolds, PTL DEF Spec, ConsentKept
=============================================================================
