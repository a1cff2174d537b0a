------------------------------- MODULE Sessions -------------------------------
(***************************************************************************)
(* AuthService and SessionService: logins through Google, refreshes of the *)
(* session and logouts, as requests of browsers whose steps interleave     *)
(* (every await is a step) and whose answers may be lost.  Redis holds the *)
(* session records and the OAuth states; the index of a user's sessions is *)
(* left out, because no route reads it.                                    *)
(***************************************************************************)
EXTENDS Accounts

CONSTANTS
  Browsers, Requests,  \* browsers, and requests that may be in flight
  Sids, Secrets,       \* bound: session ids and refresh secrets
  States,              \* bound: OAuth states
  MaxFaults            \* bound: faults and logouts, of whatever kind

ASSUME SessionsAssumption ==
  /\ MaxFaults \in Nat
  /\ Secrets \subseteq Nat /\ Sids \subseteq Nat /\ States \subseteq Nat
  /\ Requests \subseteq Nat
  /\ None \notin Sids \cup Secrets \cup States \cup Browsers

VARIABLES
  states,    \* Redis: live OAuth states
  redeemed,  \* Google: authorization codes that were used, named by their state
  session,   \* Redis: session records
  cookie,    \* each browser's cookies
  req,       \* requests in flight
  faults     \* faults left

sessionVars == <<states, redeemed, session, cookie, req, faults>>
vars == <<accountVars, sessionVars>>

Session == [user : Emails, secret : Secrets]
RefreshToken == [sid : Sids, secret : Secrets]
Cookies == [state : States \cup {None}, access : Sids \cup {None},
            refresh : RefreshToken \cup {None}]
Steps == {"idle", "verify", "consume", "exchange", "provision", "open", "check", "rotate", "delete", "in", "out", "refused"}

IdleRequest ==
  [pc |-> "idle", browser |-> None, state |-> None, subject |-> None, grant |-> None,
   found |-> FALSE, linked |-> FALSE, sid |-> None, secret |-> None, user |-> None]

Request ==
  [pc : Steps, browser : Browsers \cup {None}, state : States \cup {None},
   subject : Subjects \cup {None}, grant : Token \cup {None}, found : BOOLEAN, linked : BOOLEAN,
   sid : Sids \cup {None}, secret : Secrets \cup {None}, user : Emails \cup {None}]

Init ==
  /\ AccountsInit
  /\ states = {} /\ redeemed = {}
  /\ session = [s \in Sids |-> None]
  /\ cookie = [b \in Browsers |-> [state |-> None, access |-> None, refresh |-> None]]
  /\ req = [q \in Requests |-> IdleRequest]
  /\ faults = MaxFaults

\* One more fault: whatever kind it is.
Fault == faults > 0 /\ faults' = faults - 1

\* Random values: the least one that no cookie, request or record refers to stands
\* for a new one.
Least(candidates) == {x \in candidates : \A y \in candidates : x <= y}
NewState ==
  Least(States \ (states \cup {cookie[b].state : b \in Browsers} \cup {req[q].state : q \in Requests}))
NewSid ==
  Least(Sids \ ({req[q].sid : q \in Requests} \cup {cookie[b].access : b \in Browsers}
                \cup {cookie[b].refresh.sid : b \in {c \in Browsers : cookie[c].refresh # None}}))
NewSecret(s) ==
  Least(Secrets \ ({req[q].secret : q \in {p \in Requests : req[p].sid = s}}
                   \cup {cookie[b].refresh.secret : b \in {c \in Browsers : cookie[c].refresh # None
                                                           /\ cookie[c].refresh.sid = s}}
                   \cup (IF session[s] = None THEN {} ELSE {session[s].secret})))
NewGrant ==
  Least(Grants \ (Remembered \cup UNION {IF req[q].grant = None THEN {}
                                         ELSE {req[q].grant.access} : q \in Requests}))

\* _resolve_user: the access cookie is good as long as its session is live.
LetIn(b) == cookie[b].access # None /\ session[cookie[b].access] # None

\* Requests are alike: a new one takes the first free place.
Free(q) == req[q].pc = "idle" /\ \A p \in Requests : p < q => req[p].pc # "idle"

Goto(q, pc) == req' = [req EXCEPT ![q].pc = pc]
End(q) == req' = [req EXCEPT ![q] = IdleRequest]

-----------------------------------------------------------------------------
\* Login

\* GET /auth/login: build_login_redirect stores the state and sets the cookie.
Login(b) ==
  /\ ~ LetIn(b) /\ cookie[b].refresh = None /\ cookie[b].state = None
  /\ \E st \in NewState :
       /\ states' = states \cup {st} /\ redeemed' = redeemed \ {st}
       /\ cookie' = [cookie EXCEPT ![b].state = st]
  /\ UNCHANGED <<accountVars, session, req, faults>>

\* GET /auth/callback: Google sends the browser back with a code and the state.
Callback(q, b) ==
  /\ Free(q) /\ cookie[b].state # None
  /\ req' = [req EXCEPT ![q] = [IdleRequest EXCEPT !.pc = "verify", !.browser = b,
                                                  !.state = cookie[b].state]]
  /\ UNCHANGED <<accountVars, states, redeemed, session, cookie, faults>>

\* consume_oauth_state: GET ...
ReadState(q) ==
  /\ req[q].pc = "verify"
  /\ Goto(q, IF req[q].state \in states THEN "consume" ELSE "refused")
  /\ UNCHANGED <<accountVars, states, redeemed, session, cookie, faults>>

\* ... then DEL.
DropState(q) ==
  /\ req[q].pc = "consume"
  /\ states' = states \ {req[q].state}
  /\ Goto(q, "exchange")
  /\ UNCHANGED <<accountVars, redeemed, session, cookie, faults>>

\* exchange_code and fetch_profile, then the reads of get_or_create_from_oauth.
\* Google redeems a code once; it may leave out the refresh token.
Exchange(q, s) ==
  /\ req[q].pc = "exchange" /\ req[q].state \notin redeemed
  /\ redeemed' = redeemed \cup {req[q].state}
  /\ \E n \in NewGrant, again \in BOOLEAN :
       /\ account[s] = None => again
       /\ req' = [req EXCEPT ![q].pc = "provision", ![q].subject = s,
                    ![q].grant = [access |-> n, expires |-> n, refresh |-> IF again THEN n ELSE None],
                    ![q].found = account[s] # None, ![q].linked = LinksTo(s)]
  /\ UNCHANGED <<accountVars, states, session, cookie, faults>>

\* A used code is refused.
ExchangeRefused(q) ==
  /\ req[q].pc = "exchange" /\ req[q].state \in redeemed
  /\ Goto(q, "refused")
  /\ UNCHANGED <<accountVars, states, redeemed, session, cookie, faults>>

\* A RetryableError is no AuthenticationError: the browser keeps its cookies.
ExchangeFails(q) ==
  /\ req[q].pc = "exchange"
  /\ Fault
  /\ End(q)
  /\ UNCHANGED <<accountVars, states, redeemed, session, cookie>>

Provision(q) ==
  /\ req[q].pc = "provision"
  /\ ~ Collides(req[q].subject, req[q].found, req[q].linked)
  /\ Provisioned(req[q].subject, req[q].found, req[q].grant)
  /\ req' = [req EXCEPT ![q].pc = "open", ![q].user = account'[req[q].subject],
                        ![q].grant = None, ![q].found = FALSE, ![q].linked = FALSE]
  /\ UNCHANGED <<worker, states, redeemed, session, cookie, faults>>

\* Another first login came in between: the transaction is rolled back.
ProvisionCollides(q) ==
  /\ req[q].pc = "provision"
  /\ Collides(req[q].subject, req[q].found, req[q].linked)
  /\ End(q)
  /\ UNCHANGED <<accountVars, states, redeemed, session, cookie, faults>>

\* create_session: SET of the record.
OpenSession(q) ==
  /\ req[q].pc = "open"
  /\ \E s \in NewSid : \E x \in NewSecret(s) :
       /\ session' = [session EXCEPT ![s] = [user |-> req[q].user, secret |-> x]]
       /\ req' = [req EXCEPT ![q].pc = "in", ![q].sid = s, ![q].secret = x]
  /\ UNCHANGED <<accountVars, states, redeemed, cookie, faults>>

-----------------------------------------------------------------------------
\* Refresh and logout

\* POST /auth/refresh, when the access cookie no longer lets the browser in.
Refresh(q, b) ==
  /\ Free(q) /\ cookie[b].refresh # None /\ ~ LetIn(b)
  /\ req' = [req EXCEPT ![q] = [IdleRequest EXCEPT !.pc = "check", !.browser = b,
                                  !.sid = cookie[b].refresh.sid, !.secret = cookie[b].refresh.secret]]
  /\ UNCHANGED <<accountVars, states, redeemed, session, cookie, faults>>

\* Mutant of Check: the rotation does not carry the record's user.
CheckSecret(q) ==
  /\ req[q].pc = "check"
  /\ LET record == session[req[q].sid] IN
     Goto(q, IF record = None THEN "out"
             ELSE IF record.secret # req[q].secret THEN "delete" ELSE "rotate")
  /\ UNCHANGED <<accountVars, states, redeemed, session, cookie, faults>>

\* rotate reads the record and compares; a stale secret revokes the session.
Check(q) ==
  /\ req[q].pc = "check"
  /\ LET record == session[req[q].sid] IN
     req' = [req EXCEPT ![q].pc = IF record = None THEN "out"
                                  ELSE IF record.secret # req[q].secret THEN "delete"
                                  ELSE "rotate",
                        ![q].user = IF record = None THEN None ELSE record.user]
  /\ UNCHANGED <<accountVars, states, redeemed, session, cookie, faults>>

\* rotate writes the record it read, with a new secret.
Rotate(q) ==
  /\ req[q].pc = "rotate"
  /\ \E x \in NewSecret(req[q].sid) :
       /\ session' = [session EXCEPT ![req[q].sid] = [user |-> req[q].user, secret |-> x]]
       /\ req' = [req EXCEPT ![q].pc = "in", ![q].secret = x]
  /\ UNCHANGED <<accountVars, states, redeemed, cookie, faults>>

\* POST /auth/logout, by the access cookie or else the refresh cookie.
Logout(q, b) ==
  /\ Free(q) /\ (cookie[b].access # None \/ cookie[b].refresh # None)
  /\ Fault
  /\ req' = [req EXCEPT ![q] = [IdleRequest EXCEPT !.pc = "delete", !.browser = b,
       !.sid = IF cookie[b].access # None THEN cookie[b].access ELSE cookie[b].refresh.sid]]
  /\ UNCHANGED <<accountVars, states, redeemed, session, cookie>>

\* revoke.
DeleteSession(q) ==
  /\ req[q].pc = "delete"
  /\ session' = [session EXCEPT ![req[q].sid] = None]
  /\ Goto(q, "out")
  /\ UNCHANGED <<accountVars, states, redeemed, cookie, faults>>

-----------------------------------------------------------------------------
\* Answers

Without(c) == [c EXCEPT !.access = None, !.refresh = None]

\* Mutant of CookiesAfter: an answer that refuses a refresh keeps the cookies.
KeepCookies(c, r) ==
  CASE r.pc = "in" -> [c EXCEPT !.access = r.sid, !.refresh = [sid |-> r.sid, secret |-> r.secret],
                                !.state = IF r.state = None THEN @ ELSE None]
    [] r.pc = "out" -> c
    [] r.pc = "refused" -> [c EXCEPT !.state = None]

\* set_auth_cookies, clear_auth_cookies, clear_state_cookie.
CookiesAfter(c, r) ==
  CASE r.pc = "in" -> [c EXCEPT !.access = r.sid, !.refresh = [sid |-> r.sid, secret |-> r.secret],
                                !.state = IF r.state = None THEN @ ELSE None]
    [] r.pc = "out" -> Without(c)
    [] r.pc = "refused" -> [c EXCEPT !.state = None]

Answer(q) ==
  /\ req[q].pc \in {"in", "out", "refused"}
  /\ cookie' = [cookie EXCEPT ![req[q].browser] = CookiesAfter(@, req[q])]
  /\ End(q)
  /\ UNCHANGED <<accountVars, states, redeemed, session, faults>>

-----------------------------------------------------------------------------
\* The environment

\* The process dies in the middle of a request, or its answer is lost.
Lose(q) ==
  /\ req[q].pc # "idle"
  /\ Fault
  /\ End(q)
  /\ UNCHANGED <<accountVars, states, redeemed, session, cookie>>

\* The TTL of a record runs out.
SessionEnds(s) ==
  /\ session[s] # None
  /\ Fault
  /\ session' = [session EXCEPT ![s] = None]
  /\ UNCHANGED <<accountVars, states, redeemed, cookie, req>>

StateEnds(st) ==
  /\ st \in states
  /\ Fault
  /\ states' = states \ {st}
  /\ UNCHANGED <<accountVars, redeemed, session, cookie, req>>

\* The access cookie's max-age runs out.
AccessLapses(b) ==
  /\ cookie[b].access # None
  /\ Fault
  /\ cookie' = [cookie EXCEPT ![b].access = None]
  /\ UNCHANGED <<accountVars, states, redeemed, session, req>>

\* Calendar calls, in transactions of their own; that the access token has
\* expired when one looks is counted like a fault.
Background(w) ==
  /\ \/ Fault /\ \E s \in Subjects, n \in NewGrant : RefreshAccess(w, s, n)
     \/ UNCHANGED faults /\ (StoreAccess(w) \/ RollBack(w))
  /\ UNCHANGED <<states, redeemed, session, cookie, req>>

-----------------------------------------------------------------------------

LoginStep(q) ==
  \/ ReadState(q) \/ DropState(q) \/ ExchangeRefused(q) \/ \E s \in Subjects : Exchange(q, s)
  \/ Provision(q) \/ ProvisionCollides(q) \/ OpenSession(q)

SessionStep(q) == Check(q) \/ Rotate(q) \/ DeleteSession(q)

\* What a browser does that is not let in.
Try(b) == Login(b) \/ \E q \in Requests : Callback(q, b) \/ Refresh(q, b)

Next ==
  \/ \E b \in Browsers : Try(b) \/ AccessLapses(b) \/ \E q \in Requests : Logout(q, b)
  \/ \E q \in Requests : LoginStep(q) \/ SessionStep(q) \/ Answer(q) \/ ExchangeFails(q) \/ Lose(q)
  \/ \E s \in Sids : SessionEnds(s)
  \/ \E st \in States : StateEnds(st)
  \/ \E w \in Workers : Background(w)

Spec == Init /\ [][Next]_vars

\* The server goes on with its requests, and people keep trying to get in.
FairSpec ==
  /\ Spec
  /\ \A q \in Requests : WF_vars(LoginStep(q) \/ SessionStep(q) \/ Answer(q))
  /\ \A b \in Browsers : WF_vars(Try(b))

-----------------------------------------------------------------------------
\* Properties

TypeOK ==
  /\ AccountsTypeOK
  /\ states \subseteq States /\ redeemed \subseteq States
  /\ session \in [Sids -> Session \cup {None}]
  /\ cookie \in [Browsers -> Cookies]
  /\ req \in [Requests -> Request]
  /\ faults \in Nat

\* Only a login replaces a stored refresh token: a calendar call that refreshes
\* from an older copy of the row does not bring its copy back.
ConsentKept ==
  [][\A s \in Subjects :
       token[s] # None /\ token'[s] # None /\ token'[s].refresh # token[s].refresh =>
         \E q \in Requests : req[q].pc = "provision" /\ req[q].subject = s
                             /\ req'[q].pc = "open"]_vars

\* However answers are lost, refreshes race, sessions end and tokens are refused,
\* a browser that keeps trying is let in for good.
BackIn == <>[](\A b \in Browsers : LetIn(b))

\* "Reuse of a rotated token revokes the whole session" (docs/authentication.md:29):
\* two requests never both rotate one secret.
SecretUsedOnce ==
  \A p, q \in Requests :
    p # q /\ req[p].pc = "rotate" /\ req[q].pc = "rotate" /\ req[p].sid = req[q].sid =>
      req[p].secret # req[q].secret

\* "Instant revocation" (docs/authentication.md:6): a session that was deleted
\* stays deleted.
LogoutIsFinal ==
  [][\A q \in Requests : req[q].pc = "rotate" => session[req[q].sid] # None
                         \/ session'[req[q].sid] = None]_vars

\* "One-time state" (session_service.py:12): a state is exchanged at most once.
StateUsedOnce ==
  \A p, q \in Requests :
    p # q /\ req[p].pc = "exchange" /\ req[q].pc = "exchange" => req[p].state # req[q].state
=============================================================================
