------------------------------- MODULE Accounts -------------------------------
(***************************************************************************)
(* UserService and GoogleTokenManager: the users, google_accounts and      *)
(* oauth_tokens tables, written by logins and, in their own transactions,  *)
(* by the calendar calls that refresh an access token.                     *)
(*                                                                         *)
(* A user is named by his email, an account by the provider's subject, and *)
(* a token by the number of the grant it came from.  Google is external.    *)
(***************************************************************************)
EXTENDS Integers

CONSTANTS
  None,
  Subjects, EmailOf,   \* provider subjects, and the email of each
  Verified,            \* subjects whose email the provider has verified
  Workers,             \* calendar calls that need an access token
  Grants               \* bound: grant numbers

Emails == {EmailOf[s] : s \in Subjects}

\* expires names the grant whose expiry is stored.
Token == [access : Grants, expires : Grants, refresh : Grants \cup {None}]
Holding == [subject : Subjects, refresh : Grants, access : Grants]

\* None is no value of its own.
ASSUME AccountsAssumption ==
  /\ Verified \subseteq Subjects
  /\ Grants \subseteq Nat
  /\ None \notin Subjects \cup Grants \cup Emails
  /\ None \notin Token /\ None \notin Holding

VARIABLES
  users,    \* the users table
  account,  \* the google_accounts table: the user a subject is linked to
  token,    \* the oauth_tokens table
  worker    \* the refreshed token a calendar call holds, if any

accountVars == <<users, account, token, worker>>

AccountsInit ==
  /\ users = {}
  /\ account = [s \in Subjects |-> None]
  /\ token = [s \in Subjects |-> None]
  /\ worker = [w \in Workers |-> None]

\* Grants the tables and the workers remember.
Remembered ==
  UNION {IF token[s] = None THEN {} ELSE {token[s].access, token[s].expires, token[s].refresh} :
           s \in Subjects}
    \cup UNION {{worker[w].access, worker[w].refresh} : w \in {v \in Workers : worker[v] # None}}

-----------------------------------------------------------------------------
\* Provisioning

\* get_or_create_from_oauth reads the account, then the user with a verified email.
LinksTo(s) == account[s] = None /\ s \in Verified /\ EmailOf[s] \in users

\* UNIQUE (provider, provider_subject), UNIQUE (email).
Collides(s, found, linked) ==
  ~ found /\ (account[s] # None \/ (~ linked /\ EmailOf[s] \in users))

\* Mutant of Upserted: the expiry is left as it was.
KeepExpiry(old, new) ==
  IF old = None THEN new
  ELSE [new EXCEPT !.refresh = IF @ = None THEN old.refresh ELSE @, !.expires = old.expires]

\* _upsert_token: a consent without a refresh token keeps the stored one.
Upserted(old, new) ==
  IF old = None THEN new
  ELSE [new EXCEPT !.refresh = IF @ = None THEN old.refresh ELSE @]

\* Mutant of Provisioned: the user is committed before the account is added.
UserFirst(s, found, new) ==
  /\ users' = users \cup {EmailOf[s]}
  /\ IF found \/ account[s] # None \/ EmailOf[s] \in users
     THEN /\ account' = [account EXCEPT ![s] = EmailOf[s]]
          /\ token' = [token EXCEPT ![s] = Upserted(@, new)]
     ELSE UNCHANGED <<account, token>>

\* One transaction: the user, the account and its tokens.
Provisioned(s, found, new) ==
  /\ users' = IF found THEN users ELSE users \cup {EmailOf[s]}
  /\ account' = IF found THEN account ELSE [account EXCEPT ![s] = EmailOf[s]]
  /\ token' = [token EXCEPT ![s] = Upserted(@, new)]

-----------------------------------------------------------------------------
\* get_access_token

\* _refresh, when the stored access token has expired (the clock may say so at
\* any time) and a refresh token is stored: Google answers with a new access
\* token.  A refusal, an outage or a missing token is an error of the caller.
RefreshAccess(w, s, n) ==
  /\ worker[w] = None
  /\ token[s] # None /\ token[s].refresh # None
  /\ worker' = [worker EXCEPT ![w] = [subject |-> s, refresh |-> token[s].refresh, access |-> n]]
  /\ UNCHANGED <<users, account, token>>

\* Mutant of StoreAccess: the whole row is written as it was read.
StoreRow(w) ==
  /\ worker[w] # None
  /\ token' = [token EXCEPT ![worker[w].subject] =
       [access |-> worker[w].access, expires |-> worker[w].access, refresh |-> worker[w].refresh]]
  /\ worker' = [worker EXCEPT ![w] = None]
  /\ UNCHANGED <<users, account>>

\* The caller commits: an UPDATE of the columns that changed.
StoreAccess(w) ==
  /\ worker[w] # None
  /\ token' = [token EXCEPT ![worker[w].subject].access = worker[w].access,
                            ![worker[w].subject].expires = worker[w].access]
  /\ worker' = [worker EXCEPT ![w] = None]
  /\ UNCHANGED <<users, account>>

\* The caller fails, or never commits: the refreshed token is lost.
RollBack(w) ==
  /\ worker[w] # None
  /\ worker' = [worker EXCEPT ![w] = None]
  /\ UNCHANGED <<users, account, token>>

-----------------------------------------------------------------------------

AccountsTypeOK ==
  /\ users \subseteq Emails
  /\ account \in [Subjects -> Emails \cup {None}]
  /\ token \in [Subjects -> Token \cup {None}]
  /\ worker \in [Workers -> Holding \cup {None}]

\* Logins that race, collide or die leave no half of an account: every user has
\* one, every account has its user and its tokens.
NoHalfAccount ==
  /\ users = {account[s] : s \in {t \in Subjects : account[t] # None}}
  /\ \A s \in Subjects : account[s] # None <=> token[s] # None

\* Logins and token refreshes write the same row, column by column: the expiry
\* stored is always that of the access token stored beside it.
ExpiryIsOfAccess ==
  \A s \in Subjects : token[s] # None => token[s].expires = token[s].access
=============================================================================
