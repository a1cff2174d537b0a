------------------------------ MODULE LeaseMutex ------------------------------
(***************************************************************************)
(* What one lock of infrastructure/locks.py promises its clients, without  *)
(* tokens, time or Redis: at most one client enters while the lease is     *)
(* held; a client that loses its lease goes on inside, marked lapsed; only *)
(* the owner's own exit, its lapse or the expiry of a dead owner's lease   *)
(* ever frees the lock.                                                    *)
(* RedisLease and every lock key of JobOrchestration implement this.       *)
(***************************************************************************)
CONSTANTS Clients, Free, Orphan

VARIABLES
  owner,   \* whose unexpired lease it is, Free, or Orphan (the owner died)
  inside,  \* the clients between entering and leaving the guard
  lapsed   \* those of them whose lease has run out

lease == <<owner, inside, lapsed>>

Init == owner = Free /\ inside = {} /\ lapsed = {}

\* LockGuard.__aenter__ succeeded.
Enter(c) ==
  /\ c \notin inside
  /\ owner = Free
  /\ owner' = c
  /\ inside' = inside \cup {c}
  /\ UNCHANGED lapsed

\* The guard is left: the owner frees the lock, anyone else leaves it alone.
Leave(c) ==
  /\ c \in inside
  /\ owner' = IF owner = c THEN Free ELSE owner
  /\ inside' = inside \ {c}
  /\ lapsed' = lapsed \ {c}

\* The client's process dies inside the guard; its lease stays behind.
Die(c) ==
  /\ c \in inside
  /\ owner' = IF owner = c THEN Orphan ELSE owner
  /\ inside' = inside \ {c}
  /\ lapsed' = lapsed \ {c}

\* The lease of a client that is still inside runs out.
Lapse(c) ==
  /\ owner = c
  /\ owner' = Free
  /\ lapsed' = lapsed \cup {c}
  /\ UNCHANGED inside

Expire ==
  /\ owner = Orphan
  /\ owner' = Free
  /\ UNCHANGED <<inside, lapsed>>

Next ==
  \/ \E c \in Clients : Enter(c) \/ Leave(c) \/ Die(c) \/ Lapse(c)
  \/ Expire

Spec == Init /\ [][Next]_lease
=============================================================================
