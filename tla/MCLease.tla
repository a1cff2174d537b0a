-------------------------------- MODULE MCLease --------------------------------
(***************************************************************************)
(* The instance of RedisLease for TLC: two clients of one key, a lease of  *)
(* three ticks and renewals up to a whole lease late (LeaseFaults.cfg).    *)
(***************************************************************************)
EXTENDS RedisLease
=============================================================================
