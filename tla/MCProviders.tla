----------------------------- MODULE MCProviders -----------------------------
(***************************************************************************)
(* Instances of SportsCatalog for TLC.                                     *)
(***************************************************************************)
EXTENDS SportsCatalog, TLC

CONSTANTS t1, t2, j1

OneEach == t1 :> "api" @@ j1 :> "worker"
TwoReaders == t1 :> "api" @@ t2 :> "api"
=============================================================================
