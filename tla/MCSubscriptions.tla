--------------------------- MODULE MCSubscriptions ---------------------------
(***************************************************************************)
(* Instances of Subscriptions for TLC.                                     *)
(***************************************************************************)
EXTENDS Subscriptions, TLC

CONSTANTS c1, c2, k1, k2, w1, w2
=============================================================================
