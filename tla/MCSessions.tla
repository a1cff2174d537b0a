------------------------------ MODULE MCSessions ------------------------------
(***************************************************************************)
(* Instances of Sessions for TLC.                                          *)
(***************************************************************************)
EXTENDS Sessions, TLC

CONSTANTS s1, s2, b1, b2, w1, e1

OneEmail == s1 :> e1 @@ s2 :> e1
=============================================================================
