-------------------------------- MODULE MCSync --------------------------------
(***************************************************************************)
(* Instances of SyncEngine for TLC.                                        *)
(***************************************************************************)
EXTENDS SyncEngine, TLC

CONSTANTS f1, f2, s1, s2, a, b, x, p1, p2, m1, m2

CoversAll    == [s \in Subs |-> Fixtures]
\* Two subscriptions that share a calendar and no fixture.
CoversApart  == s1 :> {f1} @@ s2 :> {f2}

\* Every event of f2 that is made again is m2.
MadeForEach == [e \in MadeIds |-> IF e = m2 /\ f2 \in Fixtures THEN f2 ELSE f1]

\* Budgets of environment events: the named events happen at most once.
Some(names) == [e \in Events |-> IF e \in names THEN 1 ELSE 0]

DatabaseEvents == [Some({"gone", "restore", "item", "crash", "window"}) EXCEPT !["write"] = 2]
Overlaps       == Some({"write", "gone", "item", "unanswered", "abort", "crash"})
\* A late import is the one change of a fixture here.
RemoteDrift    == Some({"late", "user_delete", "user_edit", "item", "unanswered", "abort", "age",
                        "crash"})

\* What the reproductions need.
DatabaseOnly   == Some({"write", "gone", "item", "crash"})
WindowAndItem  == Some({"write", "item", "window"})
WindowEvents   == Some({"write", "late", "window", "item", "crash"})
WritesAndCrash == [Some({"user_delete", "crash"}) EXCEPT !["write"] = 2]
NoEvents       == Some({})
OneFailure     == Some({"item"})
WritesAndItem  == [OneFailure EXCEPT !["write"] = 2]
LateImport     == Some({"late"})
WindowTwice    == [NoEvents EXCEPT !["window"] = 2]
Restore        == Some({"gone", "restore"})
DeleteAndCrash == Some({"write", "user_delete", "crash"})
OneWrite       == Some({"write"})
WriteAndGone   == Some({"write", "gone"})
EditAndWrite   == Some({"write", "user_edit"})
EditAndWindow  == Some({"window", "user_edit"})
Orphaning      == Some({"gone", "unanswered"})
=============================================================================
