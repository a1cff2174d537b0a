----------------------------- MODULE MCIngestion ------------------------------
(***************************************************************************)
(* Instances of FixtureIngestion for TLC.                                  *)
(***************************************************************************)
EXTENDS FixtureIngestion, TLC

CONSTANTS c1, c2, k1, k2, ta, tb, tc, r1, r2

InOneLeague == k1 :> c1 @@ k2 :> c1
InTwoLeagues == k1 :> c1 @@ k2 :> c2
\* Two ids of one match, and two matches that share a team.
SameMatch == k1 :> {ta, tb} @@ k2 :> {ta, tb}
TwoMatches == k1 :> {ta, tb} @@ k2 :> {ta, tc}

OneScope == {{c1}}
AllScopes == {{c1, c2}}
Issues == {{"end_before_start"}, {"single_participant"}}

WholeSeason == <<Slots>>
\* The end of the window moves on, or its beginning does.
Opening == <<{0}, {0, 3}>>
TwoWindows == <<Slots, Slots \ {1}>>

\* Budgets of environment events: the named events happen at most once.
Some(names) == [e \in Events |-> IF e \in names THEN 1 ELSE 0]

Flaky == [Some({"withdraw", "flake", "fetch", "learn", "time", "crash"}) EXCEPT !["publish"] = 2]
Reissued == [Some({"withdraw"}) EXCEPT !["publish"] = 3, !["import"] = 3]

\* What the reproductions need.
OnlyPublish == [Some({}) EXCEPT !["publish"] = 4]
TwoImports == [Some({}) EXCEPT !["publish"] = 2, !["import"] = 3]
FourImports == [Some({"flake"}) EXCEPT !["publish"] = 1, !["import"] = 4]
Learning == Some({"publish", "learn"})
Withdrawal == Some({"publish", "withdraw"})
Postponed == [Some({"time"}) EXCEPT !["publish"] = 2]
=============================================================================
