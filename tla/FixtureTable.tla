----------------------------- MODULE FixtureTable -----------------------------
(***************************************************************************)
(* What the fixtures table promises its readers, whoever imports and in    *)
(* whatever order: a fixture is created at version 1, every later content  *)
(* takes the next version and is no older than the one it replaces, and    *)
(* only a fixture that was already marked missing is removed.              *)
(***************************************************************************)
EXTENDS Integers

CONSTANTS Ids, NoFixture

VARIABLE table  \* a fixture's version, revision and marks

Fixture == [version : Nat \ {0}, rev : Nat, deleted : BOOLEAN, missing : BOOLEAN]

TableInit == table = [i \in Ids |-> NoFixture]

Created(new) == new.version = 1 /\ ~ new.deleted /\ ~ new.missing

\* A dated revision is never replaced by an older one.
Revised(old, new) ==
  /\ new.version = old.version + 1 /\ ~ new.deleted /\ ~ new.missing
  /\ new.rev = 0 \/ old.rev = 0 \/ old.rev <= new.rev

Marked(old, new) ==
  new = [version |-> old.version, rev |-> old.rev, deleted |-> old.deleted, missing |-> TRUE]

Removed(old, new) ==
  /\ old.missing
  /\ new = [version |-> old.version + 1, rev |-> old.rev, deleted |-> TRUE, missing |-> TRUE]

\* One transaction moves any number of fixtures, each by one of these steps.
Commit ==
  \A i \in Ids :
    \/ table'[i] = table[i]
    \/ table[i] = NoFixture /\ table'[i] \in Fixture /\ Created(table'[i])
    \/ /\ table[i] # NoFixture /\ table'[i] \in Fixture
       /\ \/ Revised(table[i], table'[i])
          \/ Marked(table[i], table'[i])
          \/ Removed(table[i], table'[i])

TableNext == Commit /\ table' \in [Ids -> Fixture \cup {NoFixture}]

TableSpec == TableInit /\ [][TableNext]_table
=============================================================================
