----------------------------- MODULE MCMigrations -----------------------------
(***************************************************************************)
(* Migrations for TLC: a build with one file, and two later builds whose   *)
(* second file differs.                                                    *)
(***************************************************************************)
EXTENDS Migrations

CONSTANTS p1, p2, p3, c1, c2, c3

AllProcs == {p1, p2, p3}
AllVersions == 1..2
AllChecksums == {c1, c2, c3}
Builds ==
    [p \in AllProcs |-> [v \in AllVersions |->
        CASE v = 1 -> c1
          [] v = 2 /\ p = p1 -> Missing
          [] v = 2 /\ p = p2 -> c2
          [] v = 2 /\ p = p3 -> c3]]
===============================================================================
