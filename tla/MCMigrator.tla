----------------------------- MODULE MCMigrator -----------------------------
(***************************************************************************)
(* Migrator on a small tree: a file in a subdirectory, one beside it, and  *)
(* one in the next object directory; the release after the first changes   *)
(* one of them, and the last two have the same contents in both.           *)
(***************************************************************************)
EXTENDS Migrator

CONSTANTS c1, c2, c3

SmallTree == {<<1, 2, 1>>, <<1, 1>>, <<2, 3>>}

Release(deep, beside, next) ==
    [f \in SmallTree |-> IF f = <<1, 2, 1>> THEN deep ELSE IF f = <<1, 1>> THEN beside ELSE next]

TwoReleases == {Release(c1, c2, c3), Release(c1, c3, c3)}
=============================================================================
