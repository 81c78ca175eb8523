--------------------------- MODULE MCInstanceLock ---------------------------
(* Four launches: one that runs, one that replaces or follows it, one that   *)
(* arrives while either closes, and one more.                                *)
EXTENDS InstanceLock, TLC

CONSTANTS p1, p2, p3, p4

FourLaunches == {p1, p2, p3, p4}
Alike == Permutations(FourLaunches)
=============================================================================
