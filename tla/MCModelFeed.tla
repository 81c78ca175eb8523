---------------------------- MODULE MCModelFeed ----------------------------
(* Two operations and two connections, the smallest instance in which two    *)
(* goroutines of each kind overlap.                                          *)
EXTENDS ModelFeed

CONSTANTS o1, o2, c1, c2

TwoOperations == {o1, o2}
TwoClients == {c1, c2}
=============================================================================
