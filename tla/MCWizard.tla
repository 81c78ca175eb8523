------------------------------ MODULE MCWizard ------------------------------
(* Small instances of the wizard for TLC, on the networks that take it down *)
(* different branches.                                                      *)
EXTENDS Wizard, TLC

Direct == [v4 |-> TRUE, v6 |-> FALSE, router |-> TRUE, mapping |-> TRUE, wan |-> "same", held |-> {}]
Manual == [Direct EXCEPT !.mapping = FALSE, !.wan = "unknown"]
Taken == [Direct EXCEPT !.held = {443}]
Offline == [Direct EXCEPT !.v4 = FALSE]
CarrierNAT == [Direct EXCEPT !.wan = "differs"]
CarrierNATv6 == [CarrierNAT EXCEPT !.v6 = TRUE]

AllNets == {Direct, Manual, Taken, Offline, CarrierNAT, CarrierNATv6}
DirectOnly == {Direct}
NoMapping == {Manual}

\* Which of two names is claimed first makes no difference.
Alike == Permutations(Names)
=============================================================================
