--------------------------- MODULE SetupProgress ---------------------------
(***************************************************************************)
(* What the setup record promises a later launch, whatever happened to the *)
(* launches in between: the phase on disk moves along the chain one phase  *)
(* at a time, a name is there from DOMAIN_CLAIMED on and only from there   *)
(* on, and nothing but a removal, which forgets both at once, goes back.   *)
(***************************************************************************)
EXTENDS SetupPhases

CONSTANTS Names, NoName

VARIABLES phase, host

Init == phase = "NEW" /\ host = NoName

Claimed(p) == Reached(p, "DOMAIN_CLAIMED")

Follow ==
    \E p \in Phase :
        /\ <<phase, p>> \in transitions
        /\ phase' = p
        /\ IF Claimed(p) /\ ~Claimed(phase) THEN host' \in Names ELSE UNCHANGED host

\* A repair may claim another name; the phase stays where it was.
Rename == Claimed(phase) /\ host' \in Names /\ UNCHANGED phase

Forget == phase' = "NEW" /\ host' = NoName

Next == Follow \/ Rename \/ Forget

Spec == Init /\ [][Next]_<<phase, host>>
=============================================================================
