---------------------------- MODULE SetupPhases ----------------------------
(***************************************************************************)
(* The setup record's phases (internal/state/state.go): the chain a setup  *)
(* passes through, what "reached" means on it, and how a step records      *)
(* itself.  Pure operators, shared by the wizard and its abstract          *)
(* specification.                                                          *)
(***************************************************************************)
EXTENDS Integers

Phase == {"NEW", "PROBED", "DOMAIN_CLAIMED", "PORTS_MAPPED", "DNS_VISIBLE",
          "CERT_ISSUED", "JELLYFIN_CONFIGURED", "VERIFIED", "RUNNING", "DEGRADED"}

\* Position on the chain; DEGRADED is off it and compares with nothing.
indexOf ==
    [NEW |-> 0, PROBED |-> 1, DOMAIN_CLAIMED |-> 2, PORTS_MAPPED |-> 3,
     DNS_VISIBLE |-> 4, CERT_ISSUED |-> 5, JELLYFIN_CONFIGURED |-> 6,
     VERIFIED |-> 7, RUNNING |-> 8, DEGRADED |-> -1]

\* The successor table: one step along the chain, plus DEGRADED's two exits.
transitions ==
    {<<"NEW", "PROBED">>, <<"PROBED", "DOMAIN_CLAIMED">>,
     <<"DOMAIN_CLAIMED", "PORTS_MAPPED">>, <<"PORTS_MAPPED", "DNS_VISIBLE">>,
     <<"DNS_VISIBLE", "CERT_ISSUED">>, <<"CERT_ISSUED", "JELLYFIN_CONFIGURED">>,
     <<"JELLYFIN_CONFIGURED", "VERIFIED">>, <<"VERIFIED", "RUNNING">>,
     <<"RUNNING", "DEGRADED">>, <<"DEGRADED", "RUNNING">>, <<"DEGRADED", "PROBED">>}

Reached(here, want) ==
    /\ indexOf[here] >= 0
    /\ indexOf[want] >= 0
    /\ indexOf[here] >= indexOf[want]

CanAdvance(from, to) == from = to \/ <<from, to>> \in transitions

\* State.Advance: an illegal transition is an error and changes nothing.
Advance(from, to) == IF CanAdvance(from, to) THEN to ELSE from

\* Wizard.advance: silent when the phase is already reached.
Record(here, to) == IF Reached(here, to) THEN here ELSE Advance(here, to)
=============================================================================
