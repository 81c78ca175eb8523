------------------------------ MODULE DnsWait ------------------------------
(***************************************************************************)
(* Waiting until a record that was just published is visible               *)
(* (internal/dnswait): every name server of the zone is asked, round after *)
(* round, until all of them agree in one round or the time is up.          *)
(***************************************************************************)
EXTENDS Integers, FiniteSets

CONSTANTS
    Servers,     \* the zone's name servers
    MaxRounds    \* how many rounds fit in the timeout

ASSUME ServersAssumption == IsFiniteSet(Servers) /\ MaxRounds \in Nat \ {0}

VARIABLES
    visible,     \* the servers that have the record by now
    found,       \* the servers the wait has an address for
    left,        \* those this round has not asked
    agreeing,    \* how many of those it has asked have the record
    rounds       \* rounds finished

wait == <<found, left, agreeing, rounds>>
dns == <<visible, wait>>

DnsInit == visible = {} /\ found = {} /\ left = {} /\ agreeing = 0 /\ rounds = 0

\* Nameservers: a server whose address cannot be looked up is left out.
Nameservers ==
    /\ found' \in SUBSET Servers \ {{}}
    /\ left' = found'
    /\ agreeing' = 0
    /\ rounds' = 0
    /\ UNCHANGED visible

\* One server is asked; a query that fails counts as a no.
Query ==
    /\ \E s \in left :
          /\ left' = left \ {s}
          /\ agreeing' \in {agreeing} \cup (IF s \in visible THEN {agreeing + 1} ELSE {})
    /\ UNCHANGED <<visible, found, rounds>>

AllAgree == left = {} /\ agreeing = Cardinality(found)

\* Slip: what earlier rounds counted is kept.
AnotherRoundCounting ==
    /\ left = {} /\ agreeing < Cardinality(found)
    /\ rounds + 1 < MaxRounds
    /\ rounds' = rounds + 1
    /\ left' = found
    /\ UNCHANGED <<visible, found, agreeing>>

AnotherRound ==
    /\ left = {} /\ agreeing < Cardinality(found)
    /\ rounds + 1 < MaxRounds
    /\ rounds' = rounds + 1
    /\ left' = found
    /\ agreeing' = 0
    /\ UNCHANGED <<visible, found>>

TimedOut == left = {} /\ ~AllAgree /\ rounds + 1 = MaxRounds

\* The wait is over, one way or the other.
WaitEnds == left' = {} /\ agreeing' = 0 /\ rounds' = 0 /\ UNCHANGED visible

\* The record reaches one more server.
Propagates == (\E s \in Servers \ visible : visible' = visible \cup {s}) /\ UNCHANGED wait

DnsTypeOK ==
    /\ visible \subseteq Servers /\ found \subseteq Servers /\ left \subseteq found
    /\ agreeing \in 0 .. Cardinality(found) /\ rounds \in 0 .. MaxRounds - 1
=============================================================================
