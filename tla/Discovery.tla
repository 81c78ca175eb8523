----------------------------- MODULE Discovery -----------------------------
(***************************************************************************)
(* Finding the router (internal/probe/router.go, mapping.go): a search is  *)
(* sent out, whatever speaks UPnP on the network answers in any order and  *)
(* more than once, and those that answered are asked one after another to  *)
(* describe themselves, until one offers to map ports.  Setup and the sync *)
(* task both do this.                                                      *)
(***************************************************************************)
EXTENDS Naturals, Sequences, FiniteSets

CONSTANTS
    Devices,        \* what speaks UPnP on the network
    Kinds,          \* what such a device may be
    MaxCandidates,  \* maxCandidates
    Patience,       \* how many devices that hang fit the time there is
    Nobody

\* igd: it answers a search for an InternetGatewayDevice, rather than only the
\* search for anything at all; service: its description has a port-mapping service.
Kind == [igd : BOOLEAN, service : BOOLEAN, describes : {"answers", "refuses", "hangs"}]

ASSUME KindAssumption == Kinds \subseteq Kind
ASSUME BoundAssumption == MaxCandidates \in Nat \ {0} /\ Patience \in Nat
ASSUME NobodyAssumption == Nobody \notin Devices
ASSUME DevicesAssumption == IsFiniteSet(Devices)

\* A reply: from whom, and which search it answers.
Reply == [from : Devices, igd : BOOLEAN]

UPnPStatus == {"", "no_reply", "no_description", "no_port_service", "available"}

VARIABLES
    home,     \* the devices of this network
    coming,   \* the replies that reach this machine before the deadline
    pc,       \* "collect", "describe", or the search is over
    read,     \* the replies that were read
    found,    \* the candidates, in the order their first reply was read
    tried,    \* which of them have been asked to describe themselves
    budget,   \* how many more that hang there is time for
    named,    \* whose Vendor, Model and AdminURL are shown
    control,  \* whose ControlURL was taken
    source,   \* the device whose address replaces the gateway's
    status    \* UPnPStatus

network == <<home, coming>>
out == <<named, control, source, status>>
search == <<network, pc, read, found, tried, budget, out>>

\* Each device answers a search at most for what it is, and any of its replies may
\* be lost or late.
SearchInit ==
    /\ home \in [Devices -> Kinds]
    /\ coming \in SUBSET {m \in Reply : m.igd => home[m.from].igd}
    /\ pc = "collect"
    /\ read = {}
    /\ found = <<>>
    /\ tried = {}
    /\ budget = Patience
    /\ named = Nobody
    /\ control = Nobody
    /\ source = Nobody
    /\ status = ""

Seen(d) == \E i \in DOMAIN found : found[i].from = d

\* A gateway ends the search, and so does the last candidate there is room for.
Enough(candidates, m) == m.igd \/ Len(candidates) = MaxCandidates

\* discover: one more reply.  Every search is sent twice, so a reply may come again.
Read(m) ==
    /\ pc = "collect"
    /\ read' = read \cup {m}
    /\ IF Seen(m.from)
       THEN UNCHANGED <<found, pc>>
       ELSE /\ found' = Append(found, m)
            /\ pc' = IF Enough(found', m) THEN "describe" ELSE "collect"
    /\ UNCHANGED <<network, tried, budget, out>>

\* The deadline, after every reply that was in time.
Deadline ==
    /\ pc = "collect"
    /\ coming \subseteq read
    /\ IF found = <<>>
       THEN pc' = "over" /\ status' = "no_reply"
       ELSE pc' = "describe" /\ UNCHANGED status
    /\ UNCHANGED <<network, read, found, tried, budget, named, control, source>>

\* Slip: candidates are asked in the order they answered.
BeforeInTime(i, j) == i <= j

\* The order after sort.SliceStable: gateways first, each part in the order it was.
Before(i, j) ==
    IF found[i].igd = found[j].igd THEN i <= j ELSE found[i].igd

NextCandidate(i) ==
    /\ i \in DOMAIN found \ tried
    /\ \A j \in DOMAIN found \ tried : Before(i, j)

\* A device that hangs takes what time there is; with none left none is heard.
Describes(d) == home[d].describes = "answers" /\ budget > 0
TimeLeft(d) == IF home[d].describes = "hangs" /\ budget > 0 THEN budget - 1 ELSE budget

\* discoverService: a device offers to map ports.
Take(d) ==
    /\ control' = d
    /\ source' = d
    /\ named' = d
    /\ status' = "available"

\* One candidate is asked.  A gateway that offers nothing is named all the same.
Describe ==
    /\ pc = "describe"
    /\ \E i \in DOMAIN found :
          LET d == found[i].from IN
          /\ NextCandidate(i)
          /\ tried' = tried \cup {i}
          /\ budget' = TimeLeft(d)
          /\ IF Describes(d) /\ home[d].service
             THEN Take(d) /\ pc' = "over"
             ELSE /\ named' = IF Describes(d) /\ found[i].igd /\ named = Nobody
                              THEN d ELSE named
                  /\ UNCHANGED <<control, source, status, pc>>
    /\ UNCHANGED <<network, read, found>>

NoneOffers ==
    /\ pc = "describe"
    /\ tried = DOMAIN found
    /\ pc' = "over"
    /\ status' = IF named = Nobody THEN "no_description" ELSE "no_port_service"
    /\ UNCHANGED <<network, read, found, tried, budget, named, control, source>>

Searching == (\E m \in coming : Read(m)) \/ Deadline \/ Describe \/ NoneOffers

-----------------------------------------------------------------------------
SearchTypeOK ==
    /\ home \in [Devices -> Kinds]
    /\ coming \subseteq Reply
    /\ pc \in {"collect", "describe", "over"}
    /\ read \subseteq coming
    /\ found \in Seq(Reply)
    /\ tried \subseteq DOMAIN found
    /\ budget \in 0 .. Patience
    /\ {named, control, source} \subseteq Devices \cup {Nobody}
    /\ status \in UPnPStatus

Heard == {m.from : m \in coming}
Hanging == {d \in Heard : home[d].describes = "hangs"}
Offers(d) == home[d].describes = "answers" /\ home[d].service

\* What keeps a device from being found: one that calls itself a gateway, is not
\* the better for it and answers before it; more devices than candidates; and,
\* unless it was itself the first to call itself a gateway, too many that hang.
Overtaken(d) == ~Seen(d) /\ \E i \in DOMAIN found : found[i].igd /\ ~Offers(found[i].from)
Crowded == Cardinality(Heard) > MaxCandidates
OutOfTime(d) ==
    /\ Cardinality(Hanging) >= Patience
    /\ \A i \in DOMAIN found : found[i].from = d => ~found[i].igd \/ Patience = 0

\* Nothing else does: a device that offers to map ports and got one reply through
\* is found, in whatever order and however often the others answered.
RouterIsFound ==
    \A d \in Heard :
        pc = "over" /\ Offers(d) /\ ~Overtaken(d) /\ ~Crowded /\ ~OutOfTime(d)
            => status = "available"
=============================================================================
