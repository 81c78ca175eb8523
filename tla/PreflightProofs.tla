-------------------------- MODULE PreflightProofs --------------------------
(***************************************************************************)
(* The search for the router and what is decided from it, for any devices, *)
(* any kinds of them and any bounds, proved with TLAPS.                    *)
(***************************************************************************)
EXTENDS Preflight, FiniteSetTheorems, TLAPS

\* The candidates are devices that were heard, each once.
Distinct ==
    /\ \A i \in DOMAIN found : found[i] \in coming
    /\ \A i, j \in DOMAIN found : found[i].from = found[j].from => i = j
    /\ \A m \in read : Seen(m.from)

\* There is one gateway among them at most, whose reply ended the search.
OneGateway ==
    /\ \A i, j \in DOMAIN found : found[i].igd /\ found[j].igd => i = j
    /\ pc = "collect" =>
          /\ tried = {}
          /\ control = Nobody
          /\ Len(found) < MaxCandidates
          /\ \A i \in DOMAIN found : ~found[i].igd

\* It is the first that is asked.
GatewayFirst == \A i \in DOMAIN found \ tried : found[i].igd => tried = {}

\* Why the search ended, and the asking.
Ended ==
    /\ pc # "collect" =>
          \/ coming \subseteq read
          \/ \E i \in DOMAIN found : found[i].igd
          \/ Len(found) = MaxCandidates
    /\ pc = "over" /\ control = Nobody => tried = DOMAIN found

\* The time that is gone was spent on devices that hang.
HungTried == {d \in Hanging : \E i \in tried : found[i].from = d}
Spent == Cardinality(HungTried) + budget >= Patience

\* A device that offers was passed over only when there was no time left.
PassedOver ==
    control = Nobody =>
        \A i \in tried :
            Offers(found[i].from) => OutOfTime(found[i].from)

\* What was taken was taken from one device.
Taken ==
    /\ status = "available" <=> control # Nobody
    /\ control # Nobody =>
          /\ pc = "over" /\ found # <<>>
          /\ named = control /\ source = control

SearchInv ==
    /\ SearchTypeOK
    /\ Distinct
    /\ OneGateway
    /\ GatewayFirst
    /\ Ended
    /\ Spent
    /\ PassedOver
    /\ Taken

\* What the joined result is made of.
Joined ==
    /\ stage # "search" => pc = "over"
    /\ stage = "search" => answer = ""
    /\ answer # "" => control # Nobody
    /\ result = NothingSeen
       \/ /\ stage = "done"
          /\ result.wan = WANAddress(answer)
          /\ result.mapping <=> status = "available"
    /\ stage = "done" /\ control # Nobody => lan = "home"

IInv == TypeOK /\ SearchInv /\ Joined

-----------------------------------------------------------------------------
(* Sets of devices are finite. *)

LEMMA FiniteDevices ==
    ASSUME NEW S \in SUBSET Devices
    PROVE  IsFiniteSet(S) /\ Cardinality(S) \in Nat
BY DevicesAssumption, FS_Subset, FS_CardinalityType

\* The devices that were heard, and those that hang.
LEMMA HeardDevices ==
    ASSUME SearchTypeOK
    PROVE  Heard \in SUBSET Devices /\ Hanging \in SUBSET Heard /\ HungTried \in SUBSET Hanging
BY DEF SearchTypeOK, Heard, Hanging, HungTried, Reply

\* As many candidates as there is room for are all that was heard, if what was
\* heard is no more than that.
LEMMA FullIsEverybody ==
    ASSUME SearchTypeOK, Distinct, Len(found) = MaxCandidates, ~Crowded,
           NEW d \in Heard
    PROVE  Seen(d)
<1> DEFINE f == [i \in 1 .. Len(found) |-> found[i].from]
<1>1. /\ DOMAIN found = 1 .. Len(found)
      /\ Len(found) \in Nat
    BY DEF SearchTypeOK
<1>2. f \in Injection(1 .. Len(found), Heard)
    BY <1>1 DEF Injection, IsInjective, Distinct, Heard
<1>3. IsFiniteSet(Heard) /\ Cardinality(Heard) \in Nat
    BY HeardDevices, FiniteDevices
<1>4. Cardinality(1 .. Len(found)) = Len(found)
    BY <1>1, FS_Interval
<1>5. /\ Cardinality(1 .. Len(found)) <= Cardinality(Heard)
      /\ Cardinality(1 .. Len(found)) = Cardinality(Heard)
             <=> f \in Surjection(1 .. Len(found), Heard)
    BY <1>2, <1>3, FS_Injection
<1>6. f \in Surjection(1 .. Len(found), Heard)
    BY <1>1, <1>3, <1>4, <1>5, BoundAssumption DEF Crowded
<1>7. \E i \in 1 .. Len(found) : f[i] = d
    BY <1>6 DEF Surjection
<1> QED BY <1>1, <1>7 DEF Seen

-----------------------------------------------------------------------------
(* The search keeps its invariant. *)

LEMMA SearchStarts == SearchInit => SearchInv
<1> SUFFICES ASSUME SearchInit PROVE SearchInv
    OBVIOUS
<1>1. /\ home \in [Devices -> Kinds] /\ pc = "collect" /\ read = {}
      /\ tried = {} /\ budget = Patience
      /\ named = Nobody /\ control = Nobody /\ source = Nobody /\ status = ""
    BY Zenon DEF SearchInit
<1>2. coming \subseteq Reply
    BY Zenon DEF SearchInit
<1>3. found \in Seq(Reply) /\ DOMAIN found = {} /\ Len(found) = 0
    <2>1. found = <<>>
        BY Zenon DEF SearchInit
    <2> QED BY <2>1
<1>4. SearchTypeOK
    <2>1. budget \in 0 .. Patience
        <3>1. budget = Patience
            BY <1>1
        <3> QED BY <3>1, BoundAssumption
    <2>2. {named, control, source} \subseteq Devices \cup {Nobody}
        BY <1>1
    <2>3. pc \in {"collect", "describe", "over"} /\ status \in UPnPStatus
        BY <1>1 DEF UPnPStatus
    <2>4. read \subseteq coming /\ tried \subseteq DOMAIN found
        BY <1>1
    <2>5. home \in [Devices -> Kinds]
        BY <1>1
    <2> QED BY <1>2, <1>3, <2>1, <2>2, <2>3, <2>4, <2>5 DEF SearchTypeOK
<1>5. Distinct /\ OneGateway /\ GatewayFirst /\ Ended /\ PassedOver
    <2>1. pc = "collect" /\ read = {} /\ tried = {}
        BY <1>1
    <2>2. control = Nobody
        BY <1>1
    <2> QED BY <1>3, <2>1, <2>2, BoundAssumption
            DEF Distinct, OneGateway, GatewayFirst, Ended, PassedOver
<1>6. Taken
    <2>1. control = Nobody
        BY <1>1
    <2>2. status # "available"
        BY <1>1
    <2> QED BY <2>1, <2>2 DEF Taken
<1>7. HungTried = {}
    BY <1>1 DEF HungTried
<1>8. Spent
    <2>1. budget = Patience
        BY <1>1
    <2> QED BY <1>7, <2>1, FS_EmptySet, BoundAssumption DEF Spent
<1> QED BY <1>4, <1>5, <1>6, <1>8 DEF SearchInv

LEMMA ReadKeeps ==
    ASSUME SearchInv, NEW m \in coming, Read(m)
    PROVE  SearchInv'
<1> USE DEF SearchInv
<1>1. m \in Reply /\ found \in Seq(Reply) /\ tried = {} /\ control = Nobody
    BY DEF Read, SearchTypeOK, OneGateway
<1>2. UNCHANGED <<home, coming, tried, budget, named, control, source, status>>
    BY DEF Read, network, out
<1>3. SearchTypeOK'
    <2>1. CASE Seen(m.from)
        BY <1>2, <2>1 DEF SearchTypeOK, Read
    <2>2. CASE ~Seen(m.from)
        <3>1. found' = Append(found, m)
            BY <2>2 DEF Read
        <3> QED BY <1>1, <1>2, <2>2, <3>1 DEF SearchTypeOK, Read
    <2> QED BY <2>1, <2>2
<1>4. Spent' /\ GatewayFirst' /\ PassedOver' /\ Taken'
    <2>1. HungTried = {} /\ HungTried' = {}
        BY <1>1, <1>2 DEF HungTried
    <2>2. GatewayFirst' /\ PassedOver'
        BY <1>1, <1>2 DEF GatewayFirst, PassedOver
    <2>3. Taken'
        BY <1>1, <1>2 DEF Taken
    <2> QED BY <1>2, <2>1, <2>2, <2>3 DEF Spent
<1>5. Distinct' /\ OneGateway' /\ Ended'
    <2>1. CASE Seen(m.from)
        <3>1. UNCHANGED <<found, pc>> /\ read' = read \cup {m}
            BY <2>1 DEF Read
        <3>2. Distinct'
            BY <1>2, <2>1, <3>1 DEF Distinct, Seen
        <3>3. OneGateway' /\ Ended'
            BY <1>2, <3>1 DEF OneGateway, Ended, Read
        <3> QED BY <3>2, <3>3
    <2>2. CASE ~Seen(m.from)
        <3>1. /\ found' = Append(found, m) /\ read' = read \cup {m}
              /\ pc' = IF Enough(found', m) THEN "describe" ELSE "collect"
              /\ pc = "collect"
            BY <2>2 DEF Read
        <3>2. /\ DOMAIN found' = DOMAIN found \cup {Len(found) + 1}
              /\ Len(found) \in Nat /\ Len(found') = Len(found) + 1
              /\ \A i \in DOMAIN found : found'[i] = found[i] /\ i # Len(found) + 1
              /\ found'[Len(found) + 1] = m
            BY <1>1, <3>1
        <3>3. Distinct'
            <4>1. \A i \in DOMAIN found' : found'[i] \in coming'
                BY <1>2, <3>2 DEF Distinct
            <4>2. \A i, j \in DOMAIN found' : found'[i].from = found'[j].from => i = j
                BY <2>2, <3>2 DEF Distinct, Seen
            <4>3. \A x \in read' : \E i \in DOMAIN found' : found'[i].from = x.from
                BY <3>1, <3>2 DEF Distinct, Seen
            <4> QED BY <4>1, <4>2, <4>3 DEF Distinct, Seen
        <3>4. OneGateway'
            <4>1. \A i \in DOMAIN found : ~found[i].igd
                BY <3>1 DEF OneGateway
            <4>2. Len(found) < MaxCandidates
                BY <3>1 DEF OneGateway
            <4>3. pc' = "collect" => ~m.igd /\ Len(found') < MaxCandidates
                BY <3>1, <3>2, <4>2, BoundAssumption DEF Enough
            <4> QED BY <1>1, <1>2, <3>2, <4>1, <4>3 DEF OneGateway
        <3>5. Ended'
            <4>1. pc' # "collect" => m.igd \/ Len(found') = MaxCandidates
                BY <3>1 DEF Enough
            <4> QED BY <3>1, <3>2, <4>1 DEF Ended
        <3> QED BY <3>3, <3>4, <3>5
    <2> QED BY <2>1, <2>2
<1> QED BY <1>3, <1>4, <1>5

LEMMA DeadlineKeeps ==
    ASSUME SearchInv, Deadline
    PROVE  SearchInv'
<1> USE DEF SearchInv, Deadline, network
<1>1. SearchTypeOK'
    BY DEF SearchTypeOK, UPnPStatus
<1>2. Distinct' /\ GatewayFirst'
    BY DEF Distinct, Seen, GatewayFirst
<1>3. OneGateway'
    BY DEF OneGateway
<1>4. Ended'
    <2>1. tried = {} /\ (found = <<>> => DOMAIN found = {})
        BY DEF OneGateway
    <2>2. coming' \subseteq read'
        OBVIOUS
    <2>3. pc' = "over" => found = <<>>
        OBVIOUS
    <2> QED BY <2>1, <2>2, <2>3 DEF Ended
<1>5. HungTried' = HungTried
    BY DEF HungTried, Hanging, Heard
<1>6. Spent'
    BY <1>5 DEF Spent
<1>7. PassedOver'
    BY DEF PassedOver, OneGateway
<1>8. Taken'
    BY DEF Taken, OneGateway
<1> QED BY <1>1, <1>2, <1>3, <1>4, <1>6, <1>7, <1>8

LEMMA NoneOffersKeeps ==
    ASSUME SearchInv, NoneOffers
    PROVE  SearchInv'
<1> USE DEF SearchInv, NoneOffers, network
<1>1. SearchTypeOK'
    BY DEF SearchTypeOK, UPnPStatus
<1>2. Distinct' /\ GatewayFirst'
    BY DEF Distinct, Seen, GatewayFirst
<1>3. OneGateway' /\ Ended'
    BY DEF OneGateway, Ended
<1>4. Hanging' = Hanging
    BY DEF Hanging, Heard
<1>5. HungTried' = HungTried
    BY <1>4 DEF HungTried
<1>6. Spent'
    BY <1>5 DEF Spent
<1>7. PassedOver'
    BY <1>4 DEF PassedOver, Offers, OutOfTime
<1>8. Taken'
    BY DEF Taken
<1> QED BY <1>1, <1>2, <1>3, <1>6, <1>7, <1>8

LEMMA DescribeKeeps ==
    ASSUME SearchInv, Describe
    PROVE  SearchInv'
<1> USE DEF SearchInv
<1>1. /\ SearchTypeOK /\ pc = "describe" /\ control = Nobody
      /\ UNCHANGED <<home, coming, read, found>>
    BY DEF Describe, network, Taken
<1>2. PICK i \in DOMAIN found :
         /\ NextCandidate(i)
         /\ tried' = tried \cup {i}
         /\ budget' = TimeLeft(found[i].from)
         /\ IF Describes(found[i].from) /\ home[found[i].from].service
            THEN Take(found[i].from) /\ pc' = "over"
            ELSE /\ named' = IF Describes(found[i].from) /\ found[i].igd /\ named = Nobody
                             THEN found[i].from ELSE named
                 /\ UNCHANGED <<control, source, status, pc>>
    BY DEF Describe
<1> DEFINE d == found[i].from
<1>3. /\ d \in Devices /\ found[i] \in Reply /\ i \notin tried
      /\ budget \in Nat /\ Patience \in Nat /\ d # Nobody
      /\ home[d] \in Kind
    <2>1. found[i] \in Reply
        BY <1>1 DEF SearchTypeOK
    <2>2. d \in Devices /\ d # Nobody
        BY <2>1, NobodyAssumption DEF Reply
    <2>3. home[d] \in Kind
        BY <1>1, <2>2, KindAssumption DEF SearchTypeOK
    <2>4. budget \in Nat /\ Patience \in Nat
        BY <1>1, BoundAssumption DEF SearchTypeOK
    <2>5. i \notin tried
        BY <1>2 DEF NextCandidate
    <2> QED BY <2>1, <2>2, <2>3, <2>4, <2>5
<1>4. SearchTypeOK'
    <2>1. budget' \in 0 .. Patience
        BY <1>1, <1>2, <1>3 DEF SearchTypeOK, TimeLeft
    <2>2. tried' \subseteq DOMAIN found'
        BY <1>1, <1>2 DEF SearchTypeOK
    <2>3. /\ pc' \in {"collect", "describe", "over"}
          /\ {named', control', source'} \subseteq Devices \cup {Nobody}
          /\ status' \in UPnPStatus
        <3>1. CASE Take(d) /\ pc' = "over"
            BY <1>3, <3>1 DEF SearchTypeOK, Take, UPnPStatus
        <3>2. CASE /\ UNCHANGED <<control, source, status, pc>>
                   /\ named' \in {d, named}
            BY <1>1, <1>3, <3>2 DEF SearchTypeOK
        <3> QED BY <1>2, <3>1, <3>2
    <2> QED BY <1>1, <2>1, <2>2, <2>3 DEF SearchTypeOK
<1>5. Distinct'
    BY <1>1 DEF Distinct, Seen
<1>6. OneGateway' /\ Ended'
    BY <1>1, <1>2, <1>3 DEF OneGateway, Ended, Take
<1>7. GatewayFirst'
    <2>1. SUFFICES ASSUME NEW j \in DOMAIN found \ tried', found[j].igd
                   PROVE  FALSE
        BY <1>1 DEF GatewayFirst
    <2>2. j \in DOMAIN found \ tried /\ j # i
        BY <1>2, <2>1
    <2>3. Before(i, j)
        BY <1>2, <2>2 DEF NextCandidate
    <2>4. ~found[i].igd
        BY <2>1, <2>2 DEF OneGateway
    <2> QED BY <1>3, <2>1, <2>3, <2>4 DEF Before, Reply
<1>8. /\ IsFiniteSet(HungTried) /\ Cardinality(HungTried) \in Nat
      /\ IsFiniteSet(Hanging) /\ Cardinality(Hanging) \in Nat
      /\ Cardinality(HungTried) <= Cardinality(Hanging)
    BY <1>1, HeardDevices, FiniteDevices, FS_Subset
<1>9. Hanging' = Hanging
    BY <1>1 DEF Hanging, Heard
<1>10. HungTried' = IF home[d].describes = "hangs" THEN HungTried \cup {d} ELSE HungTried
    <2>1. d \in Hanging <=> home[d].describes = "hangs"
        BY DEF Hanging, Heard, Distinct
    <2> QED BY <1>1, <1>2, <1>9, <2>1 DEF HungTried, Hanging
<1>11. d \notin HungTried
    BY <1>1, <1>3 DEF HungTried, Distinct, SearchTypeOK
<1>12. Spent'
    <2>1. Cardinality(HungTried') =
            IF home[d].describes = "hangs" THEN Cardinality(HungTried) + 1 ELSE Cardinality(HungTried)
        BY <1>8, <1>10, <1>11, FS_AddElement
    <2>2. budget' = IF home[d].describes = "hangs" /\ budget > 0 THEN budget - 1 ELSE budget
        BY <1>2 DEF TimeLeft
    <2>3. Cardinality(HungTried) + budget >= Patience
        BY DEF Spent
    <2> QED BY <1>3, <1>8, <2>1, <2>2, <2>3 DEF Spent
<1>13. PassedOver'
    <2>1. SUFFICES ASSUME control' = Nobody, NEW j \in tried', Offers(found[j].from)
                   PROVE  OutOfTime(found[j].from)
        BY <1>1, <1>9 DEF PassedOver, Offers, OutOfTime
    <2>2. CASE j \in tried
        BY <1>1, <2>1, <2>2 DEF PassedOver
    <2>3. CASE j = i
        <3>1. budget = 0
            BY <1>2, <1>3, <2>1, <2>3 DEF Offers, Describes, Take
        <3>2. Cardinality(HungTried) >= Patience
            BY <1>3, <1>8, <3>1 DEF Spent
        <3>3. Cardinality(Hanging) >= Patience
            BY <1>3, <1>8, <3>2
        <3>4. ASSUME found[i].igd
              PROVE  Patience = 0
            <4>1. tried = {}
                BY <1>2, <3>4 DEF GatewayFirst, NextCandidate
            <4>2. HungTried = {}
                BY <4>1 DEF HungTried
            <4> QED BY <1>3, <3>2, <4>2, FS_EmptySet
        <3>5. \A k \in DOMAIN found : found[k].from = found[j].from => k = i
            BY <2>3 DEF Distinct
        <3> QED BY <3>3, <3>4, <3>5 DEF OutOfTime
    <2> QED BY <1>2, <2>1, <2>2, <2>3
<1>14. Taken'
    <2>1. found # <<>>
        BY <1>1 DEF SearchTypeOK
    <2> QED BY <1>1, <1>2, <1>3, <2>1 DEF Taken, Take
<1> QED BY <1>4, <1>5, <1>6, <1>7, <1>12, <1>13, <1>14

LEMMA SearchingKeeps == SearchInv /\ Searching => SearchInv'
BY ReadKeeps, DeadlineKeeps, NoneOffersKeeps, DescribeKeeps DEF Searching

LEMMA SearchStutters == SearchInv /\ UNCHANGED search => SearchInv'
<1> SUFFICES ASSUME SearchInv, UNCHANGED search PROVE SearchInv'
    OBVIOUS
<1> USE DEF SearchInv, search, network, out
<1>1. SearchTypeOK' /\ Distinct' /\ OneGateway' /\ GatewayFirst' /\ Ended' /\ Taken'
    BY DEF SearchTypeOK, Distinct, Seen, OneGateway, GatewayFirst, Ended, Taken
<1>2. Hanging' = Hanging
    BY DEF Hanging, Heard
<1>3. HungTried' = HungTried
    BY <1>2 DEF HungTried
<1>4. Spent' /\ PassedOver'
    BY <1>2, <1>3 DEF Spent, PassedOver, Offers, OutOfTime
<1> QED BY <1>1, <1>4

-----------------------------------------------------------------------------
(* What is decided from it. *)

LEMMA InitHolds == Init => IInv
<1> SUFFICES ASSUME Init PROVE IInv
    OBVIOUS
<1>1. /\ SearchInit /\ stage = "search" /\ answer = ""
      /\ result = NothingSeen /\ lan = ""
    BY Zenon DEF Init
<1>2. /\ purpose \in {"setup", "sync"} /\ vpn \in BOOLEAN
      /\ route \in Devices \cup {Tunnel, Nobody}
    BY Zenon DEF Init
<1>3. SearchInv
    BY <1>1, SearchStarts
<1>4. control = Nobody
    BY <1>1, Zenon DEF SearchInit
<1>5. NothingSeen \in ProbeResult
    BY DEF NothingSeen, ProbeResult
<1>6. TypeOK
    BY <1>1, <1>2, <1>3, <1>5, Zenon DEF TypeOK, SearchInv
<1>7. Joined
    BY <1>1, <1>4 DEF Joined
<1> QED BY <1>3, <1>6, <1>7 DEF IInv

LEMMA SearchStepKeeps ==
    ASSUME IInv, Search
    PROVE  IInv'
<1>1. SearchInv'
    BY SearchingKeeps DEF IInv, Search
<1>2. UNCHANGED <<purpose, route, vpn, stage, answer, result, lan>>
    BY DEF Search, machine
<1>3. TypeOK'
    BY <1>1, <1>2 DEF IInv, TypeOK, SearchInv
<1>4. pc # "over"
    BY DEF Search, Searching, Read, Deadline, Describe, NoneOffers
<1>5. Joined'
    BY <1>2, <1>4 DEF IInv, Joined
<1> QED BY <1>1, <1>3, <1>5 DEF IInv

LEMMA AskAddressKeeps ==
    ASSUME IInv, AskAddress
    PROVE  IInv'
<1>1. /\ UNCHANGED search /\ UNCHANGED <<purpose, route, vpn, result, lan>>
      /\ stage = "search" /\ stage' = "join" /\ pc = "over"
    BY DEF AskAddress, machine
<1>2. SearchInv'
    BY <1>1, SearchStutters DEF IInv
<1>3. /\ answer' \in {"", "silent", "unspecified", "same", "differs"}
      /\ control = Nobody => answer' = ""
    BY DEF AskAddress
<1>4. TypeOK'
    BY <1>1, <1>2, <1>3 DEF IInv, TypeOK, SearchInv
<1>5. result' = NothingSeen
    BY <1>1 DEF IInv, Joined
<1>6. UNCHANGED <<pc, control>>
    BY <1>1 DEF search, out
<1>7. Joined'
    BY <1>1, <1>3, <1>5, <1>6 DEF Joined
<1> QED BY <1>2, <1>4, <1>7 DEF IInv

\* The network a device's address is on is the machine's own.
LEMMA FacingADevice ==
    ASSUME SearchInv, control # Nobody
    PROVE  source \in Devices /\ source # Nobody /\ Facing(source) = "home"
BY NobodyAssumption DEF SearchInv, Taken, SearchTypeOK, Facing

LEMMA JoinKeeps ==
    ASSUME IInv, Join
    PROVE  IInv'
<1>1. /\ UNCHANGED search /\ UNCHANGED <<purpose, route, vpn, answer>>
      /\ stage = "join" /\ stage' = "done"
      /\ lan' = Facing(IF source = Nobody THEN route ELSE source)
    BY DEF Join, machine
<1>2. SearchInv'
    BY <1>1, SearchStutters DEF IInv
<1>3. PICK v4, v6 \in BOOLEAN, free \in SUBSET Ports :
        result' = [v4 |-> v4, v6 |-> v6, free |-> free, wan |-> WANAddress(answer),
                   router |-> route # Nobody \/ found # <<>>,
                   mapping |-> status = "available"]
    BY DEF Join
<1>4. result'.wan = WANAddress(answer) /\ (result'.mapping <=> status = "available")
    BY <1>3
<1>5. result' \in ProbeResult
    <2>1. WANAddress(answer) \in {"unknown", "same", "differs"}
        BY DEF WANAddress
    <2>2. (route # Nobody \/ found # <<>>) \in BOOLEAN /\ (status = "available") \in BOOLEAN
        OBVIOUS
    <2>3. status = "available" => found # <<>>
        BY DEF IInv, SearchInv, Taken
    <2>4. WANAddress(answer) # "unknown" => status = "available"
        BY DEF IInv, SearchInv, Taken, Joined, WANAddress
    <2>5. result' \in [v4 : BOOLEAN, v6 : BOOLEAN, router : BOOLEAN, mapping : BOOLEAN,
                       wan : {"unknown", "same", "differs"}, free : SUBSET Ports]
        BY <1>3, <2>1, <2>2
    <2>6. (result'.mapping => result'.router) /\ (result'.wan # "unknown" => result'.mapping)
        BY <1>3, <2>3, <2>4
    <2> QED BY <2>5, <2>6 DEF ProbeResult
<1>6. lan' \in {"home", "tunnel"} /\ (control # Nobody => lan' = "home")
    BY <1>1, FacingADevice DEF IInv, Facing
<1>7. TypeOK'
    BY <1>1, <1>2, <1>5, <1>6 DEF IInv, TypeOK, SearchInv
<1>8. UNCHANGED <<pc, control, status>>
    BY <1>1 DEF search, out
<1>9. Joined'
    BY <1>1, <1>4, <1>6, <1>8 DEF IInv, Joined
<1> QED BY <1>2, <1>7, <1>9 DEF IInv

LEMMA FindMappingTargetKeeps ==
    ASSUME IInv, FindMappingTarget
    PROVE  IInv'
<1>1. /\ UNCHANGED search /\ UNCHANGED <<purpose, route, vpn, answer, result>>
      /\ stage = "search" /\ stage' = "done" /\ pc = "over"
      /\ lan' = Facing(IF source = Nobody THEN route ELSE source)
    BY DEF FindMappingTarget, machine
<1>2. SearchInv'
    BY <1>1, SearchStutters DEF IInv
<1>3. lan' \in {"home", "tunnel"} /\ (control # Nobody => lan' = "home")
    BY <1>1, FacingADevice DEF IInv, Facing
<1>4. TypeOK'
    BY <1>1, <1>2, <1>3 DEF IInv, TypeOK, SearchInv
<1>5. result' = NothingSeen
    BY <1>1 DEF IInv, Joined
<1>6. UNCHANGED <<pc, control>>
    BY <1>1 DEF search, out
<1>7. Joined'
    BY <1>1, <1>3, <1>5, <1>6 DEF IInv, Joined
<1> QED BY <1>2, <1>4, <1>7 DEF IInv

LEMMA StutterKeeps == IInv /\ UNCHANGED vars => IInv'
<1> SUFFICES ASSUME IInv, UNCHANGED vars PROVE IInv'
    OBVIOUS
<1>1. UNCHANGED search /\ UNCHANGED <<purpose, route, vpn, stage, answer, result, lan>>
    BY DEF vars, machine
<1>2. SearchInv'
    BY <1>1, SearchStutters DEF IInv
<1>3. TypeOK'
    BY <1>1, <1>2 DEF IInv, TypeOK, SearchInv
<1>4. UNCHANGED <<pc, control, status>>
    BY <1>1 DEF search, out
<1>5. Joined'
    BY <1>1, <1>4 DEF IInv, Joined
<1> QED BY <1>2, <1>3, <1>5 DEF IInv

LEMMA Invariance == Spec => []IInv
<1>1. IInv /\ [Next]_vars => IInv'
    BY SearchStepKeeps, AskAddressKeeps, JoinKeeps, FindMappingTargetKeeps, StutterKeeps
       DEF Next
<1> QED BY <1>1, InitHolds, PTL DEF Spec

\* What the mode router decides in each case, as far as the properties look.
LEMMA ChooseCases ==
    ASSUME NEW r
    PROVE  /\ ~Reachable(r) =>
                  Choose(r).blocker # "" /\ Choose(r).mode = "" /\ Choose(r).port = NoPort
           /\ Reachable(r) /\ BehindCGNAT(r) =>
                  /\ Choose(r).blocker = "" /\ ~Choose(r).map /\ ~Choose(r).manual
                  /\ Choose(r).mode = IF r.v6 THEN "A6" ELSE "B"
                  /\ Choose(r).port = IF r.v6 THEN PortPreferred ELSE NoPort
           /\ Reachable(r) /\ ~BehindCGNAT(r) /\ choosePort(r) = NoPort =>
                  Choose(r).blocker # "" /\ Choose(r).mode = "" /\ Choose(r).port = NoPort
           /\ Reachable(r) /\ ~BehindCGNAT(r) /\ choosePort(r) # NoPort =>
                  /\ Choose(r).blocker = "" /\ Choose(r).mode = "A"
                  /\ Choose(r).port = choosePort(r)
                  /\ Choose(r).map = r.mapping /\ Choose(r).manual = ~r.mapping
<1>1. CASE ~Reachable(r)
    BY <1>1 DEF Choose, Undecided
<1>2. CASE Reachable(r) /\ BehindCGNAT(r)
    <2>1. CASE r.v6
        BY <1>2, <2>1 DEF Choose, Undecided
    <2>2. CASE ~r.v6
        BY <1>2, <2>2 DEF Choose, Undecided
    <2> QED BY <2>1, <2>2
<1>3. CASE Reachable(r) /\ ~BehindCGNAT(r) /\ choosePort(r) = NoPort
    BY <1>3 DEF Choose, Undecided
<1>4. CASE Reachable(r) /\ ~BehindCGNAT(r) /\ choosePort(r) # NoPort
    BY <1>4 DEF Choose, ChoosePublic
<1> QED BY <1>1, <1>2, <1>3, <1>4

-----------------------------------------------------------------------------
\* The state of the search and of what follows is well typed, for any devices.
THEOREM PreflightTyping == Spec => []TypeOK
BY Invariance, PTL DEF IInv

\* Whose reply came first, how often and among how many others: a device that
\* offers to map ports is found unless one of the three named reasons keeps it.
THEOREM RouterGetsFound == Spec => []RouterIsFound
<1>1. IInv => RouterIsFound
    <2> SUFFICES ASSUME IInv, NEW d \in Heard, pc = "over", Offers(d),
                        ~Overtaken(d), ~Crowded, ~OutOfTime(d), status # "available"
                 PROVE  FALSE
        BY DEF RouterIsFound
    <2> USE DEF IInv, SearchInv
    <2>1. control = Nobody /\ tried = DOMAIN found
        BY DEF Taken, Ended
    <2>2. ~Seen(d)
        BY <2>1 DEF Seen, PassedOver
    <2>3. CASE coming \subseteq read
        BY <2>2, <2>3 DEF Heard, Distinct
    <2>4. CASE \E i \in DOMAIN found : found[i].igd
        <3>1. PICK i \in DOMAIN found : found[i].igd
            BY <2>4
        <3>2. found[i] \in coming /\ found[i].from # d
            BY <2>2 DEF Distinct, Seen
        <3>3. Offers(found[i].from)
            BY <2>2, <3>1 DEF Overtaken
        <3>4. OutOfTime(found[i].from)
            BY <2>1, <3>3 DEF PassedOver
        <3> QED BY <3>1, <3>4 DEF OutOfTime
    <2>5. CASE Len(found) = MaxCandidates
        BY <2>2, <2>5, FullIsEverybody
    <2> QED BY <2>3, <2>4, <2>5 DEF Ended
<1> QED BY <1>1, Invariance, PTL

\* The device that is asked for mappings is the one that is shown, and a mapping
\* points at this machine's address on its network.
THEOREM MappingsPointHome == Spec => []PointsAtTheMapper
<1>1. IInv => PointsAtTheMapper
    BY DEF IInv, SearchInv, Taken, Joined, PointsAtTheMapper
<1> QED BY <1>1, Invariance, PTL

\* Carrier-grade NAT is concluded on the word of the router only.
THEOREM CGNATIsTold == Spec => []NoGuessedCGNAT
<1>1. IInv => NoGuessedCGNAT
    <2> SUFFICES ASSUME IInv, Choose(result).mode \in {"A6", "B"}
                 PROVE  control # Nobody /\ answer = "differs"
        BY DEF NoGuessedCGNAT
    <2>1. BehindCGNAT(result)
        BY DEF Choose, ChoosePublic, Undecided
    <2>2. result # NothingSeen
        BY <2>1 DEF BehindCGNAT, CGNATKnown, NothingSeen
    <2>3. WANAddress(answer) = "differs"
        BY <2>1, <2>2 DEF BehindCGNAT, IInv, Joined
    <2> QED BY <2>3 DEF WANAddress, IInv, Joined
<1> QED BY <1>1, Invariance, PTL

\* Freeing a port never makes the decision worse.
THEOREM FreeingHelps == Spec => []FreeingAPortNeverHurts
<1>1. IInv => FreeingAPortNeverHurts
    <2> SUFFICES ASSUME result \in ProbeResult, NEW free \in SUBSET Ports, result.free \subseteq free
                 PROVE  LET old == Choose(result)
                            new == Choose([result EXCEPT !.free = free]) IN
                        /\ Blocked(new) => Blocked(old)
                        /\ ~Blocked(old) => new.mode = old.mode
                        /\ Worth(new.port) >= Worth(old.port)
        BY DEF FreeingAPortNeverHurts, IInv, TypeOK
    <2> DEFINE more == [result EXCEPT !.free = free]
    <2>1. /\ more.free = free /\ more.v4 = result.v4 /\ more.v6 = result.v6
          /\ more.router = result.router /\ more.mapping = result.mapping
          /\ more.wan = result.wan
        BY DEF ProbeResult
    <2>2. /\ Reachable(more) = Reachable(result)
          /\ BehindCGNAT(more) = BehindCGNAT(result)
        BY <2>1 DEF Reachable, BehindCGNAT, CGNATKnown
    <2>3. /\ choosePort(result) \in {NoPort, PortPreferred, PortFallback}
          /\ choosePort(more) = NoPort => choosePort(result) = NoPort
          /\ Worth(choosePort(more)) >= Worth(choosePort(result))
        BY <2>1 DEF choosePort, Worth, NoPort, PortPreferred, PortFallback
    <2> HIDE DEF more
    <2>4. more.v6 = result.v6
        BY <2>1 DEF more
    <2>5. Blocked(Choose(more)) => Blocked(Choose(result))
        BY <2>2, <2>3, ChooseCases DEF Blocked
    <2>6. ~Blocked(Choose(result)) => Choose(more).mode = Choose(result).mode
        BY <2>2, <2>3, <2>4, ChooseCases DEF Blocked
    <2>7. Worth(Choose(more).port) >= Worth(Choose(result).port)
        <3>1. CASE ~Reachable(result) \/ BehindCGNAT(result)
            <4>1. Choose(more).port = Choose(result).port
                BY <2>2, <2>4, <3>1, ChooseCases
            <4>2. Worth(Choose(result).port) \in {0, 1, 2}
                BY DEF Worth
            <4> QED BY <4>1, <4>2
        <3>2. CASE Reachable(result) /\ ~BehindCGNAT(result)
            <4>1. Choose(more).port = choosePort(more) /\ Choose(result).port = choosePort(result)
                BY <2>2, <3>2, ChooseCases
            <4> QED BY <2>3, <4>1
        <3> QED BY <3>1, <3>2
    <2> QED BY <2>5, <2>6, <2>7 DEF more
<1> QED BY <1>1, Invariance, PTL

\* Every decision that lets setup go on says how the port is opened.
THEOREM DecisionsAreActionable == Spec => []DecisionIsActionable
<1>1. IInv => DecisionIsActionable
    <2> SUFFICES ASSUME IInv, ~Blocked(Choose(result))
                 PROVE  LET d == Choose(result) IN
                        /\ d.mode = "A" => (d.map # d.manual) /\ (d.map => control # Nobody)
                                           /\ d.port \in result.free
                        /\ d.mode # "A" => ~d.map /\ ~d.manual /\ BehindCGNAT(result)
                        /\ d.mode \in {"A", "A6", "B"}
        BY DEF DecisionIsActionable
    <2>1. result \in ProbeResult
        BY DEF IInv, TypeOK
    <2>2. result.mapping => control # Nobody
        <3>1. CASE result = NothingSeen
            BY <3>1 DEF NothingSeen
        <3>2. CASE result.mapping <=> status = "available"
            BY <3>2 DEF IInv, SearchInv, Taken
        <3> QED BY <3>1, <3>2 DEF IInv, Joined
    <2>3. Reachable(result)
        BY ChooseCases DEF Blocked
    <2>4. CASE ~BehindCGNAT(result)
        <3>1. choosePort(result) # NoPort
            BY <2>3, <2>4, ChooseCases DEF Blocked
        <3>2. choosePort(result) \in result.free
            BY <3>1 DEF choosePort
        <3>3. result.mapping \in BOOLEAN
            BY <2>1 DEF ProbeResult
        <3> QED BY <2>2, <2>3, <2>4, <3>1, <3>2, <3>3, ChooseCases
    <2>5. CASE BehindCGNAT(result)
        BY <2>3, <2>5, ChooseCases
    <2> QED BY <2>4, <2>5
<1> QED BY <1>1, Invariance, PTL

-----------------------------------------------------------------------------
(* The search comes to an end. *)

\* What a search can still do: read a reply that it has not read, ask a candidate
\* that it has not asked, and go on to what comes next.
Advances ==
    \/ /\ UNCHANGED <<coming, stage, pc>>
       /\ read' \ read # {} /\ read \subseteq read' /\ read' \subseteq coming
    \/ /\ UNCHANGED <<found, stage, pc>>
       /\ tried' \ tried # {} /\ tried \subseteq tried' /\ tried' \subseteq DOMAIN found
    \/ stage' = stage /\ <<pc, pc'>> \in {<<"collect", "describe">>, <<"collect", "over">>,
                                         <<"describe", "over">>}
    \/ pc' = pc /\ <<stage, stage'>> \in {<<"search", "join">>, <<"search", "done">>,
                                         <<"join", "done">>}

\* And there is an end to each: the replies are finitely many however often they
\* are repeated, and no more candidates are asked than there is room for.
SearchesRunOut ==
    /\ [](IsFiniteSet(coming) /\ Len(found) <= MaxCandidates)
    /\ [][Advances]_vars

LEMMA RepliesAreFinite ==
    ASSUME NEW S \in SUBSET Reply
    PROVE  IsFiniteSet(S)
<1> DEFINE pairs == Devices \X BOOLEAN
           f == [p \in pairs |-> [from |-> p[1], igd |-> p[2]]]
<1>1. IsFiniteSet(pairs)
    <2>1. IsFiniteSet(BOOLEAN)
        <3>1. IsFiniteSet({TRUE}) /\ IsFiniteSet({FALSE})
            BY FS_Singleton
        <3>2. IsFiniteSet({TRUE} \cup {FALSE})
            BY <3>1, FS_Union
        <3>3. {TRUE} \cup {FALSE} = BOOLEAN
            OBVIOUS
        <3> QED BY <3>2, <3>3
    <2> QED BY <2>1, DevicesAssumption, FS_Product
<1>2. f \in Surjection(pairs, Reply)
    <2>1. f \in [pairs -> Reply]
        BY DEF Reply
    <2>2. ASSUME NEW m \in Reply PROVE \E p \in pairs : f[p] = m
        <3>1. <<m.from, m.igd>> \in pairs
            BY DEF Reply
        <3>2. f[<<m.from, m.igd>>] = m
            BY <3>1 DEF Reply
        <3> QED BY <3>1, <3>2
    <2> QED BY <2>1, <2>2 DEF Surjection
<1>3. IsFiniteSet(Reply)
    BY <1>1, <1>2, FS_Surjection
<1> QED BY <1>3, FS_Subset

LEMMA SearchingAdvances ==
    ASSUME SearchInv, SearchInv', Searching, UNCHANGED stage
    PROVE  Advances \/ UNCHANGED search
<1> USE DEF search, network, out
<1>1. CASE \E m \in coming : Read(m)
    <2>1. PICK m \in coming : Read(m)
        BY <1>1
    <2>2. CASE m \in read
        <3>1. Seen(m.from)
            BY <2>2 DEF SearchInv, Distinct
        <3>2. read' = read
            BY <2>1, <2>2 DEF Read
        <3> QED BY <2>1, <3>1, <3>2 DEF Read
    <2>3. CASE m \notin read
        <3>1. pc' \in {"collect", "describe"} /\ pc = "collect"
            BY <2>1 DEF Read
        <3>2. m \in read' \ read /\ read \subseteq read' /\ read' \subseteq coming /\ coming' = coming
            BY <2>1, <2>3 DEF Read, SearchInv, SearchTypeOK
        <3> QED BY <3>1, <3>2 DEF Advances
    <2> QED BY <2>2, <2>3
<1>2. CASE Deadline
    <2>1. pc = "collect" /\ pc' \in {"describe", "over"}
        BY <1>2 DEF Deadline
    <2> QED BY <2>1 DEF Advances
<1>3. CASE Describe
    <2>1. PICK i \in DOMAIN found : i \notin tried /\ tried' = tried \cup {i} /\ found' = found
        BY <1>3 DEF Describe, NextCandidate
    <2>2. pc = "describe" /\ pc' \in {"describe", "over"}
        BY <1>3 DEF Describe
    <2>3. tried' \ tried # {} /\ tried \subseteq tried' /\ tried' \subseteq DOMAIN found
        BY <2>1 DEF SearchInv, SearchTypeOK
    <2> QED BY <2>1, <2>2, <2>3 DEF Advances
<1>4. CASE NoneOffers
    <2>1. pc = "describe" /\ pc' = "over"
        BY <1>4 DEF NoneOffers
    <2> QED BY <2>1 DEF Advances
<1> QED BY <1>1, <1>2, <1>3, <1>4 DEF Searching

\* Whatever answers, how often and in whatever order, setup and the sync task come
\* to the end of the search after finitely many replies and at most maxCandidates
\* descriptions (probe discover; Prober.Run; FindMappingTarget).
THEOREM SearchesAreFinite == Spec => SearchesRunOut
<1>1. Init => Len(found) <= MaxCandidates
    <2>1. Init => found = <<>>
        BY Zenon DEF Init, SearchInit
    <2> QED BY <2>1, BoundAssumption
<1>2. IInv /\ Len(found) <= MaxCandidates /\ [Next]_vars => (Len(found) <= MaxCandidates)'
    <2> SUFFICES ASSUME IInv, Len(found) <= MaxCandidates, [Next]_vars
                 PROVE  Len(found') <= MaxCandidates
        OBVIOUS
    <2>1. CASE \E m \in coming : Read(m)
        <3>1. PICK m \in coming : Read(m)
            BY <2>1
        <3>2. Len(found) < MaxCandidates /\ found \in Seq(Reply) /\ m \in Reply
            BY <3>1 DEF Read, IInv, SearchInv, OneGateway, SearchTypeOK
        <3>3. found' = found \/ found' = Append(found, m)
            BY <3>1 DEF Read
        <3> QED BY <3>2, <3>3, BoundAssumption
    <2>2. CASE ~\E m \in coming : Read(m)
        BY <2>2 DEF Next, Search, Searching, Deadline, Describe, NoneOffers, AskAddress, Join,
                    FindMappingTarget, vars, search, network
    <2> QED BY <2>1, <2>2
<1>3. IInv => IsFiniteSet(coming)
    BY RepliesAreFinite DEF IInv, SearchInv, SearchTypeOK
<1>4. IInv /\ IInv' /\ [Next]_vars => [Advances]_vars
    <2> SUFFICES ASSUME IInv, IInv', Next PROVE Advances \/ UNCHANGED vars
        OBVIOUS
    <2>1. CASE Search
        BY <2>1, SearchingAdvances DEF Search, IInv, vars
    <2>2. CASE AskAddress
        BY <2>2 DEF AskAddress, Advances, search
    <2>3. CASE Join
        BY <2>3 DEF Join, Advances, search
    <2>4. CASE FindMappingTarget
        BY <2>4 DEF FindMappingTarget, Advances, search
    <2> QED BY <2>1, <2>2, <2>3, <2>4 DEF Next
<1> QED BY <1>1, <1>2, <1>3, <1>4, Invariance, PTL DEF Spec, SearchesRunOut
=============================================================================
