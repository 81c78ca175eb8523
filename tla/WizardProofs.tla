---------------------------- MODULE WizardProofs ----------------------------
(***************************************************************************)
(* What holds of the wizard for every set of names, every set of networks  *)
(* and any number of launches, proved with TLAPS.                          *)
(***************************************************************************)
EXTENDS Wizard, TLAPS

\* A step that records a phase leaves a phase in the record.
LEMMA RecordType ==
    ASSUME NEW here \in Phase, NEW to \in Phase
    PROVE  Record(here, to) \in Phase
BY DEF Record, Advance

LEMMA ReachingType ==
    ASSUME NEW s \in StateRecord, NEW to \in Phase
    PROVE  Reaching(s, to) \in StateRecord
<1>1. s.phase \in Phase BY DEF StateRecord
<1>2. Record(s.phase, to) \in Phase BY <1>1, RecordType
<1> QED BY <1>2 DEF StateRecord, Reaching

\* Saving leaves on disk what was there or what was saved.
LEMMA SaveType ==
    ASSUME disk \in StateRecord, NEW s \in StateRecord, Save(s)
    PROVE  disk' \in StateRecord
BY DEF Save

\* The mode router decides within its vocabulary, whatever the probe saw.
THEOREM ChooseType ==
    ASSUME NEW r, r.mapping \in BOOLEAN
    PROVE  Choose(r) \in Decision
<1>1. Undecided \in Decision
  BY DEF Undecided, Decision, Mode, NoPort, Blocker, Ports
<1>2. choosePort(r) \in Ports \cup {NoPort}
  BY DEF choosePort, Ports, PortPreferred, PortFallback, NoPort
<1>3. ChoosePublic(r) \in Decision
  <2> DEFINE W == When(choosePort(r) # PortPreferred, "non_standard_port")
                  \cup When(~r.router, "router_unreachable")
                  \cup When(r.router /\ ~r.mapping, "no_upnp")
                  \cup When(~r.v6, "no_ipv6")
  <2>1. W \subseteq WarningCode BY DEF When, WarningCode
  <2> HIDE DEF W
  <2>2. [mode |-> "A", port |-> choosePort(r), map |-> r.mapping, manual |-> ~r.mapping,
         blocker |-> "", warnings |-> W] \in Decision
    BY <1>2, <2>1 DEF Decision, Mode, Blocker
  <2> QED BY <2>2 DEF ChoosePublic, W
<1>4. [Undecided EXCEPT !.blocker = "no_internet"] \in Decision
  BY <1>1 DEF Undecided, Decision, Blocker
<1>5. [Undecided EXCEPT !.mode = "A6", !.port = PortPreferred, !.warnings = {"ipv6_only"}]
        \in Decision
  BY <1>1 DEF Undecided, Decision, Mode, Ports, WarningCode
<1>6. [Undecided EXCEPT !.mode = "B", !.warnings = {"cgnat_no_ipv4"}] \in Decision
  BY <1>1 DEF Undecided, Decision, Mode, WarningCode
<1>7. [Undecided EXCEPT !.blocker = "ports_unavailable"] \in Decision
  BY <1>1 DEF Undecided, Decision, Blocker
<1> QED BY <1>3, <1>4, <1>5, <1>6, <1>7 DEF Choose


\* What the installation steps after the first need to be well typed.
InstallsAName == pc \in InstallStep \ {"publish"} => st.host \in Names

\* A router that is to be asked is asked for a port.
MapsAPort == decision.map => decision.port \in Ports

LEMMA NothingType == Nothing \in Served
BY DEF Nothing, Served, AnyName, AnyPort

LEMMA FreshTypes ==
    NewState \in StateRecord /\ Unprobed \in Probed /\ Undecided \in Decision
BY DEF NewState, StateRecord, Phase, AnyName, AnyPort, Mode,
       Unprobed, Probed, Undecided, Decision, Ports, NoPort, Blocker


LEMMA TypeStep == TypeOK /\ InstallsAName /\ MapsAPort /\ [Next]_vars => TypeOK'
<1> SUFFICES ASSUME TypeOK, InstallsAName, MapsAPort, [Next]_vars PROVE TypeOK'
  OBVIOUS
<1>1. CASE SetDynuKey
  BY <1>1 DEF TypeOK, SetDynuKey, process, environment, Screen
<1>2. CASE Back
  BY <1>2 DEF TypeOK, Back, world, environment, previousScreen, Screen
<1>3. CASE OpenPort
  BY <1>3, NetAssumption DEF TypeOK, OpenPort, world, environment, Seen, Probed, Net, Step
<1>4. CASE ShowGuide
  BY <1>4 DEF TypeOK, ShowGuide, world, environment, Screen, Step
<1>5. CASE Install
  BY <1>5 DEF TypeOK, Install, world, environment, Step, InstallStep
<1>6. CASE StepFails
  <2>1. Wanted \in Served BY DEF TypeOK, Wanted, StateRecord, Served
  <2>2. jellyfin' \in Served
    BY <1>6, <2>1 DEF StepFails, TypeOK
  <2> QED BY <1>6, <2>2 DEF TypeOK, StepFails, InstallFrame, environment, Step
<1>7. CASE PublishFails
  <2>1. Published \subseteq Families BY DEF Published, Families
  <2>2. owned' \subseteq Names /\ dns' \in [Names -> SUBSET Families]
    <3>1. CASE UNCHANGED <<owned, dns>> BY <3>1 DEF TypeOK
    <3>2. CASE st.host # NoName /\ CreateDomain(st.host)
      <4>1. st.host \in Names BY <3>2 DEF TypeOK, StateRecord, AnyName
      <4> QED BY <2>1, <3>2, <4>1 DEF CreateDomain, TypeOK
    <3> QED BY <1>7, <3>1, <3>2 DEF PublishFails
  <2>3. screen' \in Screen BY <1>7 DEF PublishFails, TypeOK, Screen
  <2> QED BY <1>7, <2>2, <2>3 DEF TypeOK, PublishFails, environment, Step
<1>8. CASE Remove
  BY <1>8 DEF TypeOK, Remove, world, environment, Screen, Step, RemoveStep
<1>9. CASE RemoveProxy
  BY <1>9, NothingType DEF TypeOK, RemoveProxy, RemoveFrame, Reports, environment,
                              Step, RemoveStep
<1>10. CASE RemoveTimer
  BY <1>10 DEF TypeOK, RemoveTimer, RemoveFrame, Reports, environment, Step, RemoveStep
<1>11. CASE ForgetCredential
  BY <1>11 DEF TypeOK, ForgetCredential, RemoveFrame, Reports, environment, Step, RemoveStep
<1>12. CASE ForwardByHand
  BY <1>12 DEF TypeOK, ForwardByHand, process, environment, Host
<1>13. CASE NetworkChanges
  BY <1>13 DEF TypeOK, NetworkChanges, process, world
<1>36. CASE ProxyRestarts
  BY <1>36, NothingType DEF TypeOK, ProxyRestarts, Able, process
<1>14. CASE RecordName
  <2>1. st' = Reaching(st, "DOMAIN_CLAIMED") /\ Save(st') BY <1>14 DEF RecordName
  <2>2. st' \in StateRecord BY <2>1, ReachingType DEF TypeOK, Phase
  <2>3. disk' \in StateRecord BY <2>1, <2>2, SaveType DEF TypeOK
  <2> QED BY <1>14, <2>2, <2>3 DEF TypeOK, RecordName, world, environment, Screen, Step
<1>15. CASE PortNotNeeded
  <2>1. st' = Reaching(st, "PORTS_MAPPED") /\ Save(st') BY <1>15 DEF PortNotNeeded
  <2>2. st' \in StateRecord BY <2>1, ReachingType DEF TypeOK, Phase
  <2>3. disk' \in StateRecord BY <2>1, <2>2, SaveType DEF TypeOK
  <2> QED BY <1>15, <2>2, <2>3 DEF TypeOK, PortNotNeeded, world, environment, Screen, Step
<1>16. CASE SkipPort
  <2>1. st' = Reaching(st, "PORTS_MAPPED") /\ Save(st') BY <1>16 DEF SkipPort
  <2>2. st' \in StateRecord BY <2>1, ReachingType DEF TypeOK, Phase
  <2>3. disk' \in StateRecord BY <2>1, <2>2, SaveType DEF TypeOK
  <2> QED BY <1>16, <2>2, <2>3 DEF TypeOK, SkipPort, world, environment, Screen, Step
<1>17. CASE DNSSeen
  <2>1. st' = Reaching(st, "DNS_VISIBLE") /\ Save(st') BY <1>17 DEF DNSSeen
  <2>2. st' \in StateRecord BY <2>1, ReachingType DEF TypeOK, Phase
  <2>3. disk' \in StateRecord BY <2>1, <2>2, SaveType DEF TypeOK
  <2> QED BY <1>17, <2>2, <2>3 DEF TypeOK, DNSSeen, world, environment, InstallFrame, Step, InstallStep
<1>18. CASE CertificateIssued
  <2>1. st' = Reaching(st, "CERT_ISSUED") /\ Save(st') BY <1>18 DEF CertificateIssued
  <2>2. st' \in StateRecord BY <2>1, ReachingType DEF TypeOK, Phase
  <2>3. disk' \in StateRecord BY <2>1, <2>2, SaveType DEF TypeOK
  <2> QED BY <1>18, <2>2, <2>3 DEF TypeOK, InstallsAName, CertificateIssued, world, environment,
                                 InstallFrame, Step, InstallStep
<1>19. CASE Verify
  <2>1. st' = Reaching(st, "VERIFIED") /\ Save(st') BY <1>19 DEF Verify
  <2>2. st' \in StateRecord BY <2>1, ReachingType DEF TypeOK, Phase
  <2>3. disk' \in StateRecord BY <2>1, <2>2, SaveType DEF TypeOK
  <2> QED BY <1>19, <2>2, <2>3 DEF TypeOK, Verify, world, environment, InstallFrame, Step, InstallStep
<1>20. CASE Handover
  <2>1. st' = Reaching(st, "RUNNING") /\ Save(st') BY <1>20 DEF Handover
  <2>2. st' \in StateRecord BY <2>1, ReachingType DEF TypeOK, Phase
  <2>3. disk' \in StateRecord BY <2>1, <2>2, SaveType DEF TypeOK
  <2> QED BY <1>20, <2>2, <2>3 DEF TypeOK, Handover, world, environment, Screen, Step
<1>21. CASE Launch
  <2>1. UNCHANGED disk /\ st' = disk BY <1>21 DEF Launch, Fresh
  <2>2. UNCHANGED <<owned, dns, router, service, proxy, jellyfin, certs, secret, timer, net,
                    netChanges, restarts>>
    BY <1>21 DEF Launch, world
  <2>3. screen' \in Screen /\ pc' \in Step /\ repair' \in BOOLEAN /\ dyn' \in BOOLEAN
    BY <1>21 DEF Launch, Fresh, Screen, Step, TypeOK
  <2>4. /\ signedIn' = FALSE /\ switched' = FALSE /\ failed' = {}
        /\ probed' = Unprobed /\ decision' = Undecided /\ launches' = launches + 1
    BY <1>21 DEF Launch, Fresh
  <2>5. launches' \in Nat BY <2>4 DEF TypeOK
  <2> QED BY <2>1, <2>2, <2>3, <2>4, <2>5, FreshTypes, Zenon DEF TypeOK
<1>22. CASE Quit
  <2>1. UNCHANGED disk /\ st' = NewState BY <1>22 DEF Quit
  <2>2. UNCHANGED <<owned, dns, router, service, proxy, jellyfin, certs, secret, timer,
                    net, launches, netChanges, restarts>>
    BY <1>22 DEF Quit, world, environment
  <2>3. screen' \in Screen /\ pc' \in Step BY <1>22 DEF Quit, Screen, Step
  <2>4. /\ signedIn' = FALSE /\ switched' = FALSE /\ failed' = {} /\ repair' = FALSE /\ dyn' = FALSE
        /\ probed' = Unprobed /\ decision' = Undecided
    BY <1>22 DEF Quit
  <2> QED BY <2>1, <2>2, <2>3, <2>4, FreshTypes DEF TypeOK
<1>23. CASE Start
  <2>0. PICK free \in {Reclaimed, FreePorts} :
            LET d == Choose(ProbeNow(free)) IN
            /\ st' = Reaching([st EXCEPT !.mode = d.mode, !.port = d.port], "PROBED")
            /\ Save(st') /\ decision' = d /\ probed' = Seen(net)
    BY <1>23 DEF Start
  <2> DEFINE d == Choose(ProbeNow(free))
  <2>1. ProbeNow(free).mapping = net.mapping BY DEF ProbeNow
  <2>2. net \in Net BY NetAssumption DEF TypeOK
  <2>3. d \in Decision BY <2>1, <2>2, ChooseType DEF Net
  <2>4. Seen(net) \in Probed BY <2>2 DEF Seen, Probed, Net
  <2> HIDE DEF d
  <2>5. /\ st' = Reaching([st EXCEPT !.mode = d.mode, !.port = d.port], "PROBED")
        /\ Save(st') /\ decision' = d /\ probed' = Seen(net)
        /\ screen' \in {"jellyfin", "blocked"} /\ signedIn' \in {FALSE, signedIn}
        /\ failed' = {}
        /\ UNCHANGED <<pc, repair, dyn, switched, world, environment>>
    BY <2>0, <1>23 DEF Start, d
  <2>6. [st EXCEPT !.mode = d.mode, !.port = d.port] \in StateRecord
    BY <2>3 DEF TypeOK, StateRecord, Decision, AnyPort
  <2>7. st' \in StateRecord BY <2>5, <2>6, ReachingType DEF Phase
  <2>8. disk' \in StateRecord BY <2>5, <2>7, SaveType DEF TypeOK
  <2> QED BY <2>3, <2>4, <2>5, <2>7, <2>8 DEF TypeOK, world, environment, Screen
<1>24. CASE SignIn
  <2>1. disk' \in StateRecord BY <1>24, SaveType DEF SignIn, TypeOK
  <2> QED BY <1>24, <2>1 DEF SignIn, TypeOK, world, environment, Screen
<1>25. ASSUME NEW n \in Names, ClaimName(n) PROVE TypeOK'
  <2>1. Published \subseteq Families BY DEF Published, Families
  <2>2. owned' \subseteq Names /\ dns' \in [Names -> SUBSET Families]
    BY <1>25, <2>1 DEF ClaimName, CreateDomain, TypeOK
  <2>3. st' \in StateRecord /\ pc' \in Step
    BY <1>25 DEF ClaimName, TypeOK, StateRecord, AnyName, Step
  <2> QED BY <1>25, <2>2, <2>3 DEF ClaimName, TypeOK, environment
<1>26. CASE PortMapped
  <2> DEFINE granted == [st EXCEPT !.mapping = PortAsked]
  <2>1. PortAsked \in Ports
    <3>1. decision.port \in Ports BY <1>26 DEF PortMapped, AsksRouter, MapsAPort
    <3> QED BY <3>1, <1>26 DEF PortMapped, PortAsked, AsksRouter, Ports
  <2>2. granted \in StateRecord BY <2>1 DEF TypeOK, StateRecord, AnyPort
  <2>3. Reaching(granted, "PORTS_MAPPED") \in StateRecord BY <2>2, ReachingType DEF Phase
  <2> HIDE DEF granted
  <2>4. \/ st' = Reaching(granted, "PORTS_MAPPED") /\ Save(st') /\ screen' = "setup"
        \/ st' = granted /\ (Save(st) \/ disk' = disk) /\ screen' = "port"
    BY <1>26 DEF PortMapped, granted
  <2>5. st' \in StateRecord /\ disk' \in StateRecord
    BY <2>2, <2>3, <2>4, SaveType DEF TypeOK
  <2>6. router' \in [Ports -> Host] BY <1>26 DEF PortMapped, TypeOK, Host
  <2>7. decision' \in Decision BY <1>26, <2>1 DEF PortMapped, TypeOK, Decision
  <2>8. screen' \in Screen /\ pc' \in Step BY <1>26, <2>4 DEF PortMapped, Screen, Step
  <2> QED BY <1>26, <2>5, <2>6, <2>7, <2>8 DEF TypeOK, PortMapped, environment
<1>27. CASE Publish
  <2>1. st' = Reaching(st, "DOMAIN_CLAIMED") /\ Save(st') BY <1>27 DEF Publish
  <2>2. st' \in StateRecord BY <2>1, ReachingType DEF TypeOK, Phase
  <2>3. disk' \in StateRecord BY <2>1, <2>2, SaveType DEF TypeOK
  <2>4. Published \subseteq Families BY DEF Published, Families
  <2>5. st.host \in Names BY <1>27 DEF Publish, TypeOK, StateRecord, AnyName
  <2>6. owned' \subseteq Names /\ dns' \in [Names -> SUBSET Families]
    BY <1>27, <2>4, <2>5 DEF Publish, CreateDomain, TypeOK
  <2> QED BY <1>27, <2>2, <2>3, <2>6 DEF TypeOK, Publish, environment, InstallFrame, Step, InstallStep
<1>28. CASE InstallProxy \/ MoveProxy
  <2>1. st' = st /\ {service', proxy'} \subseteq Served /\ disk' \in StateRecord
    <3>0. Wanted \in Served BY DEF Wanted, TypeOK, StateRecord, Served
    <3>1. CASE ProxyUp BY <3>0, <3>1, SaveType, NothingType DEF ProxyUp, Able, TypeOK
    <3>2. CASE ProxyDown BY <3>0, <3>2, SaveType, NothingType DEF ProxyDown, TypeOK
    <3> QED BY <1>28, <3>1, <3>2 DEF InstallProxy, MoveProxy
  <2>2. pc' \in {"cert", "moveJellyfin", "idle"} BY <1>28 DEF InstallProxy, MoveProxy, ProxyDown
  <2>3. /\ UNCHANGED <<screen, repair, signedIn, dyn, probed, decision, switched, failed>>
        /\ UNCHANGED <<owned, dns, router, jellyfin, certs, secret, timer>>
        /\ UNCHANGED <<net, launches, netChanges, restarts>>
    BY <1>28 DEF InstallProxy, MoveProxy, ProxyUp, ProxyDown, InstallFrame, environment
  <2> QED BY <2>1, <2>2, <2>3 DEF TypeOK, Step, InstallStep
<1>29. CASE ConfigureJellyfin \/ MoveJellyfin
  <2>1. Configure /\ pc' \in {"sync", "verify"} BY <1>29 DEF ConfigureJellyfin, MoveJellyfin
  <2>2. st' \in StateRecord BY <2>1, ReachingType DEF Configure, TypeOK, Phase
  <2>3. disk' \in StateRecord BY <2>1, <2>2, SaveType DEF Configure, TypeOK
  <2>4. jellyfin' \in Served BY <2>1 DEF Configure, Wanted, TypeOK, StateRecord, Served
  <2> QED BY <2>1, <2>2, <2>3, <2>4 DEF Configure, TypeOK, environment, InstallFrame, Step, InstallStep
<1>30. CASE InstallSync
  <2>1. disk' \in StateRecord BY <1>30, SaveType DEF InstallSync, TypeOK
  <2> QED BY <1>30, <2>1 DEF TypeOK, InstallSync, environment, InstallFrame, Step, InstallStep
<1>31. CASE SwitchToFallbackPort
  <2>1. st' = [st EXCEPT !.port = PortFallback] /\ Save(st') BY <1>31 DEF SwitchToFallbackPort
  <2>2. st' \in StateRecord BY <2>1 DEF TypeOK, StateRecord, AnyPort, Ports
  <2>3. disk' \in StateRecord BY <2>1, <2>2, SaveType DEF TypeOK
  <2>4. decision' \in Decision BY <1>31 DEF SwitchToFallbackPort, TypeOK, Decision, Ports
  <2> QED BY <1>31, <2>2, <2>3, <2>4 DEF TypeOK, SwitchToFallbackPort, world, environment, Step, InstallStep
<1>32. CASE MapFallbackPort
  <2>1. st' \in StateRecord /\ router' \in [Ports -> Host]
    BY <1>32 DEF MapFallbackPort, TypeOK, StateRecord, AnyPort, Ports, Host
  <2>2. disk' \in StateRecord BY <1>32, <2>1, SaveType DEF MapFallbackPort, TypeOK
  <2> QED BY <1>32, <2>1, <2>2 DEF TypeOK, MapFallbackPort, environment, InstallFrame, Step, InstallStep
<1>33. CASE Unpublish
  <2>1. disk' \in StateRecord BY <1>33, SaveType DEF Unpublish, TypeOK
  <2>2. dns' \in [Names -> SUBSET Families] BY <1>33 DEF Unpublish, TypeOK
  <2> QED BY <1>33, <2>1, <2>2 DEF TypeOK, Unpublish, Reports, RemoveFrame, environment, Step, RemoveStep
<1>34. CASE ResetRecord
  <2>1. st' = [st EXCEPT !.phase = "NEW", !.host = NoName, !.mapping = NoPort] /\ Save(st')
    BY <1>34 DEF ResetRecord
  <2>2. st' \in StateRecord BY <2>1 DEF TypeOK, StateRecord, Phase, AnyName, AnyPort
  <2>3. disk' \in StateRecord BY <2>1, <2>2, SaveType DEF TypeOK
  <2> QED BY <1>34, <2>2, <2>3 DEF TypeOK, ResetRecord, world, environment, Screen, Step
<1>35. CASE UNCHANGED vars
  BY <1>35 DEF TypeOK, vars, process, world, environment
<1> QED
  BY <1>1, <1>2, <1>3, <1>4, <1>5, <1>6, <1>7, <1>8, <1>9, <1>10, <1>11, <1>12, <1>13, <1>14, <1>15, <1>16, <1>17, <1>18, <1>19, <1>20, <1>21, <1>22, <1>23, <1>24, <1>25, <1>26, <1>27, <1>28, <1>29, <1>30, <1>31, <1>32, <1>33, <1>34, <1>35, <1>36
     DEF Next, UserAction, OperationStep

\* The decision changes when things are checked over, when a conflict or a
\* failed check moves the port, and with the process.
LEMMA DecisionFrame ==
    [Next]_vars => decision' = decision \/ Launch \/ Quit \/ Start \/ PortMapped
                   \/ SwitchToFallbackPort
BY DEF Next, UserAction, OperationStep, vars, process, InstallFrame, RemoveFrame,
       SignIn, SetDynuKey, Back, ClaimName, RecordName, OpenPort,
       PortNotNeeded, ShowGuide, SkipPort, Install, StepFails, Publish, PublishFails, DNSSeen,
       InstallProxy, ProxyUp, ProxyDown, CertificateIssued, Configure, ConfigureJellyfin,
       InstallSync, Verify, Handover, MapFallbackPort, MoveProxy, MoveJellyfin, Remove, RemoveProxy,
       RemoveTimer, Unpublish, ForgetCredential, ResetRecord, ForwardByHand, NetworkChanges, ProxyRestarts

-----------------------------------------------------------------------------
(* The phases. *)

Chain == Phase \ {"DEGRADED"}

LEMMA IndexValues ==
    /\ indexOf["NEW"] = 0 /\ indexOf["PROBED"] = 1 /\ indexOf["DOMAIN_CLAIMED"] = 2
    /\ indexOf["PORTS_MAPPED"] = 3 /\ indexOf["DNS_VISIBLE"] = 4 /\ indexOf["CERT_ISSUED"] = 5
    /\ indexOf["JELLYFIN_CONFIGURED"] = 6 /\ indexOf["VERIFIED"] = 7 /\ indexOf["RUNNING"] = 8
BY DEF indexOf

\* A phase is never refused to a record that is at most one phase short of it.
LEMMA OneShortIsEnough ==
    ASSUME NEW here \in Chain, NEW to \in Chain, indexOf[here] >= indexOf[to] - 1
    PROVE  Reached(here, to) \/ CanAdvance(here, to)
BY IndexValues DEF Chain, Phase, Reached, CanAdvance, transitions

\* Recording a phase puts the record there, or leaves it where it was further on.
LEMMA RecordRaises ==
    ASSUME NEW here \in Chain, NEW to \in Chain, indexOf[here] >= indexOf[to] - 1
    PROVE  /\ Record(here, to) \in Chain
           /\ indexOf[Record(here, to)] >= indexOf[to]
           /\ indexOf[Record(here, to)] >= indexOf[here]
<1>1. Reached(here, to) \/ CanAdvance(here, to) BY OneShortIsEnough
<1>2. indexOf[to] \in Nat /\ indexOf[here] \in Nat BY IndexValues DEF Chain, Phase
<1> QED BY <1>1, <1>2 DEF Record, Advance, Reached

LEMMA ReachingRaises ==
    ASSUME NEW s \in StateRecord, s.phase \in Chain, NEW to \in Chain,
           indexOf[s.phase] >= indexOf[to] - 1
    PROVE  /\ Reaching(s, to).phase \in Chain
           /\ indexOf[Reaching(s, to).phase] >= indexOf[to]
           /\ indexOf[Reaching(s, to).phase] >= indexOf[s.phase]
           /\ Reaching(s, to).host = s.host
<1>1. Reaching(s, to).phase = Record(s.phase, to) /\ Reaching(s, to).host = s.host
  BY DEF Reaching, StateRecord
<1> QED BY <1>1, RecordRaises

LEMMA PhaseStep ==
    PhaseInv /\ [Next]_vars => (ScreenFits /\ OnChain /\ FarEnough)'
<1> SUFFICES ASSUME PhaseInv, [Next]_vars PROVE (ScreenFits /\ OnChain /\ FarEnough)'
  OBVIOUS
<1> USE DEF PhaseInv
<1>a. st \in StateRecord /\ disk \in StateRecord BY DEF TypeOK
<1>b. st.phase \in Chain /\ disk.phase \in Chain BY DEF OnChain, Chain
<1>i. indexOf[st.phase] \in Nat BY <1>b, IndexValues DEF Chain, Phase
<1>c. NewState.phase = "NEW" /\ "NEW" \in Chain BY DEF NewState, Chain, Phase
<1>1. CASE Back
  <2>1. st' = st /\ disk' \in {disk, st} BY <1>1 DEF Back, previousScreen
  <2> QED BY <1>1, <2>1, <1>i DEF ScreenFits, OnChain, FarEnough, AtLeast, InstallStep, RemoveStep, Back, previousScreen
<1>2. CASE OpenPort
  <2>1. st' = st /\ disk' \in {disk, st} BY <1>2 DEF OpenPort
  <2> QED BY <1>2, <2>1, <1>i DEF ScreenFits, OnChain, FarEnough, AtLeast, InstallStep, RemoveStep, OpenPort
<1>3. CASE ShowGuide
  <2>1. st' = st /\ disk' \in {disk, st} BY <1>3 DEF ShowGuide
  <2> QED BY <1>3, <2>1, <1>i DEF ScreenFits, OnChain, FarEnough, AtLeast, InstallStep, RemoveStep, ShowGuide
<1>4. CASE Install
  <2>1. st' = st /\ disk' \in {disk, st} BY <1>4 DEF Install
  <2> QED BY <1>4, <2>1, <1>i DEF ScreenFits, OnChain, FarEnough, AtLeast, InstallStep, RemoveStep, Install
<1>5. CASE StepFails
  <2>1. st' = st /\ disk' \in {disk, st} BY <1>5 DEF StepFails, InstallFrame
  <2> QED BY <1>5, <2>1, <1>i DEF ScreenFits, OnChain, FarEnough, AtLeast, InstallStep, RemoveStep, StepFails, InstallFrame
<1>6. CASE PublishFails
  <2>1. st' = st /\ disk' \in {disk, st} BY <1>6 DEF PublishFails
  <2> QED BY <1>6, <2>1, <1>i DEF ScreenFits, OnChain, FarEnough, AtLeast, InstallStep, RemoveStep, PublishFails
<1>7. CASE Remove
  <2>1. st' = st /\ disk' \in {disk, st} BY <1>7 DEF Remove
  <2> QED BY <1>7, <2>1, <1>i DEF ScreenFits, OnChain, FarEnough, AtLeast, InstallStep, RemoveStep, Remove
<1>8. CASE RemoveProxy
  <2>1. st' = st /\ disk' \in {disk, st} BY <1>8 DEF RemoveProxy, RemoveFrame
  <2> QED BY <1>8, <2>1, <1>i DEF ScreenFits, OnChain, FarEnough, AtLeast, InstallStep, RemoveStep, RemoveProxy, RemoveFrame
<1>9. CASE RemoveTimer
  <2>1. st' = st /\ disk' \in {disk, st} BY <1>9 DEF RemoveTimer, RemoveFrame
  <2> QED BY <1>9, <2>1, <1>i DEF ScreenFits, OnChain, FarEnough, AtLeast, InstallStep, RemoveStep, RemoveTimer, RemoveFrame
<1>10. CASE ForgetCredential
  <2>1. st' = st /\ disk' \in {disk, st} BY <1>10 DEF ForgetCredential, RemoveFrame
  <2> QED BY <1>10, <2>1, <1>i DEF ScreenFits, OnChain, FarEnough, AtLeast, InstallStep, RemoveStep, ForgetCredential, RemoveFrame
<1>11. CASE ForwardByHand
  <2>1. st' = st /\ disk' \in {disk, st} BY <1>11 DEF ForwardByHand, process
  <2> QED BY <1>11, <2>1, <1>i DEF ScreenFits, OnChain, FarEnough, AtLeast, InstallStep, RemoveStep, ForwardByHand, process
<1>12. CASE NetworkChanges
  <2>1. st' = st /\ disk' \in {disk, st} BY <1>12 DEF NetworkChanges, process
  <2> QED BY <1>12, <2>1, <1>i DEF ScreenFits, OnChain, FarEnough, AtLeast, InstallStep, RemoveStep, NetworkChanges, process
<1>36. CASE ProxyRestarts
  <2>1. st' = st /\ disk' \in {disk, st} BY <1>36 DEF ProxyRestarts, process
  <2> QED BY <1>36, <2>1, <1>i DEF ScreenFits, OnChain, FarEnough, AtLeast, InstallStep, RemoveStep, ProxyRestarts, process
<1>13. CASE SetDynuKey
  <2>1. st' = st /\ disk' \in {disk, st} BY <1>13 DEF SetDynuKey
  <2> QED BY <1>13, <2>1, <1>i DEF ScreenFits, OnChain, FarEnough, AtLeast, InstallStep, RemoveStep, SetDynuKey
<1>14. CASE SignIn
  <2>1. st' = st /\ disk' \in {disk, st} BY <1>14 DEF SignIn, Save
  <2> QED BY <1>14, <2>1, <1>i DEF ScreenFits, OnChain, FarEnough, AtLeast, InstallStep, RemoveStep, SignIn
<1>15. CASE InstallSync
  <2>1. st' = st /\ disk' \in {disk, st} BY <1>15 DEF InstallSync, InstallFrame, Save
  <2> QED BY <1>15, <2>1, <1>i DEF ScreenFits, OnChain, FarEnough, AtLeast, InstallStep, RemoveStep, InstallSync, InstallFrame
<1>16. CASE Unpublish
  <2>1. st' = st /\ disk' \in {disk, st} BY <1>16 DEF Unpublish, RemoveFrame, Save
  <2>2. pc = "unpublish" /\ pc' = "forget" /\ screen' = screen BY <1>16 DEF Unpublish, RemoveFrame
  <2> QED BY <2>1, <2>2 DEF ScreenFits, OnChain, FarEnough, AtLeast, InstallStep, RemoveStep
<1>17. CASE RecordName
  <2>1. /\ st' = Reaching(st, "DOMAIN_CLAIMED") /\ Save(st')
        /\ pc = "claimed" /\ pc' = "openPort" /\ screen' = "port"
    BY <1>17 DEF RecordName
  <2>2. AtLeast(1) BY <2>1, <1>i DEF ScreenFits, FarEnough, AtLeast, InstallStep
  <2>3. /\ st'.phase \in Chain /\ disk'.phase \in Chain
        /\ indexOf[st'.phase] >= 2 /\ indexOf[st'.phase] >= indexOf[st.phase]
    BY <1>a, <1>b, <1>i, <2>1, <2>2, ReachingRaises, IndexValues DEF Save, Chain, Phase, AtLeast
  <2>4. indexOf[st'.phase] \in Nat BY <2>3, IndexValues DEF Chain, Phase
  <2> QED BY <2>1, <2>3, <2>4, <1>i DEF ScreenFits, OnChain, FarEnough, AtLeast, Chain, InstallStep, RemoveStep
<1>18. CASE PortNotNeeded
  <2>1. /\ st' = Reaching(st, "PORTS_MAPPED") /\ Save(st')
        /\ pc = "openPort" /\ pc' = "idle" /\ screen' = "setup"
    BY <1>18 DEF PortNotNeeded
  <2>2. AtLeast(2) BY <2>1, <1>i DEF ScreenFits, FarEnough, AtLeast, InstallStep
  <2>3. /\ st'.phase \in Chain /\ disk'.phase \in Chain
        /\ indexOf[st'.phase] >= 3 /\ indexOf[st'.phase] >= indexOf[st.phase]
    BY <1>a, <1>b, <1>i, <2>1, <2>2, ReachingRaises, IndexValues DEF Save, Chain, Phase, AtLeast
  <2>4. indexOf[st'.phase] \in Nat BY <2>3, IndexValues DEF Chain, Phase
  <2> QED BY <2>1, <2>3, <2>4, <1>i DEF ScreenFits, OnChain, FarEnough, AtLeast, Chain, InstallStep, RemoveStep
<1>19. CASE SkipPort
  <2>1. /\ st' = Reaching(st, "PORTS_MAPPED") /\ Save(st')
        /\ pc = "idle" /\ pc' = "idle" /\ screen = "port" /\ screen' = "setup"
    BY <1>19 DEF SkipPort
  <2>2. AtLeast(2) BY <2>1, <1>i DEF ScreenFits, FarEnough, AtLeast, InstallStep
  <2>3. /\ st'.phase \in Chain /\ disk'.phase \in Chain
        /\ indexOf[st'.phase] >= 3 /\ indexOf[st'.phase] >= indexOf[st.phase]
    BY <1>a, <1>b, <1>i, <2>1, <2>2, ReachingRaises, IndexValues DEF Save, Chain, Phase, AtLeast
  <2>4. indexOf[st'.phase] \in Nat BY <2>3, IndexValues DEF Chain, Phase
  <2> QED BY <2>1, <2>3, <2>4, <1>i DEF ScreenFits, OnChain, FarEnough, AtLeast, Chain, InstallStep, RemoveStep
<1>20. CASE Publish
  <2>1. /\ st' = Reaching(st, "DOMAIN_CLAIMED") /\ Save(st')
        /\ pc = "publish" /\ pc' = "dns" /\ screen' = screen
    BY <1>20 DEF Publish, InstallFrame
  <2>2. AtLeast(1) BY <2>1, <1>i DEF ScreenFits, FarEnough, AtLeast, InstallStep
  <2>3. /\ st'.phase \in Chain /\ disk'.phase \in Chain
        /\ indexOf[st'.phase] >= 2 /\ indexOf[st'.phase] >= indexOf[st.phase]
    BY <1>a, <1>b, <1>i, <2>1, <2>2, ReachingRaises, IndexValues DEF Save, Chain, Phase, AtLeast
  <2>4. indexOf[st'.phase] \in Nat BY <2>3, IndexValues DEF Chain, Phase
  <2> QED BY <2>1, <2>3, <2>4, <1>i DEF ScreenFits, OnChain, FarEnough, AtLeast, Chain, InstallStep, RemoveStep
<1>21. CASE DNSSeen
  <2>1. /\ st' = Reaching(st, "DNS_VISIBLE") /\ Save(st')
        /\ pc = "dns" /\ pc' = "proxy" /\ screen' = screen
    BY <1>21 DEF DNSSeen, InstallFrame
  <2>2. AtLeast(3) BY <2>1, <1>i DEF ScreenFits, FarEnough, AtLeast, InstallStep
  <2>3. /\ st'.phase \in Chain /\ disk'.phase \in Chain
        /\ indexOf[st'.phase] >= 4 /\ indexOf[st'.phase] >= indexOf[st.phase]
    BY <1>a, <1>b, <1>i, <2>1, <2>2, ReachingRaises, IndexValues DEF Save, Chain, Phase, AtLeast
  <2>4. indexOf[st'.phase] \in Nat BY <2>3, IndexValues DEF Chain, Phase
  <2> QED BY <2>1, <2>3, <2>4, <1>i DEF ScreenFits, OnChain, FarEnough, AtLeast, Chain, InstallStep, RemoveStep
<1>22. CASE CertificateIssued
  <2>1. /\ st' = Reaching(st, "CERT_ISSUED") /\ Save(st')
        /\ pc = "cert" /\ pc' = "jellyfin" /\ screen' = screen
    BY <1>22 DEF CertificateIssued, InstallFrame
  <2>2. AtLeast(4) BY <2>1, <1>i DEF ScreenFits, FarEnough, AtLeast, InstallStep
  <2>3. /\ st'.phase \in Chain /\ disk'.phase \in Chain
        /\ indexOf[st'.phase] >= 5 /\ indexOf[st'.phase] >= indexOf[st.phase]
    BY <1>a, <1>b, <1>i, <2>1, <2>2, ReachingRaises, IndexValues DEF Save, Chain, Phase, AtLeast
  <2>4. indexOf[st'.phase] \in Nat BY <2>3, IndexValues DEF Chain, Phase
  <2> QED BY <2>1, <2>3, <2>4, <1>i DEF ScreenFits, OnChain, FarEnough, AtLeast, Chain, InstallStep, RemoveStep
<1>23. CASE ConfigureJellyfin
  <2>1. /\ st' = Reaching(st, "JELLYFIN_CONFIGURED") /\ Save(st')
        /\ pc = "jellyfin" /\ pc' = "sync" /\ screen' = screen
    BY <1>23 DEF ConfigureJellyfin, Configure, InstallFrame
  <2>2. AtLeast(5) BY <2>1, <1>i DEF ScreenFits, FarEnough, AtLeast, InstallStep
  <2>3. /\ st'.phase \in Chain /\ disk'.phase \in Chain
        /\ indexOf[st'.phase] >= 6 /\ indexOf[st'.phase] >= indexOf[st.phase]
    BY <1>a, <1>b, <1>i, <2>1, <2>2, ReachingRaises, IndexValues DEF Save, Chain, Phase, AtLeast
  <2>4. indexOf[st'.phase] \in Nat BY <2>3, IndexValues DEF Chain, Phase
  <2> QED BY <2>1, <2>3, <2>4, <1>i DEF ScreenFits, OnChain, FarEnough, AtLeast, Chain, InstallStep, RemoveStep
<1>24. CASE MoveJellyfin
  <2>1. /\ st' = Reaching(st, "JELLYFIN_CONFIGURED") /\ Save(st')
        /\ pc = "moveJellyfin" /\ pc' = "verify" /\ screen' = screen
    BY <1>24 DEF MoveJellyfin, Configure, InstallFrame
  <2>2. AtLeast(5) BY <2>1, <1>i DEF ScreenFits, FarEnough, AtLeast, InstallStep
  <2>3. /\ st'.phase \in Chain /\ disk'.phase \in Chain
        /\ indexOf[st'.phase] >= 6 /\ indexOf[st'.phase] >= indexOf[st.phase]
    BY <1>a, <1>b, <1>i, <2>1, <2>2, ReachingRaises, IndexValues DEF Save, Chain, Phase, AtLeast
  <2>4. indexOf[st'.phase] \in Nat BY <2>3, IndexValues DEF Chain, Phase
  <2> QED BY <2>1, <2>3, <2>4, <1>i DEF ScreenFits, OnChain, FarEnough, AtLeast, Chain, InstallStep, RemoveStep
<1>25. CASE Verify
  <2>1. /\ st' = Reaching(st, "VERIFIED") /\ Save(st')
        /\ pc = "verify" /\ pc' = "handover" /\ screen' = screen
    BY <1>25 DEF Verify, InstallFrame
  <2>2. AtLeast(6) BY <2>1, <1>i DEF ScreenFits, FarEnough, AtLeast, InstallStep
  <2>3. /\ st'.phase \in Chain /\ disk'.phase \in Chain
        /\ indexOf[st'.phase] >= 7 /\ indexOf[st'.phase] >= indexOf[st.phase]
    BY <1>a, <1>b, <1>i, <2>1, <2>2, ReachingRaises, IndexValues DEF Save, Chain, Phase, AtLeast
  <2>4. indexOf[st'.phase] \in Nat BY <2>3, IndexValues DEF Chain, Phase
  <2> QED BY <2>1, <2>3, <2>4, <1>i DEF ScreenFits, OnChain, FarEnough, AtLeast, Chain, InstallStep, RemoveStep
<1>26. CASE Handover
  <2>1. /\ st' = Reaching(st, "RUNNING") /\ Save(st')
        /\ pc = "handover" /\ pc' = "idle" /\ screen' = "done"
    BY <1>26 DEF Handover
  <2>2. AtLeast(7) BY <2>1, <1>i DEF ScreenFits, FarEnough, AtLeast, InstallStep
  <2>3. /\ st'.phase \in Chain /\ disk'.phase \in Chain
        /\ indexOf[st'.phase] >= 8 /\ indexOf[st'.phase] >= indexOf[st.phase]
    BY <1>a, <1>b, <1>i, <2>1, <2>2, ReachingRaises, IndexValues DEF Save, Chain, Phase, AtLeast
  <2>4. indexOf[st'.phase] \in Nat BY <2>3, IndexValues DEF Chain, Phase
  <2> QED BY <2>1, <2>3, <2>4, <1>i DEF ScreenFits, OnChain, FarEnough, AtLeast, Chain, InstallStep, RemoveStep
<1>27. CASE Launch
  <2>1. /\ st' = disk /\ disk' = disk /\ pc' = "idle" /\ screen' = "welcome"
    BY <1>27 DEF Launch, Fresh
  <2> QED BY <2>1, <1>b DEF ScreenFits, OnChain, FarEnough, AtLeast, Chain, InstallStep, RemoveStep
<1>28. CASE Quit
  <2>1. /\ st' = NewState /\ disk' = disk /\ pc' = "off" /\ screen' = "welcome"
    BY <1>28 DEF Quit
  <2> QED BY <2>1, <1>b, <1>c DEF ScreenFits, OnChain, FarEnough, AtLeast, Chain, InstallStep, RemoveStep
<1>29. CASE Start
  <2>0. PICK free \in {Reclaimed, FreePorts} :
            LET d == Choose(ProbeNow(free)) IN
            st' = Reaching([st EXCEPT !.mode = d.mode, !.port = d.port], "PROBED") /\ Save(st')
    BY <1>29 DEF Start
  <2> DEFINE d == Choose(ProbeNow(free))
             s == [st EXCEPT !.mode = d.mode, !.port = d.port]
  <2>1. s \in StateRecord /\ s.phase = st.phase
    <3>1. net \in Net BY NetAssumption DEF TypeOK
    <3>2. ProbeNow(free).mapping \in BOOLEAN BY <3>1 DEF ProbeNow, Net
    <3>3. d \in Decision BY <3>2, ChooseType
    <3> HIDE DEF d
    <3> QED BY <1>a, <3>3 DEF StateRecord, Decision, AnyPort
  <2> HIDE DEF s
  <2>2. /\ st' = Reaching(s, "PROBED") /\ Save(st') /\ pc = "idle" /\ pc' = "idle"
        /\ screen' \in {"jellyfin", "blocked"}
    BY <2>0, <1>29 DEF Start, s
  <2>3. st'.phase \in Chain /\ disk'.phase \in Chain /\ indexOf[st'.phase] >= 1
    BY <1>b, <1>i, <2>1, <2>2, ReachingRaises, IndexValues DEF Save, Chain, Phase
  <2> QED BY <2>2, <2>3 DEF ScreenFits, OnChain, FarEnough, AtLeast, Chain, InstallStep, RemoveStep
<1>30. ASSUME NEW n \in Names, ClaimName(n) PROVE (ScreenFits /\ OnChain /\ FarEnough)'
  <2>1. /\ st'.phase = st.phase /\ disk' = disk /\ screen = "name" /\ screen' = "name"
        /\ pc' \in {"idle", "claimed"}
    BY <1>30, <1>a DEF ClaimName, StateRecord
  <2> QED BY <2>1, <1>b DEF ScreenFits, OnChain, FarEnough, AtLeast, Chain, InstallStep, RemoveStep
<1>31. CASE PortMapped
  <2> DEFINE granted == [st EXCEPT !.mapping = PortAsked]
  <2>1. granted.phase = st.phase BY <1>a DEF StateRecord
  <2>2. Reaching(granted, "PORTS_MAPPED").phase = Record(st.phase, "PORTS_MAPPED")
    BY <2>1, <1>a DEF Reaching, StateRecord
  <2> HIDE DEF granted
  <2>3. /\ pc = "openPort" /\ pc' = "idle"
        /\ \/ st' = Reaching(granted, "PORTS_MAPPED") /\ Save(st') /\ screen' = "setup"
           \/ st' = granted /\ disk' \in {disk, st} /\ screen' = "port"
    BY <1>31 DEF PortMapped, AsksRouter, Save, granted
  <2>4. AtLeast(2) BY <2>3 DEF ScreenFits, FarEnough
  <2>5. /\ Record(st.phase, "PORTS_MAPPED") \in Chain
        /\ indexOf[Record(st.phase, "PORTS_MAPPED")] >= 3
    BY <1>b, <1>i, <2>4, RecordRaises, IndexValues DEF Chain, Phase, AtLeast
  <2>6. st'.phase \in Chain /\ disk'.phase \in Chain
    BY <1>b, <2>1, <2>2, <2>3, <2>5 DEF Save
  <2>7. \/ screen' = "setup" /\ indexOf[st'.phase] >= 3
        \/ screen' = "port" /\ indexOf[st'.phase] >= 2
    BY <2>1, <2>2, <2>3, <2>4, <2>5 DEF AtLeast
  <2> QED BY <2>3, <2>6, <2>7 DEF ScreenFits, OnChain, FarEnough, AtLeast, Chain, InstallStep, RemoveStep
<1>32. CASE InstallProxy \/ MoveProxy
  <2>1. /\ st' = st /\ disk' \in {disk, st} /\ screen' = screen
        /\ \/ pc = "proxy" /\ pc' \in {"cert", "idle"}
           \/ pc = "moveProxy" /\ pc' \in {"moveJellyfin", "idle"}
    BY <1>32 DEF InstallProxy, MoveProxy, ProxyUp, ProxyDown, Save, InstallFrame
  <2> QED BY <2>1, <1>b, <1>i DEF ScreenFits, OnChain, FarEnough, AtLeast, Chain, InstallStep, RemoveStep
<1>33. CASE SwitchToFallbackPort \/ MapFallbackPort
  <2>1. /\ st'.phase = st.phase /\ disk' \in {disk, st'} /\ screen' = screen
        /\ \/ pc = "verify" /\ pc' = "mapFallback"
           \/ pc = "mapFallback" /\ pc' = "moveProxy"
    BY <1>33, <1>a DEF SwitchToFallbackPort, MapFallbackPort, Save, InstallFrame, StateRecord
  <2> QED BY <2>1, <1>b, <1>i DEF ScreenFits, OnChain, FarEnough, AtLeast, Chain, InstallStep, RemoveStep
<1>34. CASE ResetRecord
  <2>1. /\ st'.phase = "NEW" /\ disk' \in {disk, st'} /\ screen' = "removed" /\ pc' = "idle"
    BY <1>34, <1>a DEF ResetRecord, Save, StateRecord
  <2> QED BY <2>1, <1>b, <1>c DEF ScreenFits, OnChain, FarEnough, AtLeast, Chain, InstallStep, RemoveStep
<1>35. CASE UNCHANGED vars
  BY <1>35 DEF vars, process, ScreenFits, OnChain, FarEnough, AtLeast
<1> QED
  BY <1>1, <1>2, <1>3, <1>4, <1>5, <1>6, <1>7, <1>8, <1>9, <1>10, <1>11, <1>12, <1>13, <1>14, <1>15, <1>16, <1>17, <1>18, <1>19, <1>20, <1>21, <1>22, <1>23, <1>24, <1>25, <1>26, <1>27, <1>28, <1>29, <1>30, <1>31, <1>32, <1>33, <1>34, <1>35, <1>36
     DEF Next, UserAction, OperationStep

-----------------------------------------------------------------------------
(* The inductive invariant. *)

IInv == PhaseInv /\ InstallsAName /\ MapsAPort

\* Only a launch, a kill, a claim and a removal change the name in memory.
LEMMA HostFrame ==
    TypeOK /\ [Next]_vars =>
        \/ st'.host = st.host
        \/ Launch \/ Quit \/ ResetRecord \/ \E n \in Names : ClaimName(n)
<1> SUFFICES ASSUME TypeOK, [Next]_vars,
                    ~Launch, ~Quit, ~ResetRecord, ~\E n \in Names : ClaimName(n)
             PROVE  st'.host = st.host
  OBVIOUS
<1>a. st \in StateRecord BY DEF TypeOK
<1>b. ASSUME NEW s \in StateRecord, NEW to \in Phase PROVE Reaching(s, to).host = s.host
  BY DEF Reaching, StateRecord
<1>1. CASE \/ RecordName \/ PortNotNeeded \/ SkipPort \/ Publish \/ DNSSeen \/ CertificateIssued
           \/ ConfigureJellyfin \/ MoveJellyfin \/ Verify \/ Handover
  <2>1. \E to \in Phase : st' = Reaching(st, to)
    BY <1>1 DEF RecordName, PortNotNeeded, SkipPort, Publish, DNSSeen, CertificateIssued,
                ConfigureJellyfin, MoveJellyfin, Configure, Verify, Handover, Phase
  <2> QED BY <2>1, <1>a, <1>b
<1>2. CASE Start
  <2>1. \E m, p : st' = Reaching([st EXCEPT !.mode = m, !.port = p], "PROBED")
    BY <1>2 DEF Start
  <2> QED BY <2>1, <1>a DEF Reaching, StateRecord
<1>3. CASE PortMapped
  <2>1. \E p : st' \in {[st EXCEPT !.mapping = p], Reaching([st EXCEPT !.mapping = p], "PORTS_MAPPED")}
    BY <1>3 DEF PortMapped
  <2> QED BY <2>1, <1>a DEF Reaching, StateRecord
<1>4. CASE SwitchToFallbackPort \/ MapFallbackPort
  BY <1>4, <1>a DEF SwitchToFallbackPort, MapFallbackPort, StateRecord
<1>5. CASE \/ SignIn \/ SetDynuKey \/ Back \/ OpenPort \/ Install \/ Remove \/ ForwardByHand
           \/ ShowGuide \/ PublishFails \/ InstallProxy \/ InstallSync \/ StepFails \/ MoveProxy
           \/ RemoveProxy \/ RemoveTimer \/ Unpublish \/ ForgetCredential \/ NetworkChanges
           \/ ProxyRestarts \/ UNCHANGED vars
  BY <1>5 DEF SignIn, SetDynuKey, Back, OpenPort, Install, Remove, ForwardByHand, ShowGuide,
              PublishFails, InstallProxy, ProxyUp, ProxyDown, InstallSync, StepFails, MoveProxy,
              RemoveProxy, RemoveTimer, Unpublish, ForgetCredential, RemoveFrame,
              NetworkChanges, ProxyRestarts, process, vars
<1> QED BY <1>1, <1>2, <1>3, <1>4, <1>5 DEF Next, UserAction, OperationStep

\* The running operation moves from one installation step to the next.
LEMMA InstallFrameStep ==
    [Next]_vars /\ pc' \in InstallStep \ {"publish"} =>
        \/ pc \in InstallStep \ {"publish"} /\ ~Launch /\ ~Quit /\ ~ResetRecord
           /\ \A n \in Names : ~ClaimName(n)
        \/ Publish
BY DEF Next, UserAction, OperationStep, vars, process, InstallFrame, RemoveFrame, InstallStep,
       Launch, Quit, Start, SignIn, SetDynuKey, Back, ClaimName, RecordName, OpenPort,
       PortNotNeeded, PortMapped, ShowGuide, SkipPort, Install, StepFails, PublishFails, DNSSeen,
       InstallProxy, ProxyUp, ProxyDown, CertificateIssued, Configure, ConfigureJellyfin,
       InstallSync, Verify, Handover, SwitchToFallbackPort, MapFallbackPort, MoveProxy,
       MoveJellyfin, Remove, RemoveProxy, RemoveTimer, Unpublish, ForgetCredential, ResetRecord,
       ForwardByHand, NetworkChanges, ProxyRestarts

LEMMA NameStep == TypeOK /\ InstallsAName /\ [Next]_vars => InstallsAName'
<1> SUFFICES ASSUME TypeOK, InstallsAName, [Next]_vars, (pc \in InstallStep \ {"publish"})'
             PROVE  st'.host \in Names
  BY DEF InstallsAName, InstallStep
<1>1. CASE pc \in InstallStep \ {"publish"} /\ ~Launch /\ ~Quit /\ ~ResetRecord
           /\ \A n \in Names : ~ClaimName(n)
  BY <1>1, HostFrame DEF InstallsAName
<1>2. CASE Publish
  <2>1. st.host \in Names BY <1>2 DEF Publish, TypeOK, StateRecord, AnyName
  <2>2. ~Launch /\ ~Quit /\ ~ResetRecord /\ \A n \in Names : ~ClaimName(n)
    BY <1>2 DEF Publish, Launch, Quit, ResetRecord, ClaimName, InstallStep
  <2> QED BY <2>1, <2>2, HostFrame
<1>3. pc' \in InstallStep \ {"publish"} BY DEF InstallStep
<1> QED BY <1>1, <1>2, <1>3, InstallFrameStep

LEMMA MapsStep == TypeOK /\ MapsAPort /\ [Next]_vars => MapsAPort'
<1> SUFFICES ASSUME TypeOK, MapsAPort, [Next]_vars PROVE MapsAPort'
  OBVIOUS
<1>1. CASE decision' = decision BY <1>1 DEF MapsAPort
<1>2. CASE Launch \/ Quit
  <2>1. decision' = Undecided BY <1>2 DEF Launch, Fresh, Quit
  <2>2. Undecided.map = FALSE BY DEF Undecided
  <2> QED BY <2>1, <2>2 DEF MapsAPort
<1>3. CASE Start
  <2>3. PICK free \in {Reclaimed, FreePorts} : decision' = Choose(ProbeNow(free))
    BY <1>3 DEF Start
  <2>1. Choose(ProbeNow(free)).map => choosePort(ProbeNow(free)) # NoPort
                                      /\ Choose(ProbeNow(free)).port = choosePort(ProbeNow(free))
    BY DEF Choose, ChoosePublic, Undecided
  <2>2. choosePort(ProbeNow(free)) \in Ports \cup {NoPort} BY DEF choosePort, Ports
  <2> QED BY <2>1, <2>2, <2>3 DEF MapsAPort
<1>4. CASE PortMapped
  <2>1. decision.port \in Ports BY <1>4 DEF PortMapped, AsksRouter, MapsAPort
  <2>2. PortAsked \in Ports BY <2>1 DEF PortAsked, Ports
  <2>3. decision'.port = PortAsked BY <1>4 DEF PortMapped, TypeOK, Decision
  <2> QED BY <2>2, <2>3 DEF MapsAPort
<1>5. CASE SwitchToFallbackPort
  <2>1. decision'.port = PortFallback BY <1>5 DEF SwitchToFallbackPort, TypeOK, Decision
  <2> QED BY <2>1 DEF MapsAPort, Ports
<1> QED BY <1>1, <1>2, <1>3, <1>4, <1>5, DecisionFrame

LEMMA InitIInv == Init => IInv
<1> SUFFICES ASSUME Init PROVE IInv
  OBVIOUS
<1>1. TypeOK
  <2>1. /\ disk \in StateRecord /\ st \in StateRecord /\ probed \in Probed /\ decision \in Decision
        /\ service \in Served /\ proxy \in Served /\ jellyfin \in Served
    BY FreshTypes, NothingType DEF Init
  <2>2. pc \in Step /\ screen \in Screen BY DEF Init, Step, Screen
  <2>3. router \in [Ports -> Host] BY DEF Init, Host
  <2>4. dns \in [Names -> SUBSET Families] BY DEF Init
  <2> QED BY <2>1, <2>2, <2>3, <2>4 DEF Init, TypeOK
<1>2. ScreenFits BY DEF Init, ScreenFits, InstallStep, RemoveStep
<1>3. OnChain BY DEF Init, OnChain, NewState, Phase
<1>4. FarEnough BY DEF Init, FarEnough
<1>5. InstallsAName BY DEF Init, InstallsAName, InstallStep
<1>6. MapsAPort BY DEF Init, MapsAPort, Undecided
<1> QED BY <1>1, <1>2, <1>3, <1>4, <1>5, <1>6 DEF IInv, PhaseInv

LEMMA IInvStep == IInv /\ [Next]_vars => IInv'
<1> SUFFICES ASSUME IInv, [Next]_vars PROVE IInv'
  OBVIOUS
<1>1. TypeOK' BY TypeStep DEF IInv, PhaseInv
<1>2. (ScreenFits /\ OnChain /\ FarEnough)' BY PhaseStep DEF IInv
<1>3. InstallsAName' BY NameStep DEF IInv, PhaseInv
<1>4. MapsAPort' BY MapsStep DEF IInv, PhaseInv
<1> QED BY <1>1, <1>2, <1>3, <1>4 DEF IInv, PhaseInv

LEMMA Invariant == Spec => []IInv
<1> QED BY InitIInv, IInvStep, PTL DEF Spec

\* Type correctness: what every step reads is of the kind it expects, in
\* particular a step of the unattended stretch finds a name and a port.
THEOREM Typing == Spec => []TypeOK
<1>1. IInv => TypeOK BY DEF IInv, PhaseInv
<1> QED BY <1>1, Invariant, PTL

\* The record is never behind the screen or the step it is on.
THEOREM PhasesFollow == Spec => []PhaseInv
<1>1. IInv => PhaseInv BY DEF IInv
<1> QED BY <1>1, Invariant, PTL

\* advance() never refuses a phase: its warning about an illegal transition is
\* unreachable, however setups were interrupted, resumed, renamed or removed.
THEOREM NeverRefused == Spec => []RecordIsNeverRefused
<1>1. ASSUME PhaseInv PROVE RecordIsNeverRefused
  <2>1. st.phase \in Chain BY <1>1 DEF PhaseInv, OnChain, Chain
  <2>2. indexOf[st.phase] \in Nat BY <2>1, IndexValues DEF Chain, Phase
  <2>3. ToRecord \in Chain BY DEF ToRecord, Chain, Phase
  <2>4. indexOf[st.phase] >= indexOf[ToRecord] - 1
    BY <1>1, <2>2, IndexValues
       DEF PhaseInv, ScreenFits, FarEnough, AtLeast, ToRecord, InstallStep
  <2> QED BY <2>1, <2>3, <2>4, OneShortIsEnough DEF RecordIsNeverRefused
<1> QED BY <1>1, PhasesFollow, PTL

-----------------------------------------------------------------------------
(* Names. *)

\* What is on disk was there before, or is what memory holds.
LEMMA DiskFrame == [Next]_vars => disk' \in {disk, st, st'}
BY DEF Next, UserAction, OperationStep, vars, Save,
       Launch, Quit, Start, SignIn, SetDynuKey, Back, ClaimName, RecordName, OpenPort,
       PortNotNeeded, PortMapped, ShowGuide, SkipPort, Install, StepFails, Publish, PublishFails,
       DNSSeen, InstallProxy, ProxyUp, ProxyDown, CertificateIssued, Configure, ConfigureJellyfin,
       InstallSync, Verify, Handover, SwitchToFallbackPort, MapFallbackPort, MoveProxy,
       MoveJellyfin, Remove, RemoveProxy, RemoveTimer, Unpublish, ForgetCredential, ResetRecord,
       ForwardByHand, NetworkChanges, ProxyRestarts

\* No step of the program deletes a name, and only a claim may add one.
LEMMA OwnedFrame ==
    [Next]_vars => \/ owned' = owned
                   \/ (Publish \/ PublishFails) /\ st.host # NoName /\ owned' = owned \cup {st.host}
                   \/ \E n \in Names : ClaimName(n) /\ owned' = owned \cup {n}
BY DEF Next, UserAction, OperationStep, vars, world, CreateDomain,
       Launch, Quit, Start, SignIn, SetDynuKey, Back, ClaimName, RecordName, OpenPort,
       PortNotNeeded, PortMapped, ShowGuide, SkipPort, Install, StepFails, Publish, PublishFails,
       DNSSeen, InstallProxy, ProxyUp, ProxyDown, CertificateIssued, Configure, ConfigureJellyfin,
       InstallSync, Verify, Handover, SwitchToFallbackPort, MapFallbackPort, MoveProxy,
       MoveJellyfin, Remove, RemoveProxy, RemoveTimer, Unpublish, ForgetCredential, ResetRecord,
       ForwardByHand, NetworkChanges, ProxyRestarts

LEMMA OursStep == TypeOK /\ RecordedNameIsOurs /\ [Next]_vars => RecordedNameIsOurs'
<1> SUFFICES ASSUME TypeOK, RecordedNameIsOurs, [Next]_vars PROVE RecordedNameIsOurs'
  OBVIOUS
<1>1. owned \subseteq owned' BY OwnedFrame
<1>2. st.host \in owned' \cup {NoName} /\ disk.host \in owned' \cup {NoName}
  BY <1>1 DEF RecordedNameIsOurs
<1>3. st'.host \in owned' \cup {NoName}
  <2>1. CASE st'.host = st.host BY <2>1, <1>2
  <2>2. CASE Launch BY <2>2, <1>2 DEF Launch, Fresh
  <2>3. CASE Quit BY <2>3 DEF Quit, NewState
  <2>4. CASE ResetRecord BY <2>4 DEF ResetRecord, TypeOK, StateRecord
  <2>5. ASSUME NEW n \in Names, ClaimName(n) PROVE st'.host \in owned' \cup {NoName}
    BY <2>5, <1>2 DEF ClaimName, CreateDomain, TypeOK, StateRecord
  <2> QED BY <2>1, <2>2, <2>3, <2>4, <2>5, HostFrame
<1>4. disk' \in {disk, st, st'} BY DiskFrame
<1> QED BY <1>2, <1>3, <1>4 DEF RecordedNameIsOurs

\* A record never claims a name Dynu did not grant, and no name is ever lost.
THEOREM NamesAreOurs == Spec => []RecordedNameIsOurs
<1>1. Init => RecordedNameIsOurs
  <2>1. NewState.host = NoName BY DEF NewState
  <2> QED BY <2>1 DEF Init, RecordedNameIsOurs
<1> QED BY <1>1, OursStep, Typing, PTL DEF Spec

\* The unattended stretch, which publishes the name again on every run and every
\* retry, never uses up another of the account's names.
THEOREM SpendsNoName == Spec => InstallSpendsNoName
<1>1. ASSUME TypeOK, RecordedNameIsOurs, [Next]_vars, pc \in InstallStep
      PROVE  owned' = owned
  <2>1. ~(\E n \in Names : ClaimName(n)) BY <1>1 DEF ClaimName, InstallStep
  <2>2. owned' = owned \/ (st.host # NoName /\ owned' = owned \cup {st.host})
    BY <1>1, <2>1, OwnedFrame
  <2>3. CASE st.host # NoName /\ owned' = owned \cup {st.host}
    BY <2>3, <1>1 DEF RecordedNameIsOurs
  <2> QED BY <2>2, <2>3
<1>2. TypeOK /\ RecordedNameIsOurs /\ [Next]_vars => [(pc \in InstallStep) => owned' = owned]_vars
  BY <1>1
<1> QED BY <1>2, Typing, NamesAreOurs, PTL DEF Spec, InstallSpendsNoName

-----------------------------------------------------------------------------
(* The handover screen. *)

\* The steps after the name was published.
Installing == InstallStep \ {"publish"}
Configured == {"sync", "verify", "handover"}

\* The old proxy may go on where it listened only after a move to the other port.
Runs == \/ proxy \in {service, Nothing}
        \/ switched /\ proxy = [host |-> st.host, port |-> PortPreferred]

\* What the stretch has settled, step by step: the name is published and the record
\* saved; the registered proxy is the wanted one, but for the middle of a move, and
\* what runs is it or, from the certificate on, the one before a move; the
\* certificate is there; Jellyfin publishes the same address.
Settles ==
    /\ pc \in Installing => dns[st.host] = Published /\ (~SaveMayFail => disk = st)
    /\ pc \in Configured \cup {"cert", "jellyfin", "moveJellyfin"} => service = Wanted
    /\ pc \in {"mapFallback", "moveProxy"} =>
           switched /\ service = [host |-> st.host, port |-> PortPreferred]
    /\ pc \in Installing \ {"dns", "proxy", "cert"} => st.host \in certs /\ Runs
    /\ pc \in Configured => jellyfin = Wanted

LEMMA ReachingKeeps ==
    ASSUME NEW s \in StateRecord, NEW to
    PROVE  Reaching(s, to).host = s.host /\ Reaching(s, to).port = s.port
BY DEF Reaching, StateRecord

\* Which steps lead on along the stretch.
LEMMA StretchSteps ==
    ASSUME ScreenFits, [Next]_vars, pc' \in Installing
    PROVE  \/ Publish \/ DNSSeen \/ InstallProxy \/ CertificateIssued \/ ConfigureJellyfin
           \/ InstallSync \/ Verify \/ SwitchToFallbackPort \/ MapFallbackPort \/ MoveProxy
           \/ MoveJellyfin \/ ProxyRestarts
           \/ UNCHANGED <<disk, process, world>>
<1> USE DEF Installing, InstallStep
<1>1. CASE Start \/ SignIn \/ SetDynuKey \/ Back \/ SkipPort \/ ForwardByHand
  BY <1>1 DEF Start, SignIn, SetDynuKey, Back, SkipPort, ForwardByHand, process
<1>2. CASE Launch \/ Quit \/ RecordName \/ OpenPort \/ Install \/ \E n \in Names : ClaimName(n)
  BY <1>2 DEF Launch, Quit, RecordName, OpenPort, Install, ClaimName
<1>3. CASE PortNotNeeded \/ PortMapped \/ ShowGuide \/ StepFails \/ PublishFails \/ Handover
  BY <1>3 DEF PortNotNeeded, PortMapped, ShowGuide, StepFails, PublishFails, Handover
<1>4. CASE Remove \/ RemoveProxy \/ RemoveTimer \/ Unpublish \/ ForgetCredential \/ ResetRecord
  BY <1>4 DEF Remove, RemoveProxy, RemoveTimer, Unpublish, ForgetCredential, ResetRecord
<1>5. CASE NetworkChanges \/ UNCHANGED vars
  BY <1>5 DEF NetworkChanges, vars
<1> QED BY <1>1, <1>2, <1>3, <1>4, <1>5 DEF Next, UserAction, OperationStep

LEMMA SettlesStep == IInv /\ Settles /\ [Next]_vars => Settles'
<1> SUFFICES ASSUME IInv, Settles, [Next]_vars, pc' \in Installing PROVE Settles'
  BY DEF Settles, Installing, InstallStep, Configured
<1>a. st \in StateRecord /\ TypeOK /\ ScreenFits BY DEF IInv, PhaseInv, TypeOK
<1> USE DEF Installing, InstallStep, Configured
<1>1. CASE Publish
  <2>1. /\ pc' = "dns" /\ probed' = probed
        /\ dns' = [dns EXCEPT ![st.host] = Published]
        /\ st' = Reaching(st, "DOMAIN_CLAIMED") /\ Save(st')
        /\ st.host \in Names
    BY <1>1, <1>a DEF Publish, CreateDomain, InstallFrame, StateRecord, AnyName
  <2>2. st'.host = st.host BY <2>1, <1>a, ReachingKeeps
  <2>3. dns'[st'.host] = Published' BY <2>1, <2>2, <1>a DEF TypeOK, Published
  <2>4. ~SaveMayFail => disk' = st' BY <2>1 DEF Save
  <2> QED BY <2>1, <2>3, <2>4 DEF Settles
<1>2. CASE DNSSeen
  <2>1. /\ pc = "dns" /\ pc' = "proxy" /\ probed' = probed /\ dns' = dns
        /\ st' = Reaching(st, "DNS_VISIBLE") /\ Save(st')
    BY <1>2 DEF DNSSeen, InstallFrame, world
  <2>2. st'.host = st.host BY <2>1, <1>a, ReachingKeeps
  <2> QED BY <2>1, <2>2 DEF Settles, Published, Save
<1>3. CASE InstallProxy \/ MoveProxy
  <2>1. /\ \/ pc = "proxy" /\ pc' = "cert"
           \/ pc = "moveProxy" /\ pc' = "moveJellyfin"
        /\ ProxyUp
    BY <1>3 DEF InstallProxy, MoveProxy, ProxyDown
  <2>2. /\ service' = Wanted /\ proxy' \in {Wanted, proxy, Nothing} /\ Save(st)
        /\ UNCHANGED <<st, dns, certs, probed, switched>>
    BY <2>1 DEF ProxyUp, Able, InstallFrame
  <2>3. Wanted' = Wanted BY <2>2 DEF Wanted
  <2> QED BY <2>1, <2>2, <2>3 DEF Settles, Runs, Published, Save
<1>4. CASE CertificateIssued
  <2>1. /\ pc = "cert" /\ pc' = "jellyfin" /\ certs' = certs \cup {st.host}
        /\ st' = Reaching(st, "CERT_ISSUED") /\ Save(st') /\ proxy = Wanted
        /\ UNCHANGED <<dns, service, proxy, probed, switched>>
    BY <1>4 DEF CertificateIssued, InstallFrame
  <2>2. st'.host = st.host /\ st'.port = st.port BY <2>1, <1>a, ReachingKeeps
  <2>3. Wanted' = Wanted BY <2>2 DEF Wanted
  <2> QED BY <2>1, <2>2, <2>3 DEF Settles, Runs, Published, Save
<1>5. CASE ConfigureJellyfin \/ MoveJellyfin
  <2>1. /\ \/ pc = "jellyfin" /\ pc' = "sync"
           \/ pc = "moveJellyfin" /\ pc' = "verify"
        /\ jellyfin' = Wanted
        /\ st' = Reaching(st, "JELLYFIN_CONFIGURED") /\ Save(st')
        /\ UNCHANGED <<dns, service, proxy, certs, probed, switched>>
    BY <1>5 DEF ConfigureJellyfin, MoveJellyfin, Configure, InstallFrame
  <2>2. st'.host = st.host /\ st'.port = st.port BY <2>1, <1>a, ReachingKeeps
  <2>3. Wanted' = Wanted BY <2>2 DEF Wanted
  <2> QED BY <2>1, <2>2, <2>3 DEF Settles, Runs, Published, Save
<1>6. CASE InstallSync
  <2>1. /\ pc = "sync" /\ pc' = "verify" /\ (Save(st) \/ UNCHANGED disk)
        /\ UNCHANGED <<st, dns, service, proxy, certs, jellyfin, probed, switched>>
    BY <1>6 DEF InstallSync, InstallFrame
  <2> QED BY <2>1 DEF Settles, Runs, Wanted, Published, Save
<1>7. CASE Verify
  <2>1. /\ pc = "verify" /\ pc' = "handover"
        /\ st' = Reaching(st, "VERIFIED") /\ Save(st')
        /\ UNCHANGED <<dns, service, proxy, certs, jellyfin, probed, switched>>
    BY <1>7 DEF Verify, InstallFrame, world
  <2>2. st'.host = st.host /\ st'.port = st.port BY <2>1, <1>a, ReachingKeeps
  <2>3. Wanted' = Wanted BY <2>2 DEF Wanted
  <2> QED BY <2>1, <2>2, <2>3 DEF Settles, Runs, Published, Save
<1>8. CASE SwitchToFallbackPort
  <2>1. /\ pc = "verify" /\ pc' = "mapFallback" /\ switched' = TRUE /\ ~switched
        /\ st.port = PortPreferred
        /\ st' = [st EXCEPT !.port = PortFallback] /\ Save(st')
        /\ UNCHANGED <<dns, service, proxy, certs, probed>>
    BY <1>8 DEF SwitchToFallbackPort, MaySwitch, world
  <2>2. st'.host = st.host BY <2>1, <1>a DEF StateRecord
  <2> QED BY <2>1, <2>2 DEF Settles, Runs, Wanted, Published, Save
<1>9. CASE MapFallbackPort
  <2>1. /\ pc = "mapFallback" /\ pc' = "moveProxy"
        /\ \/ st' = [st EXCEPT !.mapping = PortFallback] /\ Save(st')
           \/ UNCHANGED <<st, disk>>
        /\ UNCHANGED <<dns, service, proxy, certs, probed, switched>>
    BY <1>9 DEF MapFallbackPort, InstallFrame
  <2>2. st'.host = st.host BY <2>1, <1>a DEF StateRecord
  <2> QED BY <2>1, <2>2 DEF Settles, Runs, Published, Save
<1>10. CASE ProxyRestarts
  <2>1. /\ proxy' \in {service, Nothing}
        /\ UNCHANGED <<disk, process, dns, service, certs, jellyfin>>
    BY <1>10 DEF ProxyRestarts, Able
  <2> QED BY <2>1 DEF Settles, Runs, Wanted, process, Published
<1>11. CASE UNCHANGED <<disk, process, world>>
  BY <1>11 DEF Settles, Runs, Wanted, process, world, Published
<1> QED
  BY <1>a, <1>1, <1>2, <1>3, <1>4, <1>5, <1>6, <1>7, <1>8, <1>9, <1>10, <1>11, StretchSteps

\* The handover screen is entered from the last step and left alone.
LEMMA DoneSteps ==
    ASSUME ScreenFits, [Next]_vars, screen' = "done"
    PROVE  \/ Handover
           \/ /\ screen = "done"
              /\ \/ UNCHANGED <<disk, process, world>>
                 \/ ProxyRestarts
<1> USE DEF InstallStep, RemoveStep
<1>1. CASE \/ Start \/ SignIn \/ SetDynuKey \/ Back \/ SkipPort \/ ForwardByHand \/ OpenPort
           \/ Install \/ Remove \/ \E n \in Names : ClaimName(n)
  BY <1>1 DEF Start, SignIn, SetDynuKey, Back, previousScreen, SkipPort, ForwardByHand, process,
              OpenPort, Install, Remove, ClaimName
<1>2. CASE Launch \/ Quit \/ RecordName \/ PortNotNeeded \/ PortMapped \/ ShowGuide \/ ResetRecord
  BY <1>2 DEF Launch, Fresh, Quit, RecordName, PortNotNeeded, PortMapped, ShowGuide, ResetRecord
<1>3. CASE \/ Publish \/ PublishFails \/ DNSSeen \/ InstallProxy \/ CertificateIssued
           \/ ConfigureJellyfin \/ InstallSync \/ Verify \/ StepFails \/ SwitchToFallbackPort
           \/ MapFallbackPort \/ MoveProxy \/ MoveJellyfin
  <2>1. screen = "setup"
    BY <1>3 DEF ScreenFits, Publish, PublishFails, DNSSeen, InstallProxy, CertificateIssued,
                ConfigureJellyfin, InstallSync, Verify, StepFails, SwitchToFallbackPort,
                MapFallbackPort, MoveProxy, MoveJellyfin
  <2>2. screen' \in {screen, "setup", "name"}
    BY <1>3 DEF Publish, PublishFails, DNSSeen, InstallProxy, ProxyUp, ProxyDown,
                CertificateIssued, ConfigureJellyfin, Configure, InstallSync, Verify, StepFails,
                SwitchToFallbackPort, MapFallbackPort, MoveProxy, MoveJellyfin, InstallFrame
  <2> QED BY <2>1, <2>2
<1>4. CASE RemoveProxy \/ RemoveTimer \/ Unpublish \/ ForgetCredential
  BY <1>4 DEF RemoveProxy, RemoveTimer, Unpublish, ForgetCredential, RemoveFrame, ScreenFits
<1>5. CASE NetworkChanges \/ UNCHANGED vars
  BY <1>5 DEF NetworkChanges, vars, process, world
<1>6. CASE Handover
  BY <1>6, Zenon
<1>7. CASE ProxyRestarts
  BY <1>7 DEF ProxyRestarts, process
<1> QED BY <1>1, <1>2, <1>3, <1>4, <1>5, <1>6, <1>7, Zenon DEF Next, UserAction, OperationStep

LEMMA DoneStep == IInv /\ Settles /\ DoneIsCoherent /\ [Next]_vars => DoneIsCoherent'
<1> SUFFICES ASSUME IInv, Settles, DoneIsCoherent, [Next]_vars, screen' = "done"
             PROVE  DoneIsCoherent'
  BY DEF DoneIsCoherent
<1>a. st \in StateRecord BY DEF IInv, PhaseInv, TypeOK
<1>1. CASE Handover
  <2>1. /\ pc = "handover" /\ st' = Reaching(st, "RUNNING") /\ Save(st')
        /\ UNCHANGED <<service, proxy, jellyfin, certs, dns, probed, switched>>
    BY <1>1 DEF Handover, world
  <2>2. st'.host = st.host /\ st'.port = st.port BY <2>1, <1>a, ReachingKeeps
  <2>3. /\ service = Wanted /\ jellyfin = Wanted /\ st.host \in certs /\ Runs
        /\ dns[st.host] = Published
    BY <2>1 DEF Settles, Installing, InstallStep, Configured
  <2>4. Wanted' = Wanted BY <2>2 DEF Wanted
  <2>5. st'.phase = "RUNNING"
    <3>1. st.phase \in Phase \ {"DEGRADED"} /\ indexOf[st.phase] >= 7
      BY <2>1 DEF IInv, PhaseInv, OnChain, FarEnough, AtLeast
    <3>2. st.phase \in {"VERIFIED", "RUNNING"}
      BY <3>1, IndexValues DEF Phase
    <3>3. Record(st.phase, "RUNNING") = "RUNNING"
      BY <3>2, IndexValues DEF Record, Reached, Advance, CanAdvance, transitions
    <3> QED BY <2>1, <3>3, <1>a DEF Reaching, StateRecord
  <2>6. ~SaveMayFail => disk' = st' BY <2>1 DEF Save
  <2>7. Published' = Published BY <2>1 DEF Published
  <2>8. proxy' \in {Wanted', Nothing} \/ (switched' /\ proxy' = [Wanted' EXCEPT !.port = PortPreferred])
    BY <2>1, <2>3, <2>4 DEF Runs, Wanted
  <2> QED BY <2>1, <2>2, <2>3, <2>4, <2>5, <2>6, <2>7, <2>8 DEF DoneIsCoherent
<1>2. CASE screen = "done" /\ UNCHANGED <<disk, process, world>>
  BY <1>2 DEF DoneIsCoherent, Wanted, process, world, Published
<1>3. CASE screen = "done" /\ ProxyRestarts
  <2>1. /\ proxy' \in {service, Nothing}
        /\ UNCHANGED <<disk, process, dns, service, certs, jellyfin>>
    BY <1>3 DEF ProxyRestarts, Able
  <2> QED BY <1>3, <2>1 DEF DoneIsCoherent, Wanted, process, Published
<1> QED BY <1>1, <1>2, <1>3, DoneSteps DEF IInv, PhaseInv

\* When the handover screen is shown the registered proxy, Jellyfin's published
\* address, the Dynu record, the certificate and the saved record speak of one name
\* and one port, and what runs is what is registered or nothing; only after a move
\* to the other port may the proxy of before it go on (Wizard.Install to handover).
THEOREM DoneCoheres == Spec => []DoneIsCoherent
<1>1. Init => Settles /\ DoneIsCoherent
  BY DEF Init, Settles, Installing, InstallStep, Configured, DoneIsCoherent
<1>2. IInv /\ Settles /\ DoneIsCoherent /\ [Next]_vars => (Settles /\ DoneIsCoherent)'
  BY SettlesStep, DoneStep
<1> QED BY <1>1, <1>2, Invariant, PTL DEF Spec

\* A proxy is registered only under a name the record on disk holds, as long as the
\* record can be saved, so that a later launch offers repair and removal.
THEOREM InstallsRecorded ==
    ASSUME ~SaveMayFail
    PROVE  Spec => InstallsUnderARecordedName
<1>1. IInv /\ Settles /\ [Next]_vars =>
          [service' \notin {service, Nothing} => disk.host = service'.host]_vars
  <2> SUFFICES ASSUME IInv, Settles, Next, service' \notin {service, Nothing}
               PROVE  disk.host = service'.host
    BY DEF vars, world
  <2>1. InstallProxy \/ MoveProxy
    BY DEF Next, UserAction, OperationStep, process, world,
       Launch, Quit, Start, SignIn, SetDynuKey, Back, ClaimName, RecordName,
       OpenPort, PortNotNeeded, PortMapped, ShowGuide, SkipPort, Install, StepFails, Publish,
       PublishFails, DNSSeen, CertificateIssued, Configure,
       ConfigureJellyfin, InstallSync, Verify, Handover, SwitchToFallbackPort, MapFallbackPort,
       MoveJellyfin, Remove, RemoveProxy, RemoveTimer, Unpublish, ForgetCredential, ResetRecord,
       ForwardByHand, NetworkChanges, ProxyRestarts
  <2>2. pc \in {"proxy", "moveProxy"} /\ service' = Wanted
    BY <2>1 DEF InstallProxy, MoveProxy, ProxyUp, ProxyDown
  <2>3. disk = st
    BY <2>2 DEF Settles, Installing, InstallStep
  <2> QED BY <2>2, <2>3 DEF Wanted
<1>2. Init => Settles
  BY DEF Init, Settles, Installing, InstallStep, Configured
<1>3. IInv /\ Settles /\ [Next]_vars => Settles'
  BY SettlesStep
<1> QED BY <1>1, <1>2, <1>3, Invariant, PTL DEF Spec, InstallsUnderARecordedName

-----------------------------------------------------------------------------
(* The record on disk implements SetupProgress, as long as it can be saved. *)

Claims(phase) == indexOf[phase] >= 2

\* The record in memory is the one on disk, but for a claim that is not recorded
\* yet, and a name is there exactly from DOMAIN_CLAIMED on.
Saved ==
    /\ pc # "off" => disk.phase = st.phase
    /\ pc \notin {"off", "claimed"} => disk.host = st.host
    /\ pc = "claimed" => st.host \in Names
    /\ disk.host # NoName <=> Claims(disk.phase)

\* A step of SetupProgress, or none.
Follows == [Progress!Next]_<<disk.phase, disk.host>>

LEMMA ClaimsClaimed ==
    ASSUME NEW p \in Chain
    PROVE  Progress!Claimed(p) <=> Claims(p)
<1>1. Progress!Claimed(p) <=> /\ Progress!indexOf[p] >= 0
                              /\ Progress!indexOf["DOMAIN_CLAIMED"] >= 0
                              /\ Progress!indexOf[p] >= Progress!indexOf["DOMAIN_CLAIMED"]
  BY DEF Progress!Claimed, Progress!Reached
<1>2. Progress!indexOf = indexOf
  BY DEF Progress!indexOf, indexOf
<1> QED BY <1>1, <1>2, IndexValues DEF Claims, Chain, Phase

LEMMA SameChain == Progress!Phase = Phase /\ Progress!transitions = transitions
BY DEF Progress!Phase, Phase, Progress!transitions, transitions

\* Recording a phase leaves it or takes the next one on the chain; only recording
\* DOMAIN_CLAIMED brings the record among those that hold a name.
LEMMA RecordFollows ==
    ASSUME NEW here \in Chain, NEW to \in Chain, indexOf[here] >= indexOf[to] - 1
    PROVE  \/ Record(here, to) = here
           \/ /\ Record(here, to) = to
              /\ <<here, to>> \in transitions
              /\ to # "DOMAIN_CLAIMED" => (Claims(to) <=> Claims(here))
              /\ to = "DOMAIN_CLAIMED" => Claims(to) /\ ~Claims(here)
BY IndexValues DEF Chain, Phase, Record, Advance, Reached, CanAdvance, transitions, Claims

\* A step that keeps phase and name keeps all of it.
LEMMA SameFollows ==
    ASSUME IInv, Saved, st'.phase = st.phase, st'.host = st.host, disk' \in {disk, st, st'},
           \/ pc' = pc /\ disk' = disk
           \/ {pc, pc'} \cap {"off", "claimed"} = {}
    PROVE  Saved' /\ Follows
BY DEF Saved, Follows

\* And so does one that records a phase without giving the record a name.
LEMMA OnwardFollows ==
    ASSUME IInv, Saved, disk' = st', st'.host = st.host,
           NEW to \in Chain, st'.phase = Record(st.phase, to),
           indexOf[st.phase] >= indexOf[to] - 1,
           to = "DOMAIN_CLAIMED" => Claims(st.phase),
           {pc, pc'} \cap {"off", "claimed"} = {}
    PROVE  Saved' /\ Follows
<1>1. st.phase \in Chain /\ disk.phase = st.phase /\ disk.host = st.host
  BY DEF IInv, PhaseInv, OnChain, Saved, Chain
<1>2. CASE st'.phase = st.phase
  BY <1>1, <1>2 DEF Saved, Follows
<1>3. CASE /\ st'.phase = to /\ <<st.phase, to>> \in transitions
           /\ Claims(to) <=> Claims(st.phase)
  <2>1. Saved'
    BY <1>1, <1>3 DEF Saved
  <2>2. Progress!Follow
    <3>1. to \in Phase /\ disk'.phase = to /\ disk'.host = disk.host
      BY <1>1, <1>3 DEF Chain
    <3>2. <<disk.phase, to>> \in transitions /\ ~(Progress!Claimed(to) /\ ~Progress!Claimed(disk.phase))
      BY <1>1, <1>3, ClaimsClaimed
    <3> QED BY <3>1, <3>2, SameChain DEF Progress!Follow
  <2> QED BY <2>1, <2>2 DEF Follows, Progress!Next
<1> QED BY <1>1, <1>2, <1>3, RecordFollows

LEMMA InitSaved == Init => Saved
<1>1. ~Claims("NEW")
  BY IndexValues DEF Claims
<1>2. Init => disk = NewState /\ st = NewState /\ pc = "off"
  BY Zenon DEF Init
<1>3. NewState.phase = "NEW" /\ NewState.host = NoName
  BY DEF NewState
<1> QED BY <1>1, <1>2, <1>3 DEF Saved

\* The steps that record a phase and keep the name find the record at most one
\* phase short; the one that records DOMAIN_CLAIMED again finds it claimed.
LEMMA OnwardSteps ==
    ASSUME IInv,
           \/ PortNotNeeded \/ SkipPort \/ Publish \/ DNSSeen \/ CertificateIssued
           \/ ConfigureJellyfin \/ MoveJellyfin \/ Verify \/ Handover
    PROVE  \E to \in Chain :
               /\ st' = Reaching(st, to) /\ Save(st')
               /\ indexOf[st.phase] >= indexOf[to] - 1
               /\ to = "DOMAIN_CLAIMED" => Claims(st.phase)
<1>a. ScreenFits /\ FarEnough /\ st.phase \in Chain
  BY DEF IInv, PhaseInv, OnChain, Chain
<1>i. indexOf[st.phase] \in Nat BY <1>a, IndexValues DEF Chain, Phase
<1>t. {"DOMAIN_CLAIMED", "PORTS_MAPPED", "DNS_VISIBLE", "CERT_ISSUED", "JELLYFIN_CONFIGURED",
       "VERIFIED", "RUNNING"} \subseteq Chain
  BY DEF Chain, Phase
<1>1. CASE PortNotNeeded \/ SkipPort
  BY <1>1, <1>a, <1>i, <1>t, IndexValues
     DEF PortNotNeeded, SkipPort, ScreenFits, FarEnough, AtLeast
<1>2. CASE Publish \/ DNSSeen
  BY <1>2, <1>a, <1>i, <1>t, IndexValues
     DEF Publish, DNSSeen, ScreenFits, FarEnough, AtLeast, InstallStep, Claims
<1>3. CASE CertificateIssued \/ ConfigureJellyfin \/ MoveJellyfin
  BY <1>3, <1>a, <1>i, <1>t, IndexValues
     DEF CertificateIssued, ConfigureJellyfin, MoveJellyfin, Configure, FarEnough, AtLeast
<1>4. CASE Verify \/ Handover
  BY <1>4, <1>a, <1>i, <1>t, IndexValues DEF Verify, Handover, FarEnough, AtLeast
<1> QED BY <1>1, <1>2, <1>3, <1>4

LEMMA ProgressStep == ~SaveMayFail /\ IInv /\ Saved /\ [Next]_vars => Saved' /\ Follows
<1> SUFFICES ASSUME ~SaveMayFail, IInv, Saved, [Next]_vars PROVE Saved' /\ Follows
  OBVIOUS
<1>a. /\ st \in StateRecord /\ TypeOK /\ ScreenFits /\ FarEnough
      /\ st.phase \in Chain /\ disk.phase \in Chain
  BY DEF IInv, PhaseInv, TypeOK, OnChain, Chain
<1>i. indexOf[st.phase] \in Nat BY <1>a, IndexValues DEF Chain, Phase
<1>s. ASSUME NEW s, Save(s) PROVE disk' = s BY <1>s DEF Save
<1>r. ASSUME NEW s \in StateRecord, NEW to
      PROVE  Reaching(s, to).host = s.host /\ Reaching(s, to).phase = Record(s.phase, to)
  BY DEF Reaching, StateRecord
<1>1. CASE \/ SetDynuKey \/ Back \/ OpenPort \/ ShowGuide \/ Install \/ StepFails \/ PublishFails
           \/ Remove \/ RemoveProxy \/ RemoveTimer \/ ForgetCredential \/ ForwardByHand
  <2>1. disk' = disk /\ st' = st /\ {pc, pc'} \cap {"off", "claimed"} = {}
    BY <1>1 DEF SetDynuKey, Back, OpenPort, ShowGuide, Install, StepFails, PublishFails, Remove,
                RemoveProxy, RemoveTimer, ForgetCredential, RemoveFrame, ForwardByHand, process
  <2> QED BY <2>1, SameFollows
<1>2. CASE SignIn \/ InstallProxy \/ MoveProxy \/ InstallSync \/ Unpublish
  <2>1. disk' \in {disk, st} /\ st' = st /\ {pc, pc'} \cap {"off", "claimed"} = {}
    BY <1>2, <1>s DEF SignIn, InstallProxy, MoveProxy, ProxyUp, ProxyDown, InstallSync,
                      Unpublish, RemoveFrame
  <2> QED BY <2>1, SameFollows
<1>3. CASE NetworkChanges \/ ProxyRestarts \/ UNCHANGED vars
  <2>1. disk' = disk /\ st' = st /\ pc' = pc
    BY <1>3 DEF NetworkChanges, ProxyRestarts, process, vars
  <2> QED BY <2>1, SameFollows
<1>4. CASE Launch \/ Quit
  <2>1. disk' = disk /\ (pc' = "off" \/ (pc' = "idle" /\ st' = disk))
    BY <1>4 DEF Launch, Fresh, Quit
  <2> QED BY <2>1 DEF Saved, Follows
<1>5. ASSUME NEW n \in Names, ClaimName(n) PROVE Saved' /\ Follows
  <2>1. /\ disk' = disk /\ pc = "idle"
        /\ \/ pc' = "claimed" /\ st' = [st EXCEPT !.host = n]
           \/ pc' = pc /\ st' = st
    BY <1>5 DEF ClaimName
  <2> QED BY <2>1, <1>a DEF Saved, Follows, StateRecord
<1>6. CASE RecordName
  <2>1. /\ pc = "claimed" /\ pc' = "openPort"
        /\ st' = Reaching(st, "DOMAIN_CLAIMED") /\ disk' = st'
        /\ screen = "name" /\ indexOf[st.phase] >= 1
    BY <1>6, <1>s, <1>a DEF RecordName, ScreenFits, FarEnough, AtLeast
  <2>2. /\ disk'.host = st.host /\ disk'.phase = Record(st.phase, "DOMAIN_CLAIMED")
        /\ st.host \in Names /\ st.host # NoName /\ disk.phase = st.phase
    BY <2>1, <1>a, <1>r, NameAssumption DEF Saved
  <2>3. "DOMAIN_CLAIMED" \in Chain /\ indexOf[st.phase] >= indexOf["DOMAIN_CLAIMED"] - 1
    BY <2>1, <1>i, IndexValues DEF Chain, Phase
  <2>4. CASE Claims(st.phase)
    <3>1. disk'.phase = st.phase
      BY <2>2, <2>3, <2>4, <1>a, RecordFollows
    <3>2. Progress!Claimed(disk.phase)
      BY <2>2, <2>4, <1>a, ClaimsClaimed
    <3>3. Progress!Rename
      BY <2>2, <3>1, <3>2 DEF Progress!Rename
    <3> QED BY <2>1, <2>2, <2>4, <3>1, <3>3 DEF Saved, Follows, Progress!Next
  <2>5. CASE ~Claims(st.phase)
    <3>1. Record(st.phase, "DOMAIN_CLAIMED") # st.phase
      BY <2>1, <2>5, <1>a, <1>i, IndexValues
         DEF Claims, Chain, Phase, Record, Advance, Reached, CanAdvance, transitions
    <3>2. /\ disk'.phase = "DOMAIN_CLAIMED" /\ <<disk.phase, "DOMAIN_CLAIMED">> \in transitions
          /\ Claims("DOMAIN_CLAIMED")
      BY <2>2, <2>3, <3>1, <1>a, RecordFollows
    <3>3. Progress!Claimed("DOMAIN_CLAIMED") /\ ~Progress!Claimed(disk.phase)
      BY <2>2, <2>3, <2>5, <3>2, <1>a, ClaimsClaimed
    <3>4. Progress!Follow
      BY <2>2, <2>3, <3>2, <3>3, SameChain DEF Progress!Follow, Chain
    <3> QED BY <2>1, <2>2, <3>2, <3>4 DEF Saved, Follows, Progress!Next
  <2> QED BY <2>4, <2>5
<1>7. CASE \/ PortNotNeeded \/ SkipPort \/ Publish \/ DNSSeen \/ CertificateIssued
           \/ ConfigureJellyfin \/ MoveJellyfin \/ Verify \/ Handover
  <2>2. PICK to \in Chain :
            /\ st' = Reaching(st, to) /\ Save(st')
            /\ indexOf[st.phase] >= indexOf[to] - 1
            /\ to = "DOMAIN_CLAIMED" => Claims(st.phase)
    BY <1>7, OnwardSteps
  <2>3. {pc, pc'} \cap {"off", "claimed"} = {}
    BY <1>7 DEF PortNotNeeded, SkipPort, Publish, DNSSeen, CertificateIssued,
                ConfigureJellyfin, MoveJellyfin, Verify, Handover
  <2>4. disk' = st' /\ st'.host = st.host /\ st'.phase = Record(st.phase, to)
    BY <2>2, <1>a, <1>s, <1>r
  <2> QED BY <2>2, <2>3, <2>4, OnwardFollows
<1>8. CASE Start
  <2>1. \E m, p : st' = Reaching([st EXCEPT !.mode = m, !.port = p], "PROBED")
    BY <1>8 DEF Start
  <2>2. st'.host = st.host /\ st'.phase = Record(st.phase, "PROBED")
    BY <2>1, <1>a DEF Reaching, StateRecord
  <2>3. disk' = st' /\ pc' = pc /\ pc = "idle"
    BY <1>8, <1>s DEF Start
  <2>4. "PROBED" \in Chain /\ indexOf[st.phase] >= indexOf["PROBED"] - 1
    BY <1>i, IndexValues DEF Chain, Phase
  <2> QED BY <2>2, <2>3, <2>4, OnwardFollows
<1>9. CASE PortMapped
  <2> DEFINE granted == [st EXCEPT !.mapping = PortAsked]
  <2>1. /\ pc = "openPort" /\ pc' = "idle"
        /\ \/ st' = Reaching(granted, "PORTS_MAPPED") /\ disk' = st'
           \/ st' = granted /\ disk' \in {disk, st}
    BY <1>9, <1>s DEF PortMapped, AsksRouter
  <2>2. granted.host = st.host /\ granted.phase = st.phase
    BY <1>a DEF StateRecord
  <2>3. CASE st' = granted /\ disk' \in {disk, st}
    BY <2>1, <2>2, <2>3, SameFollows
  <2>4. CASE st' = Reaching(granted, "PORTS_MAPPED") /\ disk' = st'
    <3>1. st'.host = st.host /\ st'.phase = Record(st.phase, "PORTS_MAPPED")
      BY <2>2, <2>4, <1>a DEF Reaching, StateRecord
    <3>2. "PORTS_MAPPED" \in Chain /\ indexOf[st.phase] >= indexOf["PORTS_MAPPED"] - 1
      BY <2>1, <1>a, <1>i, IndexValues DEF Chain, Phase, ScreenFits, FarEnough, AtLeast
    <3> QED BY <2>1, <2>4, <3>1, <3>2, OnwardFollows
  <2> QED BY <2>1, <2>3, <2>4
<1>10. CASE SwitchToFallbackPort \/ MapFallbackPort
  <2>1. /\ st'.phase = st.phase /\ st'.host = st.host /\ disk' \in {disk, st'}
        /\ {pc, pc'} \cap {"off", "claimed"} = {}
    BY <1>10, <1>s, <1>a DEF SwitchToFallbackPort, MapFallbackPort, StateRecord
  <2> QED BY <2>1, SameFollows
<1>11. CASE ResetRecord
  <2>1. /\ st'.phase = "NEW" /\ st'.host = NoName /\ disk' = st' /\ pc' = "idle"
    BY <1>11, <1>s, <1>a DEF ResetRecord, StateRecord
  <2>2. Progress!Forget BY <2>1 DEF Progress!Forget
  <2>3. ~Claims("NEW") BY IndexValues DEF Claims
  <2> QED BY <2>1, <2>2, <2>3 DEF Saved, Follows, Progress!Next
<1> QED BY <1>1, <1>2, <1>3, <1>4, <1>5, <1>6, <1>7, <1>8, <1>9, <1>10, <1>11
        DEF Next, UserAction, OperationStep

\* What a later launch finds on disk moves along the chain one phase at a time,
\* holds a name exactly from DOMAIN_CLAIMED on, and goes back only when a removal
\* forgets both, however setups are interrupted and resumed (state.Store, Wizard.save).
THEOREM RecordImplementsProgress ==
    ASSUME ~SaveMayFail
    PROVE  Spec => ProgressSpec
<1>1. Init => Progress!Init /\ Saved
  <2>1. Init => disk = NewState
    BY Zenon DEF Init
  <2>2. NewState.phase = "NEW" /\ NewState.host = NoName
    BY DEF NewState
  <2> QED BY <2>1, <2>2, InitSaved DEF Progress!Init
<1>2. IInv /\ Saved /\ [Next]_vars => Saved' /\ [Progress!Next]_<<disk.phase, disk.host>>
  BY ProgressStep DEF Follows
<1> QED BY <1>1, <1>2, Invariant, PTL DEF Spec, ProgressSpec, Progress!Spec

-----------------------------------------------------------------------------
(* Taking it all down. *)

\* A service or key that a removal has passed and that is still there, it has reported.
Reported ==
    /\ pc \in {"rmTimer", "unpublish", "forget", "reset"} /\ service # Nothing => "proxy" \in failed
    /\ pc = "reset" /\ secret => "credential" \in failed

LEMMA ReportedStep == IInv /\ Reported /\ [Next]_vars => Reported'
<1> SUFFICES ASSUME IInv, Reported, [Next]_vars,
                    pc' \in {"rmTimer", "unpublish", "forget", "reset"}
             PROVE  Reported'
  BY DEF Reported
<1>1. CASE RemoveProxy
  BY <1>1 DEF RemoveProxy, Reports, Reported
<1>2. CASE RemoveTimer
  BY <1>2 DEF RemoveTimer, Reports, Reported
<1>3. CASE Unpublish
  BY <1>3 DEF Unpublish, Reports, Reported
<1>4. CASE ForgetCredential
  BY <1>4 DEF ForgetCredential, Reports, Reported
<1>5. CASE NetworkChanges \/ ProxyRestarts \/ UNCHANGED vars
  BY <1>5 DEF NetworkChanges, ProxyRestarts, vars, process, world, Reported
<1>6. CASE ~(RemoveProxy \/ RemoveTimer \/ Unpublish \/ ForgetCredential \/ NetworkChanges
             \/ ProxyRestarts \/ UNCHANGED vars)
  <2>1. CASE Start \/ SignIn \/ SetDynuKey \/ Back \/ SkipPort \/ ForwardByHand
    BY <2>1 DEF Start, SignIn, SetDynuKey, Back, SkipPort, ForwardByHand, process
  <2>2. CASE Launch \/ Quit \/ RecordName \/ OpenPort \/ Install \/ Remove \/ ResetRecord
             \/ \E n \in Names : ClaimName(n)
    BY <2>2 DEF Launch, Quit, RecordName, OpenPort, Install, Remove, ResetRecord, ClaimName
  <2>3. CASE PortNotNeeded \/ PortMapped \/ ShowGuide \/ StepFails \/ PublishFails \/ Handover
    BY <2>3 DEF PortNotNeeded, PortMapped, ShowGuide, StepFails, PublishFails, Handover
  <2>4. CASE \/ Publish \/ DNSSeen \/ InstallProxy \/ CertificateIssued \/ ConfigureJellyfin
             \/ InstallSync \/ Verify \/ SwitchToFallbackPort \/ MapFallbackPort \/ MoveProxy
             \/ MoveJellyfin
    BY <2>4 DEF Publish, DNSSeen, InstallProxy, ProxyDown, CertificateIssued, ConfigureJellyfin,
                InstallSync, Verify, SwitchToFallbackPort, MapFallbackPort, MoveProxy, MoveJellyfin
  <2> QED BY <1>6, <2>1, <2>2, <2>3, <2>4 DEF Next, UserAction, OperationStep
<1> QED BY <1>1, <1>2, <1>3, <1>4, <1>5, <1>6

\* The record on disk forgets the name last: a service, or a key in the credential
\* store, that is still there then, the removal screen reported it could not remove
\* (Wizard.RemoveRemoteAccess).
THEOREM NothingIsForgotten ==
    ASSUME ~SaveMayFail
    PROVE  Spec => ForgetsOnlyWhatItReported
<1>1. IInv /\ Saved /\ Reported /\ [Next]_vars =>
          [disk.host # NoName /\ disk'.host = NoName =>
              /\ service # Nothing => "proxy" \in failed
              /\ secret => "credential" \in failed]_vars
  <2> SUFFICES ASSUME IInv, Saved, Reported, [Next]_vars, disk.host # NoName, disk'.host = NoName
               PROVE  pc = "reset"
    BY DEF Reported
  <2>1. disk' \in {disk, st, st'}
    BY DiskFrame
  <2>2. disk' # disk
    OBVIOUS
  <2>3. pc # "off"
    BY <2>2 DEF Next, UserAction, OperationStep, vars, process,
       Quit, Launch, Start, SignIn, SetDynuKey, Back, ClaimName, RecordName, OpenPort,
       PortNotNeeded, PortMapped, AsksRouter, ShowGuide, SkipPort, Install, StepFails, Publish,
       PublishFails, DNSSeen, InstallProxy, CertificateIssued, ConfigureJellyfin, InstallSync,
       Verify, Handover, SwitchToFallbackPort, MapFallbackPort, MoveProxy, MoveJellyfin, Remove,
       RemoveProxy, RemoveTimer, Unpublish, ForgetCredential, ResetRecord, ForwardByHand,
       NetworkChanges, ProxyRestarts
  <2>4. st.host # NoName
    BY <2>3, NameAssumption DEF Saved
  <2>5. st'.host = NoName
    BY <2>1, <2>2, <2>4
  <2>6. TypeOK BY DEF IInv, PhaseInv
  <2>7. CASE ResetRecord
    BY <2>7 DEF ResetRecord
  <2>8. CASE Launch \/ Quit
    BY <2>2, <2>8 DEF Launch, Quit
  <2>9. ASSUME NEW n \in Names, ClaimName(n) PROVE FALSE
    BY <2>2, <2>9 DEF ClaimName
  <2> QED BY <2>4, <2>5, <2>6, <2>7, <2>8, <2>9, HostFrame
<1>2. Init => Saved /\ Reported
  BY InitSaved DEF Init, Reported
<1>3. IInv /\ Saved /\ Reported /\ [Next]_vars => Saved' /\ Reported'
  BY ProgressStep, ReportedStep
<1> QED BY <1>1, <1>2, <1>3, Invariant, PTL DEF Spec, ForgetsOnlyWhatItReported

-----------------------------------------------------------------------------
(* How long an operation can take. *)

\* Only a launch that has not moved the port yet is about to move it.
Moves ==
    pc \in {"mapFallback", "moveProxy", "moveJellyfin"} => switched

LEMMA MovesStep == IInv /\ Moves /\ [Next]_vars => Moves'
<1> SUFFICES ASSUME IInv, Moves, [Next]_vars,
                    pc' \in {"mapFallback", "moveProxy", "moveJellyfin"}
             PROVE  switched'
  BY DEF Moves
<1>1. ScreenFits /\ pc' \in Installing
  BY DEF IInv, PhaseInv, Installing, InstallStep
<1>2. CASE \/ Publish \/ DNSSeen \/ CertificateIssued \/ ConfigureJellyfin \/ InstallSync
           \/ Verify \/ MoveJellyfin
  BY <1>2 DEF Publish, DNSSeen, CertificateIssued, ConfigureJellyfin, InstallSync, Verify,
              MoveJellyfin
<1>3. CASE InstallProxy
  BY <1>3 DEF InstallProxy, ProxyDown
<1>4. CASE SwitchToFallbackPort
  BY <1>4 DEF SwitchToFallbackPort
<1>5. CASE MapFallbackPort
  BY <1>5 DEF MapFallbackPort, InstallFrame, Moves
<1>6. CASE MoveProxy
  BY <1>6 DEF MoveProxy, ProxyUp, ProxyDown, InstallFrame, Moves
<1>7. CASE ProxyRestarts \/ UNCHANGED <<disk, process, world>>
  BY <1>7 DEF ProxyRestarts, process, Moves
<1> QED BY <1>1, <1>2, <1>3, <1>4, <1>5, <1>6, <1>7, StretchSteps

\* An operation that stops has nothing ahead of it, one that runs has something.
LEMMA AheadEnds ==
    ASSUME pc \in Step, pc \notin {"off", "idle"}
    PROVE  Ahead \in Nat /\ Ahead > 0
<1>1. Ahead \in 1..12
  BY DEF Ahead, Step, InstallStep, RemoveStep
<1> QED BY <1>1

\* Every operation of the wizard runs out of steps, whatever the calls answer and
\* whatever the network does: verify moves the port at most once (Wizard.verify,
\* Wizard.portSwitched), so no operation can go round for ever.
THEOREM OperationsAreFinite == Spec => OperationsRunOut
<1>1. IInv /\ Moves /\ [Next]_vars =>
          [pc \notin {"off", "idle"} =>
              \/ Ahead' < Ahead
              \/ <<net, proxy>>' # <<net, proxy>> /\ process' = process]_<<process, world, net>>
  <2> SUFFICES ASSUME IInv, Moves, [Next]_vars, pc \notin {"off", "idle"},
                      <<process, world, net>>' # <<process, world, net>>
               PROVE  \/ Ahead' < Ahead
                      \/ <<net, proxy>>' # <<net, proxy>> /\ process' = process
    OBVIOUS
  <2>1. pc \in Step BY DEF IInv, PhaseInv, TypeOK
  <2>2. Ahead \in Nat /\ Ahead > 0 BY <2>1, AheadEnds
  <2>3. pc' \in {"off", "idle"} => Ahead' = 0 BY DEF Ahead
  <2>4. CASE pc' \in {"off", "idle"}
    BY <2>2, <2>3, <2>4
  <2>5. CASE RecordName
    BY <2>5 DEF RecordName, Ahead
  <2>6. CASE Publish \/ DNSSeen \/ CertificateIssued \/ ConfigureJellyfin
    BY <2>6 DEF Publish, DNSSeen, CertificateIssued, ConfigureJellyfin, Ahead
  <2>7. CASE InstallProxy
    BY <2>4, <2>7 DEF InstallProxy, ProxyDown, Ahead
  <2>8. CASE InstallSync
    BY <2>8 DEF InstallSync, Ahead
  <2>9. CASE Verify \/ SwitchToFallbackPort
    BY <2>9 DEF Verify, SwitchToFallbackPort, Ahead
  <2>10. CASE MapFallbackPort
    BY <2>10 DEF MapFallbackPort, Ahead
  <2>11. CASE MoveProxy
    BY <2>4, <2>11 DEF MoveProxy, ProxyDown, Ahead
  <2>12. CASE MoveJellyfin
    BY <2>12 DEF MoveJellyfin, Configure, InstallFrame, Moves, MaySwitch, Ahead
  <2>13. CASE RemoveProxy \/ RemoveTimer \/ Unpublish \/ ForgetCredential
    <3>1. <<pc, pc'>> \in {<<"rmProxy", "rmTimer">>, <<"rmTimer", "unpublish">>,
                          <<"unpublish", "forget">>, <<"forget", "reset">>}
      BY <2>13 DEF RemoveProxy, RemoveTimer, Unpublish, ForgetCredential
    <3> QED BY <3>1 DEF Ahead
  <2>14. CASE NetworkChanges
    BY <2>14 DEF NetworkChanges
  <2>18. CASE ProxyRestarts
    BY <2>18 DEF ProxyRestarts, world, environment
  <2>15. CASE \/ PortNotNeeded \/ PortMapped \/ ShowGuide \/ PublishFails \/ StepFails
              \/ Handover \/ ResetRecord \/ Quit
    BY <2>4, <2>15 DEF PortNotNeeded, PortMapped, ShowGuide, PublishFails, StepFails,
                       Handover, ResetRecord, Quit
  <2>16. ~UNCHANGED vars
    BY DEF vars, environment
  <2>17. ~UserAction
    BY DEF UserAction, Launch, Start, SignIn, SetDynuKey, Back, ClaimName, OpenPort, SkipPort,
           Install, Remove, ForwardByHand
  <2> QED BY <2>5, <2>6, <2>7, <2>8, <2>9, <2>10, <2>11, <2>12, <2>13, <2>14, <2>15, <2>16,
             <2>17, <2>18 DEF Next, OperationStep
<1>2. Init => Moves
  BY DEF Init, Moves
<1> QED BY <1>1, <1>2, MovesStep, Invariant, PTL DEF Spec, OperationsRunOut

-----------------------------------------------------------------------------
(* The record, when saving it may fail. *)

\* A record holds a name exactly from DOMAIN_CLAIMED on.
Whole(s) == s.host # NoName <=> Claims(s.phase)

\* So does the one on disk, and the one in memory but for a claim that is not
\* recorded yet: Launch offers repair and removal by the name (Model.Repair) and
\* the screens go on by the phase, and neither half is ever there alone.
RecordIsWhole ==
    /\ Whole(disk)
    /\ pc # "claimed" => Whole(st)
    /\ pc = "claimed" => st.host \in Names

LEMMA KeepsWhole ==
    ASSUME RecordIsWhole, disk' \in {disk, st, st'}, Whole(st'), {pc, pc'} \cap {"claimed"} = {}
    PROVE  RecordIsWhole'
BY DEF RecordIsWhole, Whole

\* Recording a phase from at most one short of it leaves a whole record whole,
\* unless it is the phase that claims and no name is there yet.
LEMMA OnwardWhole ==
    ASSUME NEW s, Whole(s), s.phase \in Chain, NEW r, NEW to \in Chain,
           r.host = s.host, r.phase = Record(s.phase, to),
           indexOf[s.phase] >= indexOf[to] - 1,
           to = "DOMAIN_CLAIMED" => Claims(s.phase)
    PROVE  Whole(r)
<1>1. \/ r.phase = s.phase
      \/ /\ r.phase = to
         /\ to # "DOMAIN_CLAIMED" => (Claims(to) <=> Claims(s.phase))
         /\ to = "DOMAIN_CLAIMED" => ~Claims(s.phase)
  BY RecordFollows
<1> QED BY <1>1 DEF Whole

LEMMA WholeStep == IInv /\ RecordIsWhole /\ [Next]_vars => RecordIsWhole'
<1> SUFFICES ASSUME IInv, RecordIsWhole, [Next]_vars PROVE RecordIsWhole'
  OBVIOUS
<1>a. /\ st \in StateRecord /\ TypeOK /\ ScreenFits /\ FarEnough
      /\ st.phase \in Chain /\ disk.phase \in Chain
  BY DEF IInv, PhaseInv, TypeOK, OnChain, Chain
<1>i. indexOf[st.phase] \in Nat BY <1>a, IndexValues DEF Chain, Phase
<1>s. ASSUME NEW s, Save(s) PROVE disk' \in {disk, s} BY <1>s DEF Save
<1>r. ASSUME NEW s \in StateRecord, NEW to
      PROVE  Reaching(s, to).host = s.host /\ Reaching(s, to).phase = Record(s.phase, to)
  BY DEF Reaching, StateRecord
<1>1. CASE \/ SetDynuKey \/ Back \/ OpenPort \/ ShowGuide \/ Install \/ StepFails \/ PublishFails
           \/ Remove \/ RemoveProxy \/ RemoveTimer \/ ForgetCredential \/ ForwardByHand
           \/ SignIn \/ InstallProxy \/ MoveProxy \/ InstallSync \/ Unpublish
  <2>1. disk' \in {disk, st} /\ st' = st /\ {pc, pc'} \cap {"claimed"} = {}
    BY <1>1, <1>s
       DEF SetDynuKey, Back, OpenPort, ShowGuide, Install, StepFails, PublishFails, Remove,
           RemoveProxy, RemoveTimer, ForgetCredential, RemoveFrame, ForwardByHand, process,
           SignIn, InstallProxy, MoveProxy, ProxyUp, ProxyDown, InstallSync, Unpublish
  <2> QED BY <2>1, KeepsWhole DEF RecordIsWhole
<1>2. CASE NetworkChanges \/ ProxyRestarts \/ UNCHANGED vars
  BY <1>2 DEF NetworkChanges, ProxyRestarts, process, vars, RecordIsWhole, Whole
<1>3. CASE Launch
  BY <1>3 DEF Launch, Fresh, RecordIsWhole, Whole
<1>4. CASE Quit
  <2>1. ~Claims("NEW") BY IndexValues DEF Claims
  <2> QED BY <1>4, <2>1 DEF Quit, NewState, RecordIsWhole, Whole
<1>5. ASSUME NEW n \in Names, ClaimName(n) PROVE RecordIsWhole'
  <2>1. /\ disk' = disk /\ pc = "idle"
        /\ \/ pc' = "claimed" /\ st' = [st EXCEPT !.host = n]
           \/ pc' = pc /\ st' = st
    BY <1>5 DEF ClaimName
  <2> QED BY <2>1, <1>a DEF RecordIsWhole, Whole, StateRecord
<1>6. CASE RecordName
  <2>1. /\ pc = "claimed" /\ pc' = "openPort"
        /\ st' = Reaching(st, "DOMAIN_CLAIMED") /\ disk' \in {disk, st'}
        /\ indexOf[st.phase] >= 1
    BY <1>6, <1>s, <1>a DEF RecordName, ScreenFits, FarEnough, AtLeast
  <2>2. st'.host # NoName /\ st'.phase = Record(st.phase, "DOMAIN_CLAIMED")
    BY <2>1, <1>a, <1>r, NameAssumption DEF RecordIsWhole
  <2>3. Claims(st'.phase)
    BY <2>1, <2>2, <1>a, <1>i, IndexValues
       DEF Claims, Chain, Phase, Record, Advance, Reached, CanAdvance, transitions
  <2> QED BY <2>1, <2>2, <2>3 DEF RecordIsWhole, Whole
<1>7. CASE \/ PortNotNeeded \/ SkipPort \/ Publish \/ DNSSeen \/ CertificateIssued
           \/ ConfigureJellyfin \/ MoveJellyfin \/ Verify \/ Handover
  <2>2. PICK to \in Chain :
            /\ st' = Reaching(st, to) /\ Save(st')
            /\ indexOf[st.phase] >= indexOf[to] - 1
            /\ to = "DOMAIN_CLAIMED" => Claims(st.phase)
    BY <1>7, OnwardSteps
  <2>3. {pc, pc'} \cap {"claimed"} = {}
    BY <1>7 DEF PortNotNeeded, SkipPort, Publish, DNSSeen, CertificateIssued,
                ConfigureJellyfin, MoveJellyfin, Verify, Handover
  <2>4. disk' \in {disk, st'} /\ st'.host = st.host /\ st'.phase = Record(st.phase, to)
    BY <2>2, <1>a, <1>s, <1>r
  <2>5. Whole(st')
    BY <2>2, <2>3, <2>4, <1>a, OnwardWhole DEF RecordIsWhole
  <2> QED BY <2>3, <2>4, <2>5, KeepsWhole
<1>8. CASE Start
  <2>1. \E m, p : st' = Reaching([st EXCEPT !.mode = m, !.port = p], "PROBED")
    BY <1>8 DEF Start
  <2>2. st'.host = st.host /\ st'.phase = Record(st.phase, "PROBED")
    BY <2>1, <1>a DEF Reaching, StateRecord
  <2>3. disk' \in {disk, st'} /\ pc' = pc /\ pc = "idle"
    BY <1>8, <1>s DEF Start
  <2>4. "PROBED" \in Chain /\ indexOf[st.phase] >= indexOf["PROBED"] - 1
    BY <1>i, IndexValues DEF Chain, Phase
  <2>5. Whole(st')
    BY <2>2, <2>3, <2>4, <1>a, OnwardWhole DEF RecordIsWhole
  <2> QED BY <2>3, <2>5, KeepsWhole
<1>9. CASE PortMapped
  <2> DEFINE granted == [st EXCEPT !.mapping = PortAsked]
  <2>1. /\ pc = "openPort" /\ pc' = "idle"
        /\ \/ st' = Reaching(granted, "PORTS_MAPPED")
           \/ st' = granted
        /\ disk' \in {disk, st, st'}
    BY <1>9, <1>s DEF PortMapped, AsksRouter
  <2>2. granted.host = st.host /\ granted.phase = st.phase
    BY <1>a DEF StateRecord
  <2>3. st' = Reaching(granted, "PORTS_MAPPED") =>
          st'.host = st.host /\ st'.phase = Record(st.phase, "PORTS_MAPPED")
    BY <2>2, <1>a DEF Reaching, StateRecord
  <2>4. "PORTS_MAPPED" \in Chain /\ indexOf[st.phase] >= indexOf["PORTS_MAPPED"] - 1
    BY <2>1, <1>a, <1>i, IndexValues DEF Chain, Phase, ScreenFits, FarEnough, AtLeast
  <2>5. Whole(st) /\ {pc, pc'} \cap {"claimed"} = {}
    BY <2>1 DEF RecordIsWhole
  <2>6. Whole(st')
    BY <2>1, <2>2, <2>3, <2>4, <2>5, <1>a, OnwardWhole DEF Whole
  <2> QED BY <2>1, <2>5, <2>6, KeepsWhole
<1>10. CASE SwitchToFallbackPort \/ MapFallbackPort
  <2>1. /\ st'.phase = st.phase /\ st'.host = st.host /\ disk' \in {disk, st'}
        /\ {pc, pc'} \cap {"claimed"} = {}
    BY <1>10, <1>s, <1>a DEF SwitchToFallbackPort, MapFallbackPort, StateRecord
  <2> QED BY <2>1, KeepsWhole DEF RecordIsWhole, Whole
<1>11. CASE ResetRecord
  <2>1. /\ st'.phase = "NEW" /\ st'.host = NoName /\ disk' \in {disk, st'}
        /\ {pc, pc'} \cap {"claimed"} = {}
    BY <1>11, <1>s, <1>a DEF ResetRecord, StateRecord
  <2>2. ~Claims("NEW") BY IndexValues DEF Claims
  <2> QED BY <2>1, <2>2, KeepsWhole DEF Whole
<1> QED BY <1>1, <1>2, <1>3, <1>4, <1>5, <1>6, <1>7, <1>8, <1>9, <1>10, <1>11
        DEF Next, UserAction, OperationStep

\* Whichever saves fail and wherever the process is killed, no launch finds a
\* record with a name and no claim, or with a claim and no name (Wizard.save,
\* Wizard.RemoveRemoteAccess): half a record would hide the repair screen from a
\* setup that is there, or offer it on one that is not.
THEOREM RecordsAreWhole == Spec => []RecordIsWhole
<1>1. Init => RecordIsWhole
  <2>1. ~Claims("NEW")
    BY IndexValues DEF Claims
  <2>2. Init => disk = NewState /\ st = NewState /\ pc = "off"
    BY Zenon DEF Init
  <2>3. NewState.phase = "NEW" /\ NewState.host = NoName
    BY DEF NewState
  <2> QED BY <2>1, <2>2, <2>3 DEF RecordIsWhole, Whole
<1> QED BY <1>1, WholeStep, Invariant, PTL DEF Spec
=============================================================================
