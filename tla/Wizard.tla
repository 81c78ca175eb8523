------------------------------- MODULE Wizard -------------------------------
(***************************************************************************)
(* The setup wizard (internal/wizard): the operations a person drives from *)
(* the browser, the setup record they leave on disk, and the things they   *)
(* change outside the program.  One operation runs at a time (the busy     *)
(* flag); the process can be killed between any two of its steps and       *)
(* launched again.  The screens decide which operations are on offer.      *)
(***************************************************************************)
EXTENDS SetupPhases, ModeRouter

CONSTANTS
    Names,          \* hostnames a user may choose
    NoName,
    Nets,           \* the networks this machine may find itself on
    Foreign,        \* ports the router may forward to another device at first
    Forwardable,    \* bound: ports the user may forward by hand
    MaxLaunches,    \* bound: launches of the program
    MaxNetChanges,  \* bound: changes of network
    MaxRestarts,    \* bound: restarts of the machine or the proxy
    SaveMayFail     \* whether writing the setup record may fail

Net == [v4 : BOOLEAN, v6 : BOOLEAN, router : BOOLEAN, mapping : BOOLEAN,
        wan : {"unknown", "same", "differs"},
        held : SUBSET Ports]  \* ports other programs on this machine listen on

ASSUME NameAssumption == NoName \notin Names
ASSUME NetAssumption == Nets \subseteq Net
ASSUME RouterAssumption == Foreign \subseteq Ports /\ Forwardable \subseteq Ports
ASSUME BoundAssumption ==
    MaxLaunches \in Nat /\ MaxNetChanges \in Nat /\ MaxRestarts \in Nat /\ SaveMayFail \in BOOLEAN

VARIABLES
    disk,       \* the setup record as the next launch would load it
    st,         \* the setup record in memory
    pc,         \* "off", "idle", or the step the running operation is about to take
    screen,
    repair,     \* Model.Repair: the record loaded at launch had a hostname
    signedIn,   \* w.jf is authenticated
    dyn,        \* w.dyn: the Dynu credential is held in memory
    probed,     \* w.probed, the network-shaped part
    decision,   \* w.decision
    switched,   \* w.portSwitched
    failed,     \* Model.Removal while it is on the screen: the steps shown as failed
    owned,      \* hostnames on the user's Dynu account
    dns,        \* the address families each hostname is published on
    router,     \* whom the router forwards each port to
    service,    \* what the registered proxy service starts with next
    proxy,      \* what the running proxy serves
    jellyfin,   \* the published address in Jellyfin's network settings
    certs,      \* hostnames the proxy holds a certificate for
    secret,     \* the credential store holds the key
    timer,      \* the sync task is registered
    net,        \* the network as a probe would find it now
    launches, netChanges, restarts

process == <<st, pc, screen, repair, signedIn, dyn, probed, decision, switched, failed>>
world == <<owned, dns, router, service, proxy, jellyfin, certs, secret, timer>>
environment == <<net, launches, netChanges, restarts>>
vars == <<disk, process, world, environment>>

AnyName == Names \cup {NoName}
AnyPort == Ports \cup {NoPort}
Families == {"A", "AAAA"}
Host == {"none", "us", "other"}

\* The fields of state.State that steps read back.
StateRecord == [phase : Phase, host : AnyName, port : AnyPort, mode : Mode, mapping : AnyPort]
\* An absent or unreadable state file loads as this.
NewState == [phase |-> "NEW", host |-> NoName, port |-> NoPort, mode |-> "", mapping |-> NoPort]

Served == [host : AnyName, port : AnyPort]
Nothing == [host |-> NoName, port |-> NoPort]

Probed == [v4 : BOOLEAN, v6 : BOOLEAN, mapping : BOOLEAN]
Unprobed == [v4 |-> FALSE, v6 |-> FALSE, mapping |-> FALSE]
Seen(n) == [v4 |-> n.v4, v6 |-> n.v6, mapping |-> n.mapping]

InstallStep == {"publish", "dns", "proxy", "cert", "jellyfin", "sync", "verify",
                "mapFallback", "moveProxy", "moveJellyfin", "handover"}
RemoveStep == {"rmProxy", "rmTimer", "unpublish", "forget", "reset"}
Step == {"off", "idle", "claimed", "openPort"} \cup InstallStep \cup RemoveStep

Screen == {"welcome", "blocked", "jellyfin", "dynu", "name", "port", "setup",
           "done", "removing", "removed"}

-----------------------------------------------------------------------------
\* Slip: nothing is written until the process ends.
SaveLater(s) == disk' = disk

\* Wizard.save: a failure is logged and never stops setup.
Save(s) == disk' = s \/ (SaveMayFail /\ disk' = disk)

\* Wizard.advance applied to a record.
Reaching(s, to) == [s EXCEPT !.phase = Record(@, to)]

\* Memory as wizard.New leaves it before the first operation.
Fresh ==
    /\ screen' = "welcome"
    /\ repair' = (disk.host # NoName)
    /\ st' = disk
    /\ signedIn' = FALSE
    /\ probed' = Unprobed
    /\ decision' = Undecided
    /\ switched' = FALSE
    /\ failed' = {}

\* wizard.New.  A credential store that cannot be read leaves the key unset.
Launch ==
    /\ pc = "off"
    /\ launches < MaxLaunches
    /\ launches' = launches + 1
    /\ Fresh
    /\ dyn' \in {secret, FALSE}
    /\ pc' = "idle"
    /\ UNCHANGED <<disk, world, net, netChanges, restarts>>

\* The process is killed, the machine restarts, or the user quits: what was in
\* memory is gone, and an operation in progress stops between two of its steps.
Quit ==
    /\ pc # "off"
    /\ pc' = "off"
    /\ screen' = "welcome" /\ repair' = FALSE /\ st' = NewState /\ signedIn' = FALSE
    /\ dyn' = FALSE /\ probed' = Unprobed /\ decision' = Undecided
    /\ switched' = FALSE /\ failed' = {}
    /\ UNCHANGED <<disk, world, environment>>

-----------------------------------------------------------------------------
(* Checking things over. *)

FreePorts == Ports \ (net.held \cup {proxy.port})

\* reclaimOwnPort: the recorded port counts as free while our own proxy is seen
\* to run; its status may not be read, nor its registration be there any more.
Reclaimed ==
    IF st.port # NoPort /\ proxy.port # NoPort THEN FreePorts \cup {st.port} ELSE FreePorts

ProbeNow(free) ==
    [v4 |-> net.v4, v6 |-> net.v6, router |-> net.router, mapping |-> net.mapping,
     wan |-> net.wan, free |-> free]

\* Start.  Whether a usable Jellyfin answers is the machine's to say.
Start ==
    /\ pc = "idle"
    /\ screen \in {"welcome", "blocked", "removed"}
    /\ \E free \in {Reclaimed, FreePorts} : LET d == Choose(ProbeNow(free)) IN
       /\ decision' = d
       /\ probed' = Seen(net)
       /\ st' = Reaching([st EXCEPT !.mode = d.mode, !.port = d.port], "PROBED")
       /\ Save(st')
       /\ \E usableJellyfin \in BOOLEAN :
            IF ~Blocked(d) /\ usableJellyfin
            THEN screen' = "jellyfin" /\ signedIn' = FALSE
            ELSE screen' = "blocked" /\ UNCHANGED signedIn
    /\ failed' = {}
    /\ UNCHANGED <<pc, repair, dyn, switched, world, environment>>

-----------------------------------------------------------------------------
(* Accounts. *)

\* SignIn and UseAPIKey, accepted.  A rejected one changes nothing but the error.
\* The record is saved when Jellyfin's base path could be read.
SignIn ==
    /\ pc = "idle"
    /\ screen = "jellyfin"
    /\ signedIn' = TRUE
    /\ screen' = IF dyn THEN "name" ELSE "dynu"
    /\ Save(st) \/ UNCHANGED disk
    /\ UNCHANGED <<st, pc, repair, dyn, probed, decision, switched, failed, world, environment>>

\* SetDynuKey: an accepted key that cannot be stored stops here.
SetDynuKey ==
    /\ pc = "idle"
    /\ screen = "dynu"
    /\ secret' = TRUE
    /\ dyn' = TRUE
    /\ screen' = "name"
    /\ UNCHANGED <<disk, st, pc, repair, signedIn, probed, decision, switched, failed,
                   owned, dns, router, service, proxy, jellyfin, certs, timer, environment>>

previousScreen ==
    CASE screen = "jellyfin" -> "welcome"
      [] screen = "dynu" -> "jellyfin"
      [] screen = "name" -> IF repair THEN "jellyfin" ELSE "dynu"
      [] OTHER -> "none"

Back ==
    /\ pc = "idle"
    /\ previousScreen # "none"
    /\ screen' = previousScreen
    /\ UNCHANGED <<disk, st, pc, repair, signedIn, dyn, probed, decision, switched, failed,
                   world, environment>>

-----------------------------------------------------------------------------
(* The name. *)

\* The families a create or update asks for: every one the probe saw.
Published == (IF probed.v4 THEN {"A"} ELSE {}) \cup (IF probed.v6 THEN {"AAAA"} ELSE {})

\* CreateDomain: the name is created, or updated in place when already owned.
CreateDomain(n) ==
    /\ owned' = owned \cup {n}
    /\ dns' = [dns EXCEPT ![n] = Published]

\* Slip: the name is recorded without waiting for Dynu to grant it.
ClaimNameUngranted(n) ==
    /\ pc = "idle"
    /\ screen = "name"
    /\ dyn
    /\ pc' = "claimed"
    /\ st' = [st EXCEPT !.host = n]
    /\ UNCHANGED <<disk, screen, repair, signedIn, dyn, probed, decision, switched, failed,
                   world, environment>>

\* ClaimName reaches Dynu.  The reply may be lost after the name was created.
ClaimName(n) ==
    /\ pc = "idle"
    /\ screen = "name"
    /\ dyn
    /\ CreateDomain(n)
    /\ \/ /\ pc' = "claimed"
          /\ st' = [st EXCEPT !.host = n]
       \/ UNCHANGED <<pc, st>>
    /\ UNCHANGED <<disk, screen, repair, signedIn, dyn, probed, decision, switched, failed,
                   router, service, proxy, jellyfin, certs, secret, timer, environment>>

\* The rest of ClaimName: record the name, show the port screen, open the port.
RecordName ==
    /\ pc = "claimed"
    /\ st' = Reaching(st, "DOMAIN_CLAIMED")
    /\ Save(st')
    /\ screen' = "port"
    /\ pc' = "openPort"
    /\ UNCHANGED <<repair, signedIn, dyn, probed, decision, switched, failed, world, environment>>

-----------------------------------------------------------------------------
(* The port. *)

\* OpenPort, the retry: look at the network again, decide nothing again.
OpenPort ==
    /\ pc = "idle"
    /\ screen = "port"
    /\ probed' = Seen(net)
    /\ pc' = "openPort"
    /\ UNCHANGED <<disk, st, screen, repair, signedIn, dyn, decision, switched, failed,
                   world, environment>>

\* Nothing has to be forwarded: a private network, or IPv6 without NAT.
PortNotNeeded ==
    /\ pc = "openPort"
    /\ decision.mode = "B" \/ (~decision.map /\ ~decision.manual)
    /\ st' = Reaching(st, "PORTS_MAPPED")
    /\ Save(st')
    /\ screen' = "setup"
    /\ pc' = "idle"
    /\ UNCHANGED <<repair, signedIn, dyn, probed, decision, switched, failed, world, environment>>

AsksRouter == pc = "openPort" /\ decision.map /\ probed.mapping

\* The port the router is asked for: the fallback once the first is another
\* device's.
PortAsked == IF router[decision.port] = "other" THEN PortFallback ELSE decision.port

\* The router maps the port to this machine.  Only a permanent mapping that
\* reads back goes on to setup; any other is followed by the guide, unsaved
\* until something else saves.
PortMapped ==
    /\ AsksRouter
    /\ router[PortAsked] # "other"
    /\ router' = [router EXCEPT ![PortAsked] = "us"]
    /\ decision' = [decision EXCEPT !.port = PortAsked]
    /\ \E permanent \in BOOLEAN :
         LET granted == [st EXCEPT !.mapping = PortAsked] IN
         IF permanent
         THEN /\ st' = Reaching(granted, "PORTS_MAPPED")
              /\ Save(st')
              /\ screen' = "setup"
         ELSE /\ st' = granted
              \* the "non_standard_port" warning was saved before the grant
              /\ IF PortAsked # decision.port THEN Save(st) ELSE UNCHANGED disk
              /\ screen' = "port"
    /\ pc' = "idle"
    /\ UNCHANGED <<repair, signedIn, dyn, probed, switched, failed,
                   owned, dns, service, proxy, jellyfin, certs, secret, timer, environment>>

\* showGuide: the router was not asked, or refused.
ShowGuide ==
    /\ pc = "openPort"
    /\ decision.mode # "B"
    /\ decision.map \/ decision.manual
    /\ screen' = "port"
    /\ pc' = "idle"
    /\ UNCHANGED <<disk, st, repair, signedIn, dyn, probed, decision, switched, failed,
                   world, environment>>

\* Slip: continuing without the port records nothing.
SkipPortUnrecorded ==
    /\ pc = "idle"
    /\ screen = "port"
    /\ screen' = "setup"
    /\ UNCHANGED <<disk, st, pc, repair, signedIn, dyn, probed, decision, switched, failed,
                   world, environment>>

SkipPort ==
    /\ pc = "idle"
    /\ screen = "port"
    /\ st' = Reaching(st, "PORTS_MAPPED")
    /\ Save(st')
    /\ screen' = "setup"
    /\ UNCHANGED <<pc, repair, signedIn, dyn, probed, decision, switched, failed,
                   world, environment>>

-----------------------------------------------------------------------------
(* The unattended stretch. *)

Install ==
    /\ pc = "idle"
    /\ screen = "setup"
    /\ pc' = "publish"
    /\ UNCHANGED <<disk, st, screen, repair, signedIn, dyn, probed, decision, switched, failed,
                   world, environment>>

\* What a step leaves alone when it changes st, disk and pc only.
InstallFrame == UNCHANGED <<screen, repair, signedIn, dyn, probed, decision, switched, failed,
                            environment>>

\* The configuration the record asks for.
Wanted == [host |-> st.host, port |-> st.port]

\* A step reports its failure and the operation ends on the screen it was on.
\* Jellyfin may have taken the address before its answer was lost.
StepFails ==
    /\ pc \in {"dns", "cert", "jellyfin", "sync", "moveJellyfin"}
    /\ IF pc \in {"jellyfin", "moveJellyfin"} /\ signedIn
       THEN jellyfin' \in {jellyfin, Wanted}
       ELSE UNCHANGED jellyfin
    /\ pc' = "idle"
    /\ UNCHANGED <<disk, st, owned, dns, router, service, proxy, certs, secret, timer>>
    /\ InstallFrame

Publish ==
    /\ pc = "publish"
    /\ dyn
    /\ st.host # NoName
    /\ CreateDomain(st.host)
    /\ st' = Reaching(st, "DOMAIN_CLAIMED")
    /\ Save(st')
    /\ pc' = "dns"
    /\ UNCHANGED <<router, service, proxy, jellyfin, certs, secret, timer>>
    /\ InstallFrame

\* A name the account lost, or no longer has room for, goes back to the name
\* screen; any other failure stays, and may be a lost answer.
PublishFails ==
    /\ pc = "publish"
    /\ \/ screen' \in {"setup", "name"} /\ UNCHANGED <<owned, dns>>
       \/ dyn /\ st.host # NoName /\ CreateDomain(st.host) /\ UNCHANGED screen
    /\ pc' = "idle"
    /\ UNCHANGED <<disk, st, repair, signedIn, dyn, probed, decision, switched, failed,
                   router, service, proxy, jellyfin, certs, secret, timer, environment>>

\* Every nameserver agrees, or there is no IPv4 address to wait for.
DNSSeen ==
    /\ pc = "dns"
    /\ st' = Reaching(st, "DNS_VISIBLE")
    /\ Save(st')
    /\ pc' = "proxy"
    /\ UNCHANGED world
    /\ InstallFrame

\* A proxy that is asked to listen where another program does comes to an end.
Able(config) == IF config.port \in net.held THEN Nothing ELSE config

\* caddy.Install without an error: the service is registered with the wanted
\* configuration.  A failed stop is logged and starting what runs does nothing,
\* so the old proxy may go on; and a service that was started may be gone again.
\* No configuration is accepted without a port.
ProxyUp ==
    /\ st.port # NoPort
    /\ service' = Wanted
    /\ proxy' \in {Able(Wanted), proxy, Nothing}
    /\ Save(st)
    /\ UNCHANGED <<st, owned, dns, router, jellyfin, certs, secret, timer>>
    /\ InstallFrame

\* The failure comes before the Caddyfile is written, before the service is
\* registered anew, or when it does not start.
ProxyDown ==
    /\ service' \in {service, Nothing} \cup (IF st.port # NoPort THEN {Wanted} ELSE {})
    /\ proxy' \in {proxy, Nothing}
    /\ pc' = "idle"
    /\ Save(st) \/ UNCHANGED disk
    /\ UNCHANGED <<st, owned, dns, router, jellyfin, certs, secret, timer>>
    /\ InstallFrame

InstallProxy == pc = "proxy" /\ ((ProxyUp /\ pc' = "cert") \/ ProxyDown)

\* Slip: the wait is skipped when the record says a certificate was issued.
CertificateAssumed ==
    /\ pc = "cert"
    /\ proxy = Wanted
    /\ certs' = IF Reached(st.phase, "CERT_ISSUED") THEN certs ELSE certs \cup {st.host}
    /\ st' = Reaching(st, "CERT_ISSUED")
    /\ Save(st')
    /\ pc' = "jellyfin"
    /\ UNCHANGED <<owned, dns, router, service, proxy, jellyfin, secret, timer>>
    /\ InstallFrame

\* CertWait: a certificate for the name is shown on the port the record holds,
\* so the proxy that answers there is the one that was just installed.
CertificateIssued ==
    /\ pc = "cert"
    /\ proxy = Wanted
    /\ certs' = certs \cup {st.host}
    /\ st' = Reaching(st, "CERT_ISSUED")
    /\ Save(st')
    /\ pc' = "jellyfin"
    /\ UNCHANGED <<owned, dns, router, service, proxy, jellyfin, secret, timer>>
    /\ InstallFrame

\* Slip: an address that was published before is taken for the right one.
ConfigureOnce ==
    /\ signedIn
    /\ jellyfin' = IF Reached(st.phase, "JELLYFIN_CONFIGURED") THEN jellyfin ELSE Wanted
    /\ st' = Reaching(st, "JELLYFIN_CONFIGURED")
    /\ Save(st')
    /\ UNCHANGED <<owned, dns, router, service, proxy, certs, secret, timer>>
    /\ InstallFrame

\* configureJellyfin: publish the address the clients are to use.
Configure ==
    /\ signedIn
    /\ jellyfin' = Wanted
    /\ st' = Reaching(st, "JELLYFIN_CONFIGURED")
    /\ Save(st')
    /\ UNCHANGED <<owned, dns, router, service, proxy, certs, secret, timer>>
    /\ InstallFrame

ConfigureJellyfin == pc = "jellyfin" /\ Configure /\ pc' = "sync"

\* installSync: a missing binary is a warning, not a failure.
InstallSync ==
    /\ pc = "sync"
    /\ timer' \in {TRUE, timer}
    /\ Save(st) \/ UNCHANGED disk
    /\ pc' = "verify"
    /\ UNCHANGED <<st, owned, dns, router, service, proxy, jellyfin, certs, secret>>
    /\ InstallFrame

-----------------------------------------------------------------------------
(* The check from outside, and the move to the other port. *)

\* What the check may answer.  It succeeds only through a path that is open.
PathOpen == proxy = Wanted
            /\ (router[st.port] = "us" \/ decision.mode = "A6")
Answer == {"inconclusive", "unreachable"} \cup (IF PathOpen THEN {"reachable"} ELSE {})

\* Slip: the port is moved whenever the check fails.
MaySwitchAgain == TRUE

MaySwitch == st.port = PortPreferred /\ ~switched

\* Reachable, inconclusive, or unreachable with no move left: a warning at most.
Verify ==
    /\ pc = "verify"
    /\ \E answer \in Answer : answer = "unreachable" => ~MaySwitch
    /\ st' = Reaching(st, "VERIFIED")
    /\ Save(st')
    /\ pc' = "handover"
    /\ UNCHANGED world
    /\ InstallFrame

Handover ==
    /\ pc = "handover"
    /\ st' = Reaching(st, "RUNNING")
    /\ Save(st')
    /\ screen' = "done"
    /\ pc' = "idle"
    /\ UNCHANGED <<repair, signedIn, dyn, probed, decision, switched, failed, world, environment>>

SwitchToFallbackPort ==
    /\ pc = "verify"
    /\ "unreachable" \in Answer
    /\ MaySwitch
    /\ switched' = TRUE
    /\ st' = [st EXCEPT !.port = PortFallback]
    /\ decision' = [decision EXCEPT !.port = PortFallback]
    /\ Save(st')
    /\ pc' = "mapFallback"
    /\ UNCHANGED <<screen, repair, signedIn, dyn, probed, failed, world, environment>>

\* Best effort: the router is asked if it ever offered, whatever was decided.
MapFallbackPort ==
    /\ pc = "mapFallback"
    /\ \/ /\ probed.mapping
          /\ router[PortFallback] # "other"
          /\ router' = [router EXCEPT ![PortFallback] = "us"]
          /\ st' = [st EXCEPT !.mapping = PortFallback]
          /\ Save(st')
       \/ UNCHANGED <<router, st, disk>>
    /\ pc' = "moveProxy"
    /\ UNCHANGED <<owned, dns, service, proxy, jellyfin, certs, secret, timer>>
    /\ InstallFrame

MoveProxy == pc = "moveProxy" /\ ((ProxyUp /\ pc' = "moveJellyfin") \/ ProxyDown)

MoveJellyfin == pc = "moveJellyfin" /\ Configure /\ pc' = "verify"

-----------------------------------------------------------------------------
(* Taking it all down.  Every step is best effort; a failure is shown. *)

Remove ==
    /\ pc = "idle"
    /\ screen = "welcome"
    /\ repair
    /\ screen' = "removing"
    /\ failed' = {}
    /\ pc' = "rmProxy"
    /\ UNCHANGED <<disk, st, repair, signedIn, dyn, probed, decision, switched,
                   world, environment>>

RemoveFrame == UNCHANGED <<st, screen, repair, signedIn, probed, decision, switched, environment>>

Reports(step) == failed' = failed \cup {step}

\* Slip: a service whose status cannot be read is taken for one that is not there.
RemoveProxyIfSeen ==
    /\ pc = "rmProxy"
    /\ service' \in {service, Nothing}
    /\ proxy' \in {proxy, Nothing}
    /\ pc' = "rmTimer"
    /\ UNCHANGED <<disk, dyn, failed, owned, dns, router, jellyfin, certs, secret, timer>>
    /\ RemoveFrame

\* A failed stop is logged and the step goes on, so "Stopped and removed" may
\* leave a proxy running that nothing will start again.  A service that could
\* not be removed is shown; on Linux it may be half removed.
RemoveProxy ==
    /\ pc = "rmProxy"
    /\ \/ service' = Nothing /\ UNCHANGED failed
       \/ service' \in {service, Nothing} /\ Reports("proxy")
    /\ proxy' \in {proxy, Nothing}
    /\ pc' = "rmTimer"
    /\ UNCHANGED <<disk, dyn, owned, dns, router, jellyfin, certs, secret, timer>>
    /\ RemoveFrame

\* A task that cannot be queried is taken for absent and shown as removed.
RemoveTimer ==
    /\ pc = "rmTimer"
    /\ timer' \in {timer, FALSE}
    /\ UNCHANGED failed \/ Reports("timer")
    /\ pc' = "unpublish"
    /\ UNCHANGED <<disk, dyn, owned, dns, router, service, proxy, jellyfin, certs, secret>>
    /\ RemoveFrame

\* unpublish: without a credential or a name the step is skipped, not failed.
Unpublish ==
    /\ pc = "unpublish"
    /\ IF ~dyn \/ st.host = NoName
       THEN UNCHANGED <<dns, failed, disk>>
       ELSE \/ /\ dns' = [dns EXCEPT ![st.host] = {}]
               /\ UNCHANGED failed
               /\ Save(st)
            \/ UNCHANGED <<dns, disk>> /\ Reports("address")
    /\ pc' = "forget"
    /\ UNCHANGED <<dyn, owned, router, service, proxy, jellyfin, certs, secret, timer>>
    /\ RemoveFrame

\* The key in the credential store.  The copy of the token in the proxy's
\* environment file, whose failed deletion is logged only, is ProxyInstall's.
ForgetCredential ==
    /\ pc = "forget"
    /\ \/ secret' = FALSE /\ dyn' = FALSE /\ UNCHANGED failed
       \/ UNCHANGED <<secret, dyn>> /\ Reports("credential")
    /\ pc' = "reset"
    /\ UNCHANGED <<disk, owned, dns, router, service, proxy, jellyfin, certs, timer>>
    /\ RemoveFrame

\* Slip: the phase is rewound and the name is kept.
ResetPhaseOnly ==
    /\ pc = "reset"
    /\ st' = [st EXCEPT !.phase = "NEW", !.mapping = NoPort]
    /\ Save(st')
    /\ screen' = "removed"
    /\ pc' = "idle"
    /\ UNCHANGED <<repair, signedIn, dyn, probed, decision, switched, failed, world, environment>>

\* The record is emptied last; the port and the mode stay in it.
ResetRecord ==
    /\ pc = "reset"
    /\ st' = [st EXCEPT !.phase = "NEW", !.host = NoName, !.mapping = NoPort]
    /\ Save(st')
    /\ screen' = "removed"
    /\ pc' = "idle"
    /\ UNCHANGED <<repair, signedIn, dyn, probed, decision, switched, failed, world, environment>>

-----------------------------------------------------------------------------
(* The world outside. *)

\* The user follows the guide, which names the decided port.
ForwardByHand ==
    /\ pc = "idle"
    /\ screen = "port"
    /\ decision.port \in Forwardable
    /\ router' = [router EXCEPT ![decision.port] = "us"]
    /\ UNCHANGED <<disk, process, owned, dns, service, proxy, jellyfin, certs, secret, timer, environment>>

\* A cable, a VPN, a router setting, another program taking or leaving a port.
NetworkChanges ==
    /\ netChanges < MaxNetChanges
    /\ netChanges' = netChanges + 1
    /\ net' \in Nets
    /\ proxy.port \notin net'.held
    /\ UNCHANGED <<disk, process, world, launches, restarts>>

\* The machine restarts, or the proxy comes to an end and the service manager
\* starts it again or gives up.  A proxy whose service was removed does not return.
ProxyRestarts ==
    /\ restarts < MaxRestarts
    /\ restarts' = restarts + 1
    /\ proxy' \in {Able(service), Nothing}
    /\ UNCHANGED <<disk, process, owned, dns, router, service, jellyfin, certs, secret,
                   timer, net, launches, netChanges>>

-----------------------------------------------------------------------------
Init ==
    /\ disk = NewState
    /\ pc = "off"
    /\ screen = "welcome" /\ repair = FALSE /\ st = NewState /\ signedIn = FALSE
    /\ dyn = FALSE /\ probed = Unprobed /\ decision = Undecided
    /\ switched = FALSE /\ failed = {}
    /\ owned = {}
    /\ dns = [n \in Names |-> {}]
    /\ router \in {f \in [Ports -> {"none", "other"}] : \A p \in Ports : f[p] = "other" => p \in Foreign}
    /\ service = Nothing /\ proxy = Nothing /\ jellyfin = Nothing
    /\ certs = {} /\ secret = FALSE /\ timer = FALSE
    /\ net \in Nets
    /\ launches = 0 /\ netChanges = 0 /\ restarts = 0

\* What a person may press, screen by screen.
UserAction ==
    \/ Launch \/ Start \/ SignIn \/ SetDynuKey \/ Back
    \/ \E n \in Names : ClaimName(n)
    \/ OpenPort \/ SkipPort \/ Install \/ Remove
    \/ ForwardByHand

\* A step the running operation takes by itself.
OperationStep ==
    \/ RecordName
    \/ PortNotNeeded \/ PortMapped \/ ShowGuide
    \/ Publish \/ PublishFails \/ DNSSeen \/ InstallProxy \/ CertificateIssued
    \/ ConfigureJellyfin \/ InstallSync \/ Verify \/ Handover \/ StepFails
    \/ SwitchToFallbackPort \/ MapFallbackPort \/ MoveProxy \/ MoveJellyfin
    \/ RemoveProxy \/ RemoveTimer \/ Unpublish \/ ForgetCredential \/ ResetRecord

Next == UserAction \/ OperationStep \/ Quit \/ NetworkChanges \/ ProxyRestarts

Spec == Init /\ [][Next]_vars

\* A goroutine that has a step to take takes it; nobody is obliged to press
\* anything, and nothing obliges a call to succeed.
FairSpec == Spec /\ WF_vars(OperationStep)

-----------------------------------------------------------------------------
TypeOK ==
    /\ disk \in StateRecord
    /\ st \in StateRecord
    /\ pc \in Step
    /\ screen \in Screen
    /\ repair \in BOOLEAN /\ signedIn \in BOOLEAN /\ dyn \in BOOLEAN
    /\ probed \in Probed
    /\ decision \in Decision
    /\ switched \in BOOLEAN
    /\ failed \subseteq {"proxy", "timer", "address", "credential"}
    /\ owned \subseteq Names
    /\ dns \in [Names -> SUBSET Families]
    /\ router \in [Ports -> Host]
    /\ service \in Served /\ proxy \in Served /\ jellyfin \in Served
    /\ certs \subseteq Names
    /\ secret \in BOOLEAN /\ timer \in BOOLEAN
    /\ net \in Nets
    /\ launches \in Nat /\ netChanges \in Nat /\ restarts \in Nat

-----------------------------------------------------------------------------
(* Safety. *)

\* The phase the running step records when it succeeds, or the phase the next
\* operation the screen offers begins by recording.
ToRecord ==
    CASE pc = "claimed" -> "DOMAIN_CLAIMED"
      [] pc = "openPort" -> "PORTS_MAPPED"
      [] pc = "publish" -> "DOMAIN_CLAIMED"
      [] pc = "dns" -> "DNS_VISIBLE"
      [] pc = "cert" -> "CERT_ISSUED"
      [] pc \in {"jellyfin", "moveJellyfin"} -> "JELLYFIN_CONFIGURED"
      [] pc = "verify" -> "VERIFIED"
      [] pc = "handover" -> "RUNNING"
      [] pc = "idle" /\ screen = "port" -> "PORTS_MAPPED"
      [] OTHER -> "PROBED"

\* advance() only warns about an illegal transition: setup would go on with a
\* record that no longer follows it.  However a run was interrupted, resumed,
\* renamed or taken down, the phase a step records is one it may record.
RecordIsNeverRefused == Reached(st.phase, ToRecord) \/ CanAdvance(st.phase, ToRecord)

\* What makes it inductive: the screen an operation runs on, and how far along
\* the chain the record is at least, step by step and screen by screen.
ScreenFits ==
    /\ pc \in InstallStep => screen = "setup"
    /\ pc \in RemoveStep => screen = "removing"
    /\ pc = "claimed" => screen = "name"
    /\ pc = "openPort" => screen = "port"
    /\ pc = "off" => screen = "welcome"
    /\ pc = "idle" => screen # "removing"

AtLeast(n) == indexOf[st.phase] >= n
FarEnough ==
    /\ screen \in {"jellyfin", "dynu", "name"} => AtLeast(1)
    /\ screen = "port" => AtLeast(2)
    /\ screen = "setup" => AtLeast(3)
    /\ pc \in {"proxy", "cert"} => AtLeast(4)
    /\ pc = "jellyfin" => AtLeast(5)
    /\ pc \in {"sync", "verify", "mapFallback", "moveProxy", "moveJellyfin"} => AtLeast(6)
    /\ pc = "handover" => AtLeast(7)

OnChain == {st.phase, disk.phase} \subseteq Phase \ {"DEGRADED"}

PhaseInv == TypeOK /\ ScreenFits /\ OnChain /\ FarEnough

\* A name is written to the record only after Dynu has it on this account, so
\* a record never claims a name whose creation was refused or never happened.
RecordedNameIsOurs == {disk.host, st.host} \subseteq owned \cup {NoName}

\* The handover screen is shown only when the proxy that is registered and
\* Jellyfin's published address, the Dynu record, the certificate and the setup
\* record on disk all speak of the same name and port.  What runs is what is
\* registered, if it runs; only a move to the other port, after which nothing
\* waits for the proxy again, may leave the old one on the port it had.
DoneIsCoherent ==
    screen = "done" =>
        /\ service = Wanted
        /\ jellyfin = Wanted
        /\ st.host \in certs
        /\ dns[st.host] = Published
        /\ st.phase = "RUNNING"
        /\ ~SaveMayFail => disk = st
        /\ \/ proxy \in {Wanted, Nothing}
           \/ switched /\ proxy = [Wanted EXCEPT !.port = PortPreferred]

\* The unattended stretch claims the name again without ever taking another of
\* the account's few names: what it publishes is already there.
InstallSpendsNoName == [][(pc \in InstallStep) => owned' = owned]_vars

\* A proxy is registered, to be started with the machine from then on, only under
\* a name the record on disk already holds: whatever is interrupted and started
\* again afterwards, the next launch offers to repair it and to take it down.
InstallsUnderARecordedName ==
    [][service' \notin {service, Nothing} => disk.host = service'.host]_vars

\* Removal empties the record last: a service, or a key in the credential store,
\* that is still there when the record forgets the name is one the removal screen
\* said it could not remove.  A proxy that would not stop, a task that could not
\* be queried and the token in the proxy's environment file are not promised
\* anything: the code takes them for gone, or only logs that they are not.
ForgetsOnlyWhatItReported ==
    [][disk.host # NoName /\ disk'.host = NoName =>
          /\ service # Nothing => "proxy" \in failed
          /\ secret => "credential" \in failed]_vars

\* The record on disk keeps the promise a later launch relies on.
Progress == INSTANCE SetupProgress WITH phase <- disk.phase, host <- disk.host
ProgressSpec == Progress!Spec

-----------------------------------------------------------------------------
(* Liveness. *)

\* Every operation comes to an end whatever its calls answer; in particular
\* verify, which moves the port and verifies again, does so once.
OperationEnds == pc \notin {"off", "idle"} ~> pc \in {"off", "idle"}

\* Why they end, as a property of each step: how many steps of the running
\* operation are still ahead at most.  Only the move to the other port goes
\* back, from verify, and once it is made verify leads to the handover alone.
Ahead ==
    CASE pc \in {"off", "idle"} -> 0
      [] pc \in {"openPort", "handover", "reset"} -> 1
      [] pc \in {"claimed", "forget"} -> 2
      [] pc = "verify" -> IF MaySwitch THEN 6 ELSE 2
      [] pc \in {"unpublish", "moveJellyfin"} -> 3
      [] pc \in {"rmTimer", "moveProxy"} -> 4
      [] pc \in {"rmProxy", "mapFallback"} -> 5
      [] pc = "sync" -> 7
      [] pc = "jellyfin" -> 8
      [] pc = "cert" -> 9
      [] pc = "proxy" -> 10
      [] pc = "dns" -> 11
      [] pc = "publish" -> 12

\* Every step while an operation runs brings its end nearer, whatever the calls
\* answer and however often the port was moved before; the network changing
\* under it or the proxy restarting, which are no steps of the operation, leave
\* it where it was.
OperationsRunOut ==
    [][pc \notin {"off", "idle"} =>
          \/ Ahead' < Ahead
          \/ <<net, proxy>>' # <<net, proxy>> /\ process' = process]_<<process, world, net>>

-----------------------------------------------------------------------------
(* What the tests say. *)

\* wizard_test.go: the address does not name a port nothing is forwarding.
\* When the router granted a mapping, the finished address is for that port.
AddressNamesTheMappedPort ==
    screen = "done" /\ decision.map /\ st.mapping # NoPort => st.port = st.mapping
=============================================================================
