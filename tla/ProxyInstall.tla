--------------------------- MODULE ProxyInstall ---------------------------
(***************************************************************************)
(* The part of the unattended stretch that puts the proxy in place         *)
(* (waitForDNS, Installer.Install, waitForCertificate, installSync), with  *)
(* the files, the service definition and the certificate store each step   *)
(* leaves behind, when any step may fail, the wizard may be killed, and    *)
(* the machine may restart.                                                *)
(***************************************************************************)
EXTENDS DnsWait

CONSTANTS
    Ports,        \* ports a configuration may listen on
    Accepted,     \* those with which the bundled proxy accepts the file
    Unset,        \* no port: the wizard's record may hold none
    NoConfig      \* no configuration

ASSUME PortsAssumption ==
    /\ Accepted \subseteq Ports
    /\ Unset \notin Ports /\ NoConfig \notin Ports /\ Unset # NoConfig

VARIABLES
    systemd,      \* Linux; otherwise Windows
    pc,           \* the step the wizard takes next, or idle
    wanted,       \* the configuration being installed
    file,         \* the Caddyfile
    envFile,      \* what the environment file sets; NoFile when there is none
    registered,   \* the service is registered and starts with the machine
    registry,     \* the environment in the service's definition (Windows)
    running,      \* the configuration the proxy runs with
    environ,      \* the environment it started with
    certs,        \* the stores that hold a certificate
    waited,       \* minutes waitForCertificate has waited
    done,         \* history: the configuration reported as installed last
    unstopped,    \* history: in that installation the service could not be stopped
    synced        \* history: installSync has rewritten the environment file

files == <<file, envFile>>
service == <<registered, registry>>
proxy == <<running, environ>>
history == <<done, unstopped, synced>>
vars == <<dns, systemd, pc, wanted, files, service, proxy, certs, waited, history>>

NoFile == {"absent"}
Token == {"token"}
Whole == {"token", "data"}       \* with XDG_DATA_HOME
\* Where the running proxy keeps its certificates.
Store == IF "data" \in environ THEN "ours" ELSE "default"

\* Minutes.
PropagationTimeout == 3
CertificateWait == PropagationTimeout + 3

Init ==
    /\ DnsInit
    /\ systemd \in BOOLEAN
    /\ pc = "idle" /\ wanted = NoConfig
    /\ file = NoConfig /\ envFile = NoFile
    /\ registered = FALSE /\ registry = {}
    /\ running = NoConfig /\ environ = {} /\ certs = {}
    /\ waited = 0
    /\ done = NoConfig /\ unstopped = FALSE /\ synced = FALSE

-----------------------------------------------------------------------------
(* The service. *)

Env == IF systemd THEN envFile ELSE registry
Stopped == running' = NoConfig /\ environ' = {}

\* The proxy starts with whatever file and environment there is then: one it does
\* not accept, or a unit whose environment file is missing, and it does not.
Starts ==
    IF registered /\ file \in Accepted /\ Env # NoFile
    THEN running' = file /\ environ' = Env
    ELSE Stopped

\* The wizard goes back to waiting for the user: a step failed, or it was killed.
Ends == pc' = "idle" /\ wanted' = NoConfig /\ waited' = 0

-----------------------------------------------------------------------------
(* Waiting for the name. *)

Begin ==
    /\ pc = "idle"
    /\ wanted' \in Ports \cup {Unset}
    /\ pc' = "find"
    /\ done' = NoConfig /\ unstopped' = FALSE
    /\ UNCHANGED <<dns, systemd, files, service, proxy, certs, waited, synced>>

outside == <<systemd, files, service, proxy, certs, history>>

\* waitForDNS.  A connection without IPv4 does not wait.
FindServers ==
    /\ pc = "find"
    /\ \/ Nameservers /\ pc' = "poll" /\ UNCHANGED <<wanted, waited>>
       \/ WaitEnds /\ found' = {} /\ pc' = "write" /\ UNCHANGED <<wanted, waited>>
       \/ UNCHANGED dns /\ Ends
    /\ UNCHANGED outside

Poll ==
    /\ pc = "poll"
    /\ \/ (Query \/ AnotherRound) /\ UNCHANGED <<pc, wanted, waited>>
       \/ AllAgree /\ WaitEnds /\ pc' = "write" /\ UNCHANGED <<found, wanted, waited>>
       \/ TimedOut /\ WaitEnds /\ Ends /\ UNCHANGED found
    /\ UNCHANGED outside

-----------------------------------------------------------------------------
(* Installer.Install. *)

\* A step that may fail, and then ends the installation.
Fails == Ends /\ UNCHANGED <<dns, systemd, files, service, proxy, certs, history>>
Goes(step) == pc' = step /\ UNCHANGED <<dns, systemd, wanted, waited>>

\* Generate refuses a configuration without a port; writeFile replaces the file.
WriteConfig ==
    /\ pc = "write"
    /\ \/ /\ wanted # Unset
          /\ file' = wanted
          /\ Goes("validate")
          /\ UNCHANGED <<envFile, service, proxy, certs, history>>
       \/ Fails

\* Validate: the bundled proxy is asked; it may also not run at all.
Validate ==
    /\ pc = "validate"
    /\ \/ /\ file \in Accepted
          /\ Goes(IF systemd THEN "env" ELSE "register")
          /\ UNCHANGED <<files, service, proxy, certs, history>>
       \/ Fails

\* Slip: only the credential is passed on.
WriteEnvTokenOnly ==
    /\ pc = "env"
    /\ \/ /\ envFile' = Token
          /\ Goes("register")
          /\ UNCHANGED <<file, service, proxy, certs, history>>
       \/ Fails

WriteEnv ==
    /\ pc = "env"
    /\ \/ /\ envFile' = Whole
          /\ Goes("register")
          /\ UNCHANGED <<file, service, proxy, certs, history>>
       \/ Fails

\* InstallService on Linux: the unit is written and enabled beside whatever runs.
RegisterUnit ==
    /\ pc = "register" /\ systemd
    /\ \/ registered' = TRUE /\ Goes("stop")
          /\ UNCHANGED <<files, registry, proxy, certs, history>>
       \/ Fails

\* On Windows: the service there is, is stopped and deleted, as far as that goes.
\* One deleted while it runs on is gone with the next start of the machine.
DeleteService ==
    /\ pc = "register" /\ ~systemd
    /\ Stopped \/ UNCHANGED proxy
    /\ \/ /\ registered' = FALSE /\ registry' = {}
          /\ IF running' = NoConfig
             THEN Goes("create")
             ELSE Ends /\ UNCHANGED <<dns, systemd>>
       \/ Ends /\ UNCHANGED <<dns, systemd, service>>
    /\ UNCHANGED <<files, certs, history>>

CreateService ==
    /\ pc = "create"
    /\ \/ registered' = TRUE /\ Goes("setenv")
          /\ UNCHANGED <<files, registry, proxy, certs, history>>
       \/ Fails

SetEnvironment ==
    /\ pc = "setenv"
    /\ \/ registry' = Whole /\ Goes("stop")
          /\ UNCHANGED <<files, registered, proxy, certs, history>>
       \/ Fails

\* Slip: the service is only started.
StopNever ==
    /\ pc = "stop"
    /\ UNCHANGED <<proxy, unstopped>>
    /\ Goes("start")
    /\ UNCHANGED <<files, service, certs, done, synced>>

\* StopService, whose failure is only logged.
Stop ==
    /\ pc = "stop"
    /\ \/ Stopped /\ UNCHANGED unstopped
       \/ running # NoConfig /\ unstopped' = TRUE /\ UNCHANGED proxy
    /\ Goes("start")
    /\ UNCHANGED <<files, service, certs, done, synced>>

\* StartService, which does nothing when it is running.
Start ==
    /\ pc = "start"
    /\ \/ /\ IF running # NoConfig THEN UNCHANGED proxy ELSE Starts
          /\ done' = wanted
          /\ Goes("certificate")
          /\ UNCHANGED <<files, service, certs, unstopped, synced>>
       \/ Fails

-----------------------------------------------------------------------------
(* The certificate, and the task that keeps the address. *)

Obtained == running # NoConfig /\ Store \in certs

WaitForCertificate ==
    /\ pc = "certificate"
    /\ IF Obtained
       THEN Goes("keepalive") /\ UNCHANGED <<files, service, proxy, certs, history>>
       ELSE waited = CertificateWait /\ Fails

\* installSync, which writes the same environment file anew.
InstallSync ==
    /\ pc = "keepalive"
    /\ \/ systemd /\ envFile' = Token /\ synced' = TRUE
       \/ UNCHANGED <<envFile, synced>>
    /\ Ends
    /\ UNCHANGED <<dns, systemd, file, service, proxy, certs, done, unstopped>>

\* The proxy gets a certificate for the store it has, unless that holds one, and
\* needs the credential for it.
Obtain ==
    /\ "token" \in environ
    /\ Store \notin certs
    /\ certs' = certs \cup {Store}
    /\ UNCHANGED <<dns, systemd, pc, wanted, files, service, proxy, waited, history>>

\* A minute passes.
Minute ==
    /\ pc = "certificate" /\ ~Obtained /\ waited < CertificateWait
    /\ waited' = waited + 1
    /\ UNCHANGED <<dns, systemd, pc, wanted, files, service, proxy, certs, history>>

-----------------------------------------------------------------------------
(* Removing, and what happens. *)

\* StopService, RemoveService and the environment file: the failure of one does not
\* keep the others from being tried, and a proxy that did not stop may outlive its
\* service.
Remove ==
    /\ pc = "idle"
    /\ Stopped \/ UNCHANGED proxy
    /\ \/ registered' = FALSE /\ registry' = {}
       \/ UNCHANGED service
    /\ envFile' \in {envFile, NoFile}
    /\ done' = NoConfig /\ unstopped' = FALSE
    /\ UNCHANGED <<dns, systemd, pc, wanted, file, certs, waited, synced>>

Quit ==
    /\ pc # "idle"
    /\ WaitEnds /\ UNCHANGED found
    /\ Ends
    /\ UNCHANGED outside

\* The proxy dies and is started again, or the machine is.
ProxyRestarts ==
    /\ running # NoConfig
    /\ Starts
    /\ UNCHANGED <<dns, systemd, pc, wanted, files, service, certs, waited, history>>

MachineRestarts ==
    /\ WaitEnds /\ UNCHANGED found
    /\ Ends
    /\ Starts
    /\ UNCHANGED <<systemd, files, service, certs, history>>

Reaches == Propagates
           /\ UNCHANGED <<systemd, pc, wanted, files, service, proxy, certs, waited, history>>

Installing ==
    FindServers \/ Poll \/ WriteConfig \/ Validate \/ WriteEnv \/ RegisterUnit
    \/ DeleteService \/ CreateService \/ SetEnvironment \/ Stop \/ Start
    \/ WaitForCertificate \/ InstallSync

Next == Begin \/ Installing \/ Obtain \/ Minute \/ Remove
        \/ Quit \/ ProxyRestarts \/ MachineRestarts \/ Reaches

Spec == Init /\ [][Next]_vars

-----------------------------------------------------------------------------
TypeOK ==
    /\ DnsTypeOK
    /\ systemd \in BOOLEAN
    /\ pc \in {"idle", "find", "poll", "write", "validate", "env", "register", "create", "setenv",
               "stop", "start", "certificate", "keepalive"}
    /\ wanted \in Ports \cup {Unset, NoConfig}
    /\ file \in Ports \cup {NoConfig}
    /\ envFile \in {NoFile, Token, Whole}
    /\ registered \in BOOLEAN /\ registry \in {{}, Whole}
    /\ running \in Accepted \cup {NoConfig} /\ environ \in {{}, Token, Whole}
    /\ running = NoConfig => environ = {}
    /\ certs \subseteq {"ours", "default"}
    /\ waited \in 0 .. CertificateWait
    /\ done \in Ports \cup {NoConfig} /\ unstopped \in BOOLEAN /\ synced \in BOOLEAN

\* Every name server the wait knows of has the record before the proxy is touched.
TouchedWhenVisible ==
    pc \in {"write", "validate", "env", "register", "create", "setenv", "stop", "start"}
        => found \subseteq visible

\* After an installation that went through, the proxy that runs, runs what was
\* installed, and so it does after every restart until the next one begins; unless
\* the old one could not be stopped.
DoneServesWanted ==
    done # NoConfig /\ ~unstopped => file = done /\ running \in {done, NoConfig}

\* An installation takes down a running proxy only for a file that was accepted.
RejectedStopsNothing ==
    [][Installing /\ running # NoConfig /\ running' = NoConfig => file \in Accepted]_vars

\* However often a service is replaced, cut off half-way or removed, a certificate
\* that is there is issued anew only once installSync has rewritten the environment
\* file on Linux, and an installation that could stop the old proxy puts an end to
\* that until its own installSync.
OneIssueBeforeSync ==
    [][certs' # certs =>
          \/ certs' = {"ours"}
          \/ systemd /\ synced /\ (pc \in {"start", "certificate", "keepalive"} => unstopped)]_vars

-----------------------------------------------------------------------------
(* What the comments say. *)

\* install.go: the service's environment names the directory where certificates are
\* kept, so that no later run issues them again from scratch.
OneIssue == certs \subseteq {"ours"}
=============================================================================
