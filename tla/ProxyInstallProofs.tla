------------------------- MODULE ProxyInstallProofs -------------------------
(***************************************************************************)
(* The wait for the name and the installation of the proxy, for any name   *)
(* servers and any ports, proved with TLAPS.                               *)
(***************************************************************************)
EXTENDS ProxyInstall, FiniteSetTheorems, TLAPS

-----------------------------------------------------------------------------
(* The wait. *)

\* The servers this round has asked that have the record by now.
Confirmed == (found \ left) \cap visible

DnsInv == DnsTypeOK /\ agreeing <= Cardinality(Confirmed)

\* What is counted of a finite set of servers is a number, and grows with the set.
LEMMA Counting ==
    ASSUME NEW S, NEW T, S \subseteq T, T \subseteq Servers
    PROVE  /\ IsFiniteSet(S) /\ Cardinality(S) \in Nat
           /\ Cardinality(T) \in Nat /\ Cardinality(S) <= Cardinality(T)
           /\ Cardinality(S) = Cardinality(T) => S = T
<1>1. IsFiniteSet(T) BY ServersAssumption, FS_Subset
<1>2. IsFiniteSet(S) BY <1>1, FS_Subset
<1> QED BY <1>1, <1>2, FS_Subset, FS_CardinalityType

LEMMA DnsStarts == DnsInit => DnsInv
<1> SUFFICES ASSUME DnsInit PROVE DnsInv
  OBVIOUS
<1>1. Confirmed = {} /\ found = {} BY DEF DnsInit, Confirmed
<1>2. Cardinality({}) = 0 BY FS_EmptySet
<1> QED BY <1>1, <1>2, ServersAssumption DEF DnsInit, DnsInv, DnsTypeOK

\* A round that begins has counted nothing.
LEMMA RoundBegins ==
    ASSUME visible' \subseteq Servers, found' \subseteq Servers, left' \subseteq found',
           agreeing' = 0, rounds' \in 0 .. MaxRounds - 1
    PROVE  DnsInv'
<1>1. Cardinality(Confirmed') \in Nat /\ Cardinality(found') \in Nat
  <2>1. Confirmed' \subseteq Servers BY DEF Confirmed
  <2> QED BY <2>1, Counting
<1> QED BY <1>1 DEF DnsInv, DnsTypeOK

LEMMA QueryCounts == DnsInv /\ Query => DnsInv'
<1> SUFFICES ASSUME DnsInv, Query PROVE DnsInv'
  OBVIOUS
<1> USE DEF DnsInv, DnsTypeOK
<1>1. PICK s \in left :
        /\ left' = left \ {s}
        /\ agreeing' \in {agreeing} \cup (IF s \in visible THEN {agreeing + 1} ELSE {})
  BY DEF Query
<1>2. visible' = visible /\ found' = found /\ rounds' = rounds BY DEF Query
<1>3. /\ Confirmed \subseteq found /\ Confirmed' \subseteq found
      /\ s \in visible => Confirmed' = Confirmed \cup {s} /\ s \notin Confirmed
      /\ s \notin visible => Confirmed' = Confirmed
  BY <1>1, <1>2 DEF Confirmed
<1>4. /\ Cardinality(Confirmed) \in Nat /\ IsFiniteSet(Confirmed)
      /\ Cardinality(Confirmed') \in Nat
      /\ Cardinality(Confirmed') <= Cardinality(found) /\ Cardinality(found) \in Nat
  BY <1>3, Counting
<1>5. s \in visible => Cardinality(Confirmed') = Cardinality(Confirmed) + 1
  BY <1>3, <1>4, FS_AddElement
<1>6. agreeing' \in Nat /\ agreeing' <= Cardinality(Confirmed')
  <2>1. CASE s \in visible BY <2>1, <1>1, <1>4, <1>5
  <2>2. CASE s \notin visible BY <2>2, <1>1, <1>3, <1>4
  <2> QED BY <2>1, <2>2
<1> QED BY <1>1, <1>2, <1>4, <1>6

LEMMA PropagationKeeps == DnsInv /\ Propagates => DnsInv'
<1> SUFFICES ASSUME DnsInv, Propagates PROVE DnsInv'
  OBVIOUS
<1> USE DEF DnsInv, DnsTypeOK
<1>1. /\ visible \subseteq visible' /\ visible' \subseteq Servers
      /\ UNCHANGED <<found, left, agreeing, rounds>>
  BY DEF Propagates, wait
<1>2. Confirmed \subseteq Confirmed' /\ Confirmed' \subseteq Servers BY <1>1 DEF Confirmed
<1>3. /\ Cardinality(Confirmed) \in Nat /\ Cardinality(Confirmed') \in Nat
      /\ Cardinality(Confirmed) <= Cardinality(Confirmed')
  BY <1>2, Counting
<1> QED BY <1>1, <1>3

\* A wait that ends well has seen the record on every server it found.
LEMMA AgreementIsVisible == DnsInv /\ AllAgree => found \subseteq visible
<1> SUFFICES ASSUME DnsInv, AllAgree PROVE found \subseteq visible
  OBVIOUS
<1>1. Confirmed = found \cap visible /\ Confirmed \subseteq found
  BY DEF AllAgree, Confirmed
<1>2. Cardinality(found) <= Cardinality(Confirmed) BY DEF DnsInv, AllAgree
<1>3. Confirmed = found BY <1>1, <1>2, Counting DEF DnsInv, DnsTypeOK
<1> QED BY <1>1, <1>3

-----------------------------------------------------------------------------
(* The installation. *)

Preparing == {"find", "poll", "write", "validate", "env", "register", "create", "setenv",
              "stop", "start"}
Touching == Preparing \ {"find", "poll"}
Written == Touching \ {"write"}
Checked == Written \ {"validate"}

\* What an installation under way has established so far.
Prepared ==
    /\ pc \in Preparing => wanted \in Ports \cup {Unset} /\ done = NoConfig
    /\ pc \in Written => file = wanted /\ wanted \in Ports
    /\ pc \in Checked => file \in Accepted
    /\ pc = "start" /\ ~unstopped => running = NoConfig

\* An environment without a place for certificates comes from the address task, which
\* is installed once there is a certificate.  An installation under way has replaced
\* it, in the file and, where it could stop the old proxy, in what runs.
Stored ==
    /\ "default" \in certs \/ pc = "keepalive" => "ours" \in certs
    /\ envFile = Token \/ environ = Token => systemd /\ synced /\ "ours" \in certs
    /\ pc = "env" => systemd
    /\ pc \in {"create", "setenv"} => ~systemd
    /\ systemd /\ pc \in {"register", "stop", "start", "certificate", "keepalive"}
           => envFile = Whole
    /\ pc \in {"start", "certificate", "keepalive"} /\ ~unstopped => environ # Token

InstallInv == TypeOK /\ DnsInv /\ TouchedWhenVisible /\ Prepared /\ Stored /\ DoneServesWanted

LEMMA EnvironmentsDiffer ==
    /\ Token # Whole /\ NoFile # Token /\ NoFile # Whole
    /\ {} # Token /\ {} # Whole
    /\ "data" \in Whole /\ "data" \notin Token /\ "token" \in Token /\ "token" \notin {}
BY DEF Token, Whole, NoFile

LEMMA InstallInit == Init => InstallInv
<1> SUFFICES ASSUME Init PROVE InstallInv
  OBVIOUS
<1>1. DnsInv BY DnsStarts DEF Init
<1>2. systemd \in BOOLEAN /\ registered \in BOOLEAN /\ unstopped \in BOOLEAN
      /\ synced \in BOOLEAN
  BY Zenon DEF Init
<1>3. CertificateWait \in Nat BY DEF CertificateWait, PropagationTimeout
<1>4. TypeOK
  BY <1>1, <1>2, <1>3 DEF Init, TypeOK, DnsInv
<1>5. TouchedWhenVisible /\ Prepared /\ DoneServesWanted
  BY DEF Init, TouchedWhenVisible, Prepared, DoneServesWanted, Preparing, Touching, Written, Checked
<1>6. Stored BY EnvironmentsDiffer DEF Init, Stored
<1> QED BY <1>1, <1>4, <1>5, <1>6 DEF InstallInv

\* The wait's own part of every step.
LEMMA DnsStep == InstallInv /\ [Next]_vars => DnsInv'
<1> SUFFICES ASSUME InstallInv, [Next]_vars PROVE DnsInv'
  OBVIOUS
<1> USE ServersAssumption DEF InstallInv
<1>1. CASE UNCHANGED dns BY <1>1 DEF dns, wait, DnsInv, DnsTypeOK, Confirmed
<1>2. CASE Nameservers BY <1>2, RoundBegins DEF Nameservers, DnsInv, DnsTypeOK
<1>3. CASE Query BY <1>3, QueryCounts
<1>4. CASE AnotherRound BY <1>4, RoundBegins DEF AnotherRound, DnsInv, DnsTypeOK
<1>5. CASE WaitEnds /\ found' \in {found, {}}
  BY <1>5, RoundBegins DEF WaitEnds, DnsInv, DnsTypeOK
<1>6. CASE Propagates BY <1>6, PropagationKeeps
<1>7. \/ UNCHANGED dns \/ Nameservers \/ Query \/ AnotherRound \/ Propagates
      \/ WaitEnds /\ found' \in {found, {}}
  <2>1. CASE FindServers BY <2>1 DEF FindServers
  <2>2. CASE Poll BY <2>2 DEF Poll
  <2>3. CASE WriteConfig \/ Validate \/ WriteEnv \/ RegisterUnit \/ DeleteService
             \/ CreateService \/ SetEnvironment \/ Stop \/ Start \/ WaitForCertificate
             \/ InstallSync
    BY <2>3 DEF WriteConfig, Validate, WriteEnv, RegisterUnit, DeleteService, CreateService,
                SetEnvironment, Stop, Start, WaitForCertificate, InstallSync, Goes, Fails
  <2>4. CASE Begin \/ Obtain \/ Minute \/ Remove \/ ProxyRestarts
    BY <2>4 DEF Begin, Obtain, Minute, Remove, ProxyRestarts
  <2>5. CASE Quit \/ MachineRestarts BY <2>5 DEF Quit, MachineRestarts
  <2>6. CASE Reaches BY <2>6 DEF Reaches
  <2>7. CASE UNCHANGED vars BY <2>7 DEF vars
  <2> QED BY <2>1, <2>2, <2>3, <2>4, <2>5, <2>6, <2>7 DEF Next, Installing
<1> QED BY <1>1, <1>2, <1>3, <1>4, <1>5, <1>6, <1>7

\* Whatever starts or stops the proxy leaves it in a state it can be in.
LEMMA ProxyKeeps ==
    ASSUME InstallInv, Stopped \/ Starts, UNCHANGED <<systemd, certs>>
    PROVE  /\ running' \in Accepted \cup {NoConfig} /\ environ' \in {{}, Token, Whole}
           /\ running' = NoConfig => environ' = {}
           /\ running' \in {file, NoConfig}
           /\ environ' = Token => envFile = Token /\ systemd /\ synced /\ "ours" \in certs
<1>1. CertificateWait \in Nat BY DEF CertificateWait, PropagationTimeout
<1>2. CASE Stopped BY <1>1, <1>2, EnvironmentsDiffer DEF Stopped
<1>3. CASE Starts
  <2>1. CASE Stopped BY <2>1, <1>2
  <2>2. CASE ~Stopped
    <3>1. /\ file \in Accepted /\ Env # NoFile
          /\ running' = file /\ environ' = Env
      BY <1>3, <2>2 DEF Starts
    <3>2. file # NoConfig BY <3>1, PortsAssumption
    <3>3. Env \in {{}, Token, Whole} /\ (Env = Token => envFile = Token \/ registry = Token)
      BY <3>1 DEF Env, InstallInv, TypeOK
    <3>4. registry # Token BY EnvironmentsDiffer DEF InstallInv, TypeOK
    <3> QED BY <1>1, <3>1, <3>2, <3>3, <3>4 DEF InstallInv, Stored
  <2> QED BY <2>1, <2>2
<1> QED BY <1>2, <1>3

\* A step that fails ends the installation and changes nothing else.
LEMMA FailingKeeps ==
    ASSUME InstallInv, DnsInv', Fails
    PROVE  (TypeOK /\ TouchedWhenVisible /\ Prepared /\ Stored /\ DoneServesWanted)'
<1> USE DEF InstallInv, Fails, Ends, files, service, proxy, history
<1>1. UNCHANGED <<visible, found>> BY DEF dns, wait
<1>2. TypeOK'
  <2>1. CertificateWait \in Nat BY DEF CertificateWait, PropagationTimeout
  <2> QED BY <2>1 DEF TypeOK, DnsInv
<1>3. TouchedWhenVisible' BY <1>1 DEF TouchedWhenVisible
<1>4. Prepared' BY DEF Prepared, Preparing, Touching, Written, Checked
<1>5. Stored' BY DEF Stored
<1>6. DoneServesWanted' BY DEF DoneServesWanted
<1> QED BY <1>2, <1>3, <1>4, <1>5, <1>6

LEMMA InstallStep == InstallInv /\ [Next]_vars => InstallInv'
<1> SUFFICES ASSUME InstallInv, [Next]_vars, DnsInv'
             PROVE  (TypeOK /\ TouchedWhenVisible /\ Prepared /\ Stored /\ DoneServesWanted)'
  BY DnsStep DEF InstallInv
<1> DnsTypeOK' BY DEF DnsInv
<1> CertificateWait \in Nat BY DEF CertificateWait, PropagationTimeout
<1>0. Stopped => /\ running' \in Accepted \cup {NoConfig} /\ environ' \in {{}, Token, Whole}
                 /\ running' = NoConfig => environ' = {}
  BY DEF Stopped
<1> USE PortsAssumption DEF InstallInv, TypeOK, TouchedWhenVisible, Prepared, Stored,
        DoneServesWanted, Preparing, Touching, Written, Checked, files,
        service, proxy, history, outside, Ends, Fails, Goes
<1>1. CASE Begin
  <2>1. UNCHANGED <<visible, found>> BY <1>1 DEF Begin, dns, wait
  <2>2. TypeOK' BY <1>1, <2>1 DEF Begin
  <2>3. TouchedWhenVisible' BY <1>1, <2>1 DEF Begin
  <2>4. Prepared' BY <1>1, <2>1 DEF Begin
  <2>5. Stored' BY <1>1, <2>1 DEF Begin
  <2>6. DoneServesWanted' BY <1>1, <2>1 DEF Begin
  <2> QED BY <2>2, <2>3, <2>4, <2>5, <2>6
<1>2. CASE FindServers
  <2>1. visible' = visible BY <1>2 DEF FindServers, Nameservers, WaitEnds, dns
  <2> QED BY <1>2, <2>1 DEF FindServers, Nameservers
<1>3. CASE Poll
  <2>1. CASE pc' = "write"
    <3>1. AllAgree /\ WaitEnds /\ UNCHANGED <<found, wanted, waited>> BY <1>3, <2>1 DEF Poll
    <3>2. found' \subseteq visible' BY <3>1, AgreementIsVisible DEF WaitEnds
    <3> QED BY <1>3, <2>1, <3>1, <3>2 DEF Poll
  <2>2. CASE pc' # "write" BY <1>3, <2>2 DEF Poll
  <2> QED BY <2>1, <2>2
<1>4. CASE WriteConfig
  <2>1. CASE Fails BY <2>1, FailingKeeps
  <2>2. CASE ~Fails
    <3>1. UNCHANGED <<visible, found>> BY <1>4, <2>2 DEF WriteConfig, dns, wait
    <3>2. TypeOK' BY <1>4, <2>2, <3>1 DEF WriteConfig
    <3>3. TouchedWhenVisible' BY <1>4, <2>2, <3>1 DEF WriteConfig
    <3>4. Prepared' BY <1>4, <2>2, <3>1 DEF WriteConfig
    <3>5. Stored' BY <1>4, <2>2, <3>1 DEF WriteConfig
    <3>6. DoneServesWanted' BY <1>4, <2>2, <3>1 DEF WriteConfig
    <3> QED BY <3>2, <3>3, <3>4, <3>5, <3>6
  <2> QED BY <2>1, <2>2
<1>5. CASE Validate
  <2>1. CASE Fails BY <2>1, FailingKeeps
  <2>2. CASE ~Fails
    <3>1. UNCHANGED <<visible, found>> BY <1>5, <2>2 DEF Validate, dns, wait
    <3>2. TypeOK' BY <1>5, <2>2, <3>1 DEF Validate
    <3>3. TouchedWhenVisible' BY <1>5, <2>2, <3>1 DEF Validate
    <3>4. Prepared' BY <1>5, <2>2, <3>1 DEF Validate
    <3>5. Stored' BY <1>5, <2>2, <3>1 DEF Validate
    <3>6. DoneServesWanted' BY <1>5, <2>2, <3>1 DEF Validate
    <3> QED BY <3>2, <3>3, <3>4, <3>5, <3>6
  <2> QED BY <2>1, <2>2
<1>6. CASE WriteEnv
  <2>1. CASE Fails BY <2>1, FailingKeeps
  <2>2. CASE ~Fails
    <3>1. UNCHANGED <<visible, found>> BY <1>6, <2>2 DEF WriteEnv, dns, wait
    <3>2. TypeOK' BY <1>6, <2>2, <3>1, EnvironmentsDiffer DEF WriteEnv
    <3>3. TouchedWhenVisible' BY <1>6, <2>2, <3>1, EnvironmentsDiffer DEF WriteEnv
    <3>4. Prepared' BY <1>6, <2>2, <3>1, EnvironmentsDiffer DEF WriteEnv
    <3>5. Stored' BY <1>6, <2>2, <3>1, EnvironmentsDiffer DEF WriteEnv
    <3>6. DoneServesWanted' BY <1>6, <2>2, <3>1, EnvironmentsDiffer DEF WriteEnv
    <3> QED BY <3>2, <3>3, <3>4, <3>5, <3>6
  <2> QED BY <2>1, <2>2
<1>7. CASE RegisterUnit
  <2>1. CASE Fails BY <2>1, FailingKeeps
  <2>2. CASE ~Fails
    <3>1. UNCHANGED <<visible, found>> BY <1>7, <2>2 DEF RegisterUnit, dns, wait
    <3>2. TypeOK' BY <1>7, <2>2, <3>1 DEF RegisterUnit
    <3>3. TouchedWhenVisible' BY <1>7, <2>2, <3>1 DEF RegisterUnit
    <3>4. Prepared' BY <1>7, <2>2, <3>1 DEF RegisterUnit
    <3>5. Stored'
      <4>1. /\ pc = "register" /\ pc' = "stop" /\ systemd
            /\ UNCHANGED <<systemd, envFile, environ, certs, unstopped, synced>>
        BY <1>7, <2>2 DEF RegisterUnit
      <4> QED BY <4>1
    <3>6. DoneServesWanted' BY <1>7, <2>2, <3>1 DEF RegisterUnit
    <3> QED BY <3>2, <3>3, <3>4, <3>5, <3>6
  <2> QED BY <2>1, <2>2
<1>8. CASE DeleteService
  <2>1. CASE Fails BY <2>1, FailingKeeps
  <2>2. CASE ~Fails
    <3>1. UNCHANGED <<visible, found>> BY <1>8, <2>2 DEF DeleteService, Stopped, dns, wait
    <3>2. TypeOK'
      <4>1. /\ running' \in Accepted \cup {NoConfig} /\ environ' \in {{}, Token, Whole}
            /\ running' = NoConfig => environ' = {}
        BY <1>8, <1>0 DEF DeleteService
      <4>2. /\ registered' \in BOOLEAN /\ registry' \in {{}, Whole} /\ pc' \in {"idle", "create"}
            /\ wanted' \in {wanted, NoConfig} /\ waited' \in {waited, 0}
            /\ UNCHANGED <<systemd, file, envFile, certs, done, unstopped, synced>>
        BY <1>8 DEF DeleteService
      <4> QED BY <4>1, <4>2
    <3>3. TouchedWhenVisible' BY <1>8, <2>2, <3>1, EnvironmentsDiffer DEF DeleteService, Stopped
    <3>4. Prepared' BY <1>8, <2>2, <3>1, EnvironmentsDiffer DEF DeleteService, Stopped
    <3>5. Stored' BY <1>8, <2>2, <3>1, EnvironmentsDiffer DEF DeleteService, Stopped
    <3>6. DoneServesWanted' BY <1>8, <2>2, <3>1, EnvironmentsDiffer DEF DeleteService, Stopped
    <3> QED BY <3>2, <3>3, <3>4, <3>5, <3>6
  <2> QED BY <2>1, <2>2
<1>9. CASE CreateService
  <2>1. CASE Fails BY <2>1, FailingKeeps
  <2>2. CASE ~Fails
    <3>1. UNCHANGED <<visible, found>> BY <1>9, <2>2 DEF CreateService, dns, wait
    <3>2. TypeOK' BY <1>9, <2>2, <3>1 DEF CreateService
    <3>3. TouchedWhenVisible' BY <1>9, <2>2, <3>1 DEF CreateService
    <3>4. Prepared' BY <1>9, <2>2, <3>1 DEF CreateService
    <3>5. Stored' BY <1>9, <2>2, <3>1 DEF CreateService
    <3>6. DoneServesWanted' BY <1>9, <2>2, <3>1 DEF CreateService
    <3> QED BY <3>2, <3>3, <3>4, <3>5, <3>6
  <2> QED BY <2>1, <2>2
<1>10. CASE SetEnvironment
  <2>1. CASE Fails BY <2>1, FailingKeeps
  <2>2. CASE ~Fails
    <3>1. UNCHANGED <<visible, found>> BY <1>10, <2>2 DEF SetEnvironment, dns, wait
    <3>2. TypeOK' BY <1>10, <2>2, <3>1 DEF SetEnvironment
    <3>3. TouchedWhenVisible' BY <1>10, <2>2, <3>1 DEF SetEnvironment
    <3>4. Prepared' BY <1>10, <2>2, <3>1 DEF SetEnvironment
    <3>5. Stored' BY <1>10, <2>2, <3>1 DEF SetEnvironment
    <3>6. DoneServesWanted' BY <1>10, <2>2, <3>1 DEF SetEnvironment
    <3> QED BY <3>2, <3>3, <3>4, <3>5, <3>6
  <2> QED BY <2>1, <2>2
<1>11. CASE Stop
  <2>1. UNCHANGED <<visible, found>> BY <1>11 DEF Stop, Stopped, dns, wait
  <2>2. TypeOK' BY <1>11, <2>1, <1>0 DEF Stop
  <2>3. TouchedWhenVisible' BY <1>11, <2>1, EnvironmentsDiffer DEF Stop, Stopped
  <2>4. Prepared' BY <1>11, <2>1, EnvironmentsDiffer DEF Stop, Stopped
  <2>5. Stored' BY <1>11, <2>1, EnvironmentsDiffer DEF Stop, Stopped
  <2>6. DoneServesWanted' BY <1>11, <2>1, EnvironmentsDiffer DEF Stop, Stopped
  <2> QED BY <2>2, <2>3, <2>4, <2>5, <2>6
<1>12. CASE Start
  <2>1. CASE Fails BY <2>1, FailingKeeps
  <2>2. CASE ~Fails /\ running # NoConfig
    <3>1. UNCHANGED <<visible, found>> BY <1>12, <2>2 DEF Start, dns, wait
    <3>2. (TypeOK /\ TouchedWhenVisible /\ Prepared /\ DoneServesWanted)'
      BY <1>12, <2>2, <3>1 DEF Start
    <3>3. Stored'
      <4>1. /\ pc = "start" /\ pc' = "certificate"
            /\ UNCHANGED <<systemd, envFile, environ, certs, unstopped, synced>>
        BY <1>12, <2>2 DEF Start
      <4> QED BY <4>1
    <3> QED BY <3>2, <3>3
  <2>3. CASE ~Fails /\ running = NoConfig
    <3>1. Starts /\ UNCHANGED <<systemd, certs>> BY <1>12, <2>3 DEF Start
    <3> HIDE DEF InstallInv
    <3>2. /\ running' \in Accepted \cup {NoConfig} /\ environ' \in {{}, Token, Whole}
          /\ running' = NoConfig => environ' = {}
          /\ running' \in {file, NoConfig}
          /\ environ' = Token => envFile = Token /\ systemd /\ synced /\ "ours" \in certs
      BY <3>1, ProxyKeeps
    <3> USE DEF InstallInv
    <3>3. UNCHANGED <<visible, found>> BY <1>12, <2>3 DEF Start, dns, wait
    <3>4. (TypeOK /\ TouchedWhenVisible /\ Prepared /\ DoneServesWanted)'
      BY <1>12, <2>3, <3>2, <3>3 DEF Start
    <3>5. Stored'
      <4>1. /\ pc = "start" /\ pc' = "certificate"
            /\ UNCHANGED <<systemd, envFile, certs, unstopped, synced>>
        BY <1>12, <2>3 DEF Start
      <4> QED BY <4>1, <3>2, EnvironmentsDiffer
    <3> QED BY <3>4, <3>5
  <2> QED BY <2>1, <2>2, <2>3
<1>13. CASE WaitForCertificate
  <2>1. CASE Obtained
    <3>1. "ours" \in certs BY <2>1 DEF Obtained, Store
    <3> QED BY <1>13, <2>1, <3>1 DEF WaitForCertificate, dns, wait
  <2>2. CASE ~Obtained BY <1>13, <2>2, FailingKeeps DEF WaitForCertificate
  <2> QED BY <2>1, <2>2
<1>14. CASE InstallSync
  <2>1. UNCHANGED <<visible, found>> BY <1>14 DEF InstallSync, dns, wait
  <2>2. synced' \in BOOLEAN BY <1>14, Zenon DEF InstallSync
  <2>3. (TypeOK /\ TouchedWhenVisible /\ Prepared /\ DoneServesWanted)'
    BY <1>14, <2>1, <2>2 DEF InstallSync
  <2>4. Stored' BY <1>14 DEF InstallSync
  <2> QED BY <2>3, <2>4
<1>15. CASE Obtain
  <2>1. Store \in {"ours", "default"} BY DEF Store
  <2>2. Store = "default" => environ = Token
    BY <1>15, EnvironmentsDiffer DEF Obtain, Store
  <2> QED BY <1>15, <2>1, <2>2 DEF Obtain, dns, wait
<1>16. CASE Minute BY <1>16 DEF Minute, dns, wait
<1>17. CASE Remove
  <2>1. UNCHANGED <<visible, found>> BY <1>17 DEF Remove, Stopped, dns, wait
  <2>2. TypeOK' BY <1>17, <2>1, <1>0 DEF Remove
  <2>3. TouchedWhenVisible' BY <1>17, <2>1, EnvironmentsDiffer DEF Remove, Stopped
  <2>4. Prepared' BY <1>17, <2>1, EnvironmentsDiffer DEF Remove, Stopped
  <2>5. Stored' BY <1>17, <2>1, EnvironmentsDiffer DEF Remove, Stopped
  <2>6. DoneServesWanted' BY <1>17, <2>1, EnvironmentsDiffer DEF Remove, Stopped
  <2> QED BY <2>2, <2>3, <2>4, <2>5, <2>6
<1>18. CASE Quit BY <1>18 DEF Quit
<1>19. CASE ProxyRestarts \/ MachineRestarts
  <2>1. Starts /\ UNCHANGED <<systemd, certs>> BY <1>19 DEF ProxyRestarts, MachineRestarts
  <2> HIDE DEF InstallInv
  <2>2. /\ running' \in Accepted \cup {NoConfig} /\ environ' \in {{}, Token, Whole}
        /\ running' = NoConfig => environ' = {}
        /\ running' \in {file, NoConfig}
        /\ environ' = Token => envFile = Token /\ systemd /\ synced /\ "ours" \in certs
    BY <2>1, ProxyKeeps
  <2> USE DEF InstallInv
  <2>3. CASE ProxyRestarts
    <3>1. UNCHANGED <<visible, found>> BY <2>3 DEF ProxyRestarts, dns, wait
    <3>2. (TypeOK /\ TouchedWhenVisible /\ Prepared /\ DoneServesWanted)'
      BY <2>2, <2>3, <3>1 DEF ProxyRestarts
    <3>3. UNCHANGED <<systemd, pc, envFile, certs, unstopped, synced>>
      BY <2>3 DEF ProxyRestarts
    <3>4. Stored'
      BY <2>2, <3>3, EnvironmentsDiffer
    <3> QED BY <3>2, <3>4
  <2>4. CASE MachineRestarts BY <2>2, <2>4 DEF MachineRestarts
  <2> QED BY <1>19, <2>3, <2>4
<1>20. CASE Reaches
  <2>1. visible \subseteq visible' /\ found' = found BY <1>20 DEF Reaches, Propagates, wait
  <2> QED BY <1>20, <2>1 DEF Reaches
<1>21. CASE UNCHANGED vars BY <1>21 DEF vars, dns, wait
<1> QED BY <1>1, <1>2, <1>3, <1>4, <1>5, <1>6, <1>7, <1>8, <1>9, <1>10, <1>11, <1>12, <1>13,
           <1>14, <1>15, <1>16, <1>17, <1>18, <1>19, <1>20, <1>21 DEF Next, Installing

LEMMA InstallInvariant == Spec => []InstallInv
<1> QED BY InstallInit, InstallStep, PTL DEF Spec

\* Type correctness.
THEOREM InstallTyping == Spec => []TypeOK
<1>1. InstallInv => TypeOK BY DEF InstallInv
<1> QED BY <1>1, InstallInvariant, PTL

\* The proxy is touched only once the record is on every server the wait knows of.
THEOREM WaitsForEveryServer == Spec => []TouchedWhenVisible
<1>1. InstallInv => TouchedWhenVisible BY DEF InstallInv
<1> QED BY <1>1, InstallInvariant, PTL

\* The proxy runs what was installed, through every restart.
THEOREM InstalledIsServed == Spec => []DoneServesWanted
<1>1. InstallInv => DoneServesWanted BY DEF InstallInv
<1> QED BY <1>1, InstallInvariant, PTL

\* A certificate that is there is issued anew only after installSync has rewritten
\* the environment file, and not during an installation that stopped the old proxy.
THEOREM IssuesOnce == Spec => OneIssueBeforeSync
<1>1. ASSUME InstallInv, [Next]_vars, certs' # certs
      PROVE  \/ certs' = {"ours"}
             \/ /\ systemd /\ synced
                /\ pc \in {"start", "certificate", "keepalive"} => unstopped
  <2>1. Obtain
    BY <1>1 DEF Next, Installing, FindServers, Poll, WriteConfig, Validate, WriteEnv,
                RegisterUnit, DeleteService, CreateService, SetEnvironment, Stop, Start,
                WaitForCertificate, InstallSync, Begin, Minute, Remove, Quit, ProxyRestarts,
                MachineRestarts, Reaches, Fails, outside, vars
  <2>2. Stored /\ TypeOK
    BY <1>1 DEF InstallInv
  <2>3. CASE environ = Token
    BY <2>2, <2>3 DEF Stored
  <2>4. CASE environ # Token
    <3>1. environ = Whole
      BY <2>2, <2>1, <2>4, EnvironmentsDiffer DEF Obtain, TypeOK
    <3>2. certs' = certs \cup {"ours"} /\ "ours" \notin certs
      BY <2>1, <3>1, EnvironmentsDiffer DEF Obtain, Store
    <3>3. certs = {}
      BY <2>2, <3>2 DEF Stored, TypeOK
    <3> QED BY <3>2, <3>3
  <2> QED BY <2>3, <2>4
<1>2. InstallInv /\ [Next]_vars =>
        [certs' # certs =>
            \/ certs' = {"ours"}
            \/ systemd /\ synced /\ (pc \in {"start", "certificate", "keepalive"} => unstopped)]_vars
  BY <1>1
<1> QED BY <1>2, InstallInvariant, PTL DEF Spec, OneIssueBeforeSync

\* Only a file that was accepted takes down a proxy that runs.
THEOREM RejectedIsHarmless == Spec => RejectedStopsNothing
<1>1. ASSUME InstallInv, Installing, running # NoConfig, running' = NoConfig
      PROVE  file \in Accepted
  <2>1. pc \in Checked
    BY <1>1 DEF Installing, FindServers, Poll, WriteConfig, Validate, WriteEnv, RegisterUnit,
                DeleteService, CreateService, SetEnvironment, Stop, Start, WaitForCertificate,
                InstallSync, Fails, outside, proxy, Checked, Written, Touching, Preparing
  <2> QED BY <1>1, <2>1 DEF InstallInv, Prepared
<1>2. InstallInv /\ [Next]_vars =>
        [Installing /\ running # NoConfig /\ running' = NoConfig => file \in Accepted]_vars
  BY <1>1
<1> QED BY <1>2, InstallInvariant, PTL DEF Spec, RejectedStopsNothing

-----------------------------------------------------------------------------
(* How long an installation can take. *)

\* How many steps an installation has at most ahead of it, but for the rounds of
\* the wait and the minutes of the other.
Ahead ==
    CASE pc = "idle" -> 0
      [] pc = "keepalive" -> 1
      [] pc = "certificate" -> 2
      [] pc = "start" -> 3
      [] pc = "stop" -> 4
      [] pc = "setenv" -> 5
      [] pc = "create" -> 6
      [] pc = "register" -> 7
      [] pc = "env" -> 8
      [] pc = "validate" -> 9
      [] pc = "write" -> 10
      [] pc = "poll" -> 11
      [] pc = "find" -> 12

\* Every step of an installation leads on for good; while it waits for the name
\* servers it asks one of those this round has left, or begins one of the rounds
\* that are left, and while it waits for the certificate a minute of those passes.
InstallationsRunOut ==
    [][pc # "idle" /\ (Installing \/ Minute \/ Quit \/ MachineRestarts) =>
          \/ Ahead' < Ahead
          \/ /\ pc = "poll" /\ pc' = "poll"
             /\ \/ rounds' > rounds /\ rounds' < MaxRounds
                \/ rounds' = rounds /\ left' # left /\ left' \subseteq left
          \/ /\ pc = "certificate" /\ pc' = "certificate"
             /\ waited' > waited /\ waited' <= CertificateWait]_vars

\* An installation ends whatever fails: neither wait goes on past its time
\* (dnswait.Waiter.Wait, Wizard.waitForCertificate) and no failure sends an
\* installation back to a step it has passed (caddy.Installer.Install).
THEOREM InstallationsAreFinite == Spec => InstallationsRunOut
<1> DEFINE P == \/ Ahead' < Ahead
                \/ /\ pc = "poll" /\ pc' = "poll"
                   /\ \/ rounds' > rounds /\ rounds' < MaxRounds
                      \/ rounds' = rounds /\ left' # left /\ left' \subseteq left
                \/ /\ pc = "certificate" /\ pc' = "certificate"
                   /\ waited' > waited /\ waited' <= CertificateWait
<1>1. ASSUME TypeOK, pc # "idle", Installing \/ Minute \/ Quit \/ MachineRestarts PROVE P
  <2>1. Ahead \in 1..12
    BY <1>1 DEF TypeOK, Ahead
  <2>2. pc' = "idle" => Ahead' = 0
    BY DEF Ahead
  <2>3. CASE pc' = "idle"
    BY <2>1, <2>2, <2>3
  <2>4. CASE Quit \/ MachineRestarts \/ InstallSync
    BY <2>3, <2>4 DEF Quit, MachineRestarts, InstallSync, Ends
  <2>5. CASE Poll
    <3>1. CASE Query
      <4>1. pc' \in {"poll", "write", "idle"}
        BY <2>5 DEF Poll, Ends
      <4>2. PICK s \in left : left' = left \ {s}
        BY <3>1 DEF Query
      <4>3. rounds' = rounds /\ left' # left /\ left' \subseteq left
        BY <3>1, <4>2 DEF Query
      <4>4. pc = "poll" BY <2>5 DEF Poll
      <4>5. pc' = "write" => Ahead' < Ahead BY <4>4 DEF Ahead
      <4> QED BY <2>3, <4>1, <4>3, <4>4, <4>5
    <3>2. CASE AnotherRound /\ UNCHANGED pc
      <4>1. pc = "poll" /\ pc' = "poll" /\ rounds' = rounds + 1 /\ rounds + 1 < MaxRounds
        BY <2>5, <3>2 DEF Poll, AnotherRound
      <4>2. rounds \in Int /\ MaxRounds \in Int
        BY <1>1, ServersAssumption DEF TypeOK, DnsTypeOK
      <4>3. rounds' > rounds /\ rounds' < MaxRounds
        BY <4>1, <4>2
      <4> QED BY <4>1, <4>3
    <3>3. CASE pc' = "write"
      BY <2>5, <3>3 DEF Poll, Ahead
    <3> QED BY <2>3, <2>5, <3>1, <3>2, <3>3 DEF Poll, Ends
  <2>6. CASE Minute
    <3>1. waited \in Int /\ CertificateWait \in Int
      BY <1>1 DEF TypeOK, CertificateWait, PropagationTimeout
    <3> QED BY <1>1, <2>6, <3>1 DEF Minute, TypeOK, CertificateWait, PropagationTimeout
  <2>7. CASE FindServers \/ WriteConfig \/ Validate \/ WriteEnv
    <3>1. \/ pc = "find" /\ pc' \in {"poll", "write", "idle"}
          \/ pc = "write" /\ pc' \in {"validate", "idle"}
          \/ pc = "validate" /\ pc' \in {"env", "register", "idle"}
          \/ pc = "env" /\ pc' \in {"register", "idle"}
      BY <2>7 DEF FindServers, WriteConfig, Validate, WriteEnv, Fails, Ends, Goes
    <3> QED BY <3>1 DEF Ahead
  <2>8. CASE RegisterUnit \/ DeleteService \/ CreateService \/ SetEnvironment
    <3>1. \/ pc = "register" /\ pc' \in {"stop", "create", "idle"}
          \/ pc = "create" /\ pc' \in {"setenv", "idle"}
          \/ pc = "setenv" /\ pc' \in {"stop", "idle"}
      BY <2>8 DEF RegisterUnit, DeleteService, CreateService, SetEnvironment, Fails, Ends, Goes
    <3> QED BY <3>1 DEF Ahead
  <2>9. CASE Stop \/ Start \/ WaitForCertificate
    <3>1. \/ pc = "stop" /\ pc' = "start"
          \/ pc = "start" /\ pc' \in {"certificate", "idle"}
          \/ pc = "certificate" /\ pc' \in {"keepalive", "idle"}
      BY <2>9 DEF Stop, Start, WaitForCertificate, Fails, Ends, Goes
    <3> QED BY <3>1 DEF Ahead
  <2> QED BY <1>1, <2>4, <2>5, <2>6, <2>7, <2>8, <2>9 DEF Installing
<1> HIDE DEF P
<1>2. TypeOK /\ [Next]_vars =>
        [pc # "idle" /\ (Installing \/ Minute \/ Quit \/ MachineRestarts) => P]_vars
  BY <1>1
<1> USE DEF P
<1> QED BY <1>2, InstallTyping, PTL DEF Spec, InstallationsRunOut
=============================================================================
