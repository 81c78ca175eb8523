---------------------------- MODULE UpkeepProofs ----------------------------
(***************************************************************************)
(* The sync task keeping the port open, for any addresses, any kinds of    *)
(* router and any length of lease and of grace window, proved with TLAPS.  *)
(***************************************************************************)
EXTENDS Upkeep, TLAPS

\* What a round knows at each of its steps.
InRound ==
    /\ pc \in {"find", "look", "ask", "askLease", "save"} => automatic
    /\ pc \in {"idle", "find", "look", "ask", "askLease"} => ~ok
    /\ pc \in {"ask", "askLease"} => seen.client \in {target, Nobody}
    /\ pc \notin {"alert", "record"} => "port" \notin problems

\* As long as every call was answered, and nothing moved, it looks at what there is.
Aims == answered /\ pc \in {"look", "ask", "askLease"} => target = lan

\* And what it then confirms is there.
Attended == answered /\ automatic /\ router.acts
Open == Attended /\ pc \in {"save", "report", "alert"} /\ ok => entry.client = lan
Fresh ==
    Attended /\ pc \in {"save", "report"} /\ entry.client = lan /\ entry.left > 0
        => entry.left = Lease

\* A lease has run only since the last round that was wholly answered.
Held ==
    automatic /\ router.acts /\ entry.client = lan /\ entry.left > 0
        => unattended + entry.left >= Lease

\* What is not reported is young.
Patient == pc = "alert" /\ automatic /\ ~ok /\ "port" \notin problems => mem <= Grace

\* The record a process holds is behind what was confirmed only as the one on disk is.
Known == mem <= confirmed \/ disk > confirmed \/ confirmed > Grace

\* The alert file says what was told last, as long as it can be written.
Told == written /\ pc # "record" => told = last

UpkeepInv ==
    /\ TypeOK
    /\ InRound /\ Aims
    /\ Open /\ Fresh /\ Held
    /\ Patient /\ Known /\ BlipsAreSilent
    /\ Told

-----------------------------------------------------------------------------
(* Every step keeps the invariant. *)

LEMMA InitHolds == Init => UpkeepInv
<1> SUFFICES ASSUME Init PROVE UpkeepInv
    OBVIOUS
<1>1. TypeOK
    <2>1. /\ router \in Router /\ automatic \in BOOLEAN /\ loop \in BOOLEAN
        BY SetupAssumption DEF Init
    <2>2. entry \in Mapping /\ seen \in Mapping
        BY LeaseAssumption DEF Init, Mapping, None
    <2>3. last \in Alert /\ told \in Alert
        BY RepeatAssumption DEF Init, Alert, NoAlert
    <2>4. disk \in Age /\ mem \in Age /\ confirmed \in Age /\ unattended \in 0 .. Lease
        BY GraceAssumption, LeaseAssumption DEF Init, Age
    <2> QED BY <2>1, <2>2, <2>3, <2>4 DEF Init, TypeOK
<1>2. InRound /\ Aims /\ Open /\ Fresh /\ Patient /\ Known /\ BlipsAreSilent /\ Told
    BY GraceAssumption DEF Init, InRound, Aims, Open, Fresh, Attended, Patient, Known, BlipsAreSilent, Told
<1>3. Held
    BY LeaseAssumption DEF Init, Held
<1> QED BY <1>1, <1>2, <1>3 DEF UpkeepInv

LEMMA StartKeeps ==
    ASSUME UpkeepInv, Start
    PROVE  UpkeepInv'
<1> USE DEF UpkeepInv, Start, Check, world, fixed, result, alerts, history, look
<1>1. TypeOK'
    BY GraceAssumption, RepeatAssumption, LeaseAssumption, ClientAssumption DEF TypeOK
<1>2. InRound' /\ Aims'
    BY DEF InRound, Aims, TypeOK
<1>3. Open' /\ Fresh' /\ Held'
    BY LeaseAssumption, ClientAssumption DEF Open, Fresh, Held, Attended, InRound, Aims, TypeOK
<1>4. Patient' /\ Known' /\ BlipsAreSilent'
    BY GraceAssumption DEF Patient, Known, BlipsAreSilent, TypeOK, Age
<1>5. Told'
    BY DEF Told
<1> QED BY <1>1, <1>2, <1>3, <1>4, <1>5

LEMMA FindKeeps ==
    ASSUME UpkeepInv, Find
    PROVE  UpkeepInv'
<1> USE DEF UpkeepInv, Find, world, fixed, result, alerts, history, look
<1>1. TypeOK'
    BY GraceAssumption, RepeatAssumption, LeaseAssumption, ClientAssumption DEF TypeOK
<1>2. InRound' /\ Aims'
    BY DEF InRound, Aims, TypeOK
<1>3. Open' /\ Fresh' /\ Held'
    BY LeaseAssumption, ClientAssumption DEF Open, Fresh, Held, Attended, InRound, Aims, TypeOK
<1>4. Patient' /\ Known' /\ BlipsAreSilent'
    BY GraceAssumption DEF Patient, Known, BlipsAreSilent, TypeOK, Age
<1>5. Told'
    BY DEF Told
<1> QED BY <1>1, <1>2, <1>3, <1>4, <1>5

LEMMA LookKeeps ==
    ASSUME UpkeepInv, Look
    PROVE  UpkeepInv'
<1> USE DEF UpkeepInv, Look, Get, Confirm, Permanent, None, Mapping, Age, world, fixed, result, alerts, history, look
<1>1. TypeOK'
    <2>1. seen' \in Mapping
        <3>1. entry \in Mapping /\ None \in Mapping
            BY LeaseAssumption DEF TypeOK
        <3> QED BY <3>1 DEF TypeOK
    <2>2. answered' \in BOOLEAN
        BY Zenon DEF TypeOK
    <2>3. mem' \in Age /\ confirmed' \in Age
        <3>1. 0 \in Age
            BY GraceAssumption
        <3> QED BY <3>1, Zenon DEF TypeOK
    <2>4. ok' \in BOOLEAN
        BY Zenon DEF TypeOK
    <2>5. pc' \in {"ask", "report"}
        OBVIOUS
    <2> QED BY <2>1, <2>2, <2>3, <2>4, <2>5 DEF TypeOK
<1>2. InRound' /\ Aims'
    BY DEF InRound, Aims, TypeOK
<1>3. Open' /\ Fresh' /\ Held'
    BY LeaseAssumption, ClientAssumption DEF Open, Fresh, Held, Attended, InRound, Aims, TypeOK
<1>4. Patient' /\ Known' /\ BlipsAreSilent'
    BY GraceAssumption DEF Patient, Known, BlipsAreSilent, TypeOK, Age
<1>5. Told'
    BY DEF Told
<1> QED BY <1>1, <1>2, <1>3, <1>4, <1>5

LEMMA SaveKeeps ==
    ASSUME UpkeepInv, Save
    PROVE  UpkeepInv'
<1> USE DEF UpkeepInv, Save, world, fixed, result, alerts, history, look
<1>1. TypeOK'
    BY GraceAssumption, RepeatAssumption, LeaseAssumption, ClientAssumption DEF TypeOK
<1>2. InRound' /\ Aims'
    BY DEF InRound, Aims, TypeOK
<1>3. Open' /\ Fresh' /\ Held'
    BY LeaseAssumption, ClientAssumption DEF Open, Fresh, Held, Attended, InRound, Aims, TypeOK
<1>4. Patient' /\ Known' /\ BlipsAreSilent'
    BY GraceAssumption DEF Patient, Known, BlipsAreSilent, TypeOK, Age
<1>5. Told'
    BY DEF Told
<1> QED BY <1>1, <1>2, <1>3, <1>4, <1>5

LEMMA ReportKeeps ==
    ASSUME UpkeepInv, Report
    PROVE  UpkeepInv'
<1> USE DEF UpkeepInv, Report, Settled, Check, world, fixed, result, alerts, history, look
<1>1. TypeOK'
    BY GraceAssumption, RepeatAssumption, LeaseAssumption, ClientAssumption DEF TypeOK
<1>2. InRound' /\ Aims'
    BY DEF InRound, Aims, TypeOK
<1>3. Open' /\ Fresh' /\ Held'
    BY LeaseAssumption, ClientAssumption DEF Open, Fresh, Held, Attended, InRound, Aims, TypeOK
<1>4. Patient' /\ Known' /\ BlipsAreSilent'
    <2>1. mem \in Nat /\ disk \in Nat /\ confirmed \in Nat /\ Grace \in Nat
        BY GraceAssumption DEF TypeOK, Age
    <2>2. "port" \notin problems
        BY DEF InRound
    <2>3. Known'
        BY DEF Known
    <2>4. Patient'
        BY <2>1 DEF Patient
    <2>5. BlipsAreSilent'
        BY <2>1, <2>2 DEF BlipsAreSilent, Known
    <2> QED BY <2>3, <2>4, <2>5
<1>5. Told'
    BY DEF Told
<1> QED BY <1>1, <1>2, <1>3, <1>4, <1>5

LEMMA RaiseKeeps ==
    ASSUME UpkeepInv, Raise
    PROVE  UpkeepInv'
<1> USE DEF UpkeepInv, Raise, EndRound, Warrants, Alert, None, Mapping, Healthy, world, fixed, result, alerts, history, look
<1>1. TypeOK'
    <2>1. CASE Warrants(last, problems)
        <3>1. told' \in Alert
            BY <2>1, RepeatAssumption DEF TypeOK
        <3> QED BY <2>1, <3>1 DEF TypeOK
    <2>2. CASE ~Warrants(last, problems)
        <3>1. mem' \in Age /\ seen' \in Mapping
            BY <2>2, LeaseAssumption DEF TypeOK
        <3> QED BY <2>2, <3>1 DEF TypeOK
    <2> QED BY <2>1, <2>2
<1>2. InRound' /\ Aims'
    BY DEF InRound, Aims, TypeOK
<1>3. Open' /\ Fresh' /\ Held'
    BY LeaseAssumption, ClientAssumption DEF Open, Fresh, Held, Attended, InRound, Aims, TypeOK
<1>4. Patient' /\ Known' /\ BlipsAreSilent'
    BY GraceAssumption DEF Patient, Known, BlipsAreSilent, TypeOK, Age
<1>5. Told'
    BY DEF Told
<1> QED BY <1>1, <1>2, <1>3, <1>4, <1>5

LEMMA RecordKeeps ==
    ASSUME UpkeepInv, Record
    PROVE  UpkeepInv'
<1> USE DEF UpkeepInv, Record, EndRound, Alert, NoAlert, None, Mapping, world, fixed, result, alerts, history, look
<1>1. TypeOK'
    <2>1. written' \in BOOLEAN
        BY DEF TypeOK
    <2>2. mem' \in Age /\ seen' \in Mapping
        BY LeaseAssumption DEF TypeOK
    <2>3. last' \in Alert /\ told' \in Alert
        BY RepeatAssumption DEF TypeOK
    <2> QED BY <2>1, <2>2, <2>3 DEF TypeOK
<1>2. InRound' /\ Aims'
    BY DEF InRound, Aims, TypeOK
<1>3. Open' /\ Fresh' /\ Held'
    BY LeaseAssumption, ClientAssumption DEF Open, Fresh, Held, Attended, InRound, Aims, TypeOK
<1>4. Patient' /\ Known' /\ BlipsAreSilent'
    BY GraceAssumption DEF Patient, Known, BlipsAreSilent, TypeOK, Age
<1>5. Told'
    BY DEF Told
<1> QED BY <1>1, <1>2, <1>3, <1>4, <1>5

LEMMA CrashKeeps ==
    ASSUME UpkeepInv, Crash
    PROVE  UpkeepInv'
<1> USE DEF UpkeepInv, Crash, EndRound, Alert, NoAlert, None, Mapping, world, fixed, result, alerts, history, look
<1>1. TypeOK'
    <2>1. written' \in BOOLEAN
        BY DEF TypeOK
    <2>2. mem' \in Age /\ seen' \in Mapping
        BY LeaseAssumption DEF TypeOK
    <2>3. last' \in Alert /\ told' \in Alert
        BY RepeatAssumption DEF TypeOK
    <2> QED BY <2>1, <2>2, <2>3 DEF TypeOK
<1>2. InRound' /\ Aims'
    BY DEF InRound, Aims, TypeOK
<1>3. Open' /\ Fresh' /\ Held'
    BY LeaseAssumption, ClientAssumption DEF Open, Fresh, Held, Attended, InRound, Aims, TypeOK
<1>4. Patient' /\ Known' /\ BlipsAreSilent'
    BY GraceAssumption DEF Patient, Known, BlipsAreSilent, TypeOK, Age
<1>5. Told'
    BY DEF Told
<1> QED BY <1>1, <1>2, <1>3, <1>4, <1>5

LEMMA TickKeeps ==
    ASSUME UpkeepInv, Tick
    PROVE  UpkeepInv'
<1> USE DEF UpkeepInv, Tick, Older, Alert, None, Mapping, Age, world, fixed, result, alerts, history, look
<1>1. TypeOK'
    BY GraceAssumption, RepeatAssumption, LeaseAssumption, ClientAssumption DEF TypeOK
<1>2. InRound' /\ Aims'
    BY DEF InRound, Aims, TypeOK
<1>3. Open' /\ Fresh' /\ Held'
    BY LeaseAssumption, ClientAssumption DEF Open, Fresh, Held, Attended, InRound, Aims, TypeOK
<1>4. Patient' /\ Known' /\ BlipsAreSilent'
    BY GraceAssumption DEF Patient, Known, BlipsAreSilent, TypeOK, Age
<1>5. Told'
    BY DEF Told
<1> QED BY <1>1, <1>2, <1>3, <1>4, <1>5

LEMMA HappensKeeps ==
    ASSUME UpkeepInv, Happens
    PROVE  UpkeepInv'
<1> USE DEF UpkeepInv, Happens, RouterForgets, OtherAsks, Move, None, Mapping, world, fixed, result, alerts, history, look
<1>1. TypeOK'
    BY GraceAssumption, RepeatAssumption, LeaseAssumption, ClientAssumption DEF TypeOK
<1>2. InRound' /\ Aims'
    BY DEF InRound, Aims, TypeOK
<1>3. Open' /\ Fresh'
    BY DEF Open, Fresh, Attended
<1>4. Held'
    <2>1. CASE RouterForgets \/ OtherAsks
        BY <2>1, ClientAssumption DEF Held, TypeOK
    <2>2. CASE Move
        BY <2>2, LeaseAssumption DEF Held, TypeOK
    <2> QED BY <2>1, <2>2
<1>5. Patient' /\ Known' /\ BlipsAreSilent'
    BY GraceAssumption DEF Patient, Known, BlipsAreSilent, TypeOK, Age
<1>6. Told'
    BY DEF Told
<1> QED BY <1>1, <1>2, <1>3, <1>4, <1>5, <1>6

\* What the router answers and holds then.
Reply(lease) == AddPortMapping(router, entry, target, lease)

\* A call that is answered has put the mapping there, or left what is there.
LEMMA AddsOrLeaves ==
    ASSUME UpkeepInv, pc \in {"ask", "askLease"}, NEW lease \in {0, Lease}
    PROVE  /\ Reply(lease).answer \in {"conflict", "retryable", "ok"}
           /\ Reply(lease).answer # "ok" => Reply(lease).entry = entry
           /\ Reply(lease).answer = "conflict" => entry.client # target
           /\ Reply(lease).answer = "retryable" => lease = 0
           /\ \/ Reply(lease).entry = entry
              \/ Reply(lease).entry \in Mapping /\ Reply(lease).entry.client = target
                 /\ Reply(lease).entry.left \in {0, Lease}
           /\ router.acts /\ Reply(lease).answer = "ok" =>
                  Reply(lease).entry.client = target /\ Reply(lease).entry.left \in {0, Lease}
<1> DEFINE wanted == [client |-> target,
                      left |-> IF router.permanent = "caps" /\ lease = 0 THEN Lease ELSE lease]
<1>1. target \in Addresses
    BY DEF UpkeepInv, TypeOK
<1>2. wanted \in Mapping /\ wanted.client = target /\ wanted.left \in {0, Lease}
    BY <1>1, LeaseAssumption DEF Mapping
<1>3. CASE entry.client \notin {target, Nobody} /\ ~router.yields
    <2>1. Reply(lease) = [entry |-> entry, answer |-> "conflict"]
        BY <1>3 DEF Reply, AddPortMapping
    <2> QED BY <2>1, <1>3
<1>4. CASE ~(entry.client \notin {target, Nobody} /\ ~router.yields)
           /\ lease = 0 /\ router.permanent = "refuses"
    <2>1. Reply(lease) = [entry |-> entry, answer |-> "retryable"]
        BY <1>4 DEF Reply, AddPortMapping
    <2> QED BY <2>1, <1>4
<1>5. CASE ~(entry.client \notin {target, Nobody} /\ ~router.yields)
           /\ ~(lease = 0 /\ router.permanent = "refuses")
    <2>1. Reply(lease) = [entry |-> IF router.acts THEN wanted ELSE entry, answer |-> "ok"]
        BY <1>5 DEF Reply, AddPortMapping
    <2> QED BY <2>1, <1>2
<1> QED BY <1>3, <1>4, <1>5

LEMMA AnsweredKeeps ==
    ASSUME UpkeepInv, pc \in {"ask", "askLease"}, NEW lease \in {0, Lease}, Answered(lease)
    PROVE  UpkeepInv'
<1> DEFINE reply == Reply(lease)
<1>1. /\ reply.answer \in {"conflict", "retryable", "ok"}
      /\ reply.answer # "ok" => reply.entry = entry
      /\ reply.answer = "conflict" => entry.client # target
      /\ reply.answer = "retryable" => lease = 0
      /\ \/ reply.entry = entry
         \/ reply.entry \in Mapping /\ reply.entry.client = target
            /\ reply.entry.left \in {0, Lease}
      /\ router.acts /\ reply.answer = "ok" =>
             reply.entry.client = target /\ reply.entry.left \in {0, Lease}
    BY AddsOrLeaves
<1>2. /\ entry' = reply.entry
      /\ IF reply.answer = "ok" THEN Confirm ELSE UNCHANGED result
      /\ pc' = CASE reply.answer = "ok" -> "save"
                 [] reply.answer = "retryable" /\ lease = 0 -> "askLease"
                 [] OTHER -> "report"
      /\ UNCHANGED <<fixed, lan, disk, look, problems, alerts, history>>
    BY DEF Answered, Reply
<1> HIDE DEF reply
<1> USE DEF UpkeepInv, fixed, result, alerts, history, look
<1>3. /\ pc' \in {"save", "askLease", "report"}
      /\ pc' = "save" <=> reply.answer = "ok"
    BY <1>1, <1>2
<1>4. TypeOK'
    <2>1. entry' \in Mapping
        BY <1>1, <1>2 DEF TypeOK
    <2>2. ok' \in BOOLEAN /\ mem' \in Age /\ confirmed' \in Age
        <3>1. 0 \in Age
            BY GraceAssumption DEF Age
        <3> QED BY <1>2, <3>1, Zenon DEF TypeOK, Confirm
    <2>3. target \in Addresses
        BY DEF TypeOK
    <2> QED BY <1>2, <1>3, <2>1, <2>2, <2>3 DEF TypeOK
<1>5. InRound' /\ Aims'
    BY <1>2, <1>3 DEF InRound, Aims, Confirm
<1>6. Open' /\ Fresh'
    <2>1. Attended' => router.acts /\ target = lan
        BY <1>2 DEF Attended, Aims
    <2>2. pc' = "report" => ~ok'
        BY <1>2, <1>3 DEF InRound
    <2>3. pc' = "save" /\ Attended' => entry'.client = lan' /\ entry'.left \in {0, Lease}
        BY <1>1, <1>2, <1>3, <2>1
    <2>4. ~(pc' = "report" /\ Attended' /\ entry'.client = lan')
        BY <1>1, <1>2, <2>1
    <2> QED BY <1>3, <2>2, <2>3, <2>4, LeaseAssumption DEF Open, Fresh
<1>7. Held'
    <2>1. CASE reply.entry = entry
        BY <1>2, <2>1 DEF Held
    <2>2. CASE reply.entry.left \in {0, Lease}
        BY <1>2, <2>2, LeaseAssumption DEF Held, TypeOK
    <2> QED BY <1>1, <2>1, <2>2
<1>8. Patient' /\ Known' /\ BlipsAreSilent'
    BY <1>2, <1>3, GraceAssumption DEF Patient, Known, BlipsAreSilent, Confirm, TypeOK, Age
<1>9. Told'
    BY <1>2, <1>3 DEF Told
<1> QED BY <1>4, <1>5, <1>6, <1>7, <1>8, <1>9

LEMMA LostKeeps ==
    ASSUME UpkeepInv, pc \in {"ask", "askLease"}, NEW lease \in {0, Lease}, Lost(lease)
    PROVE  UpkeepInv'
<1> DEFINE reply == Reply(lease)
<1>1. \/ reply.entry = entry
      \/ reply.entry \in Mapping /\ reply.entry.left \in {0, Lease}
    BY AddsOrLeaves
<1>2. /\ entry' \in {entry, reply.entry}
      /\ answered' = FALSE
      /\ pc' = "report"
      /\ UNCHANGED <<fixed, lan, result, disk, look, problems, alerts, unattended>>
    BY DEF Lost, Reply
<1> HIDE DEF reply
<1> USE DEF UpkeepInv, fixed, result, alerts, look
<1>3. TypeOK'
    <2>1. entry' \in Mapping
        BY <1>1, <1>2 DEF TypeOK
    <2> QED BY <1>2, <2>1 DEF TypeOK
<1>4. InRound' /\ Aims' /\ Open' /\ Fresh'
    BY <1>2 DEF InRound, Aims, Open, Fresh, Attended
<1>5. Held'
    <2>1. CASE entry' = entry
        BY <1>2, <2>1 DEF Held
    <2>2. CASE entry'.left \in {0, Lease}
        BY <1>2, <2>2, LeaseAssumption DEF Held, TypeOK
    <2> QED BY <1>1, <1>2, <2>1, <2>2
<1>6. Patient' /\ Known' /\ BlipsAreSilent'
    BY <1>2 DEF Patient, Known, BlipsAreSilent, InRound
<1>7. Told'
    BY <1>2 DEF Told
<1> QED BY <1>3, <1>4, <1>5, <1>6, <1>7

LEMMA StutterKeeps ==
    ASSUME UpkeepInv, UNCHANGED vars
    PROVE  UpkeepInv'
BY DEF UpkeepInv, vars, world, fixed, result, look, alerts, history, TypeOK, InRound, Aims,
       Open, Fresh, Attended, Held, Patient, Known, BlipsAreSilent, Told

LEMMA Invariance == Spec => []UpkeepInv
<1>1. UpkeepInv /\ [Next]_vars => UpkeepInv'
    <2> SUFFICES ASSUME UpkeepInv, [Next]_vars PROVE UpkeepInv'
        OBVIOUS
    <2>1. CASE Start BY <2>1, StartKeeps
    <2>2. CASE Find BY <2>2, FindKeeps
    <2>3. CASE Look BY <2>3, LookKeeps
    <2>4. CASE Ask BY <2>4, AnsweredKeeps, LostKeeps DEF Ask
    <2>5. CASE AskLease BY <2>5, AnsweredKeeps, LostKeeps DEF AskLease
    <2>6. CASE Save BY <2>6, SaveKeeps
    <2>7. CASE Report BY <2>7, ReportKeeps
    <2>8. CASE Raise BY <2>8, RaiseKeeps
    <2>9. CASE Record BY <2>9, RecordKeeps
    <2>10. CASE Crash BY <2>10, CrashKeeps
    <2>11. CASE Tick BY <2>11, TickKeeps
    <2>12. CASE Happens BY <2>12, HappensKeeps
    <2>13. CASE UNCHANGED vars BY <2>13, StutterKeeps
    <2> QED BY <2>1, <2>2, <2>3, <2>4, <2>5, <2>6, <2>7, <2>8, <2>9, <2>10, <2>11,
               <2>12, <2>13 DEF Next, Round
<1> QED BY <1>1, InitHolds, PTL DEF Spec

-----------------------------------------------------------------------------
(* What the sync task promises. *)

\* Every state a round goes through is one the program can name (cmd/rasa-sync
\* run and portkeep.Run).
THEOREM UpkeepTyping == Spec => []TypeOK
BY Invariance, PTL DEF UpkeepInv

\* A report that does not name the port is right or young, if every call of the
\* round was answered (portkeep.renew and Result.Settled).
THEOREM GreenIsTrue == Spec => []GreenMeansOpen
<1>1. UpkeepInv => GreenMeansOpen
    BY DEF UpkeepInv, GreenMeansOpen, Open, Attended, Patient
<1> QED BY <1>1, Invariance, PTL

\* A mapping confirmed within the grace window is never reported as a fault, if the
\* confirmation reached the record (Result.Settled; cmd/rasa-sync keepPortOpen).
THEOREM BlipsStaySilent == Spec => []BlipsAreSilent
BY Invariance, PTL DEF UpkeepInv

\* A lease in hand lapses only if no round was wholly answered for the whole of it,
\* however often rounds are killed or calls lost in between (portkeep.renew; Add).
THEOREM LeasesAreKept == Spec => LapsesOnlyUnattended
<1>1. UpkeepInv /\ [Next]_vars =>
          [Tick /\ automatic /\ router.acts /\ entry.client = lan /\ entry' = None
              => unattended' >= Lease]_vars
    <2> SUFFICES ASSUME UpkeepInv, Tick, automatic, router.acts, entry.client = lan, entry' = None
                 PROVE  unattended' >= Lease
        OBVIOUS
    <2>1. /\ entry.client # Nobody
          /\ entry.left \in 0 .. Lease /\ unattended \in 0 .. Lease
        BY ClientAssumption DEF UpkeepInv, TypeOK, Mapping
    <2>2. entry.left = 1
        <3>1. CASE entry.left > 1
            <4>1. entry'.client = entry.client
                BY <3>1, <2>1 DEF Tick, UpkeepInv, TypeOK, Mapping
            <4> QED BY <4>1, <2>1 DEF None
        <3>2. CASE entry.left = 0
            BY <3>2, <2>1 DEF Tick, None
        <3> QED BY <3>1, <3>2, <2>1, LeaseAssumption
    <2>3. unattended + 1 >= Lease
        BY <2>1, <2>2 DEF UpkeepInv, Held
    <2> QED BY <2>1, <2>3, LeaseAssumption DEF Tick, Older
<1> QED BY <1>1, Invariance, PTL DEF Spec, LapsesOnlyUnattended

\* No round takes another device's mapping that it has seen, nor touches a forward
\* made by hand (portkeep.renew; cmd/rasa-sync keepPortOpen's Method check).
THEOREM OthersAreLeftAlone == Spec => LeavesOthersAlone
<1>1. UpkeepInv /\ [Next]_vars =>
          [Round /\ entry' # entry
              => automatic /\ (entry.client \in {target, Nobody} \/ entry # seen)]_vars
    <2> SUFFICES ASSUME UpkeepInv, Round, entry' # entry
                 PROVE  automatic /\ (entry.client \in {target, Nobody} \/ entry # seen)
        OBVIOUS
    <2>1. Ask \/ AskLease
        BY DEF Round, Start, Find, Look, Save, Report, Raise, Record, world
    <2>2. pc \in {"ask", "askLease"}
        BY <2>1 DEF Ask, AskLease
    <2> QED BY <2>2 DEF UpkeepInv, InRound
<1> QED BY <1>1, Invariance, PTL DEF Spec, LeavesOthersAlone

\* After a round the last thing the user was told is what is wrong now, as long as
\* the alert file can be written (health.Escalation.Consider).
THEOREM UserIsTold == Spec => ToldWhatIsWrong
<1>1. UpkeepInv /\ [Next]_vars => [Raise /\ written => told'.signature = problems]_vars
    <2> SUFFICES ASSUME UpkeepInv, Raise, written PROVE told'.signature = problems
        OBVIOUS
    <2>1. told = last
        BY DEF UpkeepInv, Told, Raise
    <2>2. CASE Warrants(last, problems)
        BY <2>2 DEF Raise
    <2>3. CASE ~Warrants(last, problems)
        <3>1. told' = told
            BY <2>3 DEF Raise
        <3>2. problems = last.signature
            BY <2>3 DEF Warrants
        <3> QED BY <2>1, <3>1, <3>2
    <2> QED BY <2>2, <2>3
<1> QED BY <1>1, Invariance, PTL DEF Spec, ToldWhatIsWrong

\* And the same fault is not told twice within RepeatAfter (health.Warrants).
THEOREM NotNagged == Spec => NotToldTwice
<1>1. UpkeepInv /\ [Next]_vars =>
          [Raise /\ written /\ pc' = "record"
              => told.signature # problems \/ told.age >= Repeat]_vars
    <2> SUFFICES ASSUME UpkeepInv, Raise, written, pc' = "record"
                 PROVE  told.signature # problems \/ told.age >= Repeat
        OBVIOUS
    <2>1. told = last
        BY DEF UpkeepInv, Told, Raise
    <2>2. Warrants(last, problems)
        BY DEF Raise, EndRound
    <2> QED BY <2>1, <2>2 DEF Warrants
<1> QED BY <1>1, Invariance, PTL DEF Spec, NotToldTwice

-----------------------------------------------------------------------------
(* What one round that gets through is worth. *)

\* What a wholly answered round has seen is still what there is, until it asks; and
\* once it has been answered, somebody has the port.
Reached ==
    /\ Attended /\ pc \in {"ask", "askLease"} => entry.client \in {lan, Nobody}
    /\ Attended /\ pc \in {"save", "report", "alert"} =>
          entry.client # Nobody /\ (ok <=> entry.client = lan)

\* One round in which no call is lost and nothing moves is enough: it ends with the
\* port forwarded, to this machine or to the device that had it before, and it
\* says which.
WholeRoundsOpen ==
    pc = "alert" /\ Attended => entry.client # Nobody /\ (ok <=> entry.client = lan)

LEMMA LookReaches ==
    ASSUME UpkeepInv, UpkeepInv', Look
    PROVE  Reached'
<1>1. CASE answered'
    <2>1. seen' = entry /\ entry' = entry /\ lan' = lan /\ target = lan /\ ~ok
        BY <1>1 DEF Look, Get, world, UpkeepInv, Aims, InRound
    <2>2. lan # Nobody /\ pc' \in {"report", "ask"}
        BY ClientAssumption DEF UpkeepInv, TypeOK, Look
    <2>3. CASE entry.client = lan /\ Permanent(entry)
        BY <2>1, <2>2, <2>3 DEF Look, Confirm, Reached
    <2>4. CASE ~(entry.client = lan /\ Permanent(entry))
        <3>1. ok' = ok /\ pc' = IF entry.client \in {Nobody, lan} THEN "ask" ELSE "report"
            BY <2>1, <2>4 DEF Look, result
        <3> QED BY <2>1, <3>1 DEF Reached
    <2> QED BY <2>3, <2>4
<1>2. CASE ~answered'
    BY <1>2 DEF Reached, Attended
<1> QED BY <1>1, <1>2

LEMMA AnsweredReaches ==
    ASSUME UpkeepInv, Reached, pc \in {"ask", "askLease"}, NEW lease \in {0, Lease},
           pc = "askLease" => lease # 0, Answered(lease)
    PROVE  Reached'
<1> DEFINE reply == Reply(lease)
<1>1. SUFFICES ASSUME Attended' PROVE Reached'
    BY DEF Reached
<1>2. /\ entry' = reply.entry
      /\ IF reply.answer = "ok" THEN Confirm ELSE UNCHANGED result
      /\ pc' = CASE reply.answer = "ok" -> "save"
                 [] reply.answer = "retryable" /\ lease = 0 -> "askLease"
                 [] OTHER -> "report"
      /\ UNCHANGED <<router, automatic, lan, target, answered>>
    BY DEF Answered, Reply, fixed, history, look
<1>3. Attended /\ target = lan /\ entry.client \in {target, Nobody} /\ lan # Nobody
    BY <1>1, <1>2, ClientAssumption DEF Attended, UpkeepInv, Aims, Reached, TypeOK
<1>4. /\ reply.answer \in {"conflict", "retryable", "ok"}
      /\ reply.answer # "ok" => reply.entry = entry
      /\ reply.answer = "retryable" => lease = 0
      /\ reply.answer = "ok" => reply.entry.client = target
    BY <1>3, AddsOrLeaves DEF Attended
<1>5. reply.answer # "conflict"
    BY <1>3 DEF Reply, AddPortMapping
<1> HIDE DEF reply
<1>6. CASE reply.answer = "ok"
    BY <1>2, <1>3, <1>4, <1>6 DEF Reached, Confirm
<1>7. CASE reply.answer = "retryable"
    BY <1>2, <1>3, <1>4, <1>7 DEF Reached
<1> QED BY <1>4, <1>5, <1>6, <1>7

LEMMA ReachedStep ==
    ASSUME UpkeepInv, UpkeepInv', Reached, [Next]_vars
    PROVE  Reached'
<1> USE DEF UpkeepInv, world, fixed, result, alerts, history, look
<1>1. CASE Look
    BY <1>1, LookReaches
<1>2. CASE Ask \/ AskLease
    <2>1. PICK lease \in {0, Lease} :
            /\ pc \in {"ask", "askLease"} /\ (pc = "askLease" => lease # 0)
            /\ Answered(lease) \/ Lost(lease)
        BY <1>2, LeaseAssumption DEF Ask, AskLease
    <2>2. CASE Lost(lease)
        BY <2>2 DEF Lost, Reached, Attended
    <2> QED BY <2>1, <2>2, AnsweredReaches
<1>3. CASE Start
    BY <1>3 DEF Start, Reached, Attended
<1>4. CASE Find
    BY <1>4 DEF Find, Reached, Attended
<1>5. CASE Save
    BY <1>5 DEF Save, Reached, Attended
<1>6. CASE Report
    BY <1>6 DEF Report, Reached, Attended
<1>7. CASE Raise
    BY <1>7 DEF Raise, EndRound, Reached
<1>8. CASE Record \/ Crash
    BY <1>8 DEF Record, Crash, EndRound, Reached
<1>9. CASE Tick
    BY <1>9 DEF Tick, Reached
<1>10. CASE Happens
    BY <1>10 DEF Happens, Reached, Attended
<1>11. CASE UNCHANGED vars
    BY <1>11 DEF vars, Reached, Attended
<1> QED BY <1>1, <1>2, <1>3, <1>4, <1>5, <1>6, <1>7, <1>8, <1>9, <1>10, <1>11
        DEF Next, Round

\* The part of the port's being opened again that needs no fairness: whatever was
\* forgotten, lost or taken before it, the first round that is answered throughout
\* leaves the port forwarded (portkeep.Run, renew; portmap.Add).
THEOREM WholeRoundsSuffice == Spec => []WholeRoundsOpen
<1>1. Init => Reached
    BY DEF Init, Reached
<1>2. UpkeepInv /\ UpkeepInv' /\ Reached /\ [Next]_vars => Reached'
    BY ReachedStep
<1>3. Reached => WholeRoundsOpen
    BY DEF Reached, WholeRoundsOpen
<1> QED BY <1>1, <1>2, <1>3, Invariance, PTL DEF Spec
=============================================================================
