------------------------------- MODULE Upkeep -------------------------------
(***************************************************************************)
(* The sync task keeping a port open for years (cmd/rasa-sync: run, loop,  *)
(* checker.run, keepPortOpen; internal/portkeep; internal/health): one     *)
(* round after another against a router that restarts, a machine whose     *)
(* address moves, other devices, and calls that are lost.  Time passes     *)
(* between rounds, and is kept as ages that stop where nothing looks       *)
(* further.                                                                *)
(***************************************************************************)
EXTENDS PortMap, HealthReport

CONSTANTS
    Setups,      \* the kinds of router and of setup
    Grace        \* GraceWindow, in rounds

ASSUME SetupAssumption == Setups \subseteq [router : Router, automatic : BOOLEAN, loop : BOOLEAN]
ASSUME GraceAssumption == Grace \in Nat

VARIABLES
    router,      \* the kind it is
    automatic,   \* the recorded mapping was made by RASA (Method is "upnp")
    loop,        \* one process for ever, rather than one a round
    entry,       \* what the router forwards the port to
    lan,         \* this machine's address
    disk,        \* how long ago the record on disk says the mapping was confirmed
    mem,         \* the same in the record the running process holds
    pc,          \* the step the round takes next, or idle
    target,      \* the address of this machine the round found
    seen,        \* what the round read from the router
    ok,          \* Result.OK
    problems,    \* the checks that failed so far in this round
    last,        \* the alert file
    told,        \* history: the last alert raised, kept while the file takes them
    written,     \* history: the alert file took the last one
    answered,    \* history: no call of this round was lost and nothing moved in it
    unattended,  \* history: since when no round at this address was wholly answered
    confirmed    \* history: since when no round confirmed the mapping

fixed == <<router, automatic, loop>>
world == <<fixed, entry, lan>>
result == <<ok, mem, confirmed>>
alerts == <<last, told, written>>
history == <<answered, unattended>>
look == <<target, seen>>
vars == <<world, result, disk, pc, look, problems, alerts, history>>

Age == 0 .. Grace + 1
Older(age, limit) == IF age < limit THEN age + 1 ELSE limit

Init ==
    /\ \E s \in Setups :
          router = s.router /\ automatic = s.automatic /\ loop = s.loop
    /\ lan \in Addresses
    /\ entry \in {[client |-> lan, left |-> 0], [client |-> lan, left |-> Lease]}
    /\ disk = 0
    /\ mem = 0
    /\ pc = "idle"
    /\ target = Nobody
    /\ seen = None
    /\ ok = FALSE
    /\ problems = {}
    /\ last = NoAlert
    /\ told = NoAlert
    /\ written = TRUE
    /\ answered = TRUE
    /\ unattended = 0
    /\ confirmed = 0

-----------------------------------------------------------------------------
(* A round. *)

\* A round ends, or its process is killed.  Whatever it knew is gone, but for the
\* record in the hands of a process that goes on; the next one loads it anew.
EndRound(stays) ==
    /\ pc' = "idle"
    /\ ok' = FALSE
    /\ mem' = IF loop /\ stays THEN mem ELSE disk
    /\ target' = Nobody
    /\ seen' = None
    /\ problems' = {}
    /\ answered' = TRUE

\* run: the record is loaded, once a process; the other checks turn out one way or
\* the other, and a forward made by hand is not the keeper's.
Start ==
    /\ pc = "idle"
    /\ problems' \in {{}, {"address"}}
    /\ pc' = IF automatic THEN "find" ELSE "alert"
    /\ UNCHANGED <<world, result, disk, look, alerts, history>>

\* Keeper.Run: the router is looked for afresh, and may not be heard.
Find ==
    /\ pc = "find"
    /\ \/ pc' = "look" /\ target' = lan /\ UNCHANGED answered
       \/ pc' = "report" /\ answered' = FALSE /\ UNCHANGED target
    /\ UNCHANGED <<world, result, disk, seen, problems, alerts, unattended>>

\* Result.OK; syncState, in memory.
Confirm == ok' = TRUE /\ mem' = 0 /\ confirmed' = 0

\* Mapper.Get.  A call that fails reads as nothing there.
Get ==
    \/ seen' = entry /\ UNCHANGED answered
    \/ seen' = None /\ answered' = FALSE

\* Slip: any mapping to this machine is left as it is.
LookOnce ==
    /\ pc = "look"
    /\ Get
    /\ IF seen'.client = target
       THEN Confirm /\ pc' = "report"
       ELSE UNCHANGED result /\ pc' = IF seen'.client = Nobody THEN "ask" ELSE "report"
    /\ UNCHANGED <<world, disk, target, problems, alerts, unattended>>

\* Slip: whatever is there, the port is asked for.
LookBoldly ==
    /\ pc = "look"
    /\ Get
    /\ IF seen'.client = target /\ Permanent(seen')
       THEN Confirm /\ pc' = "report"
       ELSE UNCHANGED result /\ pc' = "ask"
    /\ UNCHANGED <<world, disk, target, problems, alerts, unattended>>

\* Slip: a permanent mapping is good enough, whoever it is to.
LookLightly ==
    /\ pc = "look"
    /\ Get
    /\ IF seen' # None /\ Permanent(seen')
       THEN Confirm /\ pc' = "report"
       ELSE UNCHANGED result /\ pc' = IF seen'.client \in {Nobody, target} THEN "ask" ELSE "report"
    /\ UNCHANGED <<world, disk, target, problems, alerts, unattended>>

\* Slip: a mapping that is gone is a fault to report.
LookSadly ==
    /\ pc = "look"
    /\ Get
    /\ IF seen'.client = target /\ Permanent(seen')
       THEN Confirm /\ pc' = "report"
       ELSE UNCHANGED result /\ pc' = IF seen'.client = target THEN "ask" ELSE "report"
    /\ UNCHANGED <<world, disk, target, problems, alerts, unattended>>

\* renew: a permanent mapping to this machine is confirmed and neither rewritten
\* nor saved; one to any other client is left alone.
Look ==
    /\ pc = "look"
    /\ Get
    /\ IF seen'.client = target /\ Permanent(seen')
       THEN Confirm /\ pc' = "report"
       ELSE UNCHANGED result /\ pc' = IF seen'.client \in {Nobody, target} THEN "ask" ELSE "report"
    /\ UNCHANGED <<world, disk, target, problems, alerts, unattended>>

\* Add: the answer decides what comes next.  The read-back changes only what is
\* said of the mapping.
Answered(lease) ==
    LET reply == AddPortMapping(router, entry, target, lease) IN
    /\ entry' = reply.entry
    /\ IF reply.answer = "ok" THEN Confirm ELSE UNCHANGED result
    /\ pc' = CASE reply.answer = "ok" -> "save"
               [] reply.answer = "retryable" /\ lease = 0 -> "askLease"
               [] OTHER -> "report"
    /\ UNCHANGED <<fixed, lan, disk, look, problems, alerts, history>>

\* A call that is lost may have been carried out.
Lost(lease) ==
    /\ entry' \in {entry, AddPortMapping(router, entry, target, lease).entry}
    /\ answered' = FALSE
    /\ pc' = "report"
    /\ UNCHANGED <<fixed, lan, result, disk, look, problems, alerts, unattended>>

Ask == pc = "ask" /\ (Answered(0) \/ Lost(0))
AskLease == pc = "askLease" /\ (Answered(Lease) \/ Lost(Lease))

\* keepPortOpen: the record is saved when the router granted something.
Save ==
    /\ pc = "save"
    /\ disk' \in {disk, mem}
    /\ pc' = "report"
    /\ UNCHANGED <<world, result, look, problems, alerts, history>>

\* Settled: a failure is one once the last confirmation is old enough.
Settled == ok \/ mem > Grace

\* Slip: every failure is reported.
ReportAtOnce ==
    /\ pc = "report"
    /\ problems' = IF ok THEN problems ELSE problems \cup {"port"}
    /\ unattended' = IF answered THEN 0 ELSE unattended
    /\ pc' = "alert"
    /\ UNCHANGED <<world, result, disk, look, alerts, answered>>

Report ==
    /\ pc = "report"
    /\ problems' = IF Settled /\ ~ok THEN problems \cup {"port"} ELSE problems
    /\ unattended' = IF answered THEN 0 ELSE unattended
    /\ pc' = "alert"
    /\ UNCHANGED <<world, result, disk, look, alerts, answered>>

\* Consider, first half: the alert, whether or not anything takes it.
Raise ==
    /\ pc = "alert"
    /\ IF Warrants(last, problems)
       THEN /\ told' = [signature |-> problems, age |-> 0]
            /\ pc' = "record"
            /\ UNCHANGED <<ok, mem, look, problems, answered>>
       ELSE EndRound(TRUE) /\ UNCHANGED told
    /\ UNCHANGED <<world, confirmed, disk, last, written, unattended>>

\* Slip: only faults are recorded.
RecordFaults ==
    /\ pc = "record"
    /\ written' \in BOOLEAN
    /\ last' = IF written' /\ ~Healthy(problems) THEN told ELSE last
    /\ told' = IF written' THEN told ELSE NoAlert
    /\ EndRound(TRUE)
    /\ UNCHANGED <<world, confirmed, disk, unattended>>

\* Second half: it is recorded, or the file cannot be written.
Record ==
    /\ pc = "record"
    /\ written' \in BOOLEAN
    /\ last' = IF written' THEN told ELSE last
    /\ told' = IF written' THEN told ELSE NoAlert
    /\ EndRound(TRUE)
    /\ UNCHANGED <<world, confirmed, disk, unattended>>

\* The process is killed; the next one loads the record.
Crash ==
    /\ pc # "idle"
    /\ EndRound(FALSE)
    /\ written' = (written /\ pc # "record")
    /\ told' = IF written' THEN told ELSE NoAlert
    /\ UNCHANGED <<world, confirmed, disk, last, unattended>>

-----------------------------------------------------------------------------
(* The world. *)

\* Time passes, with a round before it or not: the machine may be off.
Tick ==
    /\ pc = "idle"
    /\ entry' = IF entry.left = 1 THEN None
                ELSE IF entry.left > 1 THEN [entry EXCEPT !.left = @ - 1] ELSE entry
    /\ disk' = Older(disk, Grace + 1)
    /\ mem' = Older(mem, Grace + 1)
    /\ last' = [last EXCEPT !.age = Older(@, Repeat)]
    /\ told' = IF written THEN [told EXCEPT !.age = Older(@, Repeat)] ELSE told
    /\ unattended' = Older(unattended, Lease)
    /\ confirmed' = Older(confirmed, Grace + 1)
    /\ UNCHANGED <<fixed, lan, ok, pc, look, problems, written, answered>>

\* The router restarts and has forgotten; another device asks for the port.
RouterForgets == entry # None /\ entry' = None /\ UNCHANGED <<lan, unattended>>
OtherAsks ==
    /\ entry = None \/ router.yields
    /\ entry' = [client |-> Other, left |-> 0]
    /\ UNCHANGED <<lan, unattended>>

\* DHCP gives the machine another address.
Move ==
    /\ \E a \in Addresses \ {lan} : lan' = a
    /\ unattended' = Lease
    /\ UNCHANGED entry

Happens ==
    /\ RouterForgets \/ OtherAsks \/ Move
    /\ answered' = (pc = "idle")
    /\ UNCHANGED <<fixed, result, disk, pc, look, problems, alerts>>

Round == Start \/ Find \/ Look \/ Ask \/ AskLease
         \/ Save \/ Report \/ Raise \/ Record

Next == Round \/ Crash \/ Tick \/ Happens

Spec == Init /\ [][Next]_vars

\* The scheduler starts a round again and again and its steps run; a round is not
\* killed every time it comes to a call, and no call is lost every time.
FairSpec ==
    /\ Spec
    /\ WF_vars(Round)
    /\ SF_vars(Find /\ target' = lan) /\ SF_vars(Look /\ seen' = entry)
    /\ SF_vars(pc = "ask" /\ Answered(0)) /\ SF_vars(pc = "askLease" /\ Answered(Lease))

-----------------------------------------------------------------------------
TypeOK ==
    /\ router \in Router /\ automatic \in BOOLEAN /\ loop \in BOOLEAN
    /\ entry \in Mapping /\ seen \in Mapping
    /\ lan \in Addresses /\ target \in Addresses \cup {Nobody}
    /\ disk \in Age /\ mem \in Age /\ confirmed \in Age
    /\ pc \in {"idle", "find", "look", "ask", "askLease", "save",
               "report", "alert", "record"}
    /\ ok \in BOOLEAN /\ written \in BOOLEAN /\ answered \in BOOLEAN
    /\ problems \subseteq Check
    /\ last \in Alert /\ told \in Alert
    /\ unattended \in 0 .. Lease
    /\ pc \in {"look", "ask", "askLease"} => target \in Addresses

\* A lease in hand lapses only if for the whole of it no round was answered: one
\* round that gets through is enough, whatever is killed or lost in between.
LapsesOnlyUnattended ==
    [][Tick /\ automatic /\ router.acts /\ entry.client = lan /\ entry' = None
          => unattended' >= Lease]_vars

\* Another device's mapping is never taken by a round that has seen it, also from
\* a router that would give it up, and a forward made by hand is never touched.
LeavesOthersAlone ==
    [][Round /\ entry' # entry
          => automatic /\ (entry.client \in {target, Nobody} \/ entry # seen)]_vars

\* When every call was answered, a report that does not name the port is right,
\* or the failure is younger than the grace window.
GreenMeansOpen ==
    pc = "alert" /\ automatic /\ answered /\ router.acts /\ "port" \notin problems
        => entry.client = lan \/ (~ok /\ mem <= Grace)

\* A mapping confirmed within the grace window is never reported as a fault, if
\* the confirmation reached the record.
BlipsAreSilent ==
    pc = "alert" /\ "port" \in problems => confirmed > Grace \/ disk > confirmed

\* After every round the last thing the user was told is what is wrong now, as
\* long as the file of alerts could be written.
ToldWhatIsWrong == [][Raise /\ written => told'.signature = problems]_vars

\* And the same thing is not said twice within RepeatAfter.
NotToldTwice ==
    [][Raise /\ written /\ pc' = "record"
          => told.signature # problems \/ told.age >= Repeat]_vars

\* A router that has forgotten the mapping forwards the port again.
PortIsReopened == (automatic /\ router.acts /\ entry = None) ~> entry # None

=============================================================================
