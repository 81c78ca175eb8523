------------------------------ MODULE Account ------------------------------
(***************************************************************************)
(* The two programs that share a name, a record and a credential: the      *)
(* wizard (ClaimName, publishAddress, installSync, RemoveRemoteAccess) and *)
(* the scheduled sync task (run, Syncer.RunOnce, keepPortOpen).  Each may  *)
(* be killed at any step, every call to Dynu may be lost, and the          *)
(* connection's address changes.                                           *)
(***************************************************************************)
EXTENDS DynuClient, StateStore

CONSTANTS
    NoName

ASSUME NoNameAssumption == NoName \notin Names
ASSUME RecordAssumption == Record = Names \cup {NoName}

VARIABLES
    home,        \* the public addresses a probe finds
    timer,       \* the sync task is registered
    secret,      \* the credential is stored
    \* the wizard
    wpc,         \* the step it takes next, "idle", or "off"
    st,          \* the name in its record
    dyn,         \* it holds the credential
    claimed,     \* the name whose id it holds
    seen,        \* the addresses its probe saw
    typed,       \* the name it is claiming
    next,        \* what follows the claim or the save in progress
    kept,        \* history: RemoveTimer left the task there in this removal
    lost,        \* history: an answer to this claim's create was lost
    removed,     \* history: the name last reported as no longer pointing here, until
                 \* it is claimed again or another is before the record was emptied
    emptied,     \* history: the record was emptied after that
    \* the sync task
    spc, sst, sseen,
    late         \* history: a round was running when the name was unpublished

wizard == <<wpc, st, dyn, claimed, seen, typed, next, kept, lost>>
sync == <<spc, sst, sseen>>
history == <<removed, emptied, late>>
vars == <<dynu, store, home, timer, secret, wizard, sync, history>>

AnyName == Names \cup {NoName}
Loaded == IF file = Missing THEN NoName ELSE file

Init ==
    /\ account \in [Names -> {Free, Theirs}]
    /\ tries = [p \in Process |-> 0]
    /\ StoreInit
    /\ home \in Homes
    /\ timer = FALSE
    /\ secret = FALSE
    /\ wpc = "off" /\ st = NoName /\ dyn = FALSE /\ claimed = NoName /\ seen = Off
    /\ typed = NoName /\ next = "idle" /\ kept = FALSE /\ lost = FALSE
    /\ spc = "idle" /\ sst = NoName /\ sseen = Off
    /\ removed = NoName /\ emptied = FALSE /\ late = FALSE

-----------------------------------------------------------------------------
(* The wizard: launching, and saving its record. *)

\* New; a credential may be unreadable.
Launch ==
    /\ wpc = "off"
    /\ st' = Loaded
    /\ dyn' \in {secret, FALSE}
    /\ wpc' = "idle"
    /\ UNCHANGED <<dynu, store, home, timer, secret, claimed, seen, typed, next, kept, lost,
                   sync, history>>

\* Start, which saves what it found.
Probe ==
    /\ wpc = "idle"
    /\ seen' = home
    /\ wpc' = "save"
    /\ UNCHANGED <<dynu, store, home, timer, secret, st, dyn, claimed, typed, next, kept, lost,
                   sync, history>>

\* SetDynuKey, accepted and stored.
SetDynuKey ==
    /\ wpc = "idle" /\ ~dyn
    /\ secret' = TRUE /\ dyn' = TRUE
    /\ UNCHANGED <<dynu, store, home, timer, wpc, st, claimed, seen, typed, next, kept, lost,
                   sync, history>>

\* save: the temporary file, or an error before there is one.
SaveBegins ==
    /\ wpc = "save"
    /\ \/ Begin("wizard", st) /\ wpc' = "clear"
            /\ UNCHANGED next
       \/ UNCHANGED store /\ wpc' = next /\ next' = "idle"
    /\ UNCHANGED <<dynu, home, timer, secret, st, dyn, claimed, seen, typed, kept, lost,
                   sync, history>>

SaveClears ==
    /\ wpc = "clear"
    /\ Clear("wizard")
    /\ wpc' = "rename"
    /\ UNCHANGED <<dynu, home, timer, secret, st, dyn, claimed, seen, typed, next, kept, lost,
                   sync, history>>

SaveEnds ==
    /\ wpc = "rename"
    /\ \/ /\ Rename("wizard")
          /\ emptied' = (emptied \/ (removed # NoName /\ temp["wizard"] = NoName))
       \/ RenameFails("wizard") /\ UNCHANGED emptied
    /\ wpc' = next /\ next' = "idle"
    /\ UNCHANGED <<dynu, home, timer, secret, st, dyn, claimed, seen, typed, kept, lost,
                   sync, removed, late>>

\* Killed or closed at any step.
Quit ==
    /\ wpc # "off"
    /\ Abandon("wizard")
    /\ tries' = [tries EXCEPT !["wizard"] = 0]
    /\ wpc' = "off" /\ st' = NoName /\ dyn' = FALSE /\ claimed' = NoName /\ seen' = Off
    /\ typed' = NoName /\ next' = "idle" /\ kept' = FALSE /\ lost' = FALSE
    /\ UNCHANGED <<account, home, timer, secret, sync, history>>

-----------------------------------------------------------------------------
(* The wizard: claiming a name, and the rest of an installation. *)

Claiming(n, then) ==
    /\ wpc = "idle" /\ dyn /\ seen # Off
    /\ typed' = n
    /\ next' = then
    /\ removed' = IF removed = n \/ ~emptied THEN NoName ELSE removed
    /\ emptied' = (emptied /\ removed' # NoName)
    /\ late' = (late /\ removed' # NoName)
    /\ UNCHANGED <<dynu, store, home, timer, secret, st, dyn, claimed, seen, kept, lost,
                   sync>>

\* Slip: CreateDomain asks for the name without looking first.
BeginClaimBlindly(n, then) == Claiming(n, then) /\ wpc' = "create"

BeginClaim(n, then) == Claiming(n, then) /\ wpc' = "find"

ClaimName == \E n \in Names : BeginClaim(n, "idle")
Install == st # NoName /\ BeginClaim(st, "installTimer")

\* A step of CreateDomain leads to another, or the claim ends there.
Leads(step) == wpc' = step /\ UNCHANGED <<typed, next, lost>>
ClaimEnds == wpc' = "idle" /\ typed' = NoName /\ next' = "idle" /\ lost' = FALSE

claim == <<store, home, timer, secret, st, dyn, claimed, seen, kept, sync, history>>

\* A call of the claim that is repeated, or given up.
Unanswered(r) ==
    \/ Repeated("wizard", r) /\ Leads(wpc)
    \/ GivenUp("wizard", r) /\ ClaimEnds

\* CreateDomain: is the name on the account?
Find ==
    /\ wpc = "find"
    /\ LET r == FindDomain(typed) IN
       \/ Answered("wizard", r) /\ Leads(IF Ours(typed) THEN "update" ELSE "create")
       \/ Unanswered(r)
    /\ UNCHANGED claim

\* A refused update, and a refused create, are shown as a name that is taken.
Taken(r) == ~Granted(r) /\ Answered("wizard", r) /\ ClaimEnds
ToldTaken ==
    \/ wpc = "update" /\ Taken(UpdateAddresses(typed, seen))
    \/ wpc = "create" /\ Taken(Create(typed, seen))

Update ==
    /\ wpc = "update"
    /\ LET r == UpdateAddresses(typed, seen) IN
       \/ Granted(r) /\ Answered("wizard", r) /\ Leads("confirm")
       \/ Taken(r)
       \/ Unanswered(r)
    /\ UNCHANGED claim

CreateName ==
    /\ wpc = "create"
    /\ LET r == Create(typed, seen) IN
       \/ Granted(r) /\ Answered("wizard", r)
          /\ wpc' = "confirm" /\ lost' = FALSE /\ UNCHANGED <<typed, next>>
       \/ Taken(r)
       \/ Full("wizard", r) /\ ClaimEnds
       \/ GivenUp("wizard", r) /\ ClaimEnds
       \/ Repeated("wizard", r)
          /\ lost' = (lost \/ account' # account) /\ UNCHANGED <<wpc, typed, next>>
    /\ UNCHANGED claim

\* ClaimName and publishAddress, after the grant.
Grant ==
    /\ claimed' = typed
    /\ st' = typed
    /\ typed' = NoName
    /\ wpc' = "save"
    /\ UNCHANGED <<next, lost>>

\* The record that was created or updated is looked up again.
ConfirmName ==
    /\ wpc = "confirm"
    /\ LET r == GetDomain(typed) IN
       \/ Answered("wizard", r) /\ Ours(typed) /\ Grant
       \/ /\ \/ Answered("wizard", r) /\ ~Ours(typed) /\ ClaimEnds
             \/ Unanswered(r)
          /\ UNCHANGED <<st, claimed>>
    /\ UNCHANGED <<store, home, timer, secret, dyn, seen, kept, sync, history>>

\* installSync.
InstallTimer ==
    /\ wpc = "installTimer"
    /\ timer' \in {timer, TRUE}
    /\ wpc' = "idle"
    /\ UNCHANGED <<dynu, store, home, secret, st, dyn, claimed, seen, typed, next, kept, lost,
                   sync, history>>

-----------------------------------------------------------------------------
(* The wizard: removing remote access. *)

\* Offered as soon as a name is recorded, and followed by a new probe.
Remove ==
    /\ wpc = "idle" /\ st # NoName
    /\ wpc' = "removeTimer" /\ seen' = Off
    /\ UNCHANGED <<dynu, store, home, timer, secret, st, dyn, claimed, typed, next, kept, lost,
                   sync, history>>

\* Slip: the name is unpublished while the task may still start.
RemoveTimerLater ==
    /\ wpc = "removeTimer"
    /\ kept' = FALSE
    /\ UNCHANGED timer
    /\ wpc' = IF dyn THEN IF claimed # NoName THEN "unpublish" ELSE "look" ELSE "forget"
    /\ UNCHANGED <<dynu, store, home, secret, st, dyn, claimed, seen, typed, next, lost,
                   sync, history>>

\* RemoveTimer, which does not stop a round that is running.  When the task is
\* still there afterwards, that need not have been noticed.
RemoveTimer ==
    /\ wpc = "removeTimer"
    /\ \/ timer' = FALSE /\ kept' = FALSE
       \/ UNCHANGED timer /\ kept' = TRUE
    /\ wpc' = IF dyn THEN IF claimed # NoName THEN "unpublish" ELSE "look" ELSE "forget"
    /\ UNCHANGED <<dynu, store, home, secret, st, dyn, claimed, seen, typed, next, lost,
                   sync, history>>

\* unpublish, when the id is not known: a failure is reported and the rest goes on.
Look ==
    /\ wpc = "look"
    /\ LET r == FindDomain(st) IN
       \/ Answered("wizard", r) /\ wpc' = IF Ours(st) THEN "unpublish" ELSE "forget"
       \/ Repeated("wizard", r) /\ UNCHANGED wpc
       \/ GivenUp("wizard", r) /\ wpc' = "forget"
    /\ UNCHANGED <<claim, typed, next, lost>>

ClearAddress ==
    /\ wpc = "unpublish"
    /\ LET r == Unpublish(st) IN
       \/ /\ Granted(r) /\ Answered("wizard", r) /\ wpc' = "forget"
          /\ IF kept THEN UNCHANGED history
             ELSE removed' = st /\ late' = (spc # "idle") /\ emptied' = FALSE
       \/ /\ \/ ~Granted(r) /\ Answered("wizard", r) /\ wpc' = "forget"
             \/ Repeated("wizard", r) /\ UNCHANGED wpc
             \/ GivenUp("wizard", r) /\ wpc' = "forget"
          /\ UNCHANGED history
    /\ UNCHANGED <<store, home, timer, secret, st, dyn, claimed, seen, typed, next, kept, lost,
                   sync>>

\* forgetCredential.
ForgetCredential ==
    /\ wpc = "forget"
    /\ \/ secret' = FALSE /\ dyn' = FALSE /\ claimed' = NoName
       \/ UNCHANGED <<secret, dyn, claimed>>
    /\ kept' = FALSE
    /\ wpc' = "reset"
    /\ UNCHANGED <<dynu, store, home, timer, st, seen, typed, next, lost, sync, history>>

\* The record is emptied, whatever failed before.
ResetRecord ==
    /\ wpc = "reset"
    /\ st' = NoName
    /\ wpc' = "save" /\ next' = "idle"
    /\ UNCHANGED <<dynu, store, home, timer, secret, dyn, claimed, seen, typed, kept, lost,
                   sync, history>>

-----------------------------------------------------------------------------
(* The sync task. *)

\* run: without a record that names a host there is nothing to do; without a
\* credential, or without a public address, only the port is looked after.
Start ==
    /\ spc = "idle" /\ timer
    /\ sst' = Loaded
    /\ sst' # NoName
    /\ \/ secret /\ spc' = "find" /\ sseen' = home
       \/ spc' = "keep" /\ UNCHANGED sseen
    /\ UNCHANGED <<dynu, store, home, timer, secret, wizard, history>>

\* Slip: an address is published only where there is none.
ChangedIfOff(domain, net) == \E f \in Family : net[f] # None /\ domain[f] = None

\* changed: against what Dynu holds, never against what was last sent.  A family
\* that was not observed is left out of it.
changed(domain, net) == \E f \in Family : net[f] # None /\ domain[f] # net[f]

round == <<store, home, timer, secret, wizard, sst, history>>

\* What was observed matters until RunOnce ends.
Proceeds(step) == spc' = step /\ sseen' = IF step = "keep" THEN Off ELSE sseen

SyncUnanswered(r) ==
    \/ Repeated("sync", r) /\ Proceeds(spc)
    \/ GivenUp("sync", r) /\ Proceeds("keep")

\* RunOnce.
SyncFinds ==
    /\ Answered("sync", FindDomain(sst))
    /\ Proceeds(IF Ours(sst) /\ changed(account[sst], sseen) THEN "update" ELSE "keep")
SyncFind ==
    /\ spc = "find"
    /\ SyncFinds \/ SyncUnanswered(FindDomain(sst))
    /\ UNCHANGED round

\* What reads the record back changes only what is reported.
SyncUpdates ==
    /\ Answered("sync", UpdateAddresses(sst, sseen))
    /\ Proceeds("keep")
SyncUpdate ==
    /\ spc = "update"
    /\ SyncUpdates \/ SyncUnanswered(UpdateAddresses(sst, sseen))
    /\ UNCHANGED round

\* The round ends: it was answered, or killed.
SyncEnds == spc' = "idle" /\ sst' = NoName /\ sseen' = Off

\* keepPortOpen: the record is saved when the router granted something.
Keep ==
    /\ spc = "keep"
    /\ \/ Begin("sync", sst) /\ spc' = "clear" /\ UNCHANGED <<sst, sseen>>
       \/ UNCHANGED store /\ SyncEnds
    /\ UNCHANGED <<dynu, home, timer, secret, wizard, history>>

SyncClears ==
    /\ spc = "clear"
    /\ Clear("sync")
    /\ spc' = "rename"
    /\ UNCHANGED <<dynu, home, timer, secret, wizard, sst, sseen, history>>

SyncSaves ==
    /\ spc = "rename"
    /\ Rename("sync") \/ RenameFails("sync")
    /\ SyncEnds
    /\ UNCHANGED <<dynu, home, timer, secret, wizard, history>>

SyncKilled ==
    /\ spc # "idle"
    /\ Abandon("sync")
    /\ SyncEnds
    /\ tries' = [tries EXCEPT !["sync"] = 0]
    /\ UNCHANGED <<account, home, timer, secret, wizard, history>>

-----------------------------------------------------------------------------
(* The world. *)

Move ==
    /\ \E h \in Homes \ {home} : home' = h
    /\ UNCHANGED <<dynu, store, timer, secret, wizard, sync, history>>

Edit ==
    /\ EditedByHand
    /\ UNCHANGED <<store, home, timer, secret, wizard, sync, history>>

Wizard == Launch \/ Probe \/ SetDynuKey \/ SaveBegins \/ SaveClears \/ SaveEnds
          \/ ClaimName \/ Install \/ Find \/ Update \/ CreateName \/ ConfirmName
          \/ InstallTimer \/ Remove \/ RemoveTimer \/ Look \/ ClearAddress
          \/ ForgetCredential \/ ResetRecord
Sync == Start \/ SyncFind \/ SyncUpdate \/ Keep \/ SyncClears \/ SyncSaves

Next == Wizard \/ Quit \/ Sync \/ SyncKilled \/ Move \/ Edit

Spec == Init /\ [][Next]_vars

\* The scheduler starts rounds and their steps run; no call is lost every time,
\* and no round is killed every time it comes to one.
FairSpec ==
    /\ Spec
    /\ WF_vars(Sync)
    /\ SF_vars(Start /\ sseen' = home)
    /\ SF_vars(SyncFind /\ SyncFinds)
    /\ SF_vars(SyncUpdate /\ SyncUpdates)

-----------------------------------------------------------------------------
TypeOK ==
    /\ StoreTypeOK
    /\ account \in [Names -> NameState]
    /\ tries \in [Process -> 0 .. MaxAttempts - 1]
    /\ home \in Homes /\ timer \in BOOLEAN /\ secret \in BOOLEAN
    /\ wpc \in {"off", "idle", "save", "clear", "rename", "find", "update", "create", "confirm",
                "installTimer", "removeTimer", "look", "unpublish", "forget", "reset"}
    /\ next \in {"idle", "installTimer"}
    /\ st \in AnyName /\ claimed \in AnyName /\ typed \in AnyName
    /\ dyn \in BOOLEAN /\ kept \in BOOLEAN /\ lost \in BOOLEAN
    /\ seen \in Homes \cup {Off} /\ sseen \in Homes \cup {Off}
    /\ removed \in AnyName /\ emptied \in BOOLEAN /\ late \in BOOLEAN
    /\ spc \in {"idle", "find", "update", "keep", "clear", "rename"}
    /\ sst \in AnyName /\ (spc = "idle") = (sst = NoName)

\* A name reported as no longer pointing here by a removal that took the task away
\* does not, and the record that was emptied stays empty, whatever the sync task
\* does, unless a round of it was running at that moment.
RemovalSticks ==
    removed # NoName /\ ~late =>
        /\ account[removed] \notin Homes
        /\ emptied => file # removed /\ temp["sync"] # removed

\* The user is told that a name is taken only if it is not on their account, or
\* the answer to this claim's own request for it was lost.
TakenMeansTaken == [][ToldTaken => ~Ours(typed) \/ lost]_vars

\* What either program holds, and which of them are saving it.
held == [p \in Process |-> IF p = "wizard" THEN st ELSE sst]
saving == {p \in Process : temp[p] # Missing}

\* However the saves of the two programs, their crashes and their failures fall
\* between one another, the file is a record one of them held as it began to save.
Shared == INSTANCE SharedRecord WITH hold <- held
RecordIsShared == Shared!Spec

\* There is no record only if none was ever saved, one is being replaced, or the
\* replacement was cut off between its two steps.
MissingOnlyInBetween == file = Missing => gap \/ cleared # {}

\* Every address the connection has is published right.  One it no longer has may
\* stay published beside them: changed does not look for it.
PointsHome(n) == Ours(n) /\ \A f \in Family : home[f] # None => account[n][f] = home[f]

\* While the task is registered and saves its record time and again, the name comes
\* to point at a connection whose addresses stay, as long as it is on the account
\* and no save of the record was cut off half-way for good.
FollowsHome ==
    \A n \in Names :
        /\ <>[](timer /\ secret /\ file \in {n, Missing} /\ Ours(n) /\ wpc = "off")
        /\ []<>(file = n)
        /\ <>[][home' = home]_vars
        => []<>PointsHome(n)
=============================================================================
