# A verification project for RASA

RASA ("remote access setup for Jellyfin") is a program a person runs once, in a
browser window, to make the Jellyfin server in their living room reachable from
anywhere: it claims a hostname, opens a port on the router, installs a proxy
with a certificate, tells Jellyfin its address, and leaves a small scheduled
task behind that keeps the address current.  This directory holds TLA+ modules
translated from its source, the TLC configurations that check them, and proofs
that TLAPS checks.

    tlc -workers 2 -config upkeep.cfg MCUpkeep            # any run below
    tlapm WizardProofs.tla                                # any *Proofs module

## 1. The system

Two programs share one machine and one record on disk.

* `cmd/rasa` is the setup app.  `main.go` takes the instance lock, builds a
  `wizard.Wizard` and a loopback HTTP server, and opens the browser on it.
* `cmd/rasa-sync` is started every ten minutes for ever.  It updates the DNS
  record, renews the port mapping, writes a health report and raises alerts.

### Components

"Hard" is what makes the component worth modelling; "correct" is what it owes
to the others.

| Component | State | Operations | Hard | Correct when |
|---|---|---|---|---|
| **Setup wizard** `internal/wizard` | the record in memory, the current screen, the decision, the busy flag, the credential | `Start`, `SignIn`, `UseAPIKey`, `SetDynuKey`, `Back`, `ClaimName`, `OpenPort`, `SkipPort`, `Install` and its eight steps, `RemoveRemoteAccess` and its five | can be killed between any two steps and launched again; each step changes one outside thing and then the record; the check at the end moves the port and runs again | the record never runs ahead of or falls behind the world so far that a later launch is misled; what the last screen says is true |
| **Setup record** `internal/state` | phase, hostname, port, mode, mapping, warnings | `Load`, `Save`, `Advance`, `Reached`, `Reset` | three-step replacement of the file; two writers (wizard and sync task) | phases follow the chain; a name is recorded exactly from the moment it is claimed to the moment it is removed |
| **Mode router** `internal/mode` | none | `Choose` | partial knowledge of the network | every decision that lets setup go on says how the port is opened |
| **Model feed** `Wizard.update/begin/end/Subscribe`, `internal/ui` event stream | model and revision, busy flag, a one-slot channel per connection | publish, subscribe, read, close | two-step `begin` and `end`; a send outside the lock | pages go forwards and end up current; one operation at a time |
| **Instance lock** `internal/instance` | a file naming an address | `Acquire`, `Stop`, `Release` | check, then write; crashes leave the file; copies are killed and replaced | one copy runs; a stale lock refuses nobody |
| **Browser interface** `internal/ui` | listener, token | routes to wizard operations | goroutine per request | an operation is started only from a screen that offers it |
| **Sync task** `cmd/rasa-sync`, `internal/ddns` | last addresses, record, health file | one run: sync, renew, report | runs at the same time as the wizard; a run in flight during removal | never republishes what was removed; never undoes the wizard's save |
| **Port keeper** `internal/portkeep` | `RenewedAt` in the record | `Run` | leases expire, addresses move, discovery is lossy | a lease in hand is renewed; one lost datagram is no alert; another device's mapping is left alone |
| **Port mapper** `internal/portmap` | none | `Add`, `Get`, `Delete` with a ladder of leases and retries | routers that lie | a mapping is reported only after it reads back |
| **Health and alerts** `internal/health`, `internal/alert` | last signature | `Evaluate`, `Escalate` | suppression by signature | each new fault raises one alert; a recovery clears it |
| **Dynu client** `internal/dynu` | account on the service | create, update, delete, list | lost replies, retries, a quota of four names | a retry is not taken for a conflict |
| **DNS wait** `internal/dnswait` | answers in this round | `Nameservers`, `WaitForA` | servers learn a record one by one | it ends only on agreement in one round |
| **Proxy installation** `internal/caddy`, `internal/service` | binary, Caddyfile, env file, service | `Install`, `Remove` | stop before start; overwritten files | a failed installation leaves something that can be repaired |
| **Jellyfin client** `internal/jellyfin` | session, network settings | sign in, `Apply`, `Restart`, `WaitUntilReady` | read-modify-write of a section the user edits too; a restart that is still owed | the user's settings survive, and what was set is in force or the user was told |
| **Probe** `internal/probe` | the replies to one search | `Run`, `FindMappingTarget` | replies in any order, devices that hang, tunnels | the device that maps ports is found, and the mapping points at this machine on its network |
| **Reachability** `internal/reach` | token | `SelfCheck`, `CheckURL` | an outside party's answer | never "reachable" for a closed path |
| **Logging** `internal/logging` | current file, size | write, rotate | size boundary | bounded disk |
| **Credential store** `internal/secrets` | one key | get, set, delete | unreadable stores | present or absent |
| Domain catalogue, router guides, error catalogue, recovery file, QR code, paths, processes, packaging | none of their own | | rendering and wording | not modelled |

### How they interact

The browser calls a wizard operation through `ui.Server`; the operation runs in
a goroutine of its own under the busy flag, calls the probe, Dynu, the router,
the service manager and Jellyfin one after the other, and after each success
records a phase (`Wizard.advance`) and saves.  Every change of the model goes
through `Wizard.update` to each connection's channel and from there to the
page.  The record on disk is the only thing a later launch has; the sync task
reads the same record and writes its mapping.  The instance lock is what keeps
two wizards from doing all of this at once.

## 2. The modules

| Module | What it is |
|---|---|
| `SetupPhases` | the phases, `Reached`, `Advance`, and `Record`, the way `Wizard.advance` uses both |
| `ModeRouter` | `mode.Choose` as an operator over probe results |
| `Wizard` | the setup wizard and everything it changes, the calls it makes having any of their outcomes |
| `SetupProgress` | abstract specification: what the record on disk promises a later launch |
| `ModelFeed` | `begin`, `end`, `update`, `Subscribe` and the event stream, interleaved |
| `Broadcast` | abstract specification: what the feed promises a page, with no channel, lock or waiting sender |
| `InstanceLock` | `Acquire`, `Stop`, `Release` and the order `main` calls them in |
| `Discovery` | the search for the router: replies, candidates, descriptions, the time there is |
| `Preflight` | what setup and the sync task make of that search; extends `Discovery` and `ModeRouter` |
| `PortMap` | what a router does with a request for a port |
| `HealthReport` | when a report is worth an alert |
| `Upkeep` | round after round of the sync task keeping the port; extends `PortMap` and `HealthReport` |
| `StateStore` | the three steps of a save, by two programs |
| `DynuClient` | calls to Dynu, what they do to the account, and the client's retries |
| `Account` | wizard and sync task sharing a name, a record and a credential; extends `DynuClient` and `StateStore` |
| `SharedRecord` | abstract specification: what the record promises two programs that save it |
| `DnsWait` | waiting for all name servers to agree |
| `ProxyInstall` | files, service and certificates of an installation; extends `DnsWait` |
| `JellyfinSettings` | `Apply`, `Restart` and `WaitUntilReady` against a Jellyfin in use |
| `MCWizard`, `MCModelFeed`, `MCInstanceLock`, `MCPreflight`, `MCUpkeep`, `MCAccount`, `MCProxyInstall`, `MCJellyfinSettings` | instances for TLC |
| `WizardProofs`, `ModelFeedProofs`, `InstanceLockProofs`, `PreflightProofs`, `UpkeepProofs`, `AccountProofs`, `ProxyInstallProofs`, `JellyfinSettingsProofs` | theorems |

`Wizard` extends `SetupPhases` and `ModeRouter` and instantiates `SetupProgress`
with `phase <- disk.phase, host <- disk.host`; `ModelFeed` instantiates
`Broadcast`, a page being where its connection is and its next snapshot what is
queued in its channel; `Account` instantiates `SharedRecord`, a program being in
the middle of a save while it has a temporary file.  `Wizard` takes each step of an
installation or removal as one call with its outcomes; `Account`,
`ProxyInstall`, `JellyfinSettings` and `Preflight` open those steps up, each
with the parties that act at the same time.  A definition whose comment begins
with "Slip" is a way the code could have been written wrongly.  No
specification uses it; it shows, put in the place of the definition after it,
that a property can fail.

### Wizard

*State.*  `st` is `w.st`, `disk` the record as the next launch would load it.
`pc` is "off" (no process), "idle" (no operation, `busy` is false), or the step
the running operation takes next; the busy flag is thus `pc` outside those two.
`screen`, `repair`, `signedIn`, `dyn`, `probed`, `decision`, `switched`,
`failed` (the steps a removal shows as failed, while they are on the screen) are
the wizard's fields and model fields of the same role.  The world outside is
`owned` (names on the Dynu account), `dns`, `router` (whom each port is forwarded
to), `service` (the configuration the registered proxy service starts with next),
`proxy` (the configuration the running proxy serves, which may be an older one),
`jellyfin` (published address), `certs`, `secret` and `timer`.  Of the record
only the fields some step reads back are kept: phase, host, port, mode, mapping.

*Actions.*  One per operation, except that an operation which does something
outside and then records it is split where the program could be killed in
between: `ClaimName` (Dynu grants, or the answer is lost) and `RecordName`;
`Install` and one action per step; the move to the other port as
`SwitchToFallbackPort`, `MapFallbackPort`, `MoveProxy`, `MoveJellyfin` and
`Verify` again.  A phase is recorded and saved in the same action as the outside
change it records, except where the code has other calls between them.  `Quit`
is the process ending at any step, by the user, a crash or a restart; `Launch`
is `wizard.New` from whatever is on disk.  `NetworkChanges` and `ForwardByHand`
are the machine's owner.  `ProxyRestarts` is the machine, or the proxy alone,
starting again: what runs is then what is registered, or nothing.  An installation
reported as successful (`ProxyUp`) leaves the new proxy running, or the old one,
or none: a failed stop is only logged, starting what runs does nothing, and a
started service may be gone again.  Only the wait for the certificate tells, and
after the move to the other port there is none.  The steps of a removal report
what the code reports: a failed stop and a task that could not be queried are
shown as done.

*Abstracted.*  The choice of guide (`UseGenericGuide`, `ChooseRouter`) and the
live checks of a key or name change nothing that is read back.  The firewall
step of a removal is a rule on this machine that nothing else reads.  A
`Save` is one step: the record is replaced or it is not (`SaveMayFail`); its
three steps are in `StateStore`.  A Jellyfin that is found but unusable, a
rejected password and a rejected key are the failing outcomes of their
operations.  The two screens that only show progress are those they come from.
A probe returns the current network.

### ModelFeed

`busy` is `w.busy`, `modelBusy` is `Model.Busy`, `op` says where each operation's
goroutine is: `begin` and `end` both take the lock twice, once for the flag and
once inside `update`, so each is two actions.  `conn` says where a connection's
handler is: `Subscribe` registers its channel and takes a snapshot under the
lock (`Register`) and sends after it (`SendFirst`), which may block (`sending`).
`Publish` is the loop of `update`: send, or drain and send again; draining a
channel on which a handler is blocked lets that handler's value in, which is the
Go rule for buffered channels.  `Read` writes the queued snapshot to the stream.
A handler that is stuck in its send does not notice that the browser has gone.

### InstanceLock

A copy is one launch; `at` is where its `main` is.  It reads the record
(`Load`), binds its listener (`Serve`), reads the lock and asks the address in it
(`Check`), and writes the file (`Claim`).  A refused copy gives up or kills the
one it found (`Replace`) and tries once more.  A copy that quits stops serving
first and removes the file after (`Shutdown`, `Release`), whoever it names by
then.  `Crash` can come anywhere.  `overlapped` is a history variable: it
becomes true when a launch or a closing begins while another launch is under
way, or a launch during a closing, and false again with the first launch after
all copies are gone: what an overlap spoils does not outlast it.  An answer on the loopback address is
assumed to arrive within `serving`'s timeout, and addresses are not reused by
other programs.

### Discovery and Preflight

`coming` is the set of replies that reach this machine in time, chosen at the
start: a device answers the search for gateways only if it is one, and the
search for anything at all; either reply may be lost.  `Read` is one pass of
`discover`'s loop, `Describe` one pass of the loop over the sorted candidates,
`budget` the number of devices that hang which the twenty seconds leave room
for.  In `Preflight`, `AskAddress` is the question for the WAN address, `Join`
the end of `Prober.Run` after all probes, `FindMappingTarget` the sync task's
shorter way.  `route` and `vpn` are what the routing table says.  What the
internet, port and Jellyfin probes find is any combination, since nothing they
see depends on the search.

### PortMap, HealthReport and Upkeep

Time is counted in rounds of the sync task (ten minutes).  `entry` is what the
router forwards the port to and how much of its lease is left; a router may
grant, refuse or silently shorten the permanent lease `Add` asks for, let
another client take a port or not, and say "ok" without doing anything.  A round
is `Start` (record loaded, other checks done), `Find` (the router is looked for
afresh), `Look` (`Get` and the decisions of `renew`), `Ask` and `AskLease` (the
two requests of `Add`), `Save`, `Report` (with `Settled`), `Raise` and `Record`
(the two halves of `Escalator.Consider`).  Any call may be lost, and one that
changes something may have been carried out all the same.  `Crash` is the
process killed anywhere.  In between, `Tick` lets time pass with or without a
round, `RouterForgets`, `OtherAsks` and `Move` are the world.  `disk` and `mem`
are the ages of `RenewedAt` in the record on disk and in the one the process
holds, which the `-loop` mode loads once.  Ages stop where nothing looks
further.  The last seven variables are not in the code: `told`, `written`,
`answered`, `unattended` and `confirmed` remember what the properties compare
with; the code never reads them.

### StateStore, DynuClient and Account

`file`, `temp` and `cleared` are the record file, the temporary file each program
has written and who has passed `os.Remove`; `Begin`, `Clear`, `Rename` are the
steps of `Save`, `RenameFails` and `Abandon` what can go wrong in the last two.
`account` is what Dynu holds for each name.  A request is `Answered`, `Repeated`
or `GivenUp` (`do`'s loop), and in the last two cases may have been carried out.
`Account` has the wizard's claim (`Find`, `Update` or `CreateName`,
`ConfirmName`), its removal (`RemoveTimer`, `Look`, `ClearAddress`,
`ForgetCredential`, `ResetRecord`) and its saves, interleaved with a round of the
sync task (`Start`, `SyncFind`, `SyncUpdate`, `Keep` and the save), either killed
anywhere (`Quit`, `SyncKilled`), while the address changes (`Move`) and the user
edits the account (`Edit`).  The port's side of a round is `Upkeep`'s; here `Keep`
saves the record or does not.  An address is one value for each family, or `None`:
`home` is what a probe finds, so a probe of one family that does not get through
is a `Move` too; `changed` compares the families that were observed and an update
replaces all of them.  `kept` remembers that `RemoveTimer` left the task there,
noticed or not.

### DnsWait and ProxyInstall

`visible` grows as the record reaches name servers; `found` are those whose
address could be looked up; `agreeing` counts in one round.  `ProxyInstall` keeps
each thing an installation leaves apart: the Caddyfile, the environment file, the
service's registration and, on Windows, the environment in its definition; what
the running proxy started with (`running`, `environ`); and the stores that hold a
certificate.  A configuration is the port it listens on, one of which the proxy
rejects.  Every step has its failure, with what it leaves behind: `Stop` only
logs, `Start` does nothing when the proxy runs, `DeleteService` may leave a
service that is gone after the next boot.  `InstallSync` writes the same
environment file for the sync task, which `synced` remembers.  In `Remove` each of
stopping, removing the service and deleting the environment file may fail without
keeping the others from being tried.  Time passes only while the wizard waits for
the certificate (`Minute`); how long the proxy takes to get it is open.

### JellyfinSettings

`saved` is the section Jellyfin holds, `inForce` the switches the server started
with, `mine` the copy the wizard read.  `Applied` is what `Apply` makes of it
(`mergeUnique`, `replacePrefix`, the three switches), `Write` puts the whole
section back.  `server` is "stopping" after it was told to restart and while it
still answers.  The user may save a section of their own at any moment, Jellyfin
may go down on its own, any request may fail after it took effect, and the
wizard may be closed.

## 3. The runs

| Run | Question | Result |
|---|---|---|
| `wizard_resume` | interrupted anywhere, any save failing, launched again: is a step ever refused, does the record name an ungranted host? | holds |
| `wizard_rename` | two launches, two names, a router that maps nothing, one restart of the proxy: is the last screen true, does the record implement `SetupProgress`, is nothing installed or forgotten that nobody was told of? | holds |
| `wizard_network` | one change of network and one restart of the proxy at any step, six networks: does each step of an operation bring it nearer its end, does every operation end, is the last screen true all the same? | holds |
| `wizard_conflict` | does the finished address name the forwarded port? | violated |
| `feed` | one operation at a time, controls come back, do the channels implement `Broadcast`, what is queued is shown, who can block? | holds |
| `lock` | whom is a copy refused by; does one copy run, is it the one named, can it run on an old record? | holds |
| `router` | is the router found whatever answers first, is the mapping pointed at this machine, is what setup decides justified? | holds |
| `upkeep` | is the port kept open, other devices left alone, and the user told the truth, once? | holds |
| `account` | does a removal stick, do the saves implement `SharedRecord`, is "taken" true, does the name follow the address? | holds |
| `install` | does a finished installation serve what was asked, after failures and restarts; is the certificate asked for at the right time, and when again? | holds |
| `install_restart` | are certificates ever issued from scratch? | violated |
| `jellyfin` | is one address published, is it in force, do the user's settings survive? | holds |

### The properties

* `RecordIsNeverRefused`: `advance` answers an illegal transition with a log line
  and goes on.  After any history, the phase the next step records is legal.
* `RecordedNameIsOurs`: no record, in memory or on disk, names a host that Dynu
  did not grant.
* `DoneIsCoherent`: at the handover screen the registered proxy, Jellyfin's
  published address, the DNS record, the certificate and the record (on disk too)
  speak of one name and one port.  What runs is what is registered, or nothing;
  after a move to the other port it may also be the proxy of before the move,
  which nothing looks at any more.
* `ProgressSpec`: the record on disk implements `SetupProgress`: one phase at a
  time, a name exactly from DOMAIN_CLAIMED on, back only by a removal that
  forgets both at once.
* `InstallsUnderARecordedName`: a proxy is registered only under the name on disk,
  so a crash leaves a record that offers repair and removal.
* `ForgetsOnlyWhatItReported`: when the record forgets the name, a service that is
  still registered and a key that is still stored are on the removal screen's list
  of failures.  What the code takes for gone without asking is in section 5.
* `OperationEnds`: verify calls the port move, which calls verify.
  `OperationsRunOut` is why: a measure, `Ahead`, that every step of an operation
  lowers and only the user's next action sets anew.
* `OneOperation`, `IdleIsShown`, `QueuedIsShown` for the feed.  `PagesAreServed`:
  the feed implements `Broadcast`, so every change is an open page's next
  snapshot at once, snapshots are shown in order, a page opens on the model as it
  is, and only a page whose opening a change overtook may open on an older one;
  `OnlyOvertakenBlocks`: a handler waits in `Subscribe`'s send only while a newer
  snapshot is queued in front of it.
* `RefusedByARunner` (a copy is turned away only by one that is running, never by
  a lock a crash left) whatever overlaps; `RunnerIsNamed` and `StaleOnlyBeside`
  (a copy runs on an older record only if it was launched beside the one that
  saved), which the lock can promise only as far as launches do not overlap.
* `RouterIsFound`: a device that maps ports and got one reply through is found,
  but for three reasons the property names: another device that calls itself a
  gateway and does not map answers before it and ends the search, more devices
  than candidates, more that hang than there is time for.  `PointsAtTheMapper`: the device asked, the device shown and
  the network of the address handed out agree, whatever tunnel is up.
  `NoGuessedCGNAT`: carrier-grade NAT is concluded on the router's word only.
  `FreeingAPortNeverHurts` and `DecisionIsActionable` are about `Choose` on
  everything the probe can return.
* `LapsesOnlyUnattended`: one round that gets through within a lease keeps it.
  `LeavesOthersAlone`: what was seen to be another's, or made by hand, is never
  written over, also on routers that would let it.  `GreenMeansOpen` and
  `BlipsAreSilent` are the two sides of the grace window; `ToldWhatIsWrong` and
  `NotToldTwice` those of escalation.  `PortIsReopened`: a forgotten mapping comes
  back.
* `RemovalSticks`: after a removal that took the sync task away, nothing
  republishes the name or saves it again, unless a round was already running.  `RecordIsShared`: the saves
  implement `SharedRecord`, so the file is whole, holds what one of the two
  programs held as it began to save and changed nothing of since, is missing only
  after a save that was under way, and the sync task writes back nothing it did
  not read.  `TakenMeansTaken`, and `FollowsHome`: while the task is registered and
  goes on saving the record, the name comes to be published right in every family
  the connection keeps an address of.
* `TouchedWhenVisible`, `DoneServesWanted` (through every restart, unless the old
  service could not be stopped).  `OneIssueBeforeSync`: after the first, a
  certificate is issued only on Linux and once `installSync` has rewritten the
  environment file, and an installation that stopped the old proxy puts an end to
  that until its own `installSync`.
* `OneAddress`, `DoneIsSaved`, `InForceOrTold`, and `TheirsIsKept`: the user's
  proxies and the addresses of single subnets survive the wizard's write (their
  address for all clients is what it replaces).

Where a property has an exception ("unless a round was running", "unless they
saved meanwhile") the exception is what the code cannot prevent; section 5 lists
what it lets through.

### Bounds

* Launches: two in `wizard_resume` and `wizard_rename`.  What a launch inherits is
  `disk`, the world and nothing else, so one launch that leaves them in any
  reachable state and one that starts from it meet every hazard of resuming.
  Names: two where renaming matters (symmetric), one elsewhere.  Networks: six
  values of `Net`, one per branch of `Choose`; each run uses those its question
  needs.  Restarts of the proxy: one, at any step, in `wizard_rename` and
  `wizard_network`; changes of network: one, at any step, in `wizard_network`.
  `Foreign`, the ports the router may forward to another device at first, is 443
  where the router is asked for a port and empty where it is not; a fallback port
  that is another device's too is the refused case that `ShowGuide` covers.
  `Forwardable`, the ports the user may forward by hand, is empty in
  `wizard_resume` and `wizard_rename`: there a forwarded port would only let the
  check from outside answer "reachable", after which setup goes on as it does
  after "inconclusive" (`wizard_resume` 1,138,452 states, `wizard_rename`
  2,297,231, `wizard_network` 1,316,880).
* Feed: two operations, two connections, four revisions (21,633 states).
  `ShowBusy` and `ShowIdle` may go past the bound, so no operation is stuck by it.
* Lock: four launches: one that runs, one that follows or replaces it, one that
  arrives as either closes, and one more; two changes of the record (433,888).
* Router: three symmetric devices of six kinds, room for two candidates and one
  that hangs (`MaxCandidates`, `Patience`; eight and four in the code): each of
  the three exceptions of `RouterIsFound` needs one device beyond its limit
  (1,865,361).
* Upkeep: two addresses, `Lease` 2, `Grace` 1, `Repeat` 1 rounds (the code's are
  1008, 36 and 144): a lease that lasts through a lost round, a failure within the
  window and one past it, a repeat that is due and one that is not.  Five setups of
  four kinds of router, by task, by `-loop` and by hand (541,386).
* Account: one name, three states of the connection (one address of a family, the
  same with one of the other, another of the first alone), two attempts a call
  (four in the code), so a first answer is lost and a retry answered, or both lost
  (434,244).  `file`,
  `account` and the steps of both programs are otherwise unbounded: the run goes
  round for ever.  Safety is proved for any number of names.
* Install: three configurations of which the proxy rejects one, two name servers,
  two rounds; both platforms (159,480).
* Jellyfin: two addresses of RASA's, one address, one entry and one proxy of the
  user's, two edits (217,438).

`CHECK_DEADLOCK FALSE` is set where the system may stop: a person may leave the
program closed after the last allowed launch (`wizard_*`), a feed may reach its
bound on revisions (`feed`), all launches may be over (`lock`), a search ends
(`router`).

### Fairness

* `Wizard`: weak fairness of `OperationStep`: a goroutine inside an operation goes
  on, because each of its calls has a timeout in the code and returns one of the
  outcomes its action lists.  Nothing obliges a call to succeed and nobody to
  press anything.
* `ModelFeed`: weak fairness of a handler's `SendFirst` and `Read` and of the
  second halves of `begin` and `end`: runnable goroutines run.  Starting an
  operation, and its length, are not fair.
* `Upkeep`: weak fairness of `Round`, because the system's scheduler starts the
  task every ten minutes; strong fairness of the answered outcome of `Find`,
  `Look`, `Ask` and `AskLease`: not every call is lost and not every round killed.
  Losing any finite number, in any pattern, is allowed.
* `Account`: the same for `Sync`, `Start` with the connection's current address,
  `SyncFinds` and `SyncUpdates`.  Nothing is assumed of the wizard.
* `InstanceLock`, `Preflight`, `ProxyInstall` and `JellyfinSettings` state safety
  only.

## 4. What is proved

For every value of the constants, without bounds, from the named assumptions on
constants only.  Every safety property of a passing run is a theorem, and so are the three
refinements, of `SetupProgress`, `Broadcast` and `SharedRecord`: initial states map
to initial states, and every step to a step of the abstract specification or a
stutter.

* `WizardProofs`: `Typing`, `PhasesFollow`, `NeverRefused`, `NamesAreOurs`,
  `SpendsNoName` (the unattended stretch claims the name on every run, and never
  another one), `DoneCoheres`, `InstallsRecorded`, `RecordImplementsProgress`,
  `NothingIsForgotten`, and `ChooseType` about the mode router.  `TypeOK` is not
  inductive: `Publish` indexes `dns` by the recorded name, and `PortMapped` the
  router by the decided port.  `RecordIsNeverRefused` is not either: whether the
  phase a step records is legal depends on the screen it was started from.  The
  inductive invariant is

      IInv == PhaseInv /\ InstallsAName /\ MapsAPort
      PhaseInv == TypeOK /\ ScreenFits /\ OnChain /\ FarEnough

  `ScreenFits` ties a step to its screen, `FarEnough` gives each step and screen
  the least phase the record has there, `OnChain` excludes DEGRADED (nothing
  in setup enters it), `InstallsAName` and `MapsAPort` are what typing needs.
  That `Record` never lowers a phase (`RecordRaises`), and that one short of a
  phase is enough to record it (`OneShortIsEnough`), are lemmas on the
  chain.  `DoneCoheres` adds `Settles`: what the steps of the unattended stretch
  have registered and put in place so far agrees with the record, step by step, the
  move to the other port included; that what runs is what is registered is known
  from the wait for the certificate on, and until the port is moved.  The last three theorems assume that saves succeed
  (`~SaveMayFail`), as the code's promise does: `Saved` says that the record on
  disk is the one in memory except where a step is between changing and saving
  it, and `Reported` that what a removal has left behind so far is on its list.
  `RecordsAreWhole` needs no such assumption: every record, on disk or in memory,
  holds all that its phase says was done (`Whole`), because a failed save leaves
  an older record and that one was whole too; only `OnwardSteps` change the phase,
  and each with the field that goes with it.  `OperationsAreFinite` shows that
  `Ahead` falls with every step; the one that leads back, from the move to the
  other port to verifying, has spent `switched` by then.
* `ModelFeedProofs`: `FeedTyping`, `OneInside`, `IdleInTheEnd`, `PagesGoForward`
  (a page never shows an older snapshot after a newer one, which
  `PagesAreServed` includes), `OvertakenWaits`.  The invariant adds that a model that says busy has an
  operation still to say otherwise, and that what is shown, queued and held in a
  connection is ordered.  `FeedImplementsBroadcast` adds that a snapshot held by a
  handler is the model as it is for as long as nothing came in behind it (`Held`).
  A publication that lets blocked senders in maps to one `Change` that opens their
  pages late (`PublishChanges`); the flag's own steps map to stutters.
* `InstanceLockProofs`: `LockTyping`, `OnlyARunnerRefuses` whatever overlaps;
  `OneRuns`, `TheRunnerIsFound`, `StaleBesideOnly` as long as launches and
  closings have not overlapped, from: at most one copy starts or closes, a copy
  about to claim or closing is alone, and the lock names who runs.  Since
  `overlapped` falls back once all copies are gone, they hold again from there.
* `PreflightProofs`: `PreflightTyping`, `RouterGetsFound`, `MappingsPointHome`,
  `CGNATIsTold`, `FreeingHelps`, `DecisionsAreActionable`.  That the router is
  found rests on: no device is a candidate twice, collecting ends only when every
  reply was read, a gateway was among them or the list is full, at most one
  candidate came as a gateway and it is asked first, and the time that is gone is
  at most one unit for each device asked that hangs.  A list that is full
  then holds everybody who was heard (a counting argument on finite sets), or
  the network is crowded.  `SearchesAreFinite`: every step reads one of finitely
  many replies for the first time, asks one of at most `MaxCandidates` candidates
  for the first time, or goes on to what comes next.
* `UpkeepProofs`: `UpkeepTyping`, `GreenIsTrue`, `BlipsStaySilent`,
  `LeasesAreKept`, `OthersAreLeftAlone`, `UserIsTold`, `NotNagged`, for every
  router, lease, window and interval.  The invariant relates the lease that is
  left to the time since a round was wholly answered, the three ages of the last
  confirmation to each other, and what a round saw to what is there as long as
  nothing was lost.  `WholeRoundsSuffice` is the part of `PortIsReopened` that needs
  no fairness: a round in which no call is lost and nothing moves ends with the
  port forwarded, and with `Result.OK` exactly if it is to this machine.
* `AccountProofs`: `AccountTyping`, `MissingInBetween` (there is
  no record only before the first save, while one is being replaced, or after that
  was cut off), `RemovalHolds`, `TakenIsTaken`, for any number of names, addresses and attempts.  The
  invariant ties each step to what its program holds (`Holds`), says that
  without a timer and without a running round nothing can republish (`Gone`), and
  that a claim about to create a name has seen it absent, or lost an answer since
  (`Asks`).  `SavesImplementSharing` maps each step of a save to `Begin`, `Clear`,
  `Replace` or `Stop`; its core is that a program's temporary file is what it still
  holds (`Hands`), so what is renamed into place is too.  `ProgramsAreFinite`:
  every step of either program leaves fewer to come, or is one more of the
  attempts a call is given.
* `ProxyInstallProofs`: `InstallTyping`, `WaitsForEveryServer`,
  `InstalledIsServed`, `IssuesOnce`, and `RejectedIsHarmless` (an installation stops a running proxy only for a file the
  proxy accepted, stated in `ProxyInstall` and only proved).  A round's count is
  at most the number of servers asked, and all servers counted were visible, so
  agreement means every server has the record.  `Stored` ties the environment the
  proxy started with, and the environment it would start with, to the stores that
  can hold a certificate, for `IssuesOnce`.  `InstallationsAreFinite` is the
  measure for an installation, its two waits included.
* `JellyfinSettingsProofs`: `SettingsTyping`, `OneAddressOnly`, `DoneIsRight`,
  `DoneIsInForce`, `KeepsTheirs`, and `SecondRunWritesNothing` (a second setup for
  the same address writes nothing), from the lemmas that `Applied` is right and
  changes nothing the second time.

Model-checked only: liveness (`OperationEnds`, `QueuedIsShown`, `PortIsReopened`,
`FollowsHome`), because the prover does not reason about fairness and `ENABLED`.
What safety contributes to it is proved: no operation, round, search or
installation goes on for ever by itself (`OperationsAreFinite`,
`ProgramsAreFinite`, `SearchesAreFinite`, `InstallationsAreFinite`), and the first
round that gets through opens the port (`WholeRoundsSuffice`).  That each step that
is left will be taken is what stays with TLC, and so does that the two findings
below are reached.

## 5. Findings

Each is a counterexample TLC prints for the run named.

1. `wizard_conflict`: on a conflict `openPort` moves the decision and the mapping
   to 8443 and leaves `w.st.ListenPort` at 443, from which the proxy and the
   address are made.
2. `install_restart`: `installSync` rewrites the environment file without the
   directories `Installer.Install` put in it, so the proxy's next start on Linux
   looks for its certificates elsewhere and has them issued again.

Seen while modelling and visible in the modules, without a run of their own:

*Wizard.*  `claim` publishes every family the probe saw, also in mode A6, which
SPEC.md calls "AAAA record only" (`Published`).  A check made while offline
records port 0, and the next one no longer reclaims RASA's own proxy and moves a
working address to 8443 (`wizard.go:388`, `460`).  A removal that failed to remove
the service empties the record all the same, and the next launch offers setup, not
removal (`remove.go:129`).  `unpublish` without a credential reports that nothing
was published (`remove.go:159`).  After a move to the other port nothing waits for
the proxy again: where the old one could not be stopped it goes on on 443 until
its next start, while the last screen and the record say 8443.  "Stopped and
removed" is shown after a failed stop too, so the proxy may run on until it ends
(`remove.go:70`).  A scheduled task that could not be queried counts as absent and
is shown as removed (`service_windows.go:151`), and goes on publishing; on Linux
the error of disabling it is ignored (`service_linux.go:115`).  The environment
file that holds the token on Linux may stay although "Deleted" is shown
(`remove.go:211`).

*Feed and lock.*  A change of the model between the two halves of `Subscribe`
leaves the handler blocked on a channel only it reads; a change made meanwhile is
dropped for that connection until the next; one operation's `end` can be shown
after the next one's `begin`, so the controls are enabled while it runs.  Checking
and writing the lock are two steps, and two launches can both pass.  The record is
read before the lock is taken, so a copy that replaces another may go on from an
older record.  `Stop` kills the process the lock named without asking it again
(`instance.go:62`): by the time the user agrees to replace it, it may be closing
or gone, and the number another process's.

*Probe.*  A device that calls itself a gateway, offers no port service and
answers first ends the search (`router.go:366`).  `UPnPNoDescription`, "a gateway
answered but would not describe itself", is also the result when only a
television answered and did describe itself.  Eight devices that hang for five
seconds each exceed the twenty seconds there are.

*Port and health.*  A permanent mapping to this machine's previous address is
never moved (`portkeep.go:216`).  A permanent mapping that was confirmed is not
saved, so one lost round after that may alert at once.  `Add` accepts a router that
says yes and does nothing.  A failed write of the alert file after a recovery
silences the next fault of the same kind.

*Record and account.*  Between `Remove` and `Rename` there is no record, against
`store.go:45`, and a failing rename loses it.  A create whose answer was lost is
repeated and told that the name is taken (`client.go:390`).  A round of the sync
task that is running during a removal publishes the name again and may save it
again.  With two names, a removal whose emptied record could not be saved,
followed by claiming the other name with saves failing too, leaves the sync task
republishing the removed one.  In `-loop` mode the task works on the record it
loaded first.  The address of a family the connection has lost stays published
until the other one changes (`sync.go:102`).

*Installation.*  A name server whose own address cannot be looked up is left out
of "every server must agree" (`dnswait.go:198`).  The good Caddyfile is overwritten
before the new one is validated (`install.go:94`).  A service that could not be
stopped goes on with the old configuration under a reported success
(`install.go:144`), and on Windows is gone after the next boot.  How long the proxy
takes to get a certificate has no bound in the code; `CertificateWait` is one
constant and three minutes more (`deps.go:105`), so the wizard may give up on an
attempt that is about to succeed, above all one begun by a proxy that restarted
meanwhile.  The model leaves the proxy's time open, and says nothing of who gives
up first.

*Jellyfin.*  Whether a restart is due follows from what this run changed, so a run
cut off between the write and the restart leaves the next one finding everything
right (`configure.go:69`).  The first poll after a restart is answered by the server
that is still stopping (`client.go:206`).  What the user saves while the wizard
holds its copy is overwritten.

## 6. The plan

Done: the modules, runs and proofs above.  Left, in the order of what they add:

1. `Upkeep` and `Account` in one module, so that a round's port and its save of
   the record meet the wizard's move of the port; today each abstracts the
   other's half of the round.
2. `RotatingLog`: the size bound across rotations and restarts.
3. The exchange of the reachability token: a check that is answered by another
   server, or late.
4. The staging of binaries: a staged proxy is never replaced by a newer bundled
   one, because the directory it was staged into is searched first.
5. A record of another version, and one that cannot be parsed, in `StateStore`.
6. Larger instances: two names in `account`, two changes of network and a second
   launch in `wizard_network`.
7. `RemovalSticks` says nothing once a round was running at the moment of the
   removal.  Only that round, or a record it saved, can do harm afterwards, which
   a finer history than `late` would let the property say.

Runs are kept to one per question; new modules that interact share a run.

## 7. Not modelled

The text a person reads (router guides, errors, warnings, recovery file, QR code),
the catalogue of domains, the text of the Caddyfile and of service units, log
redaction and rotation, the firewall, installers, and the tokens and origin checks
of the loopback server.  They hold no state the properties speak of.  The
credential store is present, absent or unreadable; the reachability check is its
three answers; signing in to Jellyfin succeeds or fails.  `portmap.Delete` and
`dnswait.WaitForTXT` are not called by the programs.
