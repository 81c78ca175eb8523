------------------------- MODULE JellyfinSettings -------------------------
(***************************************************************************)
(* Client.Apply and configureJellyfin: the wizard reads Jellyfin's network *)
(* settings, changes what it needs, writes the whole section back, reads   *)
(* it again, and restarts the server when a changed setting wants that;    *)
(* while the user works in Jellyfin's own dashboard, any request may fail, *)
(* and either program may go away half-way.                                *)
(***************************************************************************)
EXTENDS Integers

CONSTANTS
    Urls,         \* addresses RASA publishes
    TheirUrl,     \* an address for all clients the user wrote
    TheirEntry,   \* an address the user wrote for one subnet
    Source,       \* the address the proxy arrives from
    TheirProxy,   \* a proxy of the user's
    NoUrl,        \* no address
    MaxEdits      \* how often the user saves settings

ASSUME SettingsAssumption ==
    /\ TheirUrl \notin Urls /\ TheirEntry \notin Urls /\ TheirUrl # TheirEntry
    /\ NoUrl \notin Urls
    /\ Source # TheirProxy
    /\ MaxEdits \in Nat

VARIABLES
    saved,        \* the section as Jellyfin has it
    inForce,      \* the switches the server started with
    server,       \* up, stopping (told to restart, and still answering) or down
    pc,           \* the request the wizard makes next, or idle
    want,         \* the address this setup publishes
    mine,         \* the section as the wizard read it
    needsRestart, \* Result.RestartRequired
    outcome,      \* how the step ended: none, done or failed
    warned,       \* the user was told to restart Jellyfin, or to wait for it
    edited,       \* history: the user has saved since the wizard read
    owed,         \* history: a restart was due already when the wizard read
    settled,      \* history: the address of a finished step nothing came after
    edits         \* bound: how often the user has saved

jellyfin == <<saved, inForce, server>>
wizard == <<pc, want, mine, needsRestart, outcome, warned>>
history == <<edited, owed, settled>>
vars == <<jellyfin, wizard, history, edits>>

AllClients == Urls \cup {TheirUrl}     \* the entries that start with "all="
Switches == {"EnableRemoteAccess", "RequireHttps", "EnableUPnP"}
Restarting == {"EnableRemoteAccess", "RequireHttps"}
Section == [proxies : SUBSET {Source, TheirProxy},
            published : SUBSET (AllClients \cup {TheirEntry}),
            on : SUBSET Switches]

Init ==
    /\ saved \in [proxies : SUBSET {TheirProxy}, published : SUBSET {TheirUrl, TheirEntry},
                  on : SUBSET Switches]
    /\ inForce = saved.on \cap Restarting
    /\ server = "up"
    /\ pc = "idle" /\ want = NoUrl /\ mine = saved
    /\ needsRestart = FALSE /\ outcome = "none" /\ warned = FALSE
    /\ edited = FALSE /\ owed = FALSE /\ settled = NoUrl
    /\ edits = 0

Answers == server # "down"

-----------------------------------------------------------------------------
(* What Apply changes. *)

\* Slip: the user's proxies are not kept.
MergedOver(s) == {Source}
\* mergeUnique with what the proxy needs.
Merged(s) == s.proxies \cup {Source}

\* Slip: an address that is not the wanted one is added to, not replaced.
PublishedBeside(s) == s.published \cup {want}

\* replacePrefix takes every entry for all clients; nothing is touched when the
\* wanted one is there.
Published(s) ==
    IF want \in s.published THEN s.published ELSE (s.published \ AllClients) \cup {want}

\* Slip: Jellyfin's own port mapping is reported as changed and left on.
SwitchedOnly(s) == (s.on \cup {"EnableRemoteAccess"}) \ {"RequireHttps"}
Switched(s) == (s.on \cup {"EnableRemoteAccess"}) \ {"RequireHttps", "EnableUPnP"}

Applied(s) == [proxies |-> Merged(s), published |-> Published(s), on |-> Switched(s)]

Changes(s) == Applied(s) # s

\* Slip: only what is switched on wants a restart.
WantsRestartForRemote(s) == "EnableRemoteAccess" \notin s.on
WantsRestart(s) == Switched(s) \cap Restarting # s.on \cap Restarting

-----------------------------------------------------------------------------
(* The wizard. *)

Begin ==
    /\ pc = "idle"
    /\ want' \in Urls
    /\ pc' = "read"
    /\ outcome' = "none" /\ warned' = FALSE /\ needsRestart' = FALSE
    /\ UNCHANGED <<jellyfin, mine, history, edits>>

\* The step failed; what it has written stays.
Fails == pc' = "idle" /\ outcome' = "failed" /\ UNCHANGED <<want, mine, needsRestart, warned>>

Finishes ==
    /\ pc' = "idle" /\ outcome' = "done"
    /\ settled' = IF edited THEN settled ELSE want

Read ==
    /\ pc = "read"
    /\ \/ /\ Answers
          /\ mine' = saved
          /\ edited' = FALSE
          /\ owed' = (inForce # saved.on \cap Restarting)
          /\ needsRestart' = WantsRestart(saved)
          /\ IF Changes(saved)
             THEN pc' = "write" /\ UNCHANGED <<outcome, settled>>
             ELSE pc' = "idle" /\ outcome' = "done" /\ settled' = want
          /\ UNCHANGED <<want, warned>>
       \/ Fails /\ UNCHANGED history
    /\ UNCHANGED <<jellyfin, edits>>

\* SetNetworkConfig: the answer of a write that went through may be lost.
Write ==
    /\ pc = "write"
    /\ \/ /\ Answers
          /\ saved' = Applied(mine)
          /\ \/ pc' = "verify" /\ UNCHANGED <<want, mine, needsRestart, outcome, warned>>
             \/ Fails
       \/ Fails /\ UNCHANGED saved
    /\ settled' = NoUrl
    /\ UNCHANGED <<inForce, server, edited, owed, edits>>

\* verify looks at remote access and at the proxy, and at nothing else.
Verify ==
    /\ pc = "verify"
    /\ \/ /\ Answers
          /\ "EnableRemoteAccess" \in saved.on /\ Source \in saved.proxies
          /\ IF needsRestart
             THEN pc' = "restart" /\ UNCHANGED <<outcome, settled>>
             ELSE Finishes
          /\ UNCHANGED <<want, mine, needsRestart, warned>>
       \/ Fails /\ UNCHANGED settled
    /\ UNCHANGED <<jellyfin, edited, owed, edits>>

\* Restart: one that could not be asked for, or whose answer is lost, is a warning.
Restart ==
    /\ pc = "restart"
    /\ \/ /\ Answers /\ server' = "stopping"
          /\ pc' = "wait"
          /\ UNCHANGED <<outcome, warned, settled>>
       \/ /\ UNCHANGED server \/ (Answers /\ server' = "stopping")
          /\ Finishes
          /\ warned' = TRUE
    /\ UNCHANGED <<saved, inForce, want, mine, needsRestart, edited, owed, edits>>

\* WaitUntilReady: any answer will do, one of the server that is still stopping too.
WaitUntilReady ==
    /\ pc = "wait"
    /\ IF Answers THEN UNCHANGED warned ELSE warned' = TRUE
    /\ Finishes
    /\ UNCHANGED <<jellyfin, want, mine, needsRestart, edited, owed, edits>>

\* RASA is closed or killed; its warnings go with it.
Quit ==
    /\ pc # "idle"
    /\ pc' = "idle" /\ outcome' = "none" /\ warned' = FALSE
    /\ UNCHANGED <<jellyfin, want, mine, needsRestart, history, edits>>

-----------------------------------------------------------------------------
(* Jellyfin, and the user at its dashboard. *)

\* It stops, told to or on its own.
GoesDown ==
    /\ server # "down"
    /\ server' = "down"
    /\ UNCHANGED <<saved, inForce, wizard, history, edits>>

ComesUp ==
    /\ server = "down"
    /\ server' = "up"
    /\ inForce' = saved.on \cap Restarting
    /\ UNCHANGED <<saved, wizard, history, edits>>

\* The user saves a section of their own; the addresses RASA published stay or go.
Edit ==
    /\ Answers /\ edits < MaxEdits
    /\ \E s \in {[proxies |-> saved.proxies \ {Source}, published |-> {}, on |-> Switches],
                 [saved EXCEPT !.proxies = @ \cup {TheirProxy}, !.on = {}],
                 [saved EXCEPT !.published = @ \cup {TheirUrl, TheirEntry}]} :
          saved' = s
    /\ edited' = TRUE /\ settled' = NoUrl
    /\ edits' = edits + 1
    /\ UNCHANGED <<inForce, server, wizard, owed>>

Next == Begin \/ Read \/ Write \/ Verify \/ Restart \/ WaitUntilReady \/ Quit
        \/ GoesDown \/ ComesUp \/ Edit

Spec == Init /\ [][Next]_vars

-----------------------------------------------------------------------------
TypeOK ==
    /\ saved \in Section /\ mine \in Section
    /\ inForce \subseteq Restarting
    /\ server \in {"up", "stopping", "down"}
    /\ pc \in {"idle", "read", "write", "verify", "restart", "wait"}
    /\ want \in Urls \cup {NoUrl} /\ settled \in Urls \cup {NoUrl}
    /\ needsRestart \in BOOLEAN /\ warned \in BOOLEAN
    /\ edited \in BOOLEAN /\ owed \in BOOLEAN
    /\ outcome \in {"none", "done", "failed"}
    /\ edits \in 0 .. MaxEdits
    /\ pc # "idle" => want \in Urls

\* Of the addresses RASA has published, one at most is handed to clients, whatever
\* renamings, failures and edits came in between.
OneAddress == \A u, v \in saved.published \cap Urls : u = v

\* A step that ended well, and was not crossed by the user, leaves the section as
\* setup needs it.
DoneIsSaved ==
    outcome = "done" /\ ~edited =>
        /\ Source \in saved.proxies /\ want \in saved.published
        /\ saved.on = {"EnableRemoteAccess"}

\* And the server works by it, or is on its way to, or the user was told to restart
\* it; unless a restart was due before the step began.
InForceOrTold ==
    outcome = "done" /\ ~edited /\ ~owed =>
        inForce = saved.on \cap Restarting \/ server # "up" \/ warned

\* The user's proxies, and the addresses they gave single subnets, outlive the
\* wizard's write, unless they saved the section while the wizard was holding its
\* copy.  Their address for all clients is what the wizard is there to replace.
TheirsIsKept ==
    [][~edited /\ saved # saved' /\ edits' = edits =>
          /\ saved.proxies \subseteq saved'.proxies
          /\ saved.published \ AllClients \subseteq saved'.published]_vars

\* Running setup again for the same address, after one that ended well and with
\* nothing changed since, writes nothing.
SecondRunIsQuiet ==
    [][pc = "read" /\ settled = want => pc' # "write"]_vars
=============================================================================
