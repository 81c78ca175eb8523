----------------------------- MODULE Broadcast -----------------------------
(***************************************************************************)
(* What the model feed promises a page, with no channel, no lock and no    *)
(* sender that waits: every change reaches every open page's next snapshot *)
(* at once, a page shows its snapshots in order, and a page opens on the   *)
(* model as it is.  The one exception is a page whose opening a change     *)
(* overtook: the next change may open it, on the model as it was when it   *)
(* joined, and only the change after that brings it up to date.            *)
(***************************************************************************)
EXTENDS Integers

CONSTANTS Clients

VARIABLES
    version,    \* of the model
    page,       \* client -> "away", "joining" or "open"
    since,      \* client -> the version a joining page saw, or None
    next,       \* client -> the version an open page will show next, or None
    shown       \* client -> the version it shows, or None

vars == <<version, page, since, next, shown>>

None == -1

Init ==
    /\ version = 0
    /\ page = [c \in Clients |-> "away"]
    /\ since = [c \in Clients |-> None]
    /\ next = [c \in Clients |-> None]
    /\ shown = [c \in Clients |-> None]

Overtaken == {c \in Clients : page[c] = "joining" /\ since[c] < version}

Change ==
    /\ version' = version + 1
    /\ \E late \in SUBSET Overtaken :
        /\ page' = [c \in Clients |-> IF c \in late THEN "open" ELSE page[c]]
        /\ next' = [c \in Clients |->
                      IF c \in late THEN since[c]
                      ELSE IF page[c] = "open" THEN version' ELSE None]
        /\ since' = [c \in Clients |-> IF c \in late THEN None ELSE since[c]]
    /\ UNCHANGED shown

Join(c) ==
    /\ page[c] = "away"
    /\ page' = [page EXCEPT ![c] = "joining"]
    /\ since' = [since EXCEPT ![c] = version]
    /\ UNCHANGED <<version, next, shown>>

Open(c) ==
    /\ page[c] = "joining"
    /\ since[c] = version
    /\ page' = [page EXCEPT ![c] = "open"]
    /\ next' = [next EXCEPT ![c] = version]
    /\ since' = [since EXCEPT ![c] = None]
    /\ UNCHANGED <<version, shown>>

Show(c) ==
    /\ page[c] = "open"
    /\ next[c] # None
    /\ shown' = [shown EXCEPT ![c] = next[c]]
    /\ next' = [next EXCEPT ![c] = None]
    /\ UNCHANGED <<version, page, since>>

Leave(c) ==
    /\ page[c] = "open"
    /\ page' = [page EXCEPT ![c] = "away"]
    /\ next' = [next EXCEPT ![c] = None]
    /\ shown' = [shown EXCEPT ![c] = None]
    /\ UNCHANGED <<version, since>>

Next == Change \/ \E c \in Clients : Join(c) \/ Open(c) \/ Show(c) \/ Leave(c)

Spec == Init /\ [][Next]_vars
=============================================================================
