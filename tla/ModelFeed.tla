----------------------------- MODULE ModelFeed -----------------------------
(***************************************************************************)
(* How the wizard's model reaches the browser (internal/wizard/wizard.go:  *)
(* begin, end, update, Subscribe; internal/ui/server.go: handleEvents).    *)
(* Operations run in goroutines of their own, guarded by the busy flag;    *)
(* every change of the model is published to each subscriber's channel,    *)
(* which holds one snapshot.  The mutex makes each block below one step.   *)
(***************************************************************************)
EXTENDS Integers

CONSTANTS
    Clients,      \* event-stream connections, each its handler goroutine
    Operations,   \* goroutines that run wizard operations
    MaxRevision   \* bound: changes of the model

ASSUME RevisionAssumption == MaxRevision \in Nat

VARIABLES
    revision,    \* Model.Revision
    modelBusy,   \* Model.Busy, what the controls are disabled by
    busy,        \* w.busy
    op,          \* operation -> where its goroutine is
    conn,        \* client -> where its handler goroutine is
    snapshot,    \* client -> the snapshot Subscribe took under the lock
    queued,      \* client -> the snapshot in its channel, or None
    shown        \* client -> the newest snapshot written to the stream

vars == <<revision, modelBusy, busy, op, conn, snapshot, queued, shown>>

None == -1
Revision == 0 .. MaxRevision

Init ==
    /\ revision = 0
    /\ modelBusy = FALSE
    /\ busy = FALSE
    /\ op = [o \in Operations |-> "idle"]
    /\ conn = [c \in Clients |-> "closed"]
    /\ snapshot = [c \in Clients |-> None]
    /\ queued = [c \in Clients |-> None]
    /\ shown = [c \in Clients |-> None]

-----------------------------------------------------------------------------
(* Publishing. *)

\* w.subs: registered before the first snapshot is sent.
Subscribed == {c \in Clients : conn[c] # "closed"}

\* A handler stuck in Subscribe's own send.  Draining its channel hands the
\* slot to it rather than to update, whose second send then finds it full.
Blocked == {c \in Clients : conn[c] = "sending"}

\* Slip: a full channel is drained and the new snapshot is not sent again.
PublishDropping ==
    /\ revision' = revision + 1
    /\ queued' = [c \in Clients |->
                    IF c \in Subscribed /\ queued[c] = None THEN revision + 1 ELSE None]
    /\ UNCHANGED <<conn, snapshot>>

Publish ==
    /\ revision' = revision + 1
    /\ queued' = [c \in Clients |->
                    IF c \in Blocked THEN snapshot[c]
                    ELSE IF c \in Subscribed THEN revision + 1 ELSE queued[c]]
    /\ conn' = [c \in Clients |-> IF c \in Blocked THEN "streaming" ELSE conn[c]]
    /\ snapshot' = [c \in Clients |-> IF c \in Blocked THEN None ELSE snapshot[c]]

\* Slip: the flag is taken without looking at it.
TakeBusyAnyway(o) ==
    /\ op[o] = "idle"
    /\ revision < MaxRevision
    /\ busy' = TRUE
    /\ op' = [op EXCEPT ![o] = "begun"]
    /\ UNCHANGED <<revision, modelBusy, conn, snapshot, queued, shown>>

\* begin, first half: the flag is taken under the lock, or the call is refused.
TakeBusy(o) ==
    /\ op[o] = "idle"
    /\ ~busy
    /\ revision < MaxRevision
    /\ busy' = TRUE
    /\ op' = [op EXCEPT ![o] = "begun"]
    /\ UNCHANGED <<revision, modelBusy, conn, snapshot, queued, shown>>

\* begin, second half: the model says so.
ShowBusy(o) ==
    /\ op[o] = "begun"
    /\ modelBusy' = TRUE
    /\ op' = [op EXCEPT ![o] = "running"]
    /\ Publish
    /\ UNCHANGED <<busy, shown>>

\* Anything the operation reports while it runs.
Progress(o) ==
    /\ op[o] = "running"
    /\ revision < MaxRevision
    /\ Publish
    /\ UNCHANGED <<modelBusy, busy, op, shown>>

\* Slip: an early return gives up the flag and leaves the model busy.
DropBusySilently(o) ==
    /\ op[o] = "running"
    /\ busy' = FALSE
    /\ op' = [op EXCEPT ![o] = "idle"]
    /\ UNCHANGED <<revision, modelBusy, conn, snapshot, queued, shown>>

\* end, first half: the flag is given up.
DropBusy(o) ==
    /\ op[o] = "running"
    /\ busy' = FALSE
    /\ op' = [op EXCEPT ![o] = "ended"]
    /\ UNCHANGED <<revision, modelBusy, conn, snapshot, queued, shown>>

\* end, second half: the model says so.
ShowIdle(o) ==
    /\ op[o] = "ended"
    /\ modelBusy' = FALSE
    /\ op' = [op EXCEPT ![o] = "idle"]
    /\ Publish
    /\ UNCHANGED <<busy, shown>>

-----------------------------------------------------------------------------
(* A connection. *)

\* Subscribe, under the lock: register the channel and take a snapshot.
Register(c) ==
    /\ conn[c] = "closed"
    /\ conn' = [conn EXCEPT ![c] = "registered"]
    /\ snapshot' = [snapshot EXCEPT ![c] = revision]
    /\ queued' = [queued EXCEPT ![c] = None]
    /\ shown' = [shown EXCEPT ![c] = None]
    /\ UNCHANGED <<revision, modelBusy, busy, op>>

\* Slip: the snapshot is sent by a goroutine of its own, whenever there is room.
SendInBackground(c) ==
    /\ snapshot[c] # None
    /\ \/ /\ conn[c] = "registered"
          /\ conn' = [conn EXCEPT ![c] = "streaming"]
          /\ UNCHANGED <<queued, snapshot>>
       \/ /\ conn[c] = "streaming"
          /\ queued[c] = None
          /\ queued' = [queued EXCEPT ![c] = snapshot[c]]
          /\ snapshot' = [snapshot EXCEPT ![c] = None]
          /\ UNCHANGED conn
    /\ UNCHANGED <<revision, modelBusy, busy, op, shown>>

\* Subscribe, after the lock: send the snapshot, or wait for room.
SendFirst(c) ==
    /\ conn[c] = "registered"
    /\ IF queued[c] = None
       THEN /\ queued' = [queued EXCEPT ![c] = snapshot[c]]
            /\ conn' = [conn EXCEPT ![c] = "streaming"]
            /\ snapshot' = [snapshot EXCEPT ![c] = None]
       ELSE /\ conn' = [conn EXCEPT ![c] = "sending"]
            /\ UNCHANGED <<queued, snapshot>>
    /\ UNCHANGED <<revision, modelBusy, busy, op, shown>>

\* handleEvents: write what is queued to the stream.
Read(c) ==
    /\ conn[c] = "streaming"
    /\ queued[c] # None
    /\ shown' = [shown EXCEPT ![c] = queued[c]]
    /\ queued' = [queued EXCEPT ![c] = None]
    /\ UNCHANGED <<revision, modelBusy, busy, op, conn, snapshot>>

\* The browser goes away; only a handler that is reading notices.
Close(c) ==
    /\ conn[c] = "streaming"
    /\ conn' = [conn EXCEPT ![c] = "closed"]
    /\ queued' = [queued EXCEPT ![c] = None]
    /\ shown' = [shown EXCEPT ![c] = None]
    /\ UNCHANGED <<revision, modelBusy, busy, op, snapshot>>

Next ==
    \/ \E o \in Operations :
         TakeBusy(o) \/ ShowBusy(o) \/ Progress(o) \/ DropBusy(o) \/ ShowIdle(o)
    \/ \E c \in Clients : Register(c) \/ SendFirst(c) \/ Read(c) \/ Close(c)

Spec == Init /\ [][Next]_vars

\* A handler goroutine with something to do runs; operations start when asked
\* to and take as long as they like, but end() does not stop half way.
FairSpec ==
    /\ Spec
    /\ \A c \in Clients : WF_vars(SendFirst(c)) /\ WF_vars(Read(c))
    /\ \A o \in Operations : WF_vars(ShowBusy(o)) /\ WF_vars(ShowIdle(o))

-----------------------------------------------------------------------------
\* ShowBusy and ShowIdle may each follow the last bounded change.
TypeOK ==
    /\ revision \in Nat
    /\ modelBusy \in BOOLEAN
    /\ busy \in BOOLEAN
    /\ op \in [Operations -> {"idle", "begun", "running", "ended"}]
    /\ conn \in [Clients -> {"closed", "registered", "sending", "streaming"}]
    /\ snapshot \in [Clients -> Nat \cup {None}]
    /\ queued \in [Clients -> Nat \cup {None}]
    /\ shown \in [Clients -> Nat \cup {None}]

\* Two goroutines are never inside an operation at once, also while one of them
\* is between giving up the flag and saying so.
Inside(o) == op[o] \in {"begun", "running"}
OneOperation ==
    /\ \A o, p \in Operations : Inside(o) /\ Inside(p) => o = p
    /\ (\E o \in Operations : Inside(o)) <=> busy

\* The controls are never left disabled once nothing is running: whatever the
\* order in which two operations say they began and ended, the last word of the
\* last one standing is that it ended.
IdleIsShown == (\A o \in Operations : op[o] = "idle") => ~modelBusy

\* A page never goes back in time: a snapshot written to a stream is never older
\* than one written before it, although the first is taken long before it is sent.
NeverGoesBack ==
    [][\A c \in Clients :
          conn[c] = "streaming" /\ conn'[c] = "streaming" => shown'[c] >= shown[c]]_vars

\* Where each page is, and what it is to show next, as Broadcast has them.
pages ==
    [c \in Clients |-> IF conn[c] \in {"registered", "sending"} THEN "joining"
                        ELSE IF conn[c] = "streaming" THEN "open" ELSE "away"]
pending == [c \in Clients |-> IF conn[c] = "streaming" THEN queued[c] ELSE None]

\* What the pages are promised, whatever the channels, the lock and the senders
\* do: every change is an open page's next snapshot at once, and only a page that
\* a change overtook while it joined may open on the model of before.
Pages == INSTANCE Broadcast WITH
    version <- revision, page <- pages, since <- snapshot, next <- pending
PagesAreServed == Pages!Spec

\* A snapshot that reached a connection's channel is shown, or overtaken by a
\* newer one that is.
QueuedIsShown ==
    \A c \in Clients : \A r \in Revision :
        (conn[c] = "streaming" /\ queued[c] = r)
            ~> (conn[c] # "streaming" \/ shown[c] >= r)

\* A handler waits for room in its own channel only when something newer than its
\* snapshot came in between, so that the next change of the model sets it going; one
\* that nothing overtook is never kept waiting.
OnlyOvertakenBlocks ==
    \A c \in Blocked : queued[c] # None /\ queued[c] > snapshot[c]
=============================================================================
