-------------------------- MODULE ModelFeedProofs --------------------------
(***************************************************************************)
(* The model feed for any number of connections and operations, proved     *)
(* with TLAPS.                                                             *)
(***************************************************************************)
EXTENDS ModelFeed, TLAPS

\* A model that says busy has an operation that will yet say it ended.
BusyHasASpeaker == modelBusy => \E o \in Operations : op[o] \in {"running", "ended"}

\* What waits in a channel is no older than what its page shows.
Forwards ==
    \A c \in Clients :
        /\ conn[c] # "streaming" => shown[c] = None
        /\ queued[c] # None => queued[c] >= shown[c]
        /\ shown[c] <= revision
        /\ queued[c] <= revision
        /\ snapshot[c] <= revision

FeedInv == TypeOK /\ OneOperation /\ BusyHasASpeaker /\ Forwards

LEMMA FeedInit == Init => FeedInv
<1> SUFFICES ASSUME Init PROVE FeedInv
  OBVIOUS
<1>1. TypeOK BY DEF Init, TypeOK, None
<1>2. OneOperation BY DEF Init, OneOperation, Inside
<1>3. BusyHasASpeaker BY DEF Init, BusyHasASpeaker
<1>4. Forwards
  <2> SUFFICES ASSUME NEW c \in Clients
               PROVE  /\ shown[c] = None /\ queued[c] = None
                      /\ shown[c] <= revision /\ queued[c] <= revision /\ snapshot[c] <= revision
    BY DEF Forwards
  <2>1. shown[c] = None /\ queued[c] = None /\ snapshot[c] = None /\ revision = 0 BY DEF Init
  <2> QED BY <2>1 DEF None
<1> QED BY <1>1, <1>2, <1>3, <1>4 DEF FeedInv

\* Publishing hands every page something newer than it shows.
LEMMA PublishForwards ==
    ASSUME TypeOK, Forwards, Publish, UNCHANGED shown
    PROVE  /\ Forwards'
           /\ revision' \in Nat
           /\ conn' \in [Clients -> {"closed", "registered", "sending", "streaming"}]
           /\ snapshot' \in [Clients -> Nat \cup {None}]
           /\ queued' \in [Clients -> Nat \cup {None}]
<1> USE DEF TypeOK, Publish, None, Blocked, Subscribed
<1>1. revision' = revision + 1 /\ revision' \in Nat OBVIOUS
<1>2. /\ conn' \in [Clients -> {"closed", "registered", "sending", "streaming"}]
      /\ snapshot' \in [Clients -> Nat \cup {None}]
      /\ queued' \in [Clients -> Nat \cup {None}]
  OBVIOUS
<1>3. ASSUME NEW c \in Clients
      PROVE  /\ conn'[c] # "streaming" => shown'[c] = None
             /\ queued'[c] # None => queued'[c] >= shown'[c]
             /\ shown'[c] <= revision'
             /\ queued'[c] <= revision'
             /\ snapshot'[c] <= revision'
  <2>1. CASE conn[c] = "sending" BY <2>1 DEF Forwards
  <2>2. CASE conn[c] # "sending" BY <2>2 DEF Forwards
  <2> QED BY <2>1, <2>2
<1> QED BY <1>1, <1>2, <1>3 DEF Forwards

LEMMA FeedStep == FeedInv /\ [Next]_vars => FeedInv'
<1> SUFFICES ASSUME FeedInv, [Next]_vars PROVE FeedInv'
  OBVIOUS
<1> USE DEF FeedInv
<1>1. ASSUME NEW o \in Operations, TakeBusy(o) PROVE FeedInv'
  <2>1. (TypeOK /\ OneOperation /\ BusyHasASpeaker)'
    BY <1>1 DEF TakeBusy, TypeOK, OneOperation, Inside, BusyHasASpeaker
  <2> QED BY <1>1, <2>1 DEF TakeBusy, Forwards
<1>2. ASSUME NEW o \in Operations, ShowBusy(o) PROVE FeedInv'
  <2>1. op' \in [Operations -> {"idle", "begun", "running", "ended"}]
    BY <1>2 DEF ShowBusy, TypeOK
  <2>2. OneOperation' BY <1>2 DEF ShowBusy, TypeOK, OneOperation, Inside
  <2>3. BusyHasASpeaker' BY <1>2 DEF ShowBusy, TypeOK, BusyHasASpeaker
  <2> QED BY <1>2, <2>1, <2>2, <2>3, PublishForwards DEF ShowBusy, TypeOK
<1>3. ASSUME NEW o \in Operations, Progress(o) PROVE FeedInv'
  <2>1. (OneOperation /\ BusyHasASpeaker)'
    BY <1>3 DEF Progress, OneOperation, Inside, BusyHasASpeaker
  <2> QED BY <1>3, <2>1, PublishForwards DEF Progress, TypeOK
<1>4. ASSUME NEW o \in Operations, DropBusy(o) PROVE FeedInv'
  <2>1. (TypeOK /\ OneOperation /\ BusyHasASpeaker)'
    BY <1>4 DEF DropBusy, TypeOK, OneOperation, Inside, BusyHasASpeaker
  <2> QED BY <1>4, <2>1 DEF DropBusy, Forwards
<1>5. ASSUME NEW o \in Operations, ShowIdle(o) PROVE FeedInv'
  <2>1. op' \in [Operations -> {"idle", "begun", "running", "ended"}]
    BY <1>5 DEF ShowIdle, TypeOK
  <2>2. OneOperation' BY <1>5 DEF ShowIdle, TypeOK, OneOperation, Inside
  <2>3. BusyHasASpeaker' BY <1>5 DEF ShowIdle, BusyHasASpeaker
  <2> QED BY <1>5, <2>1, <2>2, <2>3, PublishForwards DEF ShowIdle, TypeOK
<1>6. ASSUME NEW c \in Clients, Register(c) PROVE FeedInv'
  BY <1>6 DEF Register, TypeOK, OneOperation, Inside, BusyHasASpeaker, Forwards, None
<1>7. ASSUME NEW c \in Clients, SendFirst(c) PROVE FeedInv'
  BY <1>7 DEF SendFirst, TypeOK, OneOperation, Inside, BusyHasASpeaker, Forwards, None
<1>8. ASSUME NEW c \in Clients, Read(c) PROVE FeedInv'
  <2>1. (TypeOK /\ OneOperation /\ BusyHasASpeaker)'
    BY <1>8 DEF Read, TypeOK, OneOperation, Inside, BusyHasASpeaker
  <2>2. queued[c] <= revision BY <1>8 DEF Forwards, Read
  <2>3. Forwards' BY <1>8, <2>2 DEF Read, TypeOK, Forwards, None
  <2> QED BY <2>1, <2>3
<1>9. ASSUME NEW c \in Clients, Close(c) PROVE FeedInv'
  BY <1>9 DEF Close, TypeOK, OneOperation, Inside, BusyHasASpeaker, Forwards, None
<1>10. CASE UNCHANGED vars
  BY <1>10 DEF vars, TypeOK, OneOperation, Inside, BusyHasASpeaker, Forwards
<1> QED BY <1>1, <1>2, <1>3, <1>4, <1>5, <1>6, <1>7, <1>8, <1>9, <1>10 DEF Next

LEMMA FeedInvariant == Spec => []FeedInv
<1> QED BY FeedInit, FeedStep, PTL DEF Spec

\* Type correctness.
THEOREM FeedTyping == Spec => []TypeOK
<1>1. FeedInv => TypeOK BY DEF FeedInv
<1> QED BY <1>1, FeedInvariant, PTL

\* At most one operation is inside begin and end, whatever the order in which
\* goroutines reach them.
THEOREM OneInside == Spec => []OneOperation
<1>1. FeedInv => OneOperation BY DEF FeedInv
<1> QED BY <1>1, FeedInvariant, PTL

\* Once every operation has ended the model says so.
THEOREM IdleInTheEnd == Spec => []IdleIsShown
<1>1. FeedInv => IdleIsShown BY DEF FeedInv, BusyHasASpeaker, IdleIsShown
<1> QED BY <1>1, FeedInvariant, PTL

\* No page is shown a snapshot older than the one before it.
THEOREM PagesGoForward == Spec => NeverGoesBack
<1>1. ASSUME FeedInv, [Next]_vars, NEW c \in Clients,
             conn[c] = "streaming", conn'[c] = "streaming"
      PROVE  shown'[c] >= shown[c]
  <2>1. shown[c] \in Int BY <1>1 DEF FeedInv, TypeOK, None
  <2>2. ASSUME NEW d \in Clients, Read(d) PROVE shown'[c] >= shown[c]
    BY <2>1, <2>2, <1>1 DEF Read, FeedInv, Forwards, TypeOK
  <2>3. ASSUME NEW d \in Clients, Register(d) \/ Close(d) PROVE shown'[c] = shown[c]
    BY <2>3, <1>1 DEF Register, Close, FeedInv, TypeOK
  <2>4. ASSUME NEW d \in Clients, SendFirst(d) PROVE shown'[c] = shown[c]
    BY <2>4 DEF SendFirst
  <2>5. ASSUME NEW o \in Operations,
               TakeBusy(o) \/ ShowBusy(o) \/ Progress(o) \/ DropBusy(o) \/ ShowIdle(o)
        PROVE  shown'[c] = shown[c]
    BY <2>5 DEF TakeBusy, ShowBusy, Progress, DropBusy, ShowIdle
  <2>6. CASE UNCHANGED vars BY <2>6, <2>1 DEF vars
  <2> QED BY <1>1, <2>1, <2>2, <2>3, <2>4, <2>5, <2>6 DEF Next
<1>2. FeedInv /\ [Next]_vars =>
        [\A c \in Clients :
            conn[c] = "streaming" /\ conn'[c] = "streaming" => shown'[c] >= shown[c]]_vars
  BY <1>1
<1> QED BY <1>2, FeedInvariant, PTL DEF Spec, NeverGoesBack
-----------------------------------------------------------------------------
(* Handlers that wait. *)

\* What reaches a channel before its handler sends the snapshot is newer than it.
Overtaken ==
    \A c \in Clients :
        /\ conn[c] \in {"registered", "sending"} /\ queued[c] # None => queued[c] > snapshot[c]
        /\ conn[c] = "sending" => queued[c] # None

LEMMA OvertakenStep == FeedInv /\ Overtaken /\ [Next]_vars => Overtaken'
<1> SUFFICES ASSUME FeedInv, Overtaken, [Next]_vars PROVE Overtaken'
  OBVIOUS
<1> USE DEF FeedInv, TypeOK, Overtaken, None
<1>1. ASSUME Publish PROVE Overtaken'
  <2> SUFFICES ASSUME NEW c \in Clients, conn'[c] \in {"registered", "sending"}
               PROVE  queued'[c] # None /\ queued'[c] > snapshot'[c]
    OBVIOUS
  <2>1. c \notin Blocked /\ conn'[c] = conn[c] /\ snapshot'[c] = snapshot[c]
    BY <1>1 DEF Publish, Blocked
  <2>2. c \in Subscribed /\ queued'[c] = revision + 1
    BY <1>1, <2>1 DEF Publish, Subscribed
  <2> QED BY <2>1, <2>2 DEF Forwards
<1>2. ASSUME NEW o \in Operations, ShowBusy(o) \/ Progress(o) \/ ShowIdle(o) PROVE Overtaken'
  BY <1>1, <1>2 DEF ShowBusy, Progress, ShowIdle
<1>3. ASSUME NEW o \in Operations, TakeBusy(o) \/ DropBusy(o) PROVE Overtaken'
  BY <1>3 DEF TakeBusy, DropBusy
<1>4. ASSUME NEW c \in Clients, Register(c) PROVE Overtaken'
  BY <1>4 DEF Register
<1>5. ASSUME NEW c \in Clients, SendFirst(c) PROVE Overtaken'
  BY <1>5 DEF SendFirst
<1>6. ASSUME NEW c \in Clients, Read(c) \/ Close(c) PROVE Overtaken'
  BY <1>6 DEF Read, Close
<1>7. CASE UNCHANGED vars BY <1>7 DEF vars
<1> QED BY <1>2, <1>3, <1>4, <1>5, <1>6, <1>7 DEF Next

\* Only a handler that a change overtook waits for room in its channel.
THEOREM OvertakenWaits == Spec => []OnlyOvertakenBlocks
<1>1. Init => Overtaken BY DEF Init, Overtaken
<1>2. FeedInv /\ Overtaken /\ [Next]_vars => Overtaken' BY OvertakenStep
<1>3. FeedInv /\ Overtaken => OnlyOvertakenBlocks
  BY DEF FeedInv, TypeOK, Overtaken, OnlyOvertakenBlocks, Blocked
<1> QED BY <1>1, <1>2, <1>3, FeedInvariant, PTL DEF Spec

-----------------------------------------------------------------------------
(* The pages. *)

\* A snapshot is held exactly while its page joins, and is the model as it is for
\* as long as nothing came in behind it.
Held ==
    \A c \in Clients :
        /\ conn[c] \in {"closed", "streaming"} => snapshot[c] = None
        /\ conn[c] = "registered" /\ queued[c] = None => snapshot[c] = revision

LEMMA HeldStep == FeedInv /\ Held /\ [Next]_vars => Held'
<1> SUFFICES ASSUME FeedInv, Held, [Next]_vars PROVE Held'
  OBVIOUS
<1> USE DEF FeedInv, TypeOK, Held, None
<1>1. ASSUME Publish PROVE Held'
  <2> SUFFICES ASSUME NEW c \in Clients
               PROVE  /\ conn'[c] \in {"closed", "streaming"} => snapshot'[c] = None
                      /\ conn'[c] = "registered" /\ queued'[c] = None => snapshot'[c] = revision'
    OBVIOUS
  <2>1. CASE c \in Blocked
    BY <1>1, <2>1 DEF Publish, Blocked
  <2>2. CASE c \notin Blocked
    BY <1>1, <2>2 DEF Publish, Blocked, Subscribed
  <2> QED BY <2>1, <2>2
<1>2. ASSUME NEW o \in Operations, ShowBusy(o) \/ Progress(o) \/ ShowIdle(o) PROVE Held'
  BY <1>1, <1>2 DEF ShowBusy, Progress, ShowIdle
<1>3. ASSUME NEW o \in Operations, TakeBusy(o) \/ DropBusy(o) PROVE Held'
  BY <1>3 DEF TakeBusy, DropBusy
<1>4. ASSUME NEW c \in Clients, Register(c) PROVE Held'
  BY <1>4 DEF Register
<1>5. ASSUME NEW c \in Clients, SendFirst(c) PROVE Held'
  BY <1>5 DEF SendFirst
<1>6. ASSUME NEW c \in Clients, Read(c) \/ Close(c) PROVE Held'
  BY <1>6 DEF Read, Close
<1>7. CASE UNCHANGED vars BY <1>7 DEF vars
<1> QED BY <1>2, <1>3, <1>4, <1>5, <1>6, <1>7 DEF Next

\* A step that leaves the connections and their channels alone is no step of a page.
LEMMA PagesStay ==
    ASSUME UNCHANGED <<revision, conn, snapshot, queued, shown>>
    PROVE  UNCHANGED Pages!vars
BY DEF Pages!vars, pages, pending

\* Publishing is the broadcast of one change.
LEMMA PublishChanges ==
    ASSUME FeedInv, Overtaken, Held, Publish, UNCHANGED shown
    PROVE  Pages!Change
<1> DEFINE late == Blocked
<1>1. late \subseteq Pages!Overtaken
  <2> SUFFICES ASSUME NEW c \in Clients, conn[c] = "sending"
               PROVE  pages[c] = "joining" /\ snapshot[c] < revision
    BY DEF Pages!Overtaken, Blocked
  <2>1. queued[c] # None /\ queued[c] > snapshot[c] /\ queued[c] <= revision
    BY DEF Overtaken, FeedInv, Forwards
  <2>2. queued[c] \in Int /\ snapshot[c] \in Int /\ revision \in Int
    BY DEF FeedInv, TypeOK, None
  <2> QED BY <2>1, <2>2 DEF pages
<1>2. revision' = revision + 1
  BY DEF Publish
<1>3. ASSUME NEW c \in Clients
      PROVE  /\ pages'[c] = IF c \in late THEN "open" ELSE pages[c]
             /\ pending'[c] = IF c \in late THEN snapshot[c]
                              ELSE IF pages[c] = "open" THEN revision' ELSE None
             /\ snapshot'[c] = IF c \in late THEN None ELSE snapshot[c]
  <2>1. conn[c] \in {"closed", "registered", "sending", "streaming"}
    BY DEF FeedInv, TypeOK
  <2>2. CASE c \in Blocked
    BY <2>2 DEF Publish, Blocked, pages, pending
  <2>3. CASE c \notin Blocked
    BY <2>1, <2>3 DEF Publish, Blocked, Subscribed, pages, pending
  <2> QED BY <2>2, <2>3
<1>4. /\ pages' = [c \in Clients |-> pages'[c]]
      /\ pending' = [c \in Clients |-> pending'[c]]
      /\ snapshot' = [c \in Clients |-> snapshot'[c]]
  <2>1. pages' = [c \in Clients |-> pages'[c]]
    BY DEF pages
  <2>2. pending' = [c \in Clients |-> pending'[c]]
    BY DEF pending
  <2>3. snapshot' = [c \in Clients |-> snapshot'[c]]
    BY DEF Publish
  <2> QED BY <2>1, <2>2, <2>3
<1>5. /\ pages' = [c \in Clients |-> IF c \in late THEN "open" ELSE pages[c]]
      /\ pending' = [c \in Clients |->
                       IF c \in late THEN snapshot[c]
                       ELSE IF pages[c] = "open" THEN revision' ELSE None]
      /\ snapshot' = [c \in Clients |-> IF c \in late THEN None ELSE snapshot[c]]
  BY <1>3, <1>4, Zenon
<1> HIDE DEF late
<1> QED BY <1>1, <1>2, <1>5 DEF Pages!Change, Pages!None, None

LEMMA PagesStep ==
    FeedInv /\ Overtaken /\ Held /\ [Next]_vars => [Pages!Next]_(Pages!vars)
<1> SUFFICES ASSUME FeedInv, Overtaken, Held, [Next]_vars
             PROVE  Pages!Next \/ UNCHANGED Pages!vars
  OBVIOUS
<1> USE DEF Pages!Next, Pages!None, None
<1>1. ASSUME NEW o \in Operations, ShowBusy(o) \/ Progress(o) \/ ShowIdle(o) PROVE Pages!Next
  BY <1>1, PublishChanges DEF ShowBusy, Progress, ShowIdle
<1>2. ASSUME NEW o \in Operations, TakeBusy(o) \/ DropBusy(o) PROVE UNCHANGED Pages!vars
  BY <1>2, PagesStay DEF TakeBusy, DropBusy
<1>t. /\ conn \in [Clients -> {"closed", "registered", "sending", "streaming"}]
      /\ pages \in [Clients -> {"away", "joining", "open"}]
      /\ DOMAIN pending = Clients /\ DOMAIN pages = Clients
  BY DEF FeedInv, TypeOK, pages, pending
<1>3. ASSUME NEW c \in Clients, Register(c) PROVE Pages!Join(c)
  <2>a. pages[c] = "away" /\ conn' = [conn EXCEPT ![c] = "registered"]
    BY <1>3 DEF Register, pages
  <2>b. pages' = [pages EXCEPT ![c] = "joining"]
    BY <2>a, <1>t DEF pages
  <2>c. pending' = pending
    <3> SUFFICES ASSUME NEW d \in Clients PROVE pending'[d] = pending[d]
      BY DEF pending
    <3> QED BY <1>3, <1>t DEF Register, pending, FeedInv, TypeOK
  <2>1. pages[c] = "away" /\ pages' = [pages EXCEPT ![c] = "joining"] /\ pending' = pending
    BY <2>a, <2>b, <2>c
  <2>2. shown' = shown
    BY <1>3 DEF Register, FeedInv, TypeOK, Forwards
  <2> QED BY <1>3, <2>1, <2>2 DEF Register, Pages!Join
<1>4. ASSUME NEW c \in Clients, SendFirst(c), queued[c] = None PROVE Pages!Open(c)
  <2>1. snapshot[c] = revision
    BY <1>4 DEF SendFirst, Held
  <2>a. pages[c] = "joining" /\ conn' = [conn EXCEPT ![c] = "streaming"]
    BY <1>4 DEF SendFirst, pages
  <2>2. pages[c] = "joining" /\ pages' = [pages EXCEPT ![c] = "open"]
    BY <2>a, <1>t DEF pages
  <2>3. pending' = [pending EXCEPT ![c] = revision]
    BY <1>4, <1>t, <2>1 DEF SendFirst, pending, FeedInv, TypeOK
  <2> QED BY <1>4, <2>1, <2>2, <2>3 DEF SendFirst, Pages!Open
<1>5. ASSUME NEW c \in Clients, SendFirst(c), queued[c] # None PROVE UNCHANGED Pages!vars
  <2>1. pages' = pages /\ pending' = pending
    BY <1>5, <1>t DEF SendFirst, pages, pending
  <2> QED BY <1>5, <2>1 DEF SendFirst, Pages!vars
<1>6. ASSUME NEW c \in Clients, Read(c) PROVE Pages!Show(c)
  <2>1. pages' = pages /\ pages[c] = "open" /\ pending[c] = queued[c]
    BY <1>6 DEF Read, pages, pending
  <2>2. pending' = [pending EXCEPT ![c] = None]
    BY <1>6, <1>t DEF Read, pending, FeedInv, TypeOK
  <2> QED BY <1>6, <2>1, <2>2 DEF Read, Pages!Show
<1>7. ASSUME NEW c \in Clients, Close(c) PROVE Pages!Leave(c)
  <2>1. pages[c] = "open" /\ pages' = [pages EXCEPT ![c] = "away"]
    BY <1>7, <1>t DEF Close, pages
  <2>2. pending' = [pending EXCEPT ![c] = None]
    BY <1>7, <1>t DEF Close, pending, FeedInv, TypeOK
  <2> QED BY <1>7, <2>1, <2>2 DEF Close, Pages!Leave
<1>8. CASE UNCHANGED vars
  BY <1>8, PagesStay DEF vars
<1> QED BY <1>1, <1>2, <1>3, <1>4, <1>5, <1>6, <1>7, <1>8 DEF Next

\* The feed serves its pages as Broadcast promises, for any number of connections:
\* the drained channel, the snapshot sent outside the lock and the handler waiting
\* for room (Wizard.update, Wizard.Subscribe) lose no change for an open page and
\* never show it an older model than it has seen.
THEOREM FeedImplementsBroadcast == Spec => PagesAreServed
<1>1. Init => Pages!Init /\ Overtaken /\ Held
  <2> SUFFICES ASSUME Init PROVE Pages!Init /\ Overtaken /\ Held
    OBVIOUS
  <2>1. /\ revision = 0 /\ shown = [c \in Clients |-> None]
        /\ conn = [c \in Clients |-> "closed"]
        /\ snapshot = [c \in Clients |-> None]
        /\ queued = [c \in Clients |-> None]
    BY DEF Init
  <2>2. pages = [c \in Clients |-> "away"] /\ pending = [c \in Clients |-> None]
    BY <2>1 DEF pages, pending
  <2> QED BY <2>1, <2>2 DEF Pages!Init, Pages!None, None, Overtaken, Held
<1>2. FeedInv /\ Overtaken /\ Held /\ [Next]_vars =>
          Overtaken' /\ Held' /\ [Pages!Next]_(Pages!vars)
  BY OvertakenStep, HeldStep, PagesStep
<1> QED BY <1>1, <1>2, FeedInvariant, PTL DEF Spec, PagesAreServed, Pages!Spec
=============================================================================
