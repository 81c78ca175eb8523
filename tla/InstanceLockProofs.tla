------------------------- MODULE InstanceLockProofs -------------------------
(***************************************************************************)
(* The instance lock for any number of launches, proved with TLAPS: whom a *)
(* copy is refused by, always; and that one copy runs at a time as long as *)
(* launches and closings have not overlapped.                              *)
(***************************************************************************)
EXTENDS InstanceLock, TLAPS

\* A name in the lock file is that of a copy that got as far as running.
LockedOnceRan == lock # None => at[lock] \in {"running", "closing", "gone"}

RefusedKnowsWhom == \A p \in Copies : at[p] = "refused" => target[p] \in Copies

LockInv == TypeOK /\ LockedOnceRan /\ RefusedKnowsWhom

LEMMA LockInit == Init => LockInv
<1> SUFFICES ASSUME Init PROVE LockInv
  OBVIOUS
<1>1. overlapped \in BOOLEAN BY Zenon DEF Init
<1> QED BY <1>1 DEF Init, LockInv, TypeOK, LockedOnceRan, RefusedKnowsWhom, Place

LEMMA LockStep == LockInv /\ [Next]_vars => LockInv'
<1> SUFFICES ASSUME LockInv, [Next]_vars PROVE LockInv'
  OBVIOUS
<1> USE NoneAssumption DEF LockInv, TypeOK, LockedOnceRan, RefusedKnowsWhom, Place, Go
<1>1. ASSUME NEW p \in Copies, Load(p) PROVE LockInv'
  BY <1>1 DEF Load
<1>2. ASSUME NEW p \in Copies, Serve(p) PROVE LockInv'
  BY <1>2 DEF Serve
<1>3. ASSUME NEW p \in Copies, Check(p) PROVE LockInv'
  BY <1>3 DEF Check, Serving
<1>4. ASSUME NEW p \in Copies, Claim(p) PROVE LockInv'
  BY <1>4 DEF Claim
<1>5. ASSUME NEW p \in Copies, GiveUp(p) PROVE LockInv'
  BY <1>5 DEF GiveUp
<1>6. ASSUME NEW p \in Copies, Replace(p) PROVE LockInv'
  BY <1>6 DEF Replace
<1>7. ASSUME NEW p \in Copies, Save(p) PROVE LockInv'
  BY <1>7 DEF Save
<1>8. ASSUME NEW p \in Copies, Shutdown(p) PROVE LockInv'
  BY <1>8 DEF Shutdown
<1>9. ASSUME NEW p \in Copies, Release(p) PROVE LockInv'
  BY <1>9 DEF Release
<1>10. ASSUME NEW p \in Copies, Crash(p) PROVE LockInv'
  BY <1>10 DEF Crash
<1>11. CASE UNCHANGED vars BY <1>11 DEF vars
<1> QED BY <1>1, <1>2, <1>3, <1>4, <1>5, <1>6, <1>7, <1>8, <1>9, <1>10, <1>11 DEF Next

LEMMA LockInvariant == Spec => []LockInv
<1> QED BY LockInit, LockStep, PTL DEF Spec

\* Type correctness, launches and closings overlapping or not.
THEOREM LockTyping == Spec => []TypeOK
<1>1. LockInv => TypeOK BY DEF LockInv
<1> QED BY <1>1, LockInvariant, PTL

\* A copy is turned away only by one that is running: the lock a crash or a kill
\* leaves behind never keeps anybody out.
THEOREM OnlyARunnerRefuses == Spec => RefusedByARunner
<1>1. ASSUME LockInv, [Next]_vars, NEW q \in Copies,
             at[q] \in {"checking", "retrying"}, at'[q] \in {"refused", "gone"},
             target'[q] # target[q]
      PROVE  at[target'[q]] = "running"
  <2>1. ASSUME NEW p \in Copies, Check(p) PROVE at[target'[q]] = "running"
    BY <2>1, <1>1, NoneAssumption DEF Check, Serving, LockInv, LockedOnceRan, TypeOK
  <2>2. ASSUME NEW p \in Copies, ~Check(p),
               \/ Load(p) \/ Serve(p) \/ Claim(p) \/ GiveUp(p) \/ Replace(p)
               \/ Save(p) \/ Shutdown(p) \/ Release(p) \/ Crash(p)
        PROVE  FALSE
    BY <2>2, <1>1 DEF Load, Serve, Claim, GiveUp, Replace, Save, Shutdown, Release, Crash
  <2>3. ~UNCHANGED vars BY <1>1 DEF vars
  <2> QED BY <1>1, <2>1, <2>2, <2>3 DEF Next
<1>2. LockInv /\ [Next]_vars =>
        [\A p \in Copies : at[p] \in {"checking", "retrying"} /\ at'[p] \in {"refused", "gone"}
            /\ target'[p] # target[p] => at[target'[p]] = "running"]_vars
  BY <1>1
<1> QED BY <1>2, LockInvariant, PTL DEF Spec, RefusedByARunner

-----------------------------------------------------------------------------
(* One launch after the other. *)

\* Nobody closes while somebody starts, and nobody else starts or closes.
OneAtATime == \A p, q \in Starting \cup Closing : p = q

\* A copy about to claim the lock, or one that is closing, is alone.
Alone == (\E p \in Copies : at[p] \in {"checked", "closing"}) => Running = {}

Named == \A p \in Running : lock = p

Turn == OneAtATime /\ Alone /\ Named

TurnInv == LockInv /\ (~overlapped => Turn)

LEMMA TurnStep == TurnInv /\ [Next]_vars => TurnInv'
<1> SUFFICES ASSUME TurnInv, [Next]_vars, ~overlapped' PROVE Turn'
  BY LockStep DEF TurnInv
<1> USE NoneAssumption DEF TurnInv, Turn, LockInv, TypeOK, OneAtATime, Alone, Named, Running,
            Starting, Closing, Go
<1>1. ASSUME NEW p \in Copies, Load(p) PROVE Turn'
  BY <1>1 DEF Load
<1>2. ASSUME NEW p \in Copies, Serve(p) PROVE Turn'
  BY <1>2 DEF Serve
<1>3. ASSUME NEW p \in Copies, Check(p) PROVE Turn'
  BY <1>3 DEF Check, Serving
<1>4. ASSUME NEW p \in Copies, Claim(p) PROVE Turn'
  BY <1>4 DEF Claim
<1>5. ASSUME NEW p \in Copies, GiveUp(p) PROVE Turn'
  BY <1>5 DEF GiveUp
<1>6. ASSUME NEW p \in Copies, Replace(p) PROVE Turn'
  BY <1>6 DEF Replace, RefusedKnowsWhom
<1>7. ASSUME NEW p \in Copies, Save(p) PROVE Turn'
  BY <1>7 DEF Save
<1>8. ASSUME NEW p \in Copies, Shutdown(p) PROVE Turn'
  BY <1>8 DEF Shutdown
<1>9. ASSUME NEW p \in Copies, Release(p) PROVE Turn'
  BY <1>9 DEF Release
<1>10. ASSUME NEW p \in Copies, Crash(p) PROVE Turn'
  BY <1>10 DEF Crash
<1>11. CASE UNCHANGED vars BY <1>11 DEF vars
<1> QED BY <1>1, <1>2, <1>3, <1>4, <1>5, <1>6, <1>7, <1>8, <1>9, <1>10, <1>11 DEF Next

LEMMA TurnInvariant == Spec => []TurnInv
<1>1. Init => TurnInv
  BY LockInit DEF Init, TurnInv, Turn, OneAtATime, Alone, Named, Running, Starting, Closing
<1>2. TurnInv /\ [Next]_vars => TurnInv' BY TurnStep
<1> QED BY <1>1, <1>2, PTL DEF Spec

\* As long as launches and closings follow one another, at most one copy runs, however
\* often one is killed, replaced or crashes at any of its steps.
THEOREM OneRuns == Spec => []OneCopy
<1>1. TurnInv => OneCopy BY DEF TurnInv, Turn, Named, OneCopy
<1> QED BY <1>1, TurnInvariant, PTL

\* The lock file names the copy that runs, so the next launch finds it.
THEOREM TheRunnerIsFound == Spec => []RunnerIsNamed
<1>1. TurnInv => RunnerIsNamed BY DEF TurnInv, Turn, Named, RunnerIsNamed
<1> QED BY <1>1, TurnInvariant, PTL

-----------------------------------------------------------------------------
(* What a copy works from. *)

\* A copy that found nobody running holds the record on disk, and nobody has started
\* running since while it is on its way.
Fresh ==
    \A p \in Starting \cup Running :
        beside[p] \/ (loaded[p] = record /\ (p \in Starting => Running = {}))

LEMMA FreshStep ==
    ASSUME TurnInv, ~overlapped => Fresh, [Next]_vars
    PROVE  ~overlapped' => Fresh'
<1> SUFFICES ASSUME ~overlapped' PROVE Fresh'
  OBVIOUS
<1> USE NoneAssumption DEF TurnInv, Turn, LockInv, TypeOK, OneAtATime, Alone, Named, Running,
            Starting, Closing, Go, Fresh
<1>1. ASSUME NEW p \in Copies, Load(p) PROVE Fresh'
  BY <1>1 DEF Load
<1>2. ASSUME NEW p \in Copies, Serve(p) PROVE Fresh'
  BY <1>2 DEF Serve
<1>3. ASSUME NEW p \in Copies, Check(p) PROVE Fresh'
  BY <1>3 DEF Check, Serving
<1>4. ASSUME NEW p \in Copies, Claim(p) PROVE Fresh'
  BY <1>4 DEF Claim
<1>5. ASSUME NEW p \in Copies, GiveUp(p) PROVE Fresh'
  BY <1>5 DEF GiveUp
<1>6. ASSUME NEW p \in Copies, Replace(p) PROVE Fresh'
  BY <1>6 DEF Replace, RefusedKnowsWhom
<1>7. ASSUME NEW p \in Copies, Save(p) PROVE Fresh'
  BY <1>7 DEF Save
<1>8. ASSUME NEW p \in Copies, Shutdown(p) PROVE Fresh'
  BY <1>8 DEF Shutdown
<1>9. ASSUME NEW p \in Copies, Release(p) PROVE Fresh'
  BY <1>9 DEF Release
<1>10. ASSUME NEW p \in Copies, Crash(p) PROVE Fresh'
  BY <1>10 DEF Crash
<1>11. CASE UNCHANGED vars BY <1>11 DEF vars
<1> QED BY <1>1, <1>2, <1>3, <1>4, <1>5, <1>6, <1>7, <1>8, <1>9, <1>10, <1>11 DEF Next

\* A copy that found nobody running works from the record on disk.
THEOREM StaleBesideOnly == Spec => []StaleOnlyBeside
<1>1. Init => Fresh BY DEF Init, Fresh, Starting, Running
<1>2. TurnInv /\ (~overlapped => Fresh) /\ [Next]_vars => (~overlapped' => Fresh')
  BY FreshStep
<1>3. TurnInv /\ (~overlapped => Fresh) => StaleOnlyBeside
  BY DEF Fresh, StaleOnlyBeside
<1> QED BY <1>1, <1>2, <1>3, TurnInvariant, PTL DEF Spec
=============================================================================
