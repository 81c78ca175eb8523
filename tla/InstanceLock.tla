---------------------------- MODULE InstanceLock ----------------------------
(***************************************************************************)
(* One copy of RASA at a time (internal/instance, cmd/rasa/main.go): a     *)
(* lock file naming the address a copy serves on, taken over when nobody   *)
(* answers there.  Each copy reads the setup record before it tries for    *)
(* the lock.  A copy is one launch of the program, with an address of its  *)
(* own; an answer on the loopback address is assumed to arrive in time.    *)
(***************************************************************************)
EXTENDS Integers

CONSTANTS
    Copies,
    None,
    MaxRecord      \* bound: changes of the setup record

ASSUME NoneAssumption == None \notin Copies
ASSUME BoundAssumption == MaxRecord \in Nat

VARIABLES
    at,      \* copy -> where its main() is
    lock,    \* the copy the lock file names
    target,  \* copy -> the copy it found running
    record,  \* version of the setup record on disk
    loaded,  \* copy -> version it holds in memory
    beside,  \* history: copy -> another was running when it read the record
    overlapped  \* history: since there last was no copy at all, a launch or a closing
                \* began during another launch, or a launch during a closing

vars == <<at, lock, target, record, loaded, beside, overlapped>>

Place == {"new", "loaded", "checking", "retrying", "checked", "refused",
          "running", "closing", "gone"}

\* The listener is bound before the lock is tried for, and closed before the
\* lock is released.
Serving == {p \in Copies : at[p] \in {"checking", "retrying", "checked", "refused", "running"}}

Starting == {p \in Copies : at[p] \in {"loaded", "checking", "retrying", "checked", "refused"}}
Closing == {p \in Copies : at[p] = "closing"}
Running == {p \in Copies : at[p] = "running"}

Init ==
    /\ at = [p \in Copies |-> "new"]
    /\ lock = None
    /\ target = [p \in Copies |-> None]
    /\ record = 0
    /\ loaded = [p \in Copies |-> 0]
    /\ beside = [p \in Copies |-> FALSE]
    /\ overlapped = FALSE

Go(p, place) == at' = [at EXCEPT ![p] = place]

\* wizard.New reads the record.
Load(p) ==
    /\ at[p] = "new"
    /\ loaded' = [loaded EXCEPT ![p] = record]
    /\ Go(p, "loaded")
    /\ overlapped' = (Starting \cup Closing # {} \/ (overlapped /\ Running # {}))
    /\ beside' = [beside EXCEPT ![p] = Running # {}]
    /\ UNCHANGED <<lock, target, record>>

Serve(p) ==
    /\ at[p] = "loaded"
    /\ Go(p, "checking")
    /\ UNCHANGED <<lock, target, record, loaded, beside, overlapped>>

\* Slip: a lock file is believed without asking whether anybody answers.
CheckFileOnly(p) ==
    /\ at[p] \in {"checking", "retrying"}
    /\ IF lock # None
       THEN /\ target' = [target EXCEPT ![p] = lock]
            /\ Go(p, IF at[p] = "checking" THEN "refused" ELSE "gone")
       ELSE /\ UNCHANGED target
            /\ Go(p, "checked")
    /\ UNCHANGED <<lock, record, loaded, beside, overlapped>>

\* Acquire, first half: a lock nobody answers for is stale.
Check(p) ==
    /\ at[p] \in {"checking", "retrying"}
    /\ IF lock \in Serving
       THEN /\ target' = [target EXCEPT ![p] = lock]
            /\ Go(p, IF at[p] = "checking" THEN "refused" ELSE "gone")
       ELSE /\ UNCHANGED target
            /\ Go(p, "checked")
    /\ UNCHANGED <<lock, record, loaded, beside, overlapped>>

\* Acquire, second half: the file is written over whatever is there.
Claim(p) ==
    /\ at[p] = "checked"
    /\ lock' = p
    /\ Go(p, "running")
    /\ UNCHANGED <<target, record, loaded, beside, overlapped>>

\* Slip: a copy that was refused releases the lock on its way out.
GiveUpReleasing(p) ==
    /\ at[p] = "refused"
    /\ lock' = None
    /\ Go(p, "gone")
    /\ UNCHANGED <<target, record, loaded, beside, overlapped>>

\* The user declines, or the other copy cannot be closed.
GiveUp(p) ==
    /\ at[p] = "refused"
    /\ Go(p, "gone")
    /\ UNCHANGED <<lock, target, record, loaded, beside, overlapped>>

\* Slip: the other copy is asked to go, and taken to be gone.
ReplaceUnseen(p) ==
    /\ at[p] = "refused"
    /\ at[target[p]] # "gone"
    /\ Go(p, "checked")
    /\ UNCHANGED <<lock, target, record, loaded, beside, overlapped>>

\* Stop: kill the copy found running, and once it is quiet try again.
Replace(p) ==
    /\ at[p] = "refused"
    /\ at[target[p]] # "gone"
    /\ at' = [at EXCEPT ![target[p]] = "gone", ![p] = "retrying"]
    /\ UNCHANGED <<lock, target, record, loaded, beside, overlapped>>

\* The wizard saves what it holds in memory over the record.
Save(p) ==
    /\ at[p] = "running"
    /\ record < MaxRecord
    /\ record' = record + 1
    /\ loaded' = [loaded EXCEPT ![p] = record + 1]
    /\ UNCHANGED <<at, lock, target, beside, overlapped>>

\* Quit: the server is shut down first.
Shutdown(p) ==
    /\ at[p] = "running"
    /\ Go(p, "closing")
    /\ overlapped' = (overlapped \/ Starting # {})
    /\ UNCHANGED <<lock, target, record, loaded, beside>>

\* Release removes the file, whoever it names by now.
Release(p) ==
    /\ at[p] = "closing"
    /\ lock' = None
    /\ Go(p, "gone")
    /\ UNCHANGED <<target, record, loaded, beside, overlapped>>

Crash(p) ==
    /\ at[p] \notin {"new", "gone"}
    /\ Go(p, "gone")
    /\ UNCHANGED <<lock, target, record, loaded, beside, overlapped>>

Next == \E p \in Copies :
    \/ Load(p) \/ Serve(p) \/ Check(p) \/ Claim(p) \/ GiveUp(p) \/ Replace(p)
    \/ Save(p) \/ Shutdown(p) \/ Release(p) \/ Crash(p)

Spec == Init /\ [][Next]_vars

-----------------------------------------------------------------------------
TypeOK ==
    /\ at \in [Copies -> Place]
    /\ lock \in Copies \cup {None}
    /\ target \in [Copies -> Copies \cup {None}]
    /\ record \in Nat
    /\ loaded \in [Copies -> Nat]
    /\ beside \in [Copies -> BOOLEAN]
    /\ overlapped \in BOOLEAN

\* As long as launches and closings follow one another, with crashes, kills and
\* replacements in between, two copies never run at once; and where they did not,
\* again from the first launch after all copies are gone.
OneCopy == ~overlapped => \A p, q \in Running : p = q

\* The lock then names the copy that runs, so the next launch finds it.
RunnerIsNamed == ~overlapped => \A p \in Running : lock = p

\* However they overlap, a lock left by a crash or a kill refuses nobody: a copy
\* is turned away only by one that is running.
RefusedByARunner ==
    [][\A p \in Copies : at[p] \in {"checking", "retrying"} /\ at'[p] \in {"refused", "gone"}
          /\ target'[p] # target[p] => at[target'[p]] = "running"]_vars

\* A copy works from an older record than the one on disk only if another was running
\* when it read it: one that found nobody there is never surprised by a save.
StaleOnlyBeside ==
    ~overlapped => \A p \in Running : loaded[p] = record \/ beside[p]
=============================================================================
