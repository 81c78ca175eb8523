----------------------------- MODULE StateStore -----------------------------
(***************************************************************************)
(* The file that holds the setup record (internal/state, Store).  Saving   *)
(* it takes three steps, and two programs save it: the wizard and the sync *)
(* task.                                                                   *)
(***************************************************************************)

CONSTANTS
    Record,      \* what the file may say
    Missing      \* what Load finds when there is no file

ASSUME MissingAssumption == Missing \notin Record

VARIABLES
    file,        \* the file
    temp,        \* the temporary file each program is about to put in its place
    cleared,     \* the programs that have cleared the way for it
    gap          \* history: there is none, as none was ever put in place or the last
                 \* save that got that far was cut off half-way

store == <<file, temp, cleared, gap>>
Process == {"wizard", "sync"}

StoreInit ==
    /\ file = Missing
    /\ temp = [p \in Process |-> Missing]
    /\ cleared = {}
    /\ gap = TRUE

\* Slip: the old record goes first.
BeginByClearing(p, r) ==
    /\ temp' = [temp EXCEPT ![p] = r]
    /\ cleared' = cleared
    /\ file' = Missing
    /\ UNCHANGED gap

\* Save, up to the temporary file's Close.
Begin(p, r) ==
    /\ temp' = [temp EXCEPT ![p] = r]
    /\ UNCHANGED <<file, cleared, gap>>

\* os.Remove, whose error is ignored.
Clear(p) ==
    /\ temp[p] # Missing
    /\ p \notin cleared
    /\ cleared' = cleared \cup {p}
    /\ file' \in {Missing, file}
    /\ UNCHANGED <<temp, gap>>

\* The temporary file is gone: renamed, removed by the deferred call, or left
\* behind by a process that was killed, where nothing ever reads it.
Done(p) ==
    /\ temp' = [temp EXCEPT ![p] = Missing]
    /\ cleared' = cleared \ {p}

Rename(p) ==
    /\ p \in cleared
    /\ Done(p)
    /\ file' = temp[p]
    /\ gap' = FALSE

RenameFails(p) ==
    /\ p \in cleared
    /\ Done(p)
    /\ gap' = (file = Missing)
    /\ UNCHANGED file

\* The process is killed, wherever it is.
Abandon(p) ==
    /\ Done(p)
    /\ gap' = (gap \/ (p \in cleared /\ file = Missing))
    /\ UNCHANGED file

StoreTypeOK ==
    /\ file \in Record \cup {Missing}
    /\ temp \in [Process -> Record \cup {Missing}]
    /\ cleared \subseteq {p \in Process : temp[p] # Missing}
    /\ gap \in BOOLEAN
=============================================================================
