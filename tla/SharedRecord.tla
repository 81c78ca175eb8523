---------------------------- MODULE SharedRecord ----------------------------
(***************************************************************************)
(* What the setup record promises the two programs that save it, with no   *)
(* temporary file and no steps of a save: the file holds a whole record    *)
(* that one of them held as it began to save, a program changes nothing of *)
(* what it is saving, the file is missing only after a save that was under *)
(* way, and the sync task saves back nothing it did not read.              *)
(***************************************************************************)
CONSTANTS Record, Missing, NoName

VARIABLES
    file,     \* the record a launch would find, or Missing
    hold,     \* program -> the record it holds
    saving    \* the programs in the middle of a save

vars == <<file, hold, saving>>
Process == {"wizard", "sync"}

Init ==
    /\ file = Missing
    /\ hold = [p \in Process |-> NoName]
    /\ saving = {}

\* The wizard makes up its own record; what it begins with may be what it read.
Decide ==
    /\ "wizard" \notin saving
    /\ \E r \in Record : hold' = [hold EXCEPT !["wizard"] = r]
    /\ UNCHANGED <<file, saving>>

\* The sync task has what it reads, and that may be out of date when it is saved.
Read ==
    /\ "sync" \notin saving
    /\ file # Missing
    /\ hold' = [hold EXCEPT !["sync"] = file]
    /\ UNCHANGED <<file, saving>>

Begin(p) ==
    /\ p \notin saving
    /\ saving' = saving \cup {p}
    /\ UNCHANGED <<file, hold>>

\* The old record goes before the new one comes.
Clear(p) ==
    /\ p \in saving
    /\ file' = Missing
    /\ UNCHANGED <<hold, saving>>

\* A program that is through, or stopped, may let go of its record.
LetsGo(p) == hold' \in {hold, [hold EXCEPT ![p] = NoName]} /\ saving' = saving \ {p}

Replace(p) ==
    /\ p \in saving
    /\ file' = hold[p]
    /\ LetsGo(p)

Stop(p) == LetsGo(p) /\ UNCHANGED file

Next ==
    \/ Decide \/ Read
    \/ \E p \in Process : Begin(p) \/ Clear(p) \/ Replace(p) \/ Stop(p)

Spec == Init /\ [][Next]_vars
=============================================================================
