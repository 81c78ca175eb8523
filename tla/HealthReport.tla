---------------------------- MODULE HealthReport ----------------------------
(***************************************************************************)
(* What the sync task reports and when it interrupts somebody              *)
(* (internal/health).  A report is the set of the checks that failed.      *)
(***************************************************************************)
EXTENDS Integers

CONSTANTS
    Repeat       \* RepeatAfter, in rounds of the sync task

ASSUME RepeatAssumption == Repeat \in Nat \ {0}

\* What does not concern the port, the address and the proxy, reaches a report alike
\* and is one check here.
Check == {"address", "port"}
Healthy(problems) == problems = {}

\* What the alert file holds; no file reads as one that says all is well.
Alert == [signature : SUBSET Check, age : 0 .. Repeat]
NoAlert == [signature |-> {}, age |-> 0]

\* Slip: only a fault is worth an alert, never that it is over.
WarrantsFaults(last, problems) ==
    /\ ~Healthy(problems)
    /\ problems # last.signature \/ last.age >= Repeat

\* Consider: something else is wrong than last said, nothing is any more, or the
\* same has been wrong for so long that it is said again.
Warrants(last, problems) ==
    \/ problems # last.signature
    \/ ~Healthy(problems) /\ last.age >= Repeat
=============================================================================
