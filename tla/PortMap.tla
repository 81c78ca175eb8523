------------------------------ MODULE PortMap ------------------------------
(***************************************************************************)
(* Asking a router for a port (internal/portmap): a permanent lease first, *)
(* a finite one if that is refused, and the result read back.  An entry is *)
(* what the router forwards one external port to, and for how long.        *)
(***************************************************************************)
EXTENDS Integers

CONSTANTS
    Addresses,   \* LAN addresses this machine may have
    Other,       \* any other device on the network
    Nobody,      \* no device
    Lease        \* FallbackLeaseSeconds, in rounds of the sync task

ASSUME ClientAssumption ==
    /\ Other \notin Addresses
    /\ Nobody \notin Addresses
    /\ Nobody # Other
ASSUME LeaseAssumption == Lease \in Nat \ {0}

\* A Mapping: left is LeaseSeconds, which is 0 for a permanent one.
Mapping == [client : Addresses \cup {Other, Nobody}, left : 0 .. Lease]
None == [client |-> Nobody, left |-> 0]
Permanent(m) == m.left = 0

\* How a router treats a request for a permanent lease, whether it lets a
\* request take another client's port, and whether it does what it accepts.
Router == [permanent : {"grants", "refuses", "caps"}, yields : BOOLEAN, acts : BOOLEAN]

\* What an AddPortMapping call does to the entry and answers; the code tells
\* apart a conflict (718), a refusal that a finite lease may cure, and success.
AddPortMapping(router, entry, client, lease) ==
    LET wanted == [client |-> client,
                   left |-> IF router.permanent = "caps" /\ lease = 0 THEN Lease ELSE lease] IN
    IF entry.client \notin {client, Nobody} /\ ~router.yields
    THEN [entry |-> entry, answer |-> "conflict"]
    ELSE IF lease = 0 /\ router.permanent = "refuses"
    THEN [entry |-> entry, answer |-> "retryable"]
    ELSE [entry |-> IF router.acts THEN wanted ELSE entry, answer |-> "ok"]
=============================================================================
