----------------------------- MODULE Preflight -----------------------------
(***************************************************************************)
(* What the search for the router is for.  Setup (internal/probe/probe.go) *)
(* joins it with what the other probes saw, and the mode router decides;   *)
(* the sync task (internal/probe/mapping.go) only wants whom to ask for a  *)
(* mapping and where it has to point.                                      *)
(***************************************************************************)
EXTENDS Discovery, ModeRouter

CONSTANT Tunnel

ASSUME TunnelAssumption == Tunnel \notin Devices \cup {Nobody}

VARIABLES
    purpose,  \* "setup" or "sync"
    route,    \* the default gateway the routing table names
    vpn,      \* the routing table sends what is for the internet into a tunnel
    stage,    \* "search", "join", "done"
    answer,   \* what the router said of its WAN address
    result,   \* probe.Result
    lan       \* the network LANAddress is on

machine == <<purpose, route, vpn>>
vars == <<search, machine, stage, answer, result, lan>>

NothingSeen == [v4 |-> FALSE, v6 |-> FALSE, router |-> FALSE, mapping |-> FALSE,
                wan |-> "unknown", free |-> {}]

Init ==
    /\ SearchInit
    /\ purpose \in {"setup", "sync"}
    /\ vpn \in BOOLEAN
    /\ route \in Devices \cup {Tunnel, Nobody}
    /\ route = Tunnel => vpn
    /\ stage = "search"
    /\ answer = ""
    /\ result = NothingSeen
    /\ lan = ""

\* addressFacing: on the gateway's own network, if there is one; and otherwise
\* whatever reaches the internet.
Facing(gateway) == IF gateway \in Devices \/ ~vpn THEN "home" ELSE "tunnel"

Search ==
    /\ Searching
    /\ UNCHANGED <<machine, stage, answer, result, lan>>

\* Slip: an address is an address.
WANAddressAny(a) == IF a = "silent" THEN "unknown" ELSE IF a = "same" THEN "same" ELSE "differs"

\* externalAddress: 0.0.0.0, of a router that has no connection yet, is no address.
WANAddress(a) == IF a \in {"same", "differs"} THEN a ELSE "unknown"

\* queryIGD: only a router that maps ports is asked.
AskAddress ==
    /\ stage = "search"
    /\ pc = "over"
    /\ purpose = "setup"
    /\ stage' = "join"
    /\ answer' \in IF control = Nobody THEN {""}
                   ELSE IF budget = 0 THEN {"silent"}
                   ELSE {"silent", "unspecified", "same", "differs"}
    /\ UNCHANGED <<search, machine, result, lan>>

\* Slip: the machine's own address is probed alongside the rest.
JoinEarly ==
    /\ stage = "join"
    /\ stage' = "done"
    /\ \E v4, v6 \in BOOLEAN, free \in SUBSET Ports :
          result' = [v4 |-> v4, v6 |-> v6, free |-> free, wan |-> WANAddress(answer),
                     router |-> route # Nobody \/ found # <<>>,
                     mapping |-> status = "available"]
    /\ lan' = Facing(route)
    /\ UNCHANGED <<search, machine, answer>>

\* Prober.Run, after wg.Wait.
Join ==
    /\ stage = "join"
    /\ stage' = "done"
    /\ \E v4, v6 \in BOOLEAN, free \in SUBSET Ports :
          result' = [v4 |-> v4, v6 |-> v6, free |-> free, wan |-> WANAddress(answer),
                     router |-> route # Nobody \/ found # <<>>,
                     mapping |-> status = "available"]
    /\ lan' = Facing(IF source = Nobody THEN route ELSE source)
    /\ UNCHANGED <<search, machine, answer>>

\* FindMappingTarget: the routing table's answer, unless a reply gave a better one.
FindMappingTarget ==
    /\ stage = "search"
    /\ pc = "over"
    /\ purpose = "sync"
    /\ stage' = "done"
    /\ lan' = Facing(IF source = Nobody THEN route ELSE source)
    /\ UNCHANGED <<search, machine, answer, result>>

Next == Search \/ AskAddress \/ Join \/ FindMappingTarget

Spec == Init /\ [][Next]_vars

-----------------------------------------------------------------------------
(* Types, and what has to hold. *)

TypeOK ==
    /\ SearchTypeOK
    /\ purpose \in {"setup", "sync"}
    /\ vpn \in BOOLEAN
    /\ route \in Devices \cup {Tunnel, Nobody}
    /\ stage \in {"search", "join", "done"}
    /\ answer \in {"", "silent", "unspecified", "same", "differs"}
    /\ result \in ProbeResult
    /\ lan \in {"", "home", "tunnel"}

\* Whatever tunnel is up and whatever other gateway was heard: the device that is
\* asked for mappings is the one whose name is shown and whose settings page is
\* linked, and the address a mapping points at is on its network.
PointsAtTheMapper ==
    stage = "done" /\ control # Nobody => named = control /\ lan = "home"

\* Nobody is told that their provider shares their address, and denied IPv4, but
\* on the word of the router that maps their ports.
NoGuessedCGNAT ==
    Choose(result).mode \in {"A6", "B"} => control # Nobody /\ answer = "differs"

\* Worst to best for whoever has to type the address.
Worth(port) == CASE port = PortPreferred -> 2 [] port = PortFallback -> 1 [] OTHER -> 0

\* Stopping another program that holds a port never makes things worse: nobody
\* is blocked who was not, no mode is lost, and the port is as good or better.
FreeingAPortNeverHurts ==
    \A free \in SUBSET Ports :
        result.free \subseteq free =>
            LET old == Choose(result)
                new == Choose([result EXCEPT !.free = free]) IN
            /\ Blocked(new) => Blocked(old)
            /\ ~Blocked(old) => new.mode = old.mode
            /\ Worth(new.port) >= Worth(old.port)

\* A decision that lets setup go on always says how the port is opened: by
\* asking the router that offers it, by hand, or not at all on a network where no
\* router has to forward anything; and mode A never decides on a taken port.
DecisionIsActionable ==
    LET d == Choose(result) IN
    ~Blocked(d) =>
        /\ d.mode = "A" => (d.map # d.manual) /\ (d.map => control # Nobody) /\ d.port \in result.free
        /\ d.mode # "A" => ~d.map /\ ~d.manual /\ BehindCGNAT(result)
        /\ d.mode \in {"A", "A6", "B"}
=============================================================================
