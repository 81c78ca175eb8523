----------------------------- MODULE ModeRouter -----------------------------
(***************************************************************************)
(* The mode router (internal/mode/router.go): a pure function from what    *)
(* the probe saw to how this machine is going to be reachable.  Addresses  *)
(* are abstracted to the one comparison made of them, the router's own     *)
(* WAN address against the address the outside world observes.             *)
(***************************************************************************)
EXTENDS Integers

PortPreferred == 443
PortFallback == 8443
NoPort == 0
Ports == {PortPreferred, PortFallback}

Mode == {"", "A", "A6", "B"}
Blocker == {"", "no_internet", "ports_unavailable"}

WarningCode == {"cgnat_no_ipv4", "non_standard_port", "no_upnp",
                "router_unreachable", "ipv6_only", "no_ipv6"}

\* A probe.Result.  A router that offers mapping has answered, one that names
\* its WAN address offers the service it named it through, and the internet is
\* reachable exactly when an address of some family was seen.
ProbeResult ==
    {r \in [v4 : BOOLEAN, v6 : BOOLEAN, router : BOOLEAN, mapping : BOOLEAN,
            wan : {"unknown", "same", "differs"}, free : SUBSET Ports] :
        /\ r.mapping => r.router
        /\ r.wan # "unknown" => r.mapping}

Reachable(r) == r.v4 \/ r.v6

\* The comparison needs both addresses; without them the answer is not known.
CGNATKnown(r) == r.router /\ r.wan # "unknown" /\ r.v4
BehindCGNAT(r) == CGNATKnown(r) /\ r.wan = "differs"

\* Slip: the ports are looked for in the other order.
choosePortBackwards(r) ==
    IF PortFallback \in r.free THEN PortFallback
    ELSE IF PortPreferred \in r.free THEN PortPreferred ELSE NoPort

choosePort(r) ==
    IF PortPreferred \in r.free THEN PortPreferred
    ELSE IF PortFallback \in r.free THEN PortFallback ELSE NoPort

Decision == [mode : Mode, port : Ports \cup {NoPort}, map : BOOLEAN,
             manual : BOOLEAN, blocker : Blocker, warnings : SUBSET WarningCode]

Undecided == [mode |-> "", port |-> NoPort, map |-> FALSE, manual |-> FALSE,
              blocker |-> "", warnings |-> {}]

When(condition, code) == IF condition THEN {code} ELSE {}

\* Slip: mapping is asked for whenever a router answered.
ChoosePublicEager(r) ==
    [mode |-> "A", port |-> choosePort(r), map |-> r.mapping, manual |-> ~r.router,
     blocker |-> "",
     warnings |-> When(choosePort(r) # PortPreferred, "non_standard_port")
                  \cup When(~r.router, "router_unreachable")
                  \cup When(r.router /\ ~r.mapping, "no_upnp")
                  \cup When(~r.v6, "no_ipv6")]

\* A direct connection (or one whose CGNAT status is unknown) with a free port.
ChoosePublic(r) ==
    [mode |-> "A", port |-> choosePort(r), map |-> r.mapping, manual |-> ~r.mapping,
     blocker |-> "",
     warnings |-> When(choosePort(r) # PortPreferred, "non_standard_port")
                  \cup When(~r.router, "router_unreachable")
                  \cup When(r.router /\ ~r.mapping, "no_upnp")
                  \cup When(~r.v6, "no_ipv6")]

Choose(r) ==
    IF ~Reachable(r) THEN [Undecided EXCEPT !.blocker = "no_internet"]
    ELSE IF BehindCGNAT(r) /\ r.v6
         THEN [Undecided EXCEPT !.mode = "A6", !.port = PortPreferred,
                                !.warnings = {"ipv6_only"}]
    ELSE IF BehindCGNAT(r)
         THEN [Undecided EXCEPT !.mode = "B", !.warnings = {"cgnat_no_ipv4"}]
    ELSE IF choosePort(r) = NoPort
         THEN [Undecided EXCEPT !.blocker = "ports_unavailable"]
    ELSE ChoosePublic(r)

Blocked(d) == d.blocker # ""
=============================================================================
