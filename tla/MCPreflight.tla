---------------------------- MODULE MCPreflight ----------------------------
EXTENDS Preflight, TLC

\* A router of each kind, one that only answers as a device of some kind, a media
\* server that calls itself a gateway, and what else there is in a home.
HomeKinds ==
    {[igd |-> TRUE,  service |-> TRUE,  describes |-> "answers"],
     [igd |-> FALSE, service |-> TRUE,  describes |-> "answers"],
     [igd |-> TRUE,  service |-> TRUE,  describes |-> "hangs"],
     [igd |-> TRUE,  service |-> FALSE, describes |-> "answers"],
     [igd |-> FALSE, service |-> FALSE, describes |-> "answers"],
     [igd |-> FALSE, service |-> FALSE, describes |-> "hangs"]}

Alike == Permutations(Devices)
=============================================================================
