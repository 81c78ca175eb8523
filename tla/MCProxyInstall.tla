--------------------------- MODULE MCProxyInstall ---------------------------
(* Two configurations the proxy accepts and one it rejects, two name servers. *)
EXTENDS ProxyInstall

CONSTANTS p443, p8443, pBad, s1, s2

ThreePorts == {p443, p8443, pBad}
GoodPorts == {p443, p8443}
TwoServers == {s1, s2}
=============================================================================
