------------------------ MODULE MCJellyfinSettings ------------------------
(* Setups under two addresses, and a user with a proxy and addresses of their *)
(* own.                                                                        *)
EXTENDS JellyfinSettings

CONSTANTS u1, u2

TwoUrls == {u1, u2}
=============================================================================
