----------------------------- MODULE MCAccount -----------------------------
(* One name; an IPv4 address that changes, and an IPv6 address that comes and goes. *)
EXTENDS Account

CONSTANTS n1, a1, a2, b1

OneName == {n1}
TwoFamilies == {"v4", "v6"}
At(a, b) == [f \in TwoFamilies |-> IF f = "v4" THEN a ELSE b]
ThreeHomes == {At(a1, None), At(a1, b1), At(a2, None)}
SomeRecord == OneName \cup {NoName}
=============================================================================
