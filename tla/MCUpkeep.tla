----------------------------- MODULE MCUpkeep -----------------------------
(* One machine with two addresses and four kinds of router: one that grants  *)
(* what it is asked for, one that refuses what is permanent, one that makes  *)
(* it finite and gives ports away, and one that does nothing.                *)
EXTENDS Upkeep

CONSTANTS a1, a2

TwoAddresses == {a1, a2}
Grants == [permanent |-> "grants", yields |-> FALSE, acts |-> TRUE]
Refuses == [Grants EXCEPT !.permanent = "refuses"]
CapsAndYields == [permanent |-> "caps", yields |-> TRUE, acts |-> TRUE]
Pretends == [Grants EXCEPT !.acts = FALSE]

Scheduled(r) == [router |-> r, automatic |-> TRUE, loop |-> FALSE]
FiveSetups ==
    {Scheduled(Grants), Scheduled(CapsAndYields), Scheduled(Pretends),
     [Scheduled(Refuses) EXCEPT !.loop = TRUE], [Scheduled(CapsAndYields) EXCEPT !.automatic = FALSE]}
=============================================================================
