---------------------------- MODULE MCDNSNaming ----------------------------
(* DNSNaming.tla for TLC: names and addresses are interchangeable.           *)
EXTENDS DNSNaming, TLC

Symmetry == Permutations(Name) \cup Permutations(IP)
=============================================================================
