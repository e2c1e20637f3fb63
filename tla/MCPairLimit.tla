------------------------------ MODULE MCPairLimit -----------------------------
(* Instances of PairLimit for TLC.                                           *)
EXTENDS PairLimit, TLC

Symmetry == Permutations(Hosts) \cup Permutations(Requests)
=============================================================================
