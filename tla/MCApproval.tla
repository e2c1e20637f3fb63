------------------------------ MODULE MCApproval ------------------------------
(* Instances of Approval for TLC.                                            *)
EXTENDS Approval

CONSTANT info

AllRequested == [s \in Sessions |-> Payloads]

Symmetry == Permutations(Callbacks)
===============================================================================
