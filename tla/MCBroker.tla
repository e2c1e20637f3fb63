------------------------------ MODULE MCBroker ------------------------------
(* Instances of Broker for TLC.                                            *)
EXTENDS Broker

CONSTANTS info, cancel

\* Every guest requested everything.
AllRequested == [s \in Sessions |-> Payloads]

Symmetry ==
  UNION {Permutations(Sessions), Permutations(Handlers),
         Permutations(Commands \ {InitialCommand})}
=============================================================================
