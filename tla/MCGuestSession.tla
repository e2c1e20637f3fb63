---------------------------- MODULE MCGuestSession ----------------------------
(* Instances of GuestSession for TLC.                                        *)
EXTENDS GuestSession

CONSTANTS info, disconnect

\* Every guest requested everything.
AllRequested == [s \in Sessions |-> Payloads]

Symmetry == Permutations(Handlers)
=============================================================================
