----------------------------- MODULE MCExecutor -----------------------------
(* An instance of Executor for TLC. *)
EXTENDS Executor

CONSTANTS v1, v2, v3

\* A file of two blocks, one of the greatest size, and one that is too large.
FileSizes == [v \in Versions |-> CASE v = v1 -> 2 [] v = v2 -> 3 [] v = v3 -> 4]

\* Outputs with each of what is dropped, replaced, kept or too wide to fit.
ShownOutputs ==
  {<<>>, <<"plain", "wide">>, <<"wide", "wide">>, <<"control", "plain">>,
   <<"broken", "broken", "plain">>, <<"broken", "control", "broken">>}
=============================================================================
