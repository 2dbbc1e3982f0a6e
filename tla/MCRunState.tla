----------------------------- MODULE MCRunState -----------------------------
(* RunState with interchangeable calls.                                     *)
EXTENDS RunState, TLC

CallSymmetry == Permutations(Calls)
=============================================================================
