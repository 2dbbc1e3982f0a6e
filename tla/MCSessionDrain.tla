--------------------------- MODULE MCSessionDrain ---------------------------
(* Instances of SessionDrain for TLC. *)
EXTENDS SessionDrain, TLC

Permute == Permutations(Ids \ History) \cup Permutations(Times) \cup Permutations(Clients)
=============================================================================
