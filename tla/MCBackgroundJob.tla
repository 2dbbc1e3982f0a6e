-------------------------- MODULE MCBackgroundJob --------------------------
(* An instance of BackgroundJob for TLC: of an id's two generations one may be *)
(* extended.                                                                   *)
EXTENDS BackgroundJob, TLC

CONSTANTS g1, g2

MCGens == {g1, g2}
MCMaxRuns == g1 :> 2 @@ g2 :> 1
Permute == Permutations(Callers)
=============================================================================
