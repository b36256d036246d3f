-------------------------- MODULE MCRecoveringClient --------------------------
(* Instances of RecoveringClient for TLC.                                  *)
EXTENDS RecoveringClient, TLC

Symmetry == Permutations(Acquirers) \cup Permutations(Owners)
=============================================================================
