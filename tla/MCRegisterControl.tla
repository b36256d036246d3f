--------------------------- MODULE MCRegisterControl ---------------------------
(* Instances of RegisterControl for TLC.                                   *)
EXTENDS RegisterControl, TLC

NoControl == {}
EveryFault == AllFaults
NoStray == AllFaults \ {"stray"}
Refusals == {"connect"}
Timeouts == {"timeout"}
Symmetry == Permutations(Controls)
=============================================================================
