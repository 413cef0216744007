-------------------------------- MODULE MCChat --------------------------------
(***************************************************************************)
(* Instances of Chat for TLC: the failures the configurations let happen.  *)
(***************************************************************************)
EXTENDS Chat, TLC

AllFaults == FaultKinds
PageFaults == {"same_ms", "mark_failed"}

Symmetry == Permutations(Posts) \cup Permutations(Atts)
=============================================================================
