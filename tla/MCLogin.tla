------------------------------- MODULE MCLogin -------------------------------
(***************************************************************************)
(* Instances of Login for TLC: the clients and the faults the              *)
(* configurations let happen.                                              *)
(***************************************************************************)
EXTENDS Login, TLC

AllPlatforms == {"web", "android", "ios"}
AllFaults == FaultKinds
Symmetry == Permutations(Calls)
=============================================================================
