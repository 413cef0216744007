---------------------------- MODULE MCTokenRefresh ----------------------------
(***************************************************************************)
(* Instances of TokenRefresh for TLC: the clients and the faults the       *)
(* configurations let happen.                                              *)
(***************************************************************************)
EXTENDS TokenRefresh

AllPlatforms == {"web", "android", "ios"}
WebOnly == {"web"}
AllFaults == FaultKinds
NoFaults == {}
=============================================================================
