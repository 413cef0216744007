---------------------------- MODULE MCInboundSync ----------------------------
(***************************************************************************)
(* Instances of InboundSync for TLC: the sets of faults the configurations *)
(* let happen.                                                             *)
(***************************************************************************)
EXTENDS InboundSync

AllFaults == FaultKinds
=============================================================================
