----------------------------- MODULE MCOrderPages -----------------------------
(***************************************************************************)
(* Instances of OrderPages for TLC: the faults a configuration lets happen *)
(* and what managers make of the lead.                                     *)
(***************************************************************************)
EXTENDS OrderPages

Lead(status, stage, progress) == [status |-> status, stage |-> stage, progress |-> progress]

\* The stage by the custom field, or by the status with a progress out of range.
SomeLeads == {Lead(Absent, "production", Absent), Lead("ready", Absent, 150)}

NoFaults == {}
AllPageFaults == PageFaultKinds
=============================================================================
