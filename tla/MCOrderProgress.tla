--------------------------- MODULE MCOrderProgress ---------------------------
(***************************************************************************)
(* Instances of OrderProgress for TLC: the faults a configuration lets     *)
(* happen and what managers make of the lead.                              *)
(***************************************************************************)
EXTENDS OrderProgress

AllFaults == FaultKinds
NoPercents == {}

Lead(status, stage, progress) == [status |-> status, stage |-> stage, progress |-> progress]

\* The mapped status decides, whatever the field holds; then the field does, which is no
\* stage, and the progress is out of range.
SomeLeads == {Lead("production", Absent, Absent), Lead(Absent, Invalid, 150)}
=============================================================================
