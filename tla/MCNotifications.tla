---------------------------- MODULE MCNotifications ----------------------------
(***************************************************************************)
(* Instances of Notifications for TLC: the order, what administrators send *)
(* and the times at which the clock is looked at.                          *)
(***************************************************************************)
EXTENDS Notifications, TLC

AllFaults == FaultKinds

Row(stage, progress) == [stage |-> stage, progress |-> progress]
Production == Row("production", 50)

\* The next stage, the last one, and a large step of the progress.
SomeInputs == {Row("check", Absent), Row(Ready, Absent), Row(Absent, 90)}

\* 21:59, 22:00, and 09:00 of the next day in Moscow; also with 08:59.
AroundTheNight == {19 * Hour - 60000, 19 * Hour, Day + 6 * Hour}
WithTheMorning == AroundTheNight \cup {Day + 6 * Hour - 60000}

Symmetry == Permutations(Requests)
=============================================================================
