------------------------------- MODULE QuietHours -------------------------------
(***************************************************************************)
(* The quiet hours of notifications, 22:00 to 09:00 Moscow time, on times  *)
(* in milliseconds since the epoch (UTC), as Date counts them.             *)
(***************************************************************************)
EXTENDS Integers

Hour == 3600000
Day  == 24 * Hour

\* getUTCHours() and Moscow's offset.
mskHour(t) == ((t % Day) \div Hour + 3) % 24

isQuietHour(t) == mskHour(t) >= 22 \/ mskHour(t) < 9

\* setUTCHours(6, 0, 0, 0): 09:00 in Moscow, on the UTC day of t.
NineOfDay(t) == t - (t % Day) + 6 * Hour

\* Faulty variant of deferUntilMorning: the 09:00 of the same UTC day, which may be over.
deferUntilMorning_SameDay(t) == NineOfDay(t) - t

\* How long to wait at t for the next 09:00 in Moscow.
deferUntilMorning(t) ==
    LET next == IF NineOfDay(t) <= t THEN NineOfDay(t) + Day ELSE NineOfDay(t)
    IN  next - t

\* Two times of one night: nights last 11 hours and are 13 hours apart.
Night == 11 * Hour
SameNight(t, u) == isQuietHour(t) /\ isQuietHour(u) /\ u - t \in 0 .. Night
=============================================================================
