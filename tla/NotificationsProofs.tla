-------------------------- MODULE NotificationsProofs --------------------------
(***************************************************************************)
(* Theorems about Notifications, for any number of requests, devices and   *)
(* attempts, and any clock: type correctness; that nights are quiet, from  *)
(* what deferUntilMorning returns at every time since the epoch; that a    *)
(* repetition has a cause; and that the last word is the order's stage.    *)
(***************************************************************************)
EXTENDS Notifications, SequenceTheorems, TLAPS

-----------------------------------------------------------------------------
(* The list of waiting notifications: no job is on it twice *)

\* A job is added at the end.
LEMMA AppendWaiting ==
    ASSUME NEW S, NEW q \in Seq(S), NEW r \in S, IsInjective(q), r \notin ToSet(q)
    PROVE  /\ Append(q, r) \in Seq(S)
           /\ IsInjective(Append(q, r))
           /\ ToSet(Append(q, r)) = ToSet(q) \cup {r}
<1> DEFINE a == Append(q, r)
<1>1. /\ a \in Seq(S)
      /\ Len(q) \in Nat /\ DOMAIN q = 1 .. Len(q) /\ DOMAIN a = 1 .. Len(q) + 1
      /\ \A i \in 1 .. Len(q) : a[i] = q[i]
      /\ a[Len(q) + 1] = r
  BY AppendProperties, LenProperties
<1> HIDE DEF a
<1>2. \A i \in 1 .. Len(q) : q[i] # r
  BY <1>1 DEF ToSet
<1>3. IsInjective(a)
  <2> SUFFICES ASSUME NEW i \in 1 .. Len(q) + 1, NEW j \in 1 .. Len(q) + 1, a[i] = a[j] PROVE i = j
    BY <1>1 DEF IsInjective
  <2>1. (i = Len(q) + 1 \/ i \in 1 .. Len(q)) /\ (j = Len(q) + 1 \/ j \in 1 .. Len(q))
    BY <1>1
  <2> QED BY <1>1, <1>2, <2>1 DEF IsInjective
<1>4. ToSet(a) \subseteq ToSet(q) \cup {r}
  BY <1>1 DEF ToSet
<1>5. ToSet(q) \cup {r} \subseteq ToSet(a)
  BY <1>1 DEF ToSet
<1> QED BY <1>1, <1>3, <1>4, <1>5 DEF a

\* A stalled job is put at the head of the list.
LEMMA PutFirst ==
    ASSUME NEW S, NEW q \in Seq(S), NEW r \in S, IsInjective(q), r \notin ToSet(q)
    PROVE  /\ <<r>> \o q \in Seq(S)
           /\ IsInjective(<<r>> \o q)
           /\ ToSet(<<r>> \o q) = ToSet(q) \cup {r}
<1> DEFINE a == <<r>> \o q
<1>1. <<r>> \in Seq(S) /\ Len(<<r>>) = 1 /\ <<r>>[1] = r
  OBVIOUS
<1>2. /\ a \in Seq(S)
      /\ Len(q) \in Nat /\ DOMAIN q = 1 .. Len(q) /\ DOMAIN a = 1 .. Len(q) + 1
      /\ a[1] = r
      /\ \A i \in 2 .. Len(q) + 1 : a[i] = q[i - 1]
  <2>1. a \in Seq(S) /\ Len(a) = 1 + Len(q)
    BY <1>1, ConcatProperties
  <2>2. \A i \in 1 .. Len(a) : a[i] = IF i <= 1 THEN <<r>>[i] ELSE q[i - 1]
    BY <1>1, <2>1, ConcatProperties
  <2>3. Len(q) \in Nat /\ DOMAIN q = 1 .. Len(q) /\ DOMAIN a = 1 .. Len(a)
    BY <2>1, LenProperties
  <2> HIDE DEF a
  <2> QED BY <1>1, <2>1, <2>2, <2>3
<1> HIDE DEF a
<1>3. \A i \in 1 .. Len(q) : q[i] # r
  BY <1>2 DEF ToSet
<1>4. IsInjective(a)
  <2> SUFFICES ASSUME NEW i \in 1 .. Len(q) + 1, NEW j \in 1 .. Len(q) + 1, a[i] = a[j] PROVE i = j
    BY <1>2 DEF IsInjective
  <2>1. i = 1 \/ (i \in 2 .. Len(q) + 1 /\ i - 1 \in 1 .. Len(q) /\ a[i] = q[i - 1])
    BY <1>2
  <2>2. j = 1 \/ (j \in 2 .. Len(q) + 1 /\ j - 1 \in 1 .. Len(q) /\ a[j] = q[j - 1])
    BY <1>2
  <2>3. \A x, y \in 1 .. Len(q) : q[x] = q[y] => x = y
    BY <1>2 DEF IsInjective
  <2> QED BY <1>2, <1>3, <2>1, <2>2, <2>3
<1>5. ToSet(a) \subseteq ToSet(q) \cup {r}
  BY <1>2 DEF ToSet
<1>6. ASSUME NEW x \in ToSet(q) \cup {r} PROVE x \in ToSet(a)
  <2>1. CASE x = r
    BY <1>2, <2>1 DEF ToSet
  <2>2. CASE x \in ToSet(q)
    <3>1. PICK i \in 1 .. Len(q) : x = q[i]
      BY <1>2, <2>2 DEF ToSet
    <3>2. i + 1 \in DOMAIN a /\ a[i + 1] = x
      BY <1>2, <3>1
    <3> QED BY <3>2 DEF ToSet
  <2> QED BY <2>1, <2>2
<1> QED BY <1>2, <1>4, <1>5, <1>6 DEF a

\* The worker takes the first.
LEMMA TakeWaiting ==
    ASSUME NEW S, NEW q \in Seq(S), q # <<>>, IsInjective(q)
    PROVE  /\ Head(q) \in ToSet(q) /\ Head(q) \in S
           /\ Tail(q) \in Seq(S)
           /\ IsInjective(Tail(q))
           /\ ToSet(Tail(q)) = ToSet(q) \ {Head(q)}
<1>1. Len(q) \in Nat \ {0} /\ DOMAIN q = 1 .. Len(q) /\ Head(q) = q[1]
  BY EmptySeq, LenProperties
<1>2. /\ Tail(q) \in Seq(S) /\ DOMAIN Tail(q) = 1 .. Len(q) - 1
      /\ \A i \in 1 .. Len(q) - 1 : Tail(q)[i] = q[i + 1]
  BY <1>1
<1>3. Head(q) \in ToSet(q) /\ Head(q) \in S
  BY <1>1 DEF ToSet
<1>4. IsInjective(Tail(q))
  BY <1>1, <1>2 DEF IsInjective
<1>5. ToSet(Tail(q)) \subseteq ToSet(q) \ {Head(q)}
  BY <1>1, <1>2 DEF ToSet, IsInjective
<1>6. ASSUME NEW x \in ToSet(q) \ {Head(q)} PROVE x \in ToSet(Tail(q))
  <2>1. PICK i \in 2 .. Len(q) : x = q[i]
    BY <1>1 DEF ToSet
  <2>2. i - 1 \in DOMAIN Tail(q) /\ Tail(q)[i - 1] = x
    BY <1>1, <1>2, <2>1
  <2> QED BY <2>2 DEF ToSet
<1> QED BY <1>2, <1>3, <1>4, <1>5, <1>6

-----------------------------------------------------------------------------
(* The quiet hours.  A time is its day and the milliseconds since midnight. *)

LEMMA DayTime ==
    ASSUME NEW t \in Nat
    PROVE  /\ t % Day \in Nat /\ t % Day < Day
           /\ t \div Day \in Nat /\ t = (t \div Day) * Day + (t % Day)
<1>1. t % 86400000 \in Nat /\ t % 86400000 < 86400000
  BY SMT
<1>2. t \div 86400000 \in Nat
  BY SMT
<1>3. t = (t \div 86400000) * 86400000 + (t % 86400000)
  BY SMT
<1>4. Day = 86400000
  BY SMT DEF Day, Hour
<1> QED
  BY <1>1, <1>2, <1>3, <1>4, SMT

LEMMA TimeOfDay ==
    ASSUME NEW k \in Nat, NEW m \in Nat, m < Day
    PROVE  (k * Day + m) % Day = m
<1> DEFINE t == k * Day + m
<1>1. Day = 86400000
  BY SMT DEF Day, Hour
<1>2. t \in Nat
  BY <1>1, SMT
<1>3. t % Day \in Nat /\ t % Day < Day /\ t \div Day \in Nat /\ t = (t \div Day) * Day + (t % Day)
  BY <1>2, DayTime, SMT
<1> QED
  BY <1>1, <1>3, SMT

\* Quiet are the times before 06:00 and from 19:00 UTC.
LEMMA QuietOfDay ==
    ASSUME NEW t \in Nat
    PROVE  isQuietHour(t) <=> (t % Day < 6 * Hour \/ t % Day >= 19 * Hour)
<1> DEFINE m == t % Day
           h == m \div Hour
<1>1. m \in Nat /\ m < 86400000
  BY DayTime, SMT DEF Day, Hour
<1> HIDE DEF m
<1>2. (m \div 3600000) \in Nat /\ m = (m \div 3600000) * 3600000 + (m % 3600000)
      /\ m % 3600000 \in Nat /\ m % 3600000 < 3600000
  BY <1>1, SMT
<1>3. h \in 0 .. 23 /\ (h < 6 <=> m < 6 * Hour) /\ (h >= 19 <=> m >= 19 * Hour)
  BY <1>1, <1>2, SMT DEF Hour
<1>4. isQuietHour(t) <=> ((h + 3) % 24 >= 22 \/ (h + 3) % 24 < 9)
  BY SMT DEF isQuietHour, mskHour, m
<1> HIDE DEF h
<1>5. ((h + 3) % 24 >= 22 \/ (h + 3) % 24 < 9) <=> (h < 6 \/ h >= 19)
  BY <1>3, SMT
<1> QED
  BY <1>3, <1>4, <1>5, SMT DEF m

LEMMA DeferralOf ==
    ASSUME NEW t \in Nat
    PROVE  deferUntilMorning(t) = IF t % Day < 6 * Hour THEN 6 * Hour - (t % Day)
                                  ELSE Day + 6 * Hour - (t % Day)
<1>1. t % Day \in Nat /\ t % Day < Day
  BY DayTime, SMT
<1>2. NineOfDay(t) = t - (t % Day) + 6 * Hour
  BY SMT DEF NineOfDay
<1> DEFINE m == t % Day
<1> HIDE DEF m
<1>3. m \in Nat /\ m < Day /\ NineOfDay(t) = t - m + 6 * Hour
  BY <1>1, <1>2, SMT DEF m
<1>4. deferUntilMorning(t) = IF m < 6 * Hour THEN 6 * Hour - m ELSE Day + 6 * Hour - m
  BY <1>3, SMT DEF deferUntilMorning, Day, Hour
<1> QED
  BY <1>4, SMT DEF m

\* n milliseconds after a midnight, on that day or the next, it is quiet: before 06:00 UTC,
\* from 19:00 to 06:00 of the next day (30 hours), and from 19:00 of that day (43 hours).
QuietAfter(n) ==
    n < 21600000 \/ (n >= 68400000 /\ n < 108000000) \/ n >= 154800000

LEMMA QuietSoon ==
    ASSUME NEW t \in Nat, NEW u \in Nat, t <= u, u - t <= Day
    PROVE  isQuietHour(u) <=> QuietAfter(u - t + (t % Day))
<1> DEFINE m == t % Day
           k == t \div Day
           n == u - t + m
<1>1. m \in Nat /\ m < Day /\ k \in Nat /\ t = k * Day + m
  BY DayTime, SMT
<1> HIDE DEF m, k
<1>2. Day = 86400000 /\ Hour = 3600000
  BY SMT DEF Day, Hour
<1>3. n \in Nat /\ n < 172800000 /\ u = k * Day + n
  BY <1>1, <1>2, SMT
<1>4. isQuietHour(u) <=> (u % Day < 21600000 \/ u % Day >= 68400000)
  BY <1>2, QuietOfDay, SMT
<1> HIDE DEF n
<1>5. CASE n < Day
  <2>1. u % Day = n
    BY <1>1, <1>3, <1>5, TimeOfDay, SMT
  <2> QED
    BY <1>2, <1>3, <1>4, <1>5, <2>1, SMT DEF QuietAfter, n, m
<1>6. CASE n >= Day
  <2> DEFINE l == n - Day
  <2>1. l \in Nat /\ l < Day /\ n = Day + l /\ k + 1 \in Nat /\ u = (k + 1) * Day + l
    BY <1>1, <1>2, <1>3, <1>6, SMT
  <2> HIDE DEF l
  <2>2. u % Day = l
    BY <2>1, TimeOfDay, SMT
  <2> QED
    BY <1>2, <1>3, <1>4, <2>1, <2>2, SMT DEF QuietAfter, n, m
<1> QED
  BY <1>2, <1>3, <1>5, <1>6, SMT

\* d is the deferral of a quiet time m milliseconds after midnight.
Deferral(m, d) ==
    \/ m < 21600000 /\ d = 21600000 - m
    \/ m >= 68400000 /\ m < 86400000 /\ d = 108000000 - m

LEMMA DeferralInNumbers ==
    ASSUME NEW t \in Nat, isQuietHour(t)
    PROVE  /\ t % Day \in Nat /\ deferUntilMorning(t) \in Nat
           /\ Deferral(t % Day, deferUntilMorning(t))
<1> DEFINE m == t % Day
           d == deferUntilMorning(t)
<1>1. m \in Nat /\ m < Day
  BY DayTime
<1>2. Day = 86400000 /\ Hour = 3600000
  BY SMT DEF Day, Hour
<1>3. m < 6 * Hour \/ m >= 19 * Hour
  BY QuietOfDay
<1>4. d = IF m < 6 * Hour THEN 6 * Hour - m ELSE Day + 6 * Hour - m
  BY DeferralOf
<1> HIDE DEF m, d
<1>5. d \in Nat /\ Deferral(m, d)
  BY <1>1, <1>2, <1>3, <1>4, SMT DEF Deferral
<1> QED
  BY <1>1, <1>5 DEF m, d

\* What deferUntilMorning returns in the quiet hours is the time that is left of them: they
\* last as long, and are over then.
THEOREM DeferredToTheMorning ==
    ASSUME NEW t \in Nat, isQuietHour(t)
    PROVE  /\ deferUntilMorning(t) \in 1 .. Night
           /\ ~isQuietHour(t + deferUntilMorning(t))
           /\ \A u \in t .. t + deferUntilMorning(t) - 1 : isQuietHour(u)
<1> DEFINE m == t % Day
           d == deferUntilMorning(t)
<1>0. Day = 86400000 /\ Hour = 3600000 /\ Night = 39600000
  BY SMT DEF Day, Hour, Night
<1>1. m \in Nat /\ d \in Nat /\ Deferral(m, d)
  BY DeferralInNumbers
<1>2. \A u \in Nat : t <= u /\ u - t <= Day => (isQuietHour(u) <=> QuietAfter(u - t + m))
  BY QuietSoon
<1> HIDE DEF m, d
<1>3. 1 <= d /\ d <= 39600000
  BY <1>1, SMT DEF Deferral
<1>6. d \in 1 .. Night
  <2>1. Night \in Nat /\ 1 <= d /\ d <= Night
    BY <1>0, <1>3, SMT
  <2> QED
    BY <1>1, <2>1, SMT
<1>4. ~isQuietHour(t + d)
  <2>1. t + d \in Nat /\ t <= t + d
    BY <1>1, SMT
  <2>2. ~QuietAfter((t + d) - t + m)
    BY <1>1, <1>3, SMT DEF QuietAfter, Deferral
  <2>3. (t + d) - t <= Day
    <3>1. (t + d) - t <= 86400000
      BY <1>1, <1>3, SMT
    <3> QED
      BY <1>0, <3>1, SMT
  <2> QED
    BY <1>2, <2>1, <2>2, <2>3
<1>5. ASSUME NEW u \in t .. t + d - 1
      PROVE  isQuietHour(u)
  <2>1. u \in Nat /\ t <= u
    BY <1>1, SMT
  <2>2. QuietAfter(u - t + m)
    BY <1>1, <1>3, SMT DEF QuietAfter, Deferral
  <2>3. u - t <= Day
    <3>1. u - t <= 86400000
      BY <1>1, <1>3, SMT
    <3> QED
      BY <1>0, <2>1, <3>1, SMT
  <2> QED
    BY <1>2, <2>1, <2>2, <2>3
<1> QED
  BY <1>4, <1>5, <1>6 DEF d

\* What was put off until the morning is not in that night any more.
LEMMA NotThatNight ==
    ASSUME NEW t \in Nat, NEW u \in Nat, isQuietHour(t), t + deferUntilMorning(t) <= u
    PROVE  ~SameNight(t, u)
<1> DEFINE m == t % Day
           d == deferUntilMorning(t)
<1>0. Day = 86400000 /\ Hour = 3600000 /\ Night = 39600000
  BY SMT DEF Day, Hour, Night
<1>1. m \in Nat /\ d \in Nat /\ Deferral(m, d) /\ t + d <= u
  BY DeferralInNumbers
<1>2. t <= u /\ u - t <= Day => (isQuietHour(u) <=> QuietAfter(u - t + m))
  BY QuietSoon
<1> HIDE DEF m, d
<1>3. SUFFICES ASSUME u - t \in 0 .. Night
               PROVE  ~isQuietHour(u)
  BY DEF SameNight
<1>4. u - t <= 39600000
  <2>1. Night \in Nat
    BY <1>0, SMT
  <2>2. u - t <= Night
    BY <1>3, <2>1, SMT
  <2> QED
    BY <1>0, <2>2, SMT
<1>5. t <= u /\ u - t <= Day
  BY <1>0, <1>1, <1>4, SMT
<1>6. ~QuietAfter(u - t + m)
  BY <1>1, <1>4, SMT DEF QuietAfter, Deferral
<1> QED
  BY <1>2, <1>5, <1>6

-----------------------------------------------------------------------------

RequestRecords == [pc : {"idle", "read", "committed", "marking", "adding", "done", "failed"},
                   before : Rows, input : Inputs \cup {NoInput}, event : Events \cup {NoEvent}]
JobRecords == [state : {"none", "completed", "failed"} \cup Unsettled, made : 0 .. MaxAttempts,
               event : Events \cup {NoEvent}, stage : Stages, at : Nat, due : Int]
WorkerRecords == [pc : {"idle", "load", "push", "audit"}, todo : SUBSET Devices]

(***************************************************************************)
(* What holds of the queue besides its type: a request has no job before   *)
(* it adds one, the list holds the waiting jobs, and every job was made in *)
(* the past and is due when the deferral of its time says, which is past   *)
(* for the jobs that are not delayed.                                      *)
(***************************************************************************)
NoJobYet == \A p \in Requests : req[p].pc \notin {"done", "failed"} => jobs[p].state = "none"

Listed ==
    /\ IsInjective(wait)
    /\ ToSet(wait) = {p \in Requests : jobs[p].state = "waiting"}

Put(j) == IF ~Critical(j.event) /\ isQuietHour(j.at) THEN deferUntilMorning(j.at) ELSE 0

TimedAt(j, t) ==
    /\ j.state \in Unsettled => j.at <= t /\ j.due = j.at + Put(j)
    /\ j.state \in {"waiting", "active", "stalled"} => j.due <= t

Timed == \A p \in Requests : TimedAt(jobs[p], now)

NightInv == TypeOK /\ NoJobYet /\ Listed /\ Timed

-----------------------------------------------------------------------------
(* The records the actions build *)

LEMMA FirstRowType == FirstRow \in Rows /\ FirstRow.stage \in Stages /\ MaxAttempts \in Nat \ {0}
BY ConstantsAssumption DEF ConstantsAssumption, Rows

LEMMA InstantType == ASSUME NEW t \in Instants PROVE t \in Nat
BY ConstantsAssumption DEF ConstantsAssumption

LEMMA MergedType ==
    ASSUME NEW r \in Rows, NEW input \in Inputs \cup {NoInput}
    PROVE  Merged(input, r) \in Rows
<1>1. Percents \subseteq Int
  BY ConstantsAssumption DEF ConstantsAssumption
<1> QED BY <1>1, ConstantsAssumption DEF Merged, Rows, NoInput, ConstantsAssumption

LEMMA EventType == ASSUME NEW a, NEW b PROVE EventOf(a, b) \in Events \cup {NoEvent}
BY DEF EventOf, Events

LEMMA RecordTypes ==
    /\ Idle \in RequestRecords /\ Idle.pc = "idle"
    /\ \A pc \in {"done", "failed"} : Ended(pc) \in RequestRecords /\ Ended(pc).pc = pc
    /\ NoJob \in JobRecords /\ NoJob.state = "none"
    /\ Resting \in WorkerRecords /\ Resting.pc = "idle"
BY FirstRowType DEF Idle, Ended, RequestRecords, NoJob, JobRecords, Resting, WorkerRecords

LEMMA SettledType ==
    ASSUME TypeOK, NEW p \in Requests, NEW state \in {"completed", "failed"}
    PROVE  Settled(p, state) \in JobRecords /\ Settled(p, state).state = state
<1>1. jobs[p] \in JobRecords
  BY DEF TypeOK, JobType, JobRecords
<1> QED BY <1>1, RecordTypes DEF Settled, NoJob, JobRecords

LEMMA AfterFailureType ==
    ASSUME TypeOK, NEW p \in Requests
    PROVE  /\ AfterFailure(p) \in JobRecords
           /\ AfterFailure(p).state \in {"delayed", "failed"}
           /\ AfterFailure(p).state = "delayed" =>
                 /\ AfterFailure(p).at = jobs[p].at /\ AfterFailure(p).due = jobs[p].due
                 /\ AfterFailure(p).event = jobs[p].event
<1>1. jobs[p] \in JobRecords
  BY DEF TypeOK, JobType, JobRecords
<1>2. Settled(p, "failed") \in JobRecords /\ Settled(p, "failed").state = "failed"
  BY SettledType
<1> DEFINE s == Settled(p, "failed")
           f == [s EXCEPT !.made = MaxAttempts]
           n == jobs[p].made + 1
           g == [jobs[p] EXCEPT !.state = "delayed", !.made = n]
<1>3. f \in JobRecords /\ f.state = "failed"
  <2> HIDE DEF s
  <2> QED BY <1>2, FirstRowType DEF JobRecords, s
<1>4. jobs[p].made + 1 < MaxAttempts =>
         g \in JobRecords /\ g.state = "delayed" /\ g.at = jobs[p].at /\ g.due = jobs[p].due
         /\ g.event = jobs[p].event
  <2>1. jobs[p].made \in 0 .. MaxAttempts
    BY <1>1 DEF JobRecords
  <2>2. n < MaxAttempts => n \in 0 .. MaxAttempts
    BY <2>1, FirstRowType
  <2> HIDE DEF n
  <2>3. n < MaxAttempts => g \in JobRecords /\ g.state = "delayed" /\ g.at = jobs[p].at /\ g.due = jobs[p].due
                          /\ g.event = jobs[p].event
    BY <1>1, <2>2 DEF JobRecords, Unsettled
  <2> QED BY <2>3 DEF n, g
<1>5. AfterFailure(p) = IF jobs[p].made + 1 < MaxAttempts THEN g ELSE f
  BY DEF AfterFailure
<1> HIDE DEF f, g, n
<1> QED BY <1>3, <1>4, <1>5

InState(p, state) == [jobs[p] EXCEPT !.state = state]

LEMMA StateType ==
    ASSUME TypeOK, NEW p \in Requests, NEW state \in Unsettled
    PROVE  /\ InState(p, state) \in JobRecords
           /\ [jobs EXCEPT ![p].state = state] = [jobs EXCEPT ![p] = InState(p, state)]
           /\ InState(p, state).state = state
           /\ InState(p, state).at = jobs[p].at
           /\ InState(p, state).due = jobs[p].due
           /\ InState(p, state).event = jobs[p].event
<1>1. jobs \in [Requests -> JobRecords]
  BY DEF TypeOK, JobType, JobRecords
<1>2. jobs[p] \in JobRecords
  BY <1>1
<1>3. InState(p, state) \in JobRecords
  BY <1>2 DEF JobRecords, InState
<1>4. /\ InState(p, state).state = state /\ InState(p, state).at = jobs[p].at
      /\ InState(p, state).due = jobs[p].due /\ InState(p, state).event = jobs[p].event
  BY <1>2 DEF JobRecords, InState
<1>5. [jobs EXCEPT ![p].state = state] = [jobs EXCEPT ![p] = InState(p, state)]
  BY <1>1 DEF InState
<1> QED BY <1>3, <1>4, <1>5

\* The delay of a new job.
LEMMA DelayType ==
    ASSUME TypeOK, NEW event
    PROVE  Delay(event) \in Nat
<1>1. now \in Nat
  BY InstantType DEF TypeOK
<1>2. isQuietHour(now) => deferUntilMorning(now) \in Nat
  <2>1. isQuietHour(now) => deferUntilMorning(now) \in 1 .. Night
    BY <1>1, DeferredToTheMorning
  <2>2. Night \in Nat
    BY SMT DEF Hour, Night
  <2> QED BY <2>1, <2>2
<1> QED BY <1>2 DEF Delay

-----------------------------------------------------------------------------
(* Every step keeps the types *)

OtherType ==
    /\ marked \subseteq Events /\ now \in Instants /\ registered \subseteq Devices
    /\ got \in [Requests -> [Recipients -> Nat]] /\ told \in [Devices -> Stages]
    /\ syncs \in Nat /\ restarts \in Nat

LEMMA TypeParts == TypeOK <=> RowType /\ RequestType /\ JobType /\ OneJob /\ OtherType
BY DEF TypeOK, OtherType

LEMMA Frames ==
    /\ RowType /\ UNCHANGED <<row, moved, excused>> => RowType'
    /\ RequestType /\ UNCHANGED req => RequestType'
    /\ JobType /\ UNCHANGED queueVars => JobType'
    /\ OneJob /\ UNCHANGED <<jobs, worker>> => OneJob'
    /\ OtherType /\ UNCHANGED <<marked, now, registered, got, told, syncs, restarts>> => OtherType'
BY DEF RowType, RequestType, JobType, OneJob, Busy, Current, OtherType, queueVars

LEMMA TypePartsNext == (RowType /\ RequestType /\ JobType /\ OneJob /\ OtherType)' => TypeOK'
BY DEF TypeOK, OtherType

LEMMA InitType == Init => TypeOK
<1> SUFFICES ASSUME Init PROVE TypeOK
  OBVIOUS
<1>1. RowType
  BY FirstRowType DEF Init, RowType
<1>2. RequestType
  BY RecordTypes DEF Init, RequestType, RequestRecords
<1>3. JobType
  BY RecordTypes DEF Init, JobType, JobRecords, WorkerRecords
<1>4. OneJob
  BY RecordTypes DEF Init, OneJob, Busy, Current
<1>5. OtherType
  BY FirstRowType DEF Init, OtherType
<1> QED BY <1>1, <1>2, <1>3, <1>4, <1>5, TypeParts

\* Time, managers and devices.
LEMMA WorldType ==
    ASSUME TypeOK,
           Tick \/ (\E e \in Events : ExpireKey(e)) \/ (\E r \in Rows : SyncChanges(r))
           \/ \E d \in Devices : Register(d) \/ RemoveToken(d)
    PROVE  TypeOK'
<1>1. RowType'
  BY DEF TypeOK, RowType, Tick, ExpireKey, SyncChanges, Register, RemoveToken, rowVars
<1>2. UNCHANGED queueVars /\ UNCHANGED req
  BY DEF Tick, ExpireKey, SyncChanges, Register, RemoveToken
<1>3. OtherType'
  BY DEF TypeOK, OtherType, RowType, Rows, Tick, ExpireKey, SyncChanges, Register, RemoveToken,
         rowVars, pushVars
<1>4. RequestType' /\ JobType' /\ OneJob'
  BY <1>2, Frames DEF TypeOK, queueVars
<1> QED BY <1>1, <1>3, <1>4, TypePartsNext

LEMMA RequestStepType ==
    ASSUME TypeOK, NEW p \in Requests,
           ReadOrder(p) \/ Reply(p) \/ CommitUpdate(p) \/ Emit(p) \/ UpdateThrows(p)
           \/ ShouldSend(p) \/ SendThrows(p)
    PROVE  TypeOK'
<1> DEFINE Good(r) == r \in RequestRecords /\ (r.pc \in {"marking", "adding"} => r.event \in Events)
<1>1. Good(req[p]) /\ row \in Rows
  BY DEF TypeOK, RequestType, RowType, RequestRecords
<1>2. RowType'
  <2>1. Merged(req[p].input, row) \in Rows
    BY <1>1, MergedType DEF RequestRecords
  <2> QED BY <2>1 DEF TypeOK, RowType, ReadOrder, Reply, CommitUpdate, Emit, UpdateThrows,
                       ShouldSend, SendThrows, rowVars
<1>3. \E r \in RequestRecords : Good(r) /\ req' = [req EXCEPT ![p] = r]
  <2>1. CASE ReadOrder(p)
    <3>1. \A input \in Inputs :
             Good([Idle EXCEPT !.pc = "read", !.before = row, !.input = input])
      BY <1>1, RecordTypes DEF Idle, RequestRecords
    <3> QED BY <2>1, <3>1 DEF ReadOrder
  <2>2. CASE Reply(p)
    <3>1. Good([Idle EXCEPT !.pc = "marking", !.event = "chat.reply.received"])
      BY RecordTypes DEF RequestRecords, Events, Idle
    <3> QED BY <2>2, <3>1 DEF Reply
  <2>3. CASE CommitUpdate(p)
    <3>1. UpdateEvent(p) \in Events \cup {NoEvent}
      BY EventType DEF UpdateEvent
    <3>2. Good([req[p] EXCEPT !.pc = "committed", !.event = UpdateEvent(p)])
      BY <1>1, <3>1 DEF RequestRecords
    <3>3. req' = [req EXCEPT ![p] = [req[p] EXCEPT !.pc = "committed", !.event = UpdateEvent(p)]]
      BY <2>3 DEF CommitUpdate, TypeOK, RequestType
    <3> QED BY <3>2, <3>3
  <2>4. CASE Emit(p)
    <3>1. req[p].event # NoEvent => Good([req[p] EXCEPT !.pc = "marking"])
      BY <1>1 DEF RequestRecords
    <3>2. Good(Ended("done"))
      BY RecordTypes
    <3> QED BY <2>4, <3>1, <3>2 DEF Emit
  <2>5. CASE ShouldSend(p)
    <3>1. req[p].pc = "marking" => Good([req[p] EXCEPT !.pc = "adding"])
      BY <1>1 DEF RequestRecords
    <3>2. Good(Ended("done"))
      BY RecordTypes
    <3> QED BY <2>5, <3>1, <3>2 DEF ShouldSend
  <2>6. CASE UpdateThrows(p) \/ SendThrows(p)
    <3>1. Good(Ended("failed"))
      BY RecordTypes
    <3> QED BY <2>6, <3>1 DEF UpdateThrows, SendThrows
  <2> QED BY <2>1, <2>2, <2>3, <2>4, <2>5, <2>6
<1>4. RequestType'
  BY <1>3 DEF TypeOK, RequestType, RequestRecords
<1>5. UNCHANGED queueVars
  BY DEF ReadOrder, Reply, CommitUpdate, Emit, UpdateThrows, ShouldSend, SendThrows
<1>6. OtherType'
  <2>1. req[p].pc \in {"marking", "adding"} => marked \cup {req[p].event} \subseteq Events
    BY <1>1 DEF TypeOK
  <2> QED BY <2>1 DEF TypeOK, OtherType, ReadOrder, Reply, CommitUpdate, Emit, UpdateThrows,
                       ShouldSend, SendThrows, rowVars, pushVars
<1>7. JobType' /\ OneJob'
  BY <1>5, Frames DEF TypeOK, queueVars
<1> QED BY <1>2, <1>4, <1>6, <1>7, TypePartsNext

LEMMA AddJobType ==
    ASSUME TypeOK, NEW p \in Requests, jobs[p].state = "none", AddJob(p)
    PROVE  TypeOK'
<1>1. req[p] \in RequestRecords /\ req[p].event \in Events
  BY DEF TypeOK, RequestType, RequestRecords, AddJob
<1> DEFINE delay == Delay(req[p].event)
           j == [state |-> IF delay > 0 THEN "delayed" ELSE "waiting", made |-> 0, event |-> req[p].event,
                 stage |-> Merged(req[p].input, req[p].before).stage, at |-> now, due |-> now + delay]
<1>2. delay \in Nat /\ now \in Nat
  BY DelayType, InstantType DEF TypeOK
<1>3. Merged(req[p].input, req[p].before).stage \in Stages
  BY <1>1, MergedType DEF RequestRecords, Rows
<1>4. /\ jobs' = [jobs EXCEPT ![p] = j]
      /\ wait' = IF delay > 0 THEN wait ELSE Append(wait, p)
  BY DEF AddJob
<1> HIDE DEF delay
<1>5. j \in JobRecords /\ j.state \in {"delayed", "waiting"}
  BY <1>1, <1>2, <1>3, FirstRowType DEF JobRecords, Unsettled
<1> HIDE DEF j
<1>6. wait' \in Seq(Requests)
  BY <1>4, AppendProperties DEF TypeOK, JobType
<1>7. JobType'
  BY <1>4, <1>5, <1>6 DEF TypeOK, JobType, JobRecords, AddJob
<1>8. OneJob'
  BY <1>4, <1>5 DEF TypeOK, JobType, OneJob, Busy, Current, AddJob
<1>9. RequestType'
  BY RecordTypes DEF TypeOK, RequestType, RequestRecords, AddJob
<1>10. RowType' /\ OtherType'
  BY DEF TypeOK, RowType, OtherType, AddJob, rowVars, pushVars
<1> QED BY <1>7, <1>8, <1>9, <1>10, TypePartsNext

LEMMA TakeJobType ==
    ASSUME TypeOK, TakeJob
    PROVE  TypeOK'
<1>1. Head(wait) \in Requests /\ Tail(wait) \in Seq(Requests)
  BY HeadTailProperties DEF TypeOK, JobType, TakeJob
<1>2. [Resting EXCEPT !.pc = "load"] \in WorkerRecords /\ [Resting EXCEPT !.pc = "load"].pc = "load"
  BY DEF Resting, WorkerRecords
<1>3. PICK j \in JobRecords : jobs' = [jobs EXCEPT ![Head(wait)] = j] /\ j.state = "active"
  BY <1>1, StateType DEF TakeJob, Unsettled
<1>4. JobType'
  <2>1. jobs' \in [Requests -> JobRecords]
    BY <1>1, <1>3 DEF TypeOK, JobType, JobRecords
  <2>2. wait' \in Seq(Requests) /\ worker' \in WorkerRecords
    BY <1>1, <1>2 DEF TakeJob
  <2> QED BY <2>1, <2>2 DEF JobType, JobRecords, WorkerRecords
<1>6. OneJob'
  BY <1>1, <1>2, <1>3 DEF TypeOK, JobType, OneJob, Busy, Current, TakeJob
<1>5. RowType' /\ RequestType' /\ OtherType'
  BY Frames DEF TypeOK, OtherType, TakeJob, rowVars, pushVars
<1> QED BY <1>4, <1>5, <1>6, TypePartsNext

LEMMA DeliverType ==
    ASSUME TypeOK, NEW p \in Requests, NEW r \in Recipients, Deliver(p, r)
    PROVE  got' \in [Requests -> [Recipients -> Nat]] /\ told' \in [Devices -> Stages]
<1>1. jobs[p].stage \in Stages
  BY DEF TypeOK, JobType
<1>2. told' \in [Devices -> Stages]
  BY <1>1 DEF TypeOK, Deliver
<1>3. got[p] \in [Recipients -> Nat] /\ got[p][r] \in Nat
  BY DEF TypeOK
<1>4. got' = [got EXCEPT ![p] = [got[p] EXCEPT ![r] = got[p][r] + 1]]
  BY DEF Deliver, TypeOK
<1> QED BY <1>2, <1>3, <1>4 DEF TypeOK

LEMMA WorkerStepType ==
    ASSUME TypeOK, NEW p \in Requests,
           LoadTokens(p) \/ SmsStep(p) \/ \E d \in Devices : PushTo(p, d) \/ PushFails(p, d)
    PROVE  TypeOK'
<1>1. worker \in WorkerRecords /\ registered \subseteq Devices /\ Current(p) /\ UNCHANGED <<jobs, wait, req>>
  BY DEF TypeOK, JobType, WorkerRecords, LoadTokens, SmsStep, PushTo, PushFails
<1>2. worker' \in WorkerRecords /\ worker'.pc # "idle"
  <2>1. CASE LoadTokens(p)
    BY <1>1, <2>1 DEF LoadTokens, WorkerRecords
  <2>2. CASE SmsStep(p)
    BY <1>1, <2>2 DEF SmsStep, WorkerRecords
  <2>3. ASSUME NEW d \in Devices, PushTo(p, d) \/ PushFails(p, d)
        PROVE  worker' \in WorkerRecords /\ worker'.pc # "idle"
    BY <1>1, <2>3 DEF PushTo, PushFails, Reached, WorkerRecords
  <2> QED BY <2>1, <2>2, <2>3
<1>3. JobType'
  BY <1>1, <1>2 DEF TypeOK, JobType, WorkerRecords
<1>4. OneJob'
  BY <1>1, <1>2 DEF TypeOK, OneJob, Busy, Current
<1>5. got' \in [Requests -> [Recipients -> Nat]] /\ told' \in [Devices -> Stages]
  <2>1. Phone \in Recipients /\ Devices \subseteq Recipients
    BY DEF Recipients
  <2>2. UNCHANGED pushVars \/ \E r \in Recipients : Deliver(p, r)
    BY <2>1 DEF LoadTokens, SmsStep, PushTo, PushFails
  <2> QED BY <2>2, DeliverType DEF TypeOK, pushVars
<1>6. RowType' /\ OtherType'
  BY <1>5 DEF TypeOK, RowType, OtherType, LoadTokens, SmsStep, PushTo, PushFails, rowVars
<1> QED BY <1>1, <1>3, <1>4, <1>6, Frames, TypePartsNext DEF TypeOK

LEMMA EndJobType ==
    ASSUME TypeOK, NEW p \in Requests, Complete(p) \/ DispatchThrows(p)
    PROVE  TypeOK'
<1>1. PICK j \in JobRecords : jobs' = [jobs EXCEPT ![p] = j] /\ j.state \in {"completed", "failed", "delayed"}
  BY SettledType, AfterFailureType DEF Complete, DispatchThrows
<1>2. JobType'
  BY <1>1, RecordTypes DEF TypeOK, JobType, JobRecords, WorkerRecords, Complete, DispatchThrows
<1>3. OneJob'
  BY <1>1, RecordTypes DEF TypeOK, JobType, OneJob, Busy, Current, Complete, DispatchThrows
<1>4. RowType' /\ RequestType' /\ OtherType'
  BY Frames DEF TypeOK, RowType, OtherType, Complete, DispatchThrows, rowVars, pushVars
<1> QED BY <1>2, <1>3, <1>4, TypePartsNext

LEMMA BackType ==
    ASSUME TypeOK, NEW p \in Requests, Promote(p) \/ Recover(p)
    PROVE  TypeOK'
<1>1. wait' \in Seq(Requests)
  <2>1. Append(wait, p) \in Seq(Requests)
    BY AppendProperties DEF TypeOK, JobType
  <2>2. <<p>> \o wait \in Seq(Requests)
    BY ConcatProperties DEF TypeOK, JobType
  <2> QED BY <2>1, <2>2 DEF Promote, Recover
<1>2. PICK j \in JobRecords : jobs' = [jobs EXCEPT ![p] = j] /\ j.state = "waiting"
  <2>1. jobs' = [jobs EXCEPT ![p].state = "waiting"] /\ "waiting" \in Unsettled
    BY DEF Promote, Recover, Unsettled
  <2> QED BY <2>1, StateType
<1>3. JobType'
  BY <1>1, <1>2 DEF TypeOK, JobType, JobRecords, Promote, Recover
<1>4. OneJob'
  BY <1>2 DEF TypeOK, JobType, OneJob, Busy, Current, Promote, Recover
<1>5. RowType' /\ RequestType' /\ OtherType'
  BY Frames DEF TypeOK, RowType, OtherType, Promote, Recover, rowVars, pushVars
<1> QED BY <1>3, <1>4, <1>5, TypePartsNext

LEMMA RestartType ==
    ASSUME TypeOK, Restart
    PROVE  TypeOK'
<1>1. \A p \in Requests : Ended("failed") \in RequestRecords /\ Ended("failed").pc = "failed"
  BY RecordTypes
<1>2. RequestType'
  BY <1>1 DEF TypeOK, RequestType, RequestRecords, Restart
<1>3. \A p \in Requests : AfterRestart(p) \in JobRecords /\ AfterRestart(p).state # "active"
  BY DEF TypeOK, JobType, JobRecords, Unsettled, AfterRestart, Current
<1>4. JobType'
  BY <1>3, RecordTypes DEF TypeOK, JobType, JobRecords, WorkerRecords, Restart
<1>5. OneJob'
  BY <1>3, RecordTypes DEF OneJob, Busy, Current, Restart
<1>6. RowType' /\ OtherType'
  BY DEF TypeOK, RowType, OtherType, Restart, rowVars, pushVars
<1> QED BY <1>2, <1>4, <1>5, <1>6, TypePartsNext

LEMMA NextType == TypeOK /\ NoJobYet /\ [Next]_vars => TypeOK'
<1> SUFFICES ASSUME TypeOK, NoJobYet, [Next]_vars PROVE TypeOK'
  OBVIOUS
<1>1. ASSUME UNCHANGED vars PROVE TypeOK'
  <2>1. UNCHANGED <<row, moved, excused>> /\ UNCHANGED req /\ UNCHANGED queueVars /\ UNCHANGED <<jobs, worker>>
        /\ UNCHANGED <<marked, now, registered, got, told, syncs, restarts>>
    BY <1>1 DEF vars, rowVars, queueVars, pushVars
  <2> QED BY <2>1, TypeParts, Frames, TypePartsNext
<1>2. ASSUME NEW p \in Requests, AddJob(p) PROVE TypeOK'
  BY <1>2, AddJobType DEF NoJobYet, AddJob
<1>3. ASSUME Next PROVE TypeOK'
  BY <1>2, <1>3, WorldType, RequestStepType, TakeJobType, WorkerStepType, EndJobType, BackType, RestartType
  DEF Next, RequestStep, WorkerStep
<1> QED BY <1>1, <1>3

-----------------------------------------------------------------------------
(* Every step keeps what holds of the queue *)

LEMMA InitNight == Init => NightInv
<1> SUFFICES ASSUME Init PROVE NoJobYet /\ Listed /\ Timed
  BY InitType DEF NightInv
<1>1. \A p \in Requests : jobs[p].state = "none"
  BY DEF Init, NoJob
<1>2. IsInjective(wait) /\ ToSet(wait) = {}
  BY DEF Init, IsInjective, ToSet
<1> QED BY <1>1, <1>2 DEF NoJobYet, Listed, Timed, TimedAt, Unsettled

\* Steps outside the queue, with the clock going on.
LEMMA FrameNight ==
    ASSUME NightInv, TypeOK', UNCHANGED <<jobs, wait>>, now' >= now,
           \A q \in Requests : req'[q].pc \in {"done", "failed"} \/ req[q].pc \notin {"done", "failed"}
    PROVE  NightInv'
<1>1. \A q \in Requests : jobs[q] \in JobRecords
  BY DEF NightInv, TypeOK, JobType, JobRecords
<1>2. now \in Nat /\ now' \in Nat
  BY InstantType DEF NightInv, TypeOK
<1>3. ASSUME NEW q \in Requests PROVE TimedAt(jobs[q], now')
  <2>1. jobs[q].at \in Nat /\ jobs[q].due \in Int /\ TimedAt(jobs[q], now)
    BY <1>1 DEF JobRecords, NightInv, Timed
  <2> QED BY <1>2, <2>1 DEF TimedAt
<1>4. NoJobYet' /\ Listed' /\ Timed'
  BY <1>3 DEF NightInv, NoJobYet, Listed, Timed
<1> QED BY <1>4 DEF NightInv

LEMMA OutsideNight ==
    ASSUME NightInv, TypeOK',
           \/ Tick \/ (\E e \in Events : ExpireKey(e)) \/ (\E r \in Rows : SyncChanges(r))
           \/ \E d \in Devices : Register(d) \/ RemoveToken(d)
           \/ UNCHANGED vars
           \/ \E p \in Requests :
                 \/ ReadOrder(p) \/ Reply(p) \/ CommitUpdate(p) \/ Emit(p) \/ UpdateThrows(p)
                 \/ ShouldSend(p) \/ SendThrows(p)
                 \/ LoadTokens(p) \/ SmsStep(p) \/ \E d \in Devices : PushTo(p, d) \/ PushFails(p, d)
    PROVE  NightInv'
<1>1. UNCHANGED <<jobs, wait>>
  BY DEF Tick, ExpireKey, SyncChanges, Register, RemoveToken, ReadOrder, Reply, CommitUpdate, Emit,
         UpdateThrows, ShouldSend, SendThrows, LoadTokens, SmsStep, PushTo, PushFails, queueVars, vars
<1>2. now' >= now
  <2>1. now \in Nat /\ now' \in Nat
    BY InstantType DEF NightInv, TypeOK
  <2>2. now' = now \/ now' > now
    BY DEF Tick, ExpireKey, SyncChanges, Register, RemoveToken, ReadOrder, Reply, CommitUpdate, Emit,
           UpdateThrows, ShouldSend, SendThrows, LoadTokens, SmsStep, PushTo, PushFails, vars
  <2> QED BY <2>1, <2>2
<1>3. UNCHANGED req \/ \E p \in Requests : req[p].pc \notin {"done", "failed"}
                                        /\ \A q \in Requests \ {p} : req'[q] = req[q]
  BY DEF Tick, ExpireKey, SyncChanges, Register, RemoveToken, ReadOrder, Reply, CommitUpdate, Emit,
         UpdateThrows, ShouldSend, SendThrows, LoadTokens, SmsStep, PushTo, PushFails, vars,
         NightInv, TypeOK, RequestType
<1>4. \A q \in Requests : req'[q].pc \in {"done", "failed"} \/ req[q].pc \notin {"done", "failed"}
  BY <1>3
<1> QED BY <1>1, <1>2, <1>4, FrameNight

\* One job changes, and the list of waiting jobs with it.
LEMMA JobNight ==
    ASSUME NightInv, TypeOK', NEW p \in Requests, NEW j \in JobRecords,
           jobs' = [jobs EXCEPT ![p] = j], UNCHANGED now, TimedAt(j, now),
           req'[p].pc \in {"done", "failed"},
           \A q \in Requests \ {p} : req'[q] = req[q],
           IsInjective(wait'),
           ToSet(wait') = IF j.state = "waiting" THEN ToSet(wait) \cup {p} ELSE ToSet(wait) \ {p}
    PROVE  NightInv'
<1>1. jobs'[p] = j /\ \A q \in Requests \ {p} : jobs'[q] = jobs[q]
  BY DEF NightInv, TypeOK, JobType
<1>2. NoJobYet'
  BY <1>1 DEF NightInv, NoJobYet
<1>3. Listed'
  BY <1>1 DEF NightInv, Listed
<1>4. Timed'
  BY <1>1 DEF NightInv, Timed
<1> QED BY <1>2, <1>3, <1>4 DEF NightInv

LEMMA AddJobNight ==
    ASSUME NightInv, TypeOK', NEW p \in Requests, AddJob(p)
    PROVE  NightInv'
<1> DEFINE delay == Delay(req[p].event)
           j == [state |-> IF delay > 0 THEN "delayed" ELSE "waiting", made |-> 0, event |-> req[p].event,
                 stage |-> Merged(req[p].input, req[p].before).stage, at |-> now, due |-> now + delay]
<1>1. delay \in Nat /\ now \in Nat
  BY DelayType, InstantType DEF NightInv, TypeOK
<1>2. /\ jobs' = [jobs EXCEPT ![p] = j]
      /\ wait' = IF delay > 0 THEN wait ELSE Append(wait, p)
  BY DEF AddJob
<1>3. jobs'[p] = j /\ jobs'[p] \in JobRecords
  BY <1>2 DEF NightInv, TypeOK, JobType, JobRecords
<1>4. jobs[p].state = "none" /\ p \notin ToSet(wait)
  BY DEF NightInv, NoJobYet, Listed, AddJob
<1>5. TimedAt(j, now)
  <2>1. j.at = now /\ j.due = now + delay /\ (j.state \in {"waiting", "active", "stalled"} => ~(delay > 0))
    OBVIOUS
  <2>2. Put(j) = delay
    BY DEF Put, Delay
  <2> HIDE DEF j, delay
  <2> QED BY <1>1, <2>1, <2>2 DEF TimedAt
<1>6. j.state = IF delay > 0 THEN "delayed" ELSE "waiting"
  OBVIOUS
<1>7. /\ IsInjective(wait')
      /\ ToSet(wait') = IF j.state = "waiting" THEN ToSet(wait) \cup {p} ELSE ToSet(wait) \ {p}
  <2>1. wait \in Seq(Requests) /\ IsInjective(wait)
    BY DEF NightInv, Listed, TypeOK, JobType
  <2>2. /\ wait' = IF j.state = "waiting" THEN Append(wait, p) ELSE wait
        /\ p \notin ToSet(wait)
    BY <1>2, <1>4, <1>6
  <2> HIDE DEF j, delay
  <2> QED BY <2>1, <2>2, AppendWaiting
<1>8. /\ req'[p].pc \in {"done", "failed"}
      /\ \A q \in Requests \ {p} : req'[q] = req[q]
      /\ UNCHANGED now
  BY RecordTypes DEF AddJob, NightInv, TypeOK, RequestType
<1> HIDE DEF j
<1> QED BY <1>2, <1>3, <1>5, <1>7, <1>8, JobNight

LEMMA TakeJobNight ==
    ASSUME NightInv, TypeOK', TakeJob
    PROVE  NightInv'
<1> DEFINE p == Head(wait)
<1>1. p \in Requests /\ p \in ToSet(wait) /\ IsInjective(wait') /\ ToSet(wait') = ToSet(wait) \ {p}
  BY TakeWaiting DEF NightInv, Listed, TypeOK, JobType, TakeJob
<1>2. jobs[p].state = "waiting" /\ TimedAt(jobs[p], now)
  BY <1>1 DEF NightInv, Listed, Timed
<1>3. PICK j \in JobRecords :
         /\ jobs' = [jobs EXCEPT ![p] = j]
         /\ j.state = "active" /\ j.at = jobs[p].at /\ j.due = jobs[p].due /\ j.event = jobs[p].event
  BY <1>1, StateType DEF NightInv, TakeJob, Unsettled
<1>4. TimedAt(j, now)
  BY <1>2, <1>3 DEF TimedAt, Put, Unsettled
<1>5. req[p].pc \in {"done", "failed"} /\ UNCHANGED req /\ UNCHANGED now
  BY <1>1, <1>2 DEF NightInv, NoJobYet, TakeJob
<1> HIDE DEF p
<1> QED BY <1>1, <1>3, <1>4, <1>5, JobNight

LEMMA EndJobNight ==
    ASSUME NightInv, TypeOK', NEW p \in Requests, Complete(p) \/ DispatchThrows(p)
    PROVE  NightInv'
<1>1. jobs[p].state = "active" /\ TimedAt(jobs[p], now)
  BY DEF NightInv, Timed, Complete, DispatchThrows, Current
<1>2. PICK j \in JobRecords :
         /\ jobs' = [jobs EXCEPT ![p] = j] /\ j.state \in {"completed", "failed", "delayed"}
         /\ j.state = "delayed" => j.at = jobs[p].at /\ j.due = jobs[p].due /\ j.event = jobs[p].event
  BY SettledType, AfterFailureType DEF NightInv, Complete, DispatchThrows
<1>3. TimedAt(j, now)
  BY <1>1, <1>2 DEF TimedAt, Put, Unsettled
<1>4. UNCHANGED wait /\ p \notin ToSet(wait)
  BY <1>1 DEF NightInv, Listed, Complete, DispatchThrows
<1>5. req[p].pc \in {"done", "failed"} /\ UNCHANGED req /\ UNCHANGED now
  BY <1>1 DEF NightInv, NoJobYet, Complete, DispatchThrows
<1>6. /\ IsInjective(wait')
      /\ ToSet(wait') = IF j.state = "waiting" THEN ToSet(wait) \cup {p} ELSE ToSet(wait) \ {p}
  BY <1>2, <1>4 DEF NightInv, Listed
<1> QED BY <1>2, <1>3, <1>5, <1>6, JobNight

LEMMA BackNight ==
    ASSUME NightInv, TypeOK', NEW p \in Requests, Promote(p) \/ Recover(p)
    PROVE  NightInv'
<1>1. jobs[p].state \in {"delayed", "stalled"} /\ TimedAt(jobs[p], now) /\ jobs[p].due <= now
  BY DEF NightInv, Timed, TimedAt, Promote, Recover
<1>2. PICK j \in JobRecords :
         /\ jobs' = [jobs EXCEPT ![p] = j]
         /\ j.state = "waiting" /\ j.at = jobs[p].at /\ j.due = jobs[p].due /\ j.event = jobs[p].event
  <2>1. jobs' = [jobs EXCEPT ![p].state = "waiting"] /\ "waiting" \in Unsettled
    BY DEF Promote, Recover, Unsettled
  <2> DEFINE i == InState(p, "waiting")
  <2>2. /\ i \in JobRecords /\ [jobs EXCEPT ![p].state = "waiting"] = [jobs EXCEPT ![p] = i]
        /\ i.state = "waiting" /\ i.at = jobs[p].at /\ i.due = jobs[p].due /\ i.event = jobs[p].event
    BY <2>1, StateType DEF NightInv
  <2> HIDE DEF i
  <2>3. jobs' = [jobs EXCEPT ![p] = i]
    BY <2>1, <2>2
  <2> QED BY <2>2, <2>3
<1>3. TimedAt(j, now)
  BY <1>1, <1>2 DEF TimedAt, Put, Unsettled
<1>4. p \notin ToSet(wait)
  BY <1>1 DEF NightInv, Listed
<1>5. req[p].pc \in {"done", "failed"} /\ UNCHANGED req /\ UNCHANGED now
  BY <1>1 DEF NightInv, NoJobYet, Promote, Recover
<1>6. IsInjective(wait') /\ ToSet(wait') = ToSet(wait) \cup {p}
  <2>1. wait \in Seq(Requests) /\ IsInjective(wait)
    BY DEF NightInv, Listed, TypeOK, JobType
  <2>2. wait' = Append(wait, p) \/ wait' = <<p>> \o wait
    BY DEF Promote, Recover
  <2>3. CASE wait' = Append(wait, p)
    BY <1>4, <2>1, <2>3, AppendWaiting
  <2>4. CASE wait' = <<p>> \o wait
    <3> DEFINE w == <<p>> \o wait
    <3>1. IsInjective(w) /\ ToSet(w) = ToSet(wait) \cup {p}
      BY <1>4, <2>1, PutFirst
    <3> QED BY <2>4, <3>1
  <2> QED BY <2>2, <2>3, <2>4
<1> QED BY <1>2, <1>3, <1>5, <1>6, JobNight

LEMMA RestartNight ==
    ASSUME NightInv, TypeOK', Restart
    PROVE  NightInv'
<1>1. \A p \in Requests : jobs'[p] = AfterRestart(p)
  BY DEF Restart
<1>2. NoJobYet'
  <2>1. \A p \in Requests : req'[p].pc \notin {"done", "failed"} => req[p].pc = "idle"
    BY RecordTypes DEF Restart
  <2> QED BY <1>1, <2>1 DEF NightInv, NoJobYet, AfterRestart, Current
<1>3. Listed'
  <2>1. \A p \in Requests : jobs'[p].state = "waiting" <=> jobs[p].state = "waiting"
    BY <1>1 DEF AfterRestart, Current, NightInv, TypeOK, JobType
  <2> QED BY <2>1 DEF NightInv, Listed, Restart
<1>4. Timed'
  <2>1. ASSUME NEW p \in Requests PROVE TimedAt(AfterRestart(p), now)
    <3>1. TimedAt(jobs[p], now) /\ jobs[p] \in JobRecords
      BY DEF NightInv, Timed, TypeOK, JobType, JobRecords
    <3> QED BY <3>1 DEF AfterRestart, Current, TimedAt, Put, Unsettled, JobRecords
  <2> QED BY <1>1, <2>1 DEF Timed, Restart
<1> QED BY <1>2, <1>3, <1>4 DEF NightInv

LEMMA NextNight == NightInv /\ [Next]_vars => NightInv'
<1> SUFFICES ASSUME NightInv, [Next]_vars PROVE NightInv'
  OBVIOUS
<1>1. TypeOK'
  BY NextType DEF NightInv
<1>2. CASE UNCHANGED vars
  BY <1>1, <1>2, OutsideNight
<1>3. CASE Next
  BY <1>1, <1>3, OutsideNight, AddJobNight, TakeJobNight, EndJobNight, BackNight, RestartNight
  DEF Next, RequestStep, WorkerStep
<1> QED BY <1>2, <1>3

LEMMA AlwaysNightInv == Spec => []NightInv
BY InitNight, NextNight, PTL DEF Spec

\* Type correctness, with one job at a time for the worker, for any number of requests and
\* devices: send(), the processor and BullMQ never leave their types.
THEOREM TypeCorrect == Spec => []TypeOK
<1>1. NightInv => TypeOK
  BY DEF NightInv
<1> QED BY <1>1, AlwaysNightInv, PTL

-----------------------------------------------------------------------------
(* The nights *)

\* Only a push or SMS of the worker's job reaches anybody.
LEMMA OnlyDeliveries ==
    ASSUME NightInv, [Next]_vars, NEW p \in Requests, NEW r \in Recipients, got'[p][r] > got[p][r]
    PROVE  Current(p)
<1>1. got' # got
  BY DEF NightInv, TypeOK
<1>2. PICK q \in Requests : WorkerStep(q) /\ Current(q) /\ \E x \in Recipients : Deliver(q, x)
  BY <1>1
  DEF vars, Next, Tick, Restart, TakeJob, ExpireKey, SyncChanges, Register, RemoveToken, ReadOrder, Reply,
      RequestStep, CommitUpdate, Emit, ShouldSend, AddJob, UpdateThrows, SendThrows, WorkerStep, LoadTokens,
      SmsStep, Complete, PushTo, PushFails, DispatchThrows, Promote, Recover, pushVars, Recipients
<1>3. q # p => got'[p] = got[p]
  BY <1>2 DEF Deliver, NightInv, TypeOK
<1>4. got[p][r] \in Nat
  BY DEF NightInv, TypeOK
<1> QED BY <1>2, <1>3, <1>4

\* No push or SMS in the night in which it was queued, but for an order that is ready:
\* send() defers by as long as the night lasts, whatever the hour, and neither the queue, its
\* retries nor a restart bring a job forward.
THEOREM NightStaysQuiet == Spec => NightIsQuiet
<1>1. ASSUME NightInv, [Next]_vars, NEW p \in Requests, NEW r \in Recipients, got'[p][r] > got[p][r],
             ~Critical(jobs[p].event)
      PROVE  ~SameNight(jobs[p].at, now)
  <2>1. jobs[p].state = "active"
    BY <1>1, OnlyDeliveries DEF Current
  <2>2. jobs[p].at \in Nat /\ now \in Nat
    BY <1>1, InstantType DEF NightInv, TypeOK, JobType
  <2>3. isQuietHour(jobs[p].at) => jobs[p].at + deferUntilMorning(jobs[p].at) <= now
    BY <1>1, <2>1 DEF NightInv, Timed, TimedAt, Put, Unsettled
  <2> QED BY <2>2, <2>3, NotThatNight DEF SameNight
<1>2. NightInv /\ [Next]_vars =>
        [\A p \in Requests : \A r \in Recipients :
            got'[p][r] > got[p][r] => Critical(jobs[p].event) \/ ~SameNight(jobs[p].at, now)]_vars
  BY <1>1
<1> QED BY <1>2, AlwaysNightInv, PTL DEF Spec, NightIsQuiet
-----------------------------------------------------------------------------
(* Repeated notifications *)

\* The worker has still to reach recipient r with the job it has.
Unreached(r) == worker.pc = "load" \/ (worker.pc = "push" /\ (r \in worker.todo \/ r = Phone))

\* How often a recipient may have got a notification: once for each attempt that failed or was
\* cut off, and once for the present one if that is past the recipient.
GotLimit(p, r) ==
    IF jobs[p].state = "none" THEN 0
    ELSE jobs[p].made + restarts
         + (IF jobs[p].state = "completed" \/ (jobs[p].state = "active" /\ ~Unreached(r)) THEN 1 ELSE 0)

GotInv ==
    /\ \A p \in Requests : jobs[p].state \in Unsettled => jobs[p].made < MaxAttempts
    /\ \A p \in Requests : \A r \in Recipients : got[p][r] <= GotLimit(p, r)

LEMMA Counts ==
    ASSUME TypeOK, NEW p \in Requests
    PROVE  /\ jobs[p] \in JobRecords /\ jobs[p].made \in Nat /\ restarts \in Nat /\ MaxAttempts \in Nat
           /\ \A r \in Recipients : got[p][r] \in Nat /\ GotLimit(p, r) \in Nat
<1>1. jobs[p] \in JobRecords /\ jobs[p].made \in Nat /\ restarts \in Nat /\ MaxAttempts \in Nat
  BY FirstRowType DEF TypeOK, JobType, JobRecords
<1>2. ASSUME NEW r \in Recipients PROVE got[p][r] \in Nat /\ GotLimit(p, r) \in Nat
  BY <1>1 DEF TypeOK, GotLimit
<1> QED BY <1>1, <1>2

\* A job that the worker does not have is bounded the same wherever the worker is.
LEMMA RestGot ==
    ASSUME GotInv, NEW q \in Requests, jobs'[q] = jobs[q], restarts' = restarts, got'[q] = got[q],
           UNCHANGED worker \/ jobs[q].state # "active"
    PROVE  /\ jobs'[q].state \in Unsettled => jobs'[q].made < MaxAttempts
           /\ \A r \in Recipients : got'[q][r] <= GotLimit(q, r)'
BY DEF GotInv, GotLimit, Unreached

\* One job changes, the worker's or one that waits while it may have another.
LEMMA OneGot ==
    ASSUME TypeOK, GotInv, NEW p \in Requests, restarts' = restarts,
           \A q \in Requests \ {p} : jobs'[q] = jobs[q] /\ got'[q] = got[q],
           UNCHANGED worker \/ \A q \in Requests \ {p} : jobs[q].state # "active",
           jobs'[p].state \in Unsettled => jobs'[p].made < MaxAttempts,
           \A r \in Recipients : got'[p][r] <= GotLimit(p, r)'
    PROVE  GotInv'
<1>1. ASSUME NEW q \in Requests
      PROVE  /\ jobs'[q].state \in Unsettled => jobs'[q].made < MaxAttempts
             /\ \A r \in Recipients : got'[q][r] <= GotLimit(q, r)'
  <2>1. CASE q = p
    BY <2>1
  <2>2. CASE q # p
    BY <2>2, RestGot
  <2> QED BY <2>1, <2>2
<1> QED BY <1>1 DEF GotInv

LEMMA OthersRest ==
    ASSUME TypeOK, NEW p \in Requests, Current(p)
    PROVE  \A q \in Requests \ {p} : jobs[q].state # "active"
BY DEF TypeOK, OneJob, Current

LEMMA AddJobGot ==
    ASSUME NightInv, GotInv, NEW p \in Requests, AddJob(p) PROVE GotInv'
<1> DEFINE delay == Delay(req[p].event)
           j == [state |-> IF delay > 0 THEN "delayed" ELSE "waiting", made |-> 0, event |-> req[p].event,
                 stage |-> Merged(req[p].input, req[p].before).stage, at |-> now, due |-> now + delay]
<1>0. TypeOK /\ jobs[p].state = "none"
  BY DEF NightInv, NoJobYet, AddJob
<1>1. jobs' = [jobs EXCEPT ![p] = j] /\ UNCHANGED <<worker, got, restarts>>
  BY DEF AddJob, pushVars
<1>2. j.state \in {"delayed", "waiting"} /\ j.made = 0
  OBVIOUS
<1> HIDE DEF j
<1>3. jobs'[p] = j /\ \A q \in Requests \ {p} : jobs'[q] = jobs[q]
  BY <1>0, <1>1 DEF TypeOK, JobType
<1>4. \A r \in Recipients : got[p][r] \in Nat /\ got[p][r] <= 0
  BY <1>0, Counts DEF GotInv, GotLimit
<1>5. \A r \in Recipients : GotLimit(p, r)' = restarts /\ restarts \in Nat
  BY <1>0, <1>1, <1>2, <1>3, Counts DEF GotLimit
<1>6. jobs'[p].made < MaxAttempts
  BY <1>2, <1>3, FirstRowType
<1> QED BY <1>0, <1>1, <1>3, <1>4, <1>5, <1>6, OneGot

\* A job is taken, goes back to the list or is put back at its head.
LEMMA QueueGot ==
    ASSUME NightInv, GotInv, TakeJob \/ \E p \in Requests : Promote(p) \/ Recover(p) PROVE GotInv'
<1>0. TypeOK /\ UNCHANGED <<got, restarts>>
  BY DEF NightInv, TakeJob, Promote, Recover, pushVars
<1>1. \E p \in Requests :
         /\ jobs[p].state \in {"waiting", "delayed", "stalled"}
         /\ \/ jobs' = [jobs EXCEPT ![p].state = "waiting"] /\ UNCHANGED worker
            \/ /\ jobs' = [jobs EXCEPT ![p].state = "active"] /\ worker'.pc = "load"
               /\ \A q \in Requests : jobs[q].state # "active"
  <2>1. ASSUME TakeJob
        PROVE  /\ Head(wait) \in Requests /\ jobs[Head(wait)].state = "waiting"
               /\ jobs' = [jobs EXCEPT ![Head(wait)].state = "active"] /\ worker'.pc = "load"
               /\ \A q \in Requests : jobs[q].state # "active"
    <3>1. Head(wait) \in ToSet(wait)
      BY <2>1, TakeWaiting DEF NightInv, Listed, TypeOK, JobType, TakeJob
    <3> QED BY <2>1, <3>1 DEF NightInv, Listed, TakeJob, Busy, Current, Resting
  <2> QED BY <2>1 DEF Promote, Recover
<1>2. PICK p \in Requests :
         /\ jobs[p].state \in {"waiting", "delayed", "stalled"}
         /\ \/ jobs' = [jobs EXCEPT ![p].state = "waiting"] /\ UNCHANGED worker
            \/ /\ jobs' = [jobs EXCEPT ![p].state = "active"] /\ worker'.pc = "load"
               /\ \A q \in Requests : jobs[q].state # "active"
  BY <1>1
<1>3. /\ jobs'[p].state \in {"waiting", "active"} /\ jobs'[p].made = jobs[p].made
      /\ \A q \in Requests \ {p} : jobs'[q] = jobs[q]
  BY <1>0, <1>2 DEF TypeOK, JobType, JobRecords
<1>4. jobs'[p].state = "active" => worker'.pc = "load"
  BY <1>0, <1>2 DEF TypeOK, JobType, JobRecords
<1>5. \A r \in Recipients : GotLimit(p, r) = jobs[p].made + restarts /\ GotLimit(p, r)' = jobs[p].made + restarts
  BY <1>0, <1>2, <1>3, <1>4, Counts DEF GotLimit, Unreached
<1>6. \A r \in Recipients : got'[p][r] <= GotLimit(p, r)'
  BY <1>0, <1>5 DEF GotInv
<1>7. jobs[p].made < MaxAttempts
  BY <1>2 DEF GotInv, Unsettled
<1> QED BY <1>0, <1>2, <1>3, <1>6, <1>7, OneGot

\* The worker goes on: what it delivers it does not deliver again in this attempt.
LEMMA WorkGot ==
    ASSUME NightInv, GotInv, NEW p \in Requests,
           LoadTokens(p) \/ SmsStep(p) \/ \E d \in Devices : PushTo(p, d) \/ PushFails(p, d)
    PROVE  GotInv'
<1>0. TypeOK /\ Current(p) /\ UNCHANGED <<jobs, restarts>>
  BY DEF NightInv, LoadTokens, SmsStep, PushTo, PushFails
<1>1. \A q \in Requests \ {p} : jobs[q].state # "active"
  BY <1>0, OthersRest
<1>2. worker \in WorkerRecords /\ Phone \notin Devices /\ got \in [Requests -> [Recipients -> Nat]]
  BY <1>0, ConstantsAssumption DEF TypeOK, JobType, WorkerRecords, ConstantsAssumption
<1>3. \A r \in Recipients :
         GotLimit(p, r) = jobs[p].made + restarts + (IF Unreached(r) THEN 0 ELSE 1)
  BY <1>0 DEF GotLimit, Current
<1>4. \A r \in Recipients :
         GotLimit(p, r)' = jobs[p].made + restarts + (IF Unreached(r)' THEN 0 ELSE 1)
  BY <1>0 DEF GotLimit, Current
<1>5. jobs[p].made \in Nat /\ restarts \in Nat /\ \A r \in Recipients : got[p][r] \in Nat /\ got[p][r] <= GotLimit(p, r)
  BY <1>0, Counts DEF GotInv
<1>6. ASSUME NEW r \in Recipients
      PROVE  \/ got'[p][r] = got[p][r] /\ (Unreached(r)' => Unreached(r))
             \/ got'[p][r] = got[p][r] + 1 /\ Unreached(r) /\ ~Unreached(r)'
  <2>1. CASE LoadTokens(p)
    BY <2>1 DEF LoadTokens, Unreached, pushVars
  <2>2. CASE SmsStep(p)
    <3>1. Unreached(Phone) /\ \A x : ~Unreached(x)'
      BY <1>2, <2>2 DEF SmsStep, Unreached, WorkerRecords
    <3>2. UNCHANGED got \/ Deliver(p, Phone)
      BY <2>2 DEF SmsStep, pushVars
    <3>3. got'[p][r] = got[p][r] \/ (r = Phone /\ got'[p][r] = got[p][r] + 1)
      BY <1>2, <3>2 DEF Deliver
    <3> QED BY <3>1, <3>3
  <2>3. ASSUME NEW d \in Devices, PushTo(p, d) \/ PushFails(p, d)
        PROVE  \/ got'[p][r] = got[p][r] /\ (Unreached(r)' => Unreached(r))
               \/ got'[p][r] = got[p][r] + 1 /\ Unreached(r) /\ ~Unreached(r)'
    <3>1. worker'.pc = "push" /\ worker'.todo = worker.todo \ {d} /\ worker.pc = "push" /\ d \in worker.todo
      BY <1>2, <2>3 DEF PushTo, PushFails, Reached, WorkerRecords
    <3>2. \A x : Unreached(x)' => Unreached(x)
      BY <3>1 DEF Unreached
    <3>3. Unreached(d) /\ ~Unreached(d)'
      BY <1>2, <3>1 DEF Unreached
    <3>4. UNCHANGED got \/ Deliver(p, d)
      BY <2>3 DEF PushTo, PushFails, pushVars
    <3>5. d \in Recipients
      BY DEF Recipients
    <3>6. got'[p][r] = got[p][r] \/ (r = d /\ got'[p][r] = got[p][r] + 1)
      BY <1>2, <3>4, <3>5 DEF Deliver
    <3> QED BY <3>2, <3>3, <3>6
  <2> QED BY <2>1, <2>2, <2>3
<1>7. \A r \in Recipients : got'[p][r] <= GotLimit(p, r)'
  <2> SUFFICES ASSUME NEW r \in Recipients PROVE got'[p][r] <= GotLimit(p, r)'
    OBVIOUS
  <2>1. CASE got'[p][r] = got[p][r] /\ (Unreached(r)' => Unreached(r))
    BY <1>3, <1>4, <1>5, <2>1
  <2>2. CASE got'[p][r] = got[p][r] + 1 /\ Unreached(r) /\ ~Unreached(r)'
    BY <1>3, <1>4, <1>5, <2>2
  <2> QED BY <1>6, <2>1, <2>2
<1>8. \A q \in Requests \ {p} : got'[q] = got[q]
  BY <1>2 DEF LoadTokens, SmsStep, PushTo, PushFails, Deliver, pushVars
<1> QED BY <1>0, <1>1, <1>7, <1>8, OneGot DEF GotInv

LEMMA EndJobGot ==
    ASSUME NightInv, GotInv, NEW p \in Requests, Complete(p) \/ DispatchThrows(p) PROVE GotInv'
<1>0. TypeOK /\ Current(p) /\ UNCHANGED <<got, restarts>>
  BY DEF NightInv, Complete, DispatchThrows, pushVars
<1>1. \A q \in Requests \ {p} : jobs[q].state # "active"
  BY <1>0, OthersRest
<1>2. /\ jobs[p].made \in Nat /\ restarts \in Nat /\ MaxAttempts \in Nat /\ jobs[p].made < MaxAttempts
      /\ \A r \in Recipients : got[p][r] \in Nat /\ got[p][r] <= jobs[p].made + restarts + 1
  <2>1. jobs[p].made < MaxAttempts
    BY <1>0 DEF GotInv, Current, Unsettled
  <2>2. \A r \in Recipients : got[p][r] <= GotLimit(p, r)
    BY DEF GotInv
  <2> QED BY <1>0, <2>1, <2>2, Counts DEF GotLimit, Current
<1>3. jobs'[p].state \in {"completed", "delayed", "failed"} /\ \A q \in Requests \ {p} : jobs'[q] = jobs[q]
  <2>1. Settled(p, "completed").state = "completed" /\ AfterFailure(p).state \in {"delayed", "failed"}
    BY <1>0, SettledType, AfterFailureType
  <2>2. \/ jobs' = [jobs EXCEPT ![p] = Settled(p, "completed")]
        \/ jobs' = [jobs EXCEPT ![p] = AfterFailure(p)]
    BY DEF Complete, DispatchThrows
  <2> QED BY <1>0, <2>1, <2>2 DEF TypeOK, JobType
<1>4. CASE Complete(p)
  <2>1. jobs'[p] = Settled(p, "completed")
    BY <1>0, <1>4 DEF Complete, TypeOK, JobType
  <2>2. jobs'[p].state = "completed" /\ jobs'[p].made = jobs[p].made
    BY <2>1 DEF Settled, NoJob
  <2>3. \A r \in Recipients : GotLimit(p, r)' = jobs[p].made + restarts + 1
    BY <1>0, <2>2 DEF GotLimit
  <2> QED BY <1>0, <1>1, <1>2, <1>3, <2>2, <2>3, OneGot DEF Unsettled
<1>5. CASE DispatchThrows(p)
  <2>1. jobs'[p] = AfterFailure(p)
    BY <1>0, <1>5 DEF DispatchThrows, TypeOK, JobType
  <2>2. CASE jobs[p].made + 1 < MaxAttempts
    <3>1. jobs'[p].state = "delayed" /\ jobs'[p].made = jobs[p].made + 1
      BY <1>0, <2>1, <2>2, Counts DEF AfterFailure, JobRecords
    <3>2. \A r \in Recipients : GotLimit(p, r)' = jobs[p].made + 1 + restarts
      BY <1>0, <1>2, <3>1 DEF GotLimit
    <3> QED BY <1>0, <1>1, <1>2, <1>3, <2>2, <3>1, <3>2, OneGot
  <2>3. CASE ~(jobs[p].made + 1 < MaxAttempts)
    <3>1. jobs'[p].state = "failed" /\ jobs'[p].made = MaxAttempts /\ MaxAttempts = jobs[p].made + 1
      BY <1>2, <2>1, <2>3 DEF AfterFailure, Settled, NoJob
    <3>2. \A r \in Recipients : GotLimit(p, r)' = jobs[p].made + 1 + restarts
      BY <1>0, <1>2, <3>1 DEF GotLimit
    <3> QED BY <1>0, <1>1, <1>2, <1>3, <3>1, <3>2, OneGot DEF Unsettled
  <2> QED BY <2>2, <2>3
<1> QED BY <1>4, <1>5

LEMMA RestartGot ==
    ASSUME NightInv, GotInv, Restart PROVE GotInv'
<1> SUFFICES ASSUME NEW p \in Requests
             PROVE  /\ jobs'[p].state \in Unsettled => jobs'[p].made < MaxAttempts
                    /\ \A r \in Recipients : got'[p][r] <= GotLimit(p, r)'
  BY DEF GotInv
<1>0. TypeOK /\ got' = got /\ restarts' = restarts + 1 /\ jobs'[p] = AfterRestart(p)
  BY DEF NightInv, Restart, pushVars
<1>1. /\ jobs'[p].made = jobs[p].made
      /\ jobs'[p].state = IF jobs[p].state = "active" THEN "stalled" ELSE jobs[p].state
  BY <1>0, Counts DEF AfterRestart, Current, JobRecords
<1>2. jobs'[p].state \in Unsettled => jobs'[p].made < MaxAttempts
  BY <1>1 DEF GotInv, Unsettled
<1>3. ASSUME NEW r \in Recipients PROVE got'[p][r] <= GotLimit(p, r)'
  <2>1. /\ jobs[p].made \in Nat /\ restarts \in Nat /\ got[p][r] \in Nat
        /\ got[p][r] <= GotLimit(p, r)
    BY <1>0, Counts DEF GotInv
  <2>2. CASE jobs[p].state = "none"
    BY <1>0, <1>1, <2>1, <2>2 DEF GotLimit
  <2>3. CASE jobs[p].state = "active"
    BY <1>0, <1>1, <2>1, <2>3 DEF GotLimit
  <2>4. CASE jobs[p].state \notin {"none", "active"}
    BY <1>0, <1>1, <2>1, <2>4 DEF GotLimit
  <2> QED BY <2>2, <2>3, <2>4
<1> QED BY <1>2, <1>3

LEMMA NextGot == NightInv /\ GotInv /\ [Next]_vars => GotInv'
<1> SUFFICES ASSUME NightInv, GotInv, [Next]_vars PROVE GotInv'
  OBVIOUS
<1>1. CASE \/ Tick \/ (\E e \in Events : ExpireKey(e)) \/ (\E r \in Rows : SyncChanges(r))
           \/ (\E d \in Devices : Register(d) \/ RemoveToken(d))
           \/ UNCHANGED vars
           \/ \E p \in Requests :
                 \/ ReadOrder(p) \/ Reply(p) \/ CommitUpdate(p) \/ Emit(p) \/ UpdateThrows(p)
                 \/ ShouldSend(p) \/ SendThrows(p)
  <2>1. UNCHANGED <<jobs, worker, got, restarts>>
    BY <1>1 DEF Tick, ExpireKey, SyncChanges, Register, RemoveToken, ReadOrder, Reply, CommitUpdate, Emit,
                UpdateThrows, ShouldSend, SendThrows, queueVars, pushVars, vars
  <2> QED BY <2>1 DEF GotInv, GotLimit, Unreached
<1> QED BY <1>1, AddJobGot, QueueGot, WorkGot, EndJobGot, RestartGot DEF Next, RequestStep, WorkerStep

LEMMA InitGot == Init => GotInv
<1> SUFFICES ASSUME Init PROVE GotInv
  OBVIOUS
<1>1. \A p \in Requests : jobs[p].state = "none" /\ \A r \in Recipients : got[p][r] = 0
  BY RecordTypes DEF Init
<1> QED BY <1>1 DEF GotInv, GotLimit, Unsettled

\* A recipient gets a notification once, and once more for each attempt that failed or was cut
\* off by a restart, for any number of requests, devices and attempts.
THEOREM RepeatsAccounted == Spec => []RepeatsOnlyAfterFailure
<1>1. NightInv /\ GotInv => RepeatsOnlyAfterFailure
  <2> SUFFICES ASSUME NightInv, GotInv, NEW p \in Requests, NEW r \in Recipients
               PROVE  got[p][r] <= jobs[p].made + restarts
                                   + (IF jobs[p].state \in {"active", "completed"} THEN 1 ELSE 0)
    BY DEF RepeatsOnlyAfterFailure
  <2>1. /\ jobs[p].made \in Nat /\ restarts \in Nat /\ got[p][r] \in Nat
        /\ got[p][r] <= GotLimit(p, r)
    BY Counts DEF NightInv, GotInv
  <2> QED BY <2>1 DEF GotLimit
<1> QED BY InitGot, NextGot, <1>1, AlwaysNightInv, PTL DEF Spec
-----------------------------------------------------------------------------
(* The last word about the stage *)

\* The jobs that tell the client of the stage, and the requests that are to add one.
Word(p) == jobs[p].state \in Unsettled /\ NamesStage(jobs[p].event)
Herald(p) == req[p].pc \in {"committed", "marking", "adding"} /\ NamesStage(req[p].event)
Announced(p) == Merged(req[p].input, req[p].before).stage

PutOff(p) == jobs[p].state \in {"delayed", "stalled"}

\* Job q will be taken before job p.
Ahead(w, q, p) == \E i, j \in DOMAIN w : i < j /\ w[i] = q /\ w[j] = p

Before(q, p) ==
    \/ jobs[q].state = "active" /\ jobs[p].state # "active"
    \/ jobs[q].state = "waiting" /\ PutOff(p)
    \/ jobs[q].state = "waiting" /\ jobs[p].state = "waiting" /\ Ahead(wait, q, p)

LastWord(p) == Word(p) /\ \A q \in Requests \ {p} : Word(q) => Before(q, p)

\* Job p will tell device d, if it is registered.
Reaches(p, d) ==
    /\ Word(p)
    /\ \/ jobs[p].state # "active" \/ worker.pc = "load"
       \/ worker.pc = "push" /\ d \in worker.todo

\* One update at a time is to send a notification about the stage.
OneHerald ==
    \A p, q \in Requests : Herald(p) /\ (Herald(q) \/ req[q].pc = "committed") => p = q

\* One notification about the stage is put off, and then it is the last.
OnePutOff ==
    \A p, q \in Requests :
        Word(p) /\ Word(q) /\ (jobs[p].state = "stalled" \/ (PutOff(p) /\ PutOff(q))) => p = q

\* The last notification that is queued names the order's stage, unless a request is still to
\* send one that does; a device that knows better than that will hear of it.
Words ==
    /\ \A p \in Requests : req[p].pc = "read" => req[p].before.stage = row.stage
    /\ \A p \in Requests : Herald(p) => Announced(p) = row.stage
    /\ (\A p \in Requests : ~Herald(p)) =>
          /\ \A p \in Requests : LastWord(p) => jobs[p].stage = row.stage
          /\ \A d \in registered : told[d] = row.stage \/ \E p \in Requests : Reaches(p, d)

WordInv == OneHerald /\ OnePutOff /\ (~moved => Words)

-----------------------------------------------------------------------------
(* The order of the list *)

LEMMA AheadAppend ==
    ASSUME NEW S, NEW w \in Seq(S), NEW r \in S, NEW a, NEW b, Ahead(Append(w, r), a, b)
    PROVE  /\ b # r => Ahead(w, a, b)
           /\ r \notin ToSet(w) => a # r
<1> DEFINE l == Append(w, r)
<1>1. /\ Len(w) \in Nat /\ DOMAIN w = 1 .. Len(w) /\ DOMAIN l = 1 .. Len(w) + 1
      /\ \A i \in 1 .. Len(w) : l[i] = w[i]
      /\ l[Len(w) + 1] = r
  BY AppendProperties, LenProperties
<1>2. PICK i \in DOMAIN l, j \in DOMAIN l : i < j /\ l[i] = a /\ l[j] = b
  BY DEF Ahead
<1> HIDE DEF l
<1>3. i \in 1 .. Len(w) /\ w[i] = a
  BY <1>1, <1>2
<1>4. b # r => j \in 1 .. Len(w) /\ w[j] = b
  BY <1>1, <1>2
<1> QED BY <1>1, <1>2, <1>3, <1>4 DEF Ahead, ToSet

LEMMA AheadFirst ==
    ASSUME NEW S, NEW w \in Seq(S), NEW r \in S, NEW a, NEW b, a # r, b # r, Ahead(<<r>> \o w, a, b)
    PROVE  Ahead(w, a, b)
<1> DEFINE l == <<r>> \o w
<1>1. <<r>> \in Seq(S) /\ Len(<<r>>) = 1 /\ <<r>>[1] = r
  OBVIOUS
<1>2. /\ Len(w) \in Nat /\ DOMAIN w = 1 .. Len(w) /\ DOMAIN l = 1 .. Len(w) + 1
      /\ l[1] = r
      /\ \A i \in 2 .. Len(w) + 1 : l[i] = w[i - 1]
  <2>1. l \in Seq(S) /\ Len(l) = 1 + Len(w)
    BY <1>1, ConcatProperties
  <2>2. \A i \in 1 .. Len(l) : l[i] = IF i <= 1 THEN <<r>>[i] ELSE w[i - 1]
    BY <1>1, <2>1, ConcatProperties
  <2>3. Len(w) \in Nat /\ DOMAIN w = 1 .. Len(w) /\ DOMAIN l = 1 .. Len(l)
    BY <2>1, LenProperties
  <2> HIDE DEF l
  <2> QED BY <1>1, <2>1, <2>2, <2>3
<1>3. PICK i \in DOMAIN l, j \in DOMAIN l : i < j /\ l[i] = a /\ l[j] = b
  BY DEF Ahead
<1> HIDE DEF l
<1>4. i - 1 \in DOMAIN w /\ j - 1 \in DOMAIN w /\ i - 1 < j - 1 /\ w[i - 1] = a /\ w[j - 1] = b
  BY <1>2, <1>3
<1> QED BY <1>4 DEF Ahead

LEMMA AheadTail ==
    ASSUME NEW S, NEW w \in Seq(S), w # <<>>
    PROVE  /\ \A a, b : Ahead(Tail(w), a, b) => Ahead(w, a, b)
           /\ \A b \in ToSet(w) \ {Head(w)} : Ahead(w, Head(w), b)
<1>1. Len(w) \in Nat \ {0} /\ DOMAIN w = 1 .. Len(w) /\ Head(w) = w[1]
  BY EmptySeq, LenProperties
<1>2. DOMAIN Tail(w) = 1 .. Len(w) - 1 /\ \A i \in 1 .. Len(w) - 1 : Tail(w)[i] = w[i + 1]
  BY <1>1
<1>3. ASSUME NEW a, NEW b, Ahead(Tail(w), a, b) PROVE Ahead(w, a, b)
  <2>1. PICK i \in DOMAIN Tail(w), j \in DOMAIN Tail(w) : i < j /\ Tail(w)[i] = a /\ Tail(w)[j] = b
    BY <1>3 DEF Ahead
  <2>2. i + 1 \in DOMAIN w /\ j + 1 \in DOMAIN w /\ i + 1 < j + 1 /\ w[i + 1] = a /\ w[j + 1] = b
    BY <1>1, <1>2, <2>1
  <2> QED BY <2>2 DEF Ahead
<1>4. ASSUME NEW b \in ToSet(w) \ {Head(w)} PROVE Ahead(w, Head(w), b)
  <2>1. PICK j \in DOMAIN w : w[j] = b
    BY DEF ToSet
  <2>2. 1 \in DOMAIN w /\ 1 < j
    BY <1>1, <2>1
  <2> QED BY <1>1, <2>1, <2>2 DEF Ahead
<1> QED BY <1>3, <1>4

-----------------------------------------------------------------------------
(* Every step keeps what is known of the last word *)

\* An update names the stage in its event exactly when it changes the stage.
LEMMA StageEvent ==
    ASSUME NEW a, NEW b PROVE NamesStage(EventOf(a, b)) <=> a.stage # b.stage
BY DEF NamesStage, EventOf, NoEvent

LEMMA ExcusedStays == [Next]_vars /\ excused => excused'
BY DEF vars, Next, Tick, Restart, TakeJob, ExpireKey, SyncChanges, Register, RemoveToken, ReadOrder, Reply,
       RequestStep, CommitUpdate, Emit, ShouldSend, AddJob, UpdateThrows, SendThrows, WorkerStep, LoadTokens,
       SmsStep, Complete, PushTo, PushFails, DispatchThrows, Promote, Recover

LEMMA WorldWord ==
    ASSUME NightInv, WordInv,
           \/ Tick \/ (\E e \in Events : ExpireKey(e)) \/ (\E r \in Rows : SyncChanges(r))
           \/ (\E d \in Devices : Register(d) \/ RemoveToken(d)) \/ UNCHANGED vars
    PROVE  WordInv'
<1>1. UNCHANGED <<req, jobs, wait, worker>>
  BY DEF Tick, ExpireKey, SyncChanges, Register, RemoveToken, queueVars, vars
<1>2. ~moved' => ~moved /\ row'.stage = row.stage
  BY DEF Tick, ExpireKey, SyncChanges, Register, RemoveToken, rowVars, vars
<1>3. ~moved' => \A d \in registered' : told'[d] = row.stage \/ (d \in registered /\ told'[d] = told[d])
  BY DEF Tick, ExpireKey, SyncChanges, Register, RemoveToken, rowVars, pushVars, vars, NightInv, TypeOK
<1>4. OneHerald' /\ OnePutOff'
  BY <1>1 DEF WordInv, OneHerald, OnePutOff, Herald, Word, PutOff
<1>5. ~moved' => Words'
  <2> SUFFICES ASSUME ~moved' PROVE Words'
    OBVIOUS
  <2>1. Words
    BY <1>2 DEF WordInv
  <2>2. \A p \in Requests : /\ Herald(p)' <=> Herald(p)
                            /\ Announced(p)' = Announced(p)
                            /\ LastWord(p)' <=> LastWord(p)
                            /\ \A d : Reaches(p, d)' <=> Reaches(p, d)
    BY <1>1 DEF Herald, Announced, LastWord, Word, Before, PutOff, Reaches
  <2> QED BY <1>1, <1>2, <1>3, <2>1, <2>2 DEF Words
<1> QED BY <1>4, <1>5 DEF WordInv

\* A request that reads, ends or goes on to its notification.
LEMMA RequestWord ==
    ASSUME NightInv, WordInv, NEW p \in Requests, ~excused',
           ReadOrder(p) \/ Reply(p) \/ Emit(p) \/ UpdateThrows(p) \/ ShouldSend(p) \/ SendThrows(p)
    PROVE  WordInv'
<1>0. req \in [Requests -> RequestRecords]
  BY DEF NightInv, TypeOK, RequestType, RequestRecords
<1>1. UNCHANGED <<row, moved, jobs, wait, worker, registered, told>>
  BY DEF ReadOrder, Reply, Emit, UpdateThrows, ShouldSend, SendThrows, rowVars, queueVars, pushVars
<1>2. \A q \in Requests \ {p} : req'[q] = req[q]
  BY <1>0 DEF ReadOrder, Reply, Emit, UpdateThrows, ShouldSend, SendThrows
<1>3. /\ Herald(p)' <=> Herald(p)
      /\ Herald(p) => Announced(p)' = Announced(p)
      /\ req'[p].pc # "committed"
      /\ req'[p].pc = "read" => req'[p].before = row
  <2>1. CASE ReadOrder(p)
    <3>1. /\ req'[p].pc = "read" /\ req'[p].before = row
      BY <1>0, <2>1 DEF ReadOrder, Idle
    <3> QED BY <2>1, <3>1 DEF ReadOrder, Herald
  <2>2. CASE Reply(p)
    <3>1. req'[p].pc = "marking" /\ req'[p].event = "chat.reply.received"
      BY <1>0, <2>2 DEF Reply, Idle
    <3> QED BY <2>2, <3>1 DEF Reply, Herald, NamesStage
  <2>3. CASE Emit(p)
    <3>1. CASE req[p].event = NoEvent
      BY <1>0, <2>3, <3>1, RecordTypes DEF Emit, Herald, NamesStage, NoEvent
    <3>2. CASE req[p].event # NoEvent
      <4>1. req'[p] = [req[p] EXCEPT !.pc = "marking"]
        BY <1>0, <2>3, <3>2 DEF Emit
      <4> QED BY <1>0, <2>3, <4>1 DEF Emit, Herald, Announced, RequestRecords
    <3> QED BY <3>1, <3>2
  <2>4. CASE UpdateThrows(p)
    <3>1. ~Herald(p) /\ req'[p].pc = "failed"
      BY <1>0, <2>4, RecordTypes DEF UpdateThrows, Herald
    <3> QED BY <3>1 DEF Herald
  <2>5. CASE ShouldSend(p)
    <3>1. CASE req[p].event \in marked
      <4>1. ~Herald(p) /\ req'[p].pc = "done"
        BY <1>0, <2>5, <3>1, RecordTypes DEF ShouldSend, Herald
      <4> QED BY <4>1 DEF Herald
    <3>2. CASE req[p].event \notin marked
      <4>1. req'[p] = [req[p] EXCEPT !.pc = "adding"]
        BY <1>0, <2>5, <3>2 DEF ShouldSend
      <4> QED BY <1>0, <2>5, <4>1 DEF ShouldSend, Herald, Announced, RequestRecords
    <3> QED BY <3>1, <3>2
  <2>6. CASE SendThrows(p)
    <3>1. ~Herald(p) /\ req'[p].pc = "failed"
      BY <1>0, <2>6, RecordTypes DEF SendThrows, Herald
    <3> QED BY <3>1 DEF Herald
  <2> QED BY <2>1, <2>2, <2>3, <2>4, <2>5, <2>6
<1>4. \A q \in Requests \ {p} : (Herald(q)' <=> Herald(q)) /\ Announced(q)' = Announced(q)
  BY <1>2 DEF Herald, Announced
<1>5. OneHerald'
  BY <1>2, <1>3, <1>4 DEF WordInv, OneHerald
<1>6. OnePutOff'
  BY <1>1 DEF WordInv, OnePutOff, Word, PutOff
<1>7. ~moved' => Words'
  <2> SUFFICES ASSUME ~moved' PROVE Words'
    OBVIOUS
  <2>1. Words
    BY <1>1 DEF WordInv
  <2>2. \A q \in Requests : /\ LastWord(q)' <=> LastWord(q)
                            /\ \A d : Reaches(q, d)' <=> Reaches(q, d)
    BY <1>1 DEF LastWord, Word, Before, PutOff, Reaches
  <2>3. \A q \in Requests : req'[q].pc = "read" => req'[q].before.stage = row.stage
    BY <1>2, <1>3, <2>1 DEF Words
  <2>4. \A q \in Requests : (Herald(q)' <=> Herald(q)) /\ (Herald(q) => Announced(q)' = Announced(q))
    BY <1>3, <1>4
  <2> QED BY <1>1, <2>1, <2>2, <2>3, <2>4 DEF Words
<1> QED BY <1>5, <1>6, <1>7 DEF WordInv

\* An update is alone when it commits; it is to tell of the stage it changed.
LEMMA CommitWord ==
    ASSUME NightInv, WordInv, NEW p \in Requests, ~excused', CommitUpdate(p)
    PROVE  WordInv'
<1> DEFINE e == UpdateEvent(p)
           after == Merged(req[p].input, req[p].before)
<1>0. req \in [Requests -> RequestRecords] /\ req[p] \in RequestRecords /\ req[p].pc = "read"
  BY DEF NightInv, TypeOK, RequestType, RequestRecords, CommitUpdate
<1>1. UNCHANGED <<jobs, wait, worker, registered, told>>
  BY DEF CommitUpdate, queueVars, pushVars
<1>2. /\ req'[p].pc = "committed" /\ req'[p].event = e
      /\ req'[p].input = req[p].input /\ req'[p].before = req[p].before
      /\ \A q \in Requests \ {p} : req'[q] = req[q]
  <2>1. req' = [req EXCEPT ![p].pc = "committed", ![p].event = e]
    BY DEF CommitUpdate
  <2> HIDE DEF e
  <2>2. req' = [req EXCEPT ![p] = [req[p] EXCEPT !.pc = "committed", !.event = e]]
    BY <1>0, <2>1
  <2>3. /\ req'[p] = [req[p] EXCEPT !.pc = "committed", !.event = e]
        /\ \A q \in Requests \ {p} : req'[q] = req[q]
    BY <1>0, <2>2
  <2> QED BY <1>0, <2>3 DEF RequestRecords
<1>3. \A q \in Requests \ {p} : ~Announcing(q)
  BY DEF CommitUpdate
<1>4. \A q \in Requests \ {p} : req[q].pc \notin {"read", "committed"} /\ ~Herald(q)
  BY <1>3 DEF Announcing, Herald
<1>5. ~Herald(p) /\ \A q \in Requests \ {p} : ~Herald(q)'
  BY <1>0, <1>2, <1>4 DEF Herald
<1>6. OneHerald'
  BY <1>2, <1>4, <1>5 DEF OneHerald
<1>7. OnePutOff'
  BY <1>1 DEF WordInv, OnePutOff, Word, PutOff
<1>8. NamesStage(e) <=> req[p].before.stage # after.stage
  BY StageEvent DEF UpdateEvent
<1>9. after.stage = IF req[p].input.stage = Absent THEN req[p].before.stage ELSE req[p].input.stage
  BY DEF Merged
<1>10. row'.stage = IF req[p].input.stage = Absent THEN row.stage ELSE req[p].input.stage
  BY DEF CommitUpdate, Merged
<1>11. moved' = (moved /\ ~NamesStage(e)) /\ Announced(p)' = after.stage
  BY <1>2 DEF CommitUpdate, Announced
<1>12. (Herald(p)' <=> NamesStage(e)) /\ \A q \in Requests : req'[q].pc # "read"
  BY <1>2, <1>4 DEF Herald
<1> HIDE DEF e, after
<1>13. ASSUME ~moved' PROVE Words'
  <2>1. CASE NamesStage(e)
    <3>1. Announced(p)' = row'.stage
      BY <1>8, <1>9, <1>10, <1>11, <2>1
    <3> QED BY <1>5, <1>12, <2>1, <3>1 DEF Words
  <2>2. CASE ~NamesStage(e)
    <3>1. Words /\ req[p].before.stage = row.stage
      BY <1>0, <1>11, <1>13, <2>2 DEF WordInv, Words
    <3>2. row'.stage = row.stage
      BY <1>8, <1>9, <1>10, <2>2, <3>1
    <3>3. \A q \in Requests : ~Herald(q) /\ ~Herald(q)'
      BY <1>4, <1>5, <1>12, <2>2
    <3>4. \A q \in Requests : /\ LastWord(q)' <=> LastWord(q)
                              /\ \A d : Reaches(q, d)' <=> Reaches(q, d)
      BY <1>1 DEF LastWord, Word, Before, PutOff, Reaches
    <3> QED BY <1>1, <1>12, <3>1, <3>2, <3>3, <3>4 DEF Words
  <2> QED BY <2>1, <2>2
<1> QED BY <1>6, <1>7, <1>13 DEF WordInv
\* The frame of the steps of the queue: no job comes last that was not, and every device that
\* is still to hear of the stage stays so.
LEMMA QueueWord ==
    ASSUME WordInv, UNCHANGED <<req, row, moved, registered, told>>, OnePutOff',
           \A p \in Requests : LastWord(p)' => LastWord(p) /\ jobs'[p].stage = jobs[p].stage,
           \A p \in Requests, d \in registered : Reaches(p, d) => Reaches(p, d)'
    PROVE  WordInv'
<1>1. OneHerald'
  BY DEF WordInv, OneHerald, Herald
<1>2. \A p \in Requests : (Herald(p)' <=> Herald(p)) /\ Announced(p)' = Announced(p)
  BY DEF Herald, Announced
<1>3. ~moved' => Words'
  BY <1>2 DEF WordInv, Words
<1> QED BY <1>1, <1>3 DEF WordInv

LEMMA TakeJobWord ==
    ASSUME NightInv, WordInv, TakeJob PROVE WordInv'
<1> DEFINE h == Head(wait)
<1>1. /\ wait \in Seq(Requests) /\ wait # <<>> /\ h \in Requests /\ h \in ToSet(wait)
      /\ \A p \in Requests : jobs[p].state = "waiting" <=> p \in ToSet(wait)
  BY TakeWaiting DEF NightInv, Listed, TypeOK, JobType, TakeJob
<1>2. /\ jobs' = [jobs EXCEPT ![h].state = "active"] /\ wait' = Tail(wait) /\ worker'.pc = "load"
      /\ UNCHANGED <<req, row, moved, registered, told>>
      /\ \A p \in Requests : jobs[p].state # "active"
  BY DEF TakeJob, Resting, rowVars, pushVars, Busy, Current
<1> HIDE DEF h
<1>3. /\ jobs'[h].state = "active" /\ jobs'[h].event = jobs[h].event /\ jobs'[h].stage = jobs[h].stage
      /\ \A p \in Requests \ {h} : jobs'[p] = jobs[p]
  <2>1. jobs \in [Requests -> JobRecords]
    BY DEF NightInv, TypeOK, JobType, JobRecords
  <2>2. jobs'[h] = [jobs[h] EXCEPT !.state = "active"] /\ \A p \in Requests \ {h} : jobs'[p] = jobs[p]
    BY <1>1, <1>2, <2>1
  <2> QED BY <1>1, <2>1, <2>2 DEF JobRecords
<1>4. jobs[h].state = "waiting"
  BY <1>1
<1>5. \A p \in Requests : Word(p)' <=> Word(p)
  BY <1>3, <1>4 DEF Word, Unsettled
<1>6. ASSUME NEW p \in Requests, NEW q \in Requests \ {p}, Word(p), Word(q), Before(q, p)' PROVE Before(q, p)
  <2>1. CASE jobs'[q].state = "active" /\ jobs'[p].state # "active"
    <3>1. q = h /\ p # h /\ jobs[p] = jobs'[p]
      BY <1>2, <1>3, <2>1
    <3>2. jobs[p].state = "waiting" => Ahead(wait, h, p)
      BY <1>1, <3>1, AheadTail DEF h
    <3>3. jobs[p].state = "waiting" \/ PutOff(p)
      BY <1>2, <1>6 DEF Word, Unsettled, PutOff
    <3> QED BY <1>4, <3>1, <3>2, <3>3 DEF Before
  <2>2. CASE jobs'[q].state = "waiting" /\ PutOff(p)'
    BY <1>3, <2>2 DEF Before, PutOff
  <2>3. CASE jobs'[q].state = "waiting" /\ jobs'[p].state = "waiting" /\ Ahead(wait', q, p)
    <3>1. jobs[q].state = "waiting" /\ jobs[p].state = "waiting"
      BY <1>3, <2>3
    <3>2. Ahead(wait, q, p)
      BY <1>1, <1>2, <2>3, AheadTail
    <3> QED BY <3>1, <3>2 DEF Before
  <2> QED BY <1>6, <2>1, <2>2, <2>3 DEF Before
<1>7. \A p \in Requests : LastWord(p)' => LastWord(p) /\ jobs'[p].stage = jobs[p].stage
  BY <1>3, <1>5, <1>6 DEF LastWord
<1>8. OnePutOff'
  BY <1>3, <1>5 DEF WordInv, OnePutOff, PutOff
<1>9. \A p \in Requests, d \in registered : Reaches(p, d) => Reaches(p, d)'
  BY <1>2, <1>5 DEF Reaches
<1> QED BY <1>2, <1>7, <1>8, <1>9, QueueWord

\* A job goes back to the list: one that was put off at the end, one that stalled at the head.
LEMMA BackWord ==
    ASSUME NightInv, WordInv, NEW b \in Requests, Promote(b) \/ Recover(b) PROVE WordInv'
<1>1. /\ wait \in Seq(Requests) /\ PutOff(b) /\ b \notin ToSet(wait)
      /\ jobs' = [jobs EXCEPT ![b].state = "waiting"]
      /\ UNCHANGED <<req, row, moved, worker, registered, told>>
  BY DEF NightInv, Listed, TypeOK, JobType, Promote, Recover, PutOff, rowVars, pushVars
<1>2. /\ jobs'[b].state = "waiting" /\ jobs'[b].event = jobs[b].event /\ jobs'[b].stage = jobs[b].stage
      /\ \A p \in Requests \ {b} : jobs'[p] = jobs[p]
  <2>1. jobs \in [Requests -> JobRecords]
    BY DEF NightInv, TypeOK, JobType, JobRecords
  <2>2. jobs'[b] = [jobs[b] EXCEPT !.state = "waiting"] /\ \A p \in Requests \ {b} : jobs'[p] = jobs[p]
    BY <1>1, <2>1
  <2> QED BY <2>1, <2>2 DEF JobRecords
<1>3. \A p \in Requests : Word(p)' <=> Word(p)
  BY <1>1, <1>2 DEF Word, Unsettled, PutOff
<1>4. ASSUME NEW p \in Requests, NEW q \in Requests \ {p}, p # b, q # b, Before(q, p)' PROVE Before(q, p)
  <2>1. jobs'[p] = jobs[p] /\ jobs'[q] = jobs[q]
    BY <1>2, <1>4
  <2>2. Ahead(wait', q, p) => Ahead(wait, q, p)
    <3>1. CASE Promote(b)
      BY <1>1, <1>4, <3>1, AheadAppend DEF Promote
    <3>2. CASE Recover(b)
      BY <1>1, <1>4, <3>2, AheadFirst DEF Recover
    <3> QED BY <3>1, <3>2
  <2> QED BY <1>4, <2>1, <2>2 DEF Before, PutOff
<1>5. ASSUME NEW p \in Requests, NEW q \in Requests \ {p}, Word(p), Word(q), p = b \/ q = b, Before(q, p)'
      PROVE  Before(q, p)
  <2>1. CASE Recover(b)
    <3>1. jobs[b].state = "stalled"
      BY <2>1 DEF Recover
    <3> QED BY <1>5, <3>1 DEF WordInv, OnePutOff
  <2>2. CASE Promote(b) /\ p = b
    <3>1. ~PutOff(q)
      BY <1>1, <1>5, <2>2 DEF WordInv, OnePutOff
    <3>2. jobs'[q] = jobs[q] /\ jobs[q].state \in {"active", "waiting"}
      BY <1>2, <1>5, <2>2, <3>1 DEF Word, Unsettled, PutOff
    <3> QED BY <1>1, <2>2, <3>2 DEF Before, PutOff
  <2>3. CASE Promote(b) /\ q = b
    <3>1. ~PutOff(p) /\ jobs'[p] = jobs[p]
      BY <1>1, <1>2, <1>5, <2>3 DEF WordInv, OnePutOff
    <3>2. Ahead(wait', b, p)
      BY <1>2, <1>5, <2>3, <3>1 DEF Before, PutOff
    <3>3. ~Ahead(Append(wait, b), b, p)
      BY <1>1, AheadAppend
    <3> QED BY <2>3, <3>2, <3>3 DEF Promote
  <2> QED BY <1>5, <2>1, <2>2, <2>3
<1>6. \A p \in Requests : LastWord(p)' => LastWord(p) /\ jobs'[p].stage = jobs[p].stage
  BY <1>2, <1>3, <1>4, <1>5 DEF LastWord
<1>7. OnePutOff'
  BY <1>2, <1>3 DEF WordInv, OnePutOff, PutOff
<1>8. \A p \in Requests, d \in registered : Reaches(p, d) => Reaches(p, d)'
  BY <1>1, <1>2, <1>3 DEF Reaches
<1> QED BY <1>1, <1>6, <1>7, <1>8, QueueWord

LEMMA OtherJobs ==
    ASSUME TypeOK, NEW c \in Requests, NEW j, jobs' = [jobs EXCEPT ![c] = j]
    PROVE  jobs'[c] = j /\ \A p \in Requests \ {c} : jobs'[p] = jobs[p]
BY DEF TypeOK, JobType

\* The worker's job ends, or is put off as the only one about the stage.
LEMMA EndJobWord ==
    ASSUME NightInv, GotInv, WordInv, NEW c \in Requests, ~excused', Complete(c) \/ DispatchThrows(c)
    PROVE  WordInv'
<1>0. TypeOK /\ jobs[c].state = "active" /\ \A p \in Requests \ {c} : jobs[p].state # "active"
  BY OthersRest DEF NightInv, Complete, DispatchThrows, Current
<1>1. UNCHANGED <<req, row, moved, wait, registered, told>>
  BY DEF Complete, DispatchThrows, rowVars, pushVars
<1>2. \A p \in Requests \ {c} : jobs'[p] = jobs[p]
  BY <1>0, OtherJobs DEF Complete, DispatchThrows
<1>3. /\ Word(c)' => /\ Word(c) /\ jobs'[c].state = "delayed" /\ jobs'[c].stage = jobs[c].stage
                     /\ \A p \in Requests \ {c} : ~Word(p)
      /\ \A d : Reaches(c, d) => Word(c)'
  <2>1. CASE Complete(c)
    <3>1. jobs'[c].state = "completed" /\ worker.pc = "audit"
      BY <1>0, <2>1, OtherJobs, SettledType DEF Complete
    <3> QED BY <1>0, <3>1 DEF Word, Unsettled, Reaches
  <2>2. CASE DispatchThrows(c)
    <3>1. jobs'[c] = AfterFailure(c)
      BY <1>0, <2>2, OtherJobs DEF DispatchThrows
    <3>2. CASE NamesStage(jobs[c].event)
      <4>1. jobs[c].made + 1 # MaxAttempts /\ ~StageJobIn(Unsettled, c)
        BY <2>2, <3>2 DEF DispatchThrows
      <4>2. jobs[c].made + 1 < MaxAttempts
        BY <1>0, <4>1, Counts DEF GotInv, Unsettled
      <4>3. jobs'[c] = [jobs[c] EXCEPT !.state = "delayed", !.made = @ + 1]
        BY <3>1, <4>2 DEF AfterFailure
      <4>4. jobs'[c].state = "delayed" /\ jobs'[c].event = jobs[c].event /\ jobs'[c].stage = jobs[c].stage
        BY <1>0, <4>3, Counts DEF JobRecords
      <4>5. \A p \in Requests \ {c} : ~Word(p)
        BY <4>1 DEF StageJobIn, Word
      <4> QED BY <1>0, <3>2, <4>4, <4>5 DEF Word, Unsettled
    <3>3. CASE ~NamesStage(jobs[c].event)
      <4>1. \/ AfterFailure(c).state = "failed"
            \/ AfterFailure(c).event = jobs[c].event
        BY <1>0, AfterFailureType
      <4> QED BY <3>1, <3>3, <4>1 DEF Word, Unsettled, Reaches
    <3> QED BY <3>2, <3>3
  <2> QED BY <2>1, <2>2
<1>4. \A p \in Requests \ {c} : Word(p)' <=> Word(p)
  BY <1>2 DEF Word
<1>5. ASSUME NEW p \in Requests, LastWord(p)' PROVE LastWord(p) /\ jobs'[p].stage = jobs[p].stage
  <2>1. CASE p = c
    BY <1>3, <1>5, <2>1 DEF LastWord
  <2>2. CASE p # c
    <3>1. \A q \in Requests \ {p, c} : Before(q, p)' => Before(q, p)
      BY <1>1, <1>2, <2>2 DEF Before, PutOff
    <3>2. Before(c, p)
      BY <1>0, <2>2 DEF Before
    <3> QED BY <1>2, <1>4, <1>5, <2>2, <3>1, <3>2 DEF LastWord
  <2> QED BY <2>1, <2>2
<1>6. OnePutOff'
  BY <1>2, <1>3, <1>4 DEF WordInv, OnePutOff, PutOff
<1>7. ASSUME NEW p \in Requests, NEW d, Reaches(p, d) PROVE Reaches(p, d)'
  <2>1. CASE p = c
    BY <1>3, <1>7, <2>1 DEF Reaches
  <2>2. CASE p # c
    BY <1>0, <1>2, <1>4, <1>7, <2>2 DEF Reaches
  <2> QED BY <2>1, <2>2
<1> QED BY <1>1, <1>5, <1>6, <1>7, QueueWord

\* The worker goes on.  The push of the last notification tells the device the order's stage.
LEMMA WorkWord ==
    ASSUME NightInv, WordInv, NEW c \in Requests, ~excused',
           LoadTokens(c) \/ SmsStep(c) \/ \E d \in Devices : PushTo(c, d) \/ PushFails(c, d)
    PROVE  WordInv'
<1>0. TypeOK /\ jobs[c].state = "active" /\ \A p \in Requests \ {c} : jobs[p].state # "active"
  BY OthersRest DEF NightInv, LoadTokens, SmsStep, PushTo, PushFails, Current
<1>1. UNCHANGED <<req, row, moved, jobs, wait, registered>>
  BY DEF LoadTokens, SmsStep, PushTo, PushFails, rowVars
<1>2. worker \in WorkerRecords /\ Phone \notin Devices /\ told \in [Devices -> Stages]
  BY <1>0, ConstantsAssumption DEF TypeOK, JobType, WorkerRecords, ConstantsAssumption
<1>3. OnePutOff' /\ \A p \in Requests : (LastWord(p)' <=> LastWord(p)) /\ (Word(p)' <=> Word(p))
  BY <1>1 DEF WordInv, OnePutOff, LastWord, Word, Before, PutOff
<1>4. ASSUME NEW p \in Requests \ {c}, NEW d PROVE Reaches(p, d) <=> Word(p) /\ Reaches(p, d)'
  BY <1>0, <1>1, <1>3 DEF Reaches
<1>5. CASE LoadTokens(c) \/ SmsStep(c)
  <2>1. told' = told
    BY <1>2, <1>5 DEF LoadTokens, SmsStep, Deliver, pushVars
  <2>2. \A d \in registered : Reaches(c, d) => Reaches(c, d)'
    BY <1>0, <1>1, <1>3, <1>5 DEF LoadTokens, SmsStep, Reaches
  <2> QED BY <1>1, <1>3, <1>4, <2>1, <2>2, QueueWord
<1>6. ASSUME NEW e \in Devices, PushTo(c, e) \/ PushFails(c, e) PROVE WordInv'
  <2>1. worker.pc = "push" /\ worker'.pc = "push" /\ worker'.todo = worker.todo \ {e}
    BY <1>2, <1>6 DEF PushTo, PushFails, Reached, WorkerRecords
  <2>2. \A d \in registered \ {e} : Reaches(c, d) => Reaches(c, d)'
    BY <1>1, <1>3, <2>1 DEF Reaches
  <2>3. CASE ~NamesStage(jobs[c].event)
    <3>1. told' = told
      BY <1>6, <2>3 DEF PushTo, PushFails, Deliver, pushVars
    <3>2. \A d : ~Reaches(c, d)
      BY <2>3 DEF Reaches, Word
    <3> QED BY <1>1, <1>3, <1>4, <3>1, <3>2, QueueWord
  <2>4. CASE NamesStage(jobs[c].event)
    <3>1. PushTo(c, e)
      BY <1>6, <2>4 DEF PushFails
    <3>2. told'[e] = jobs[c].stage /\ \A d \in Devices \ {e} : told'[d] = told[d]
      BY <1>2, <2>4, <3>1 DEF PushTo, Deliver
    <3>3. Word(c)
      BY <1>0, <2>4 DEF Word, Unsettled
    <3>4. LastWord(c) \/ \E q \in Requests \ {c} : Word(q)
      BY <3>3 DEF LastWord
    <3>5. \A q \in Requests \ {c} : Word(q) => Reaches(q, e)'
      BY <1>0, <1>1, <1>3 DEF Reaches
    <3>6. \A p \in Requests : (Herald(p)' <=> Herald(p)) /\ Announced(p)' = Announced(p)
      BY <1>1 DEF Herald, Announced
    <3>7. ASSUME ~moved' PROVE Words'
      <4>1. Words
        BY <1>1, <3>7 DEF WordInv
      <4>2. ASSUME \A p \in Requests : ~Herald(p), NEW d \in registered
            PROVE  told'[d] = row.stage \/ \E p \in Requests : Reaches(p, d)'
        <5>1. CASE d = e
          BY <3>2, <3>4, <3>5, <4>1, <4>2, <5>1 DEF Words
        <5>2. CASE d # e
          <6>1. told'[d] = told[d] /\ (told[d] = row.stage \/ \E p \in Requests : Reaches(p, d))
            BY <1>0, <3>2, <4>1, <4>2, <5>2 DEF Words, TypeOK
          <6> QED BY <1>4, <2>2, <5>2, <6>1
        <5> QED BY <5>1, <5>2
      <4> QED BY <1>1, <1>3, <3>6, <4>1, <4>2 DEF Words
    <3>8. OneHerald'
      BY <1>1 DEF WordInv, OneHerald, Herald
    <3> QED BY <1>3, <3>7, <3>8 DEF WordInv
  <2> QED BY <2>3, <2>4
<1> QED BY <1>5, <1>6

\* A notification about the stage is added after all the others, and is the only one to be
\* put off.
LEMMA AddJobWord ==
    ASSUME NightInv, WordInv, NEW c \in Requests, ~excused', AddJob(c)
    PROVE  WordInv'
<1> DEFINE delay == Delay(req[c].event)
           j == [state |-> IF delay > 0 THEN "delayed" ELSE "waiting", made |-> 0, event |-> req[c].event,
                 stage |-> Merged(req[c].input, req[c].before).stage, at |-> now, due |-> now + delay]
<1>0. /\ TypeOK /\ jobs[c].state = "none" /\ wait \in Seq(Requests) /\ c \notin ToSet(wait)
      /\ req \in [Requests -> RequestRecords]
  BY DEF NightInv, NoJobYet, Listed, TypeOK, RequestType, RequestRecords, JobType, AddJob
<1>1. /\ jobs' = [jobs EXCEPT ![c] = j] /\ UNCHANGED <<row, moved, worker, registered, told>>
      /\ wait' = IF delay > 0 THEN wait ELSE Append(wait, c)
      /\ req' = [req EXCEPT ![c] = Ended("done")] /\ req[c].pc = "adding"
  BY DEF AddJob, rowVars, pushVars
<1>2. /\ j.state = IF delay > 0 THEN "delayed" ELSE "waiting"
      /\ j.event = req[c].event /\ j.stage = Announced(c)
  BY DEF Announced
<1> HIDE DEF j, delay
<1>3. jobs'[c] = j /\ \A p \in Requests \ {c} : jobs'[p] = jobs[p]
  BY <1>0, <1>1, OtherJobs
<1>4. req'[c].pc = "done" /\ \A p \in Requests \ {c} : req'[p] = req[p]
  BY <1>0, <1>1, RecordTypes
<1>5. Herald(c) <=> NamesStage(req[c].event)
  BY <1>1 DEF Herald
<1>6. ~Herald(c)' /\ \A p \in Requests \ {c} : (Herald(p)' <=> Herald(p)) /\ Announced(p)' = Announced(p)
  BY <1>4 DEF Herald, Announced
<1>7. ~Word(c) /\ (Word(c)' <=> Herald(c)) /\ \A p \in Requests \ {c} : Word(p)' <=> Word(p)
  BY <1>0, <1>2, <1>3, <1>5 DEF Word, Unsettled
<1>8. Herald(c) => \A p \in Requests \ {c} : Word(p) => ~PutOff(p)
  <2>1. Herald(c) => ~StageJobIn({"delayed", "stalled"}, c)
    BY <1>5 DEF AddJob
  <2> QED BY <2>1 DEF StageJobIn, Word, PutOff
<1>9. OneHerald'
  BY <1>4, <1>6 DEF WordInv, OneHerald
<1>10. OnePutOff'
  <2> SUFFICES ASSUME NEW p \in Requests, NEW q \in Requests, Word(p)', Word(q)', p # q,
                      jobs'[p].state = "stalled" \/ (PutOff(p)' /\ PutOff(q)')
               PROVE  FALSE
    BY DEF OnePutOff
  <2>1. CASE p # c /\ q # c
    BY <1>3, <1>7, <2>1 DEF WordInv, OnePutOff, PutOff
  <2>2. CASE p = c
    BY <1>2, <1>3, <1>7, <1>8, <2>2 DEF PutOff
  <2>3. CASE q = c
    BY <1>3, <1>7, <1>8, <2>3 DEF PutOff
  <2> QED BY <2>1, <2>2, <2>3
<1>11. ASSUME NEW p \in Requests \ {c}, NEW q \in Requests \ {c, p}, Before(q, p)' PROVE Before(q, p)
  <2>1. jobs'[p] = jobs[p] /\ jobs'[q] = jobs[q]
    BY <1>3
  <2>2. Ahead(wait', q, p) => Ahead(wait, q, p)
    BY <1>0, <1>1, AheadAppend
  <2> QED BY <1>11, <2>1, <2>2 DEF Before, PutOff
<1>12. ASSUME NEW p \in Requests \ {c}, Herald(c), LastWord(p)' PROVE FALSE
  <2>1. Word(p) /\ ~PutOff(p) /\ Before(c, p)' /\ jobs'[p] = jobs[p]
    BY <1>3, <1>7, <1>8, <1>12 DEF LastWord
  <2>2. jobs'[c].state \in {"delayed", "waiting"} /\ (jobs'[c].state = "waiting" => wait' = Append(wait, c))
    BY <1>1, <1>2, <1>3
  <2>3. ~PutOff(p)' /\ jobs'[c].state = "waiting" /\ Ahead(wait', c, p)
    BY <2>1, <2>2 DEF Before, PutOff
  <2>4. wait' = Append(wait, c) /\ Ahead(Append(wait, c), c, p)
    BY <2>2, <2>3
  <2>5. ~Ahead(Append(wait, c), c, p)
    BY <1>0, AheadAppend
  <2> QED BY <2>4, <2>5
<1>13. ASSUME ~moved' PROVE Words'
  <2>1. Words
    BY <1>1, <1>13 DEF WordInv
  <2>2. \A p \in Requests : req'[p].pc = "read" => req'[p].before.stage = row.stage
    BY <1>4, <2>1 DEF Words
  <2>3. \A p \in Requests : Herald(p)' => Announced(p)' = row.stage
    BY <1>6, <2>1 DEF Words
  <2>4. ASSUME \A p \in Requests : ~Herald(p)'
        PROVE  /\ \A p \in Requests : LastWord(p)' => jobs'[p].stage = row.stage
               /\ \A d \in registered : told[d] = row.stage \/ \E p \in Requests : Reaches(p, d)'
    <3>1. CASE Herald(c)
      <4>1. j.stage = row.stage
        BY <1>2, <2>1, <3>1 DEF Words
      <4>2. \A p \in Requests : LastWord(p)' => jobs'[p].stage = row.stage
        BY <1>3, <1>12, <3>1, <4>1
      <4>3. \A d : Reaches(c, d)'
        BY <1>2, <1>3, <1>7, <3>1 DEF Reaches
      <4> QED BY <4>2, <4>3
    <3>2. CASE ~Herald(c)
      <4>1. \A p \in Requests : ~Herald(p)
        BY <1>6, <2>4, <3>2
      <4>2. \A p \in Requests : LastWord(p)' => p # c /\ LastWord(p)
        BY <1>7, <1>11, <3>2 DEF LastWord
      <4>3. \A p \in Requests, d \in registered : Reaches(p, d) => Reaches(p, d)'
        BY <1>1, <1>3, <1>7 DEF Reaches
      <4> QED BY <1>3, <2>1, <4>1, <4>2, <4>3 DEF Words
    <3> QED BY <3>1, <3>2
  <2> QED BY <1>1, <2>2, <2>3, <2>4 DEF Words
<1> QED BY <1>9, <1>10, <1>13 DEF WordInv

\* A restart that loses nothing finds no request with something to tell; the job it stalls, if
\* it is about the stage, is the only one.
LEMMA RestartWord ==
    ASSUME NightInv, WordInv, ~excused', Restart PROVE WordInv'
<1>0. /\ TypeOK /\ UNCHANGED <<row, moved, wait, registered, told>>
      /\ \A p \in Requests : jobs'[p] = AfterRestart(p)
  BY DEF NightInv, Restart, rowVars, pushVars
<1>1. \A p \in Requests : /\ jobs'[p].event = jobs[p].event /\ jobs'[p].stage = jobs[p].stage
                          /\ jobs'[p].state = IF Current(p) THEN "stalled" ELSE jobs[p].state
  BY <1>0, Counts DEF AfterRestart, JobRecords
<1>2. \A p \in Requests : req'[p].pc \in {"idle", "done", "failed"} /\ ~Herald(p)
  BY RecordTypes DEF Restart, Herald
<1>3. \A p \in Requests : ~Herald(p)' /\ req'[p].pc \notin {"read", "committed"}
  BY <1>2 DEF Herald
<1>4. \A p \in Requests : Word(p)' <=> Word(p)
  BY <1>1 DEF Word, Unsettled, Current
<1>5. ASSUME NEW p \in Requests, Current(p), Word(p), NEW q \in Requests \ {p} PROVE ~Word(q)
  <2>1. ~StageJobIn(Unsettled, p)
    BY <1>5 DEF Restart, Word
  <2> QED BY <2>1 DEF StageJobIn, Word
<1>6. OnePutOff'
  BY <1>1, <1>4, <1>5 DEF WordInv, OnePutOff, PutOff
<1>7. \A p \in Requests : LastWord(p)' => LastWord(p)
  <2> SUFFICES ASSUME NEW p \in Requests, LastWord(p)', NEW q \in Requests \ {p}, Word(q) PROVE Before(q, p)
    BY <1>4 DEF LastWord
  <2>1. Word(p) /\ Before(q, p)'
    BY <1>4 DEF LastWord
  <2>2. ~Current(p) /\ ~Current(q)
    BY <1>5, <2>1
  <2>3. jobs'[p].state = jobs[p].state /\ jobs'[q].state = jobs[q].state
    BY <1>1, <2>2
  <2> QED BY <1>0, <2>1, <2>3 DEF Before, PutOff
<1>8. \A p \in Requests, d \in registered : Reaches(p, d) => Reaches(p, d)'
  BY <1>1, <1>4 DEF Reaches, Current
<1>9. ~moved' => Words'
  BY <1>0, <1>1, <1>2, <1>3, <1>7, <1>8 DEF WordInv, Words
<1> QED BY <1>3, <1>6, <1>9 DEF WordInv, OneHerald

LEMMA NextWord == NightInv /\ GotInv /\ (~excused => WordInv) /\ [Next]_vars => (~excused => WordInv)'
<1> SUFFICES ASSUME NightInv, GotInv, ~excused => WordInv, [Next]_vars, ~excused' PROVE WordInv'
  OBVIOUS
<1>1. WordInv
  BY ExcusedStays
<1> QED BY <1>1, WorldWord, RequestWord, CommitWord, AddJobWord, TakeJobWord, WorkWord, EndJobWord, BackWord,
           RestartWord DEF Next, RequestStep, WorkerStep

LEMMA InitWord == Init => WordInv
<1> SUFFICES ASSUME Init PROVE WordInv
  OBVIOUS
<1>1. \A p \in Requests : jobs[p].state = "none" /\ req[p].pc = "idle"
  BY RecordTypes DEF Init
<1>2. \A p \in Requests : ~Word(p) /\ ~Herald(p)
  BY <1>1 DEF Word, Herald, Unsettled
<1>3. \A d \in registered : told[d] = row.stage
  BY DEF Init
<1> QED BY <1>1, <1>2, <1>3 DEF WordInv, OneHerald, OnePutOff, Words, LastWord

\* What each device was told last is the order's stage once nothing is under way, for any
\* number of updates, replies, devices, stages and nights: while no sync moved the order and
\* none of the listed things happened to a notification about the stage.
THEOREM LastWordCounts == Spec => []LastWordIsCurrent
<1>1. (~excused => WordInv) => LastWordIsCurrent
  <2> SUFFICES ASSUME ~excused => WordInv, Quiet, ~excused, ~moved, NEW d \in registered
               PROVE  told[d] = row.stage
    BY DEF LastWordIsCurrent
  <2>1. \A p \in Requests : ~Herald(p) /\ ~Word(p)
    BY DEF Quiet, Herald, Word
  <2> QED BY <2>1 DEF WordInv, Words, Reaches
<1>2. Init => (~excused => WordInv)
  BY InitWord
<1>3. Spec => [](NightInv /\ GotInv)
  BY InitGot, NextGot, AlwaysNightInv, PTL DEF Spec
<1> QED BY <1>1, <1>2, <1>3, NextWord, PTL DEF Spec
=============================================================================
