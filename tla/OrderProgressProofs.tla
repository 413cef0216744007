------------------------- MODULE OrderProgressProofs -------------------------
(***************************************************************************)
(* Type correctness of OrderProgress, and that the order and its lead      *)
(* agree in the end but for five reasons; then that the pages of the       *)
(* orders leave OrderProgress as it is: they implement it, so its theorems *)
(* hold behind them, and the properties of the pages themselves.  For any  *)
(* numbers of orders, administrators' requests, syncs and attempts, and    *)
(* any size of a page.                                                     *)
(***************************************************************************)
EXTENDS OrderPages, SequenceTheorems, TLAPS

RequestRecords == [pc : {"idle", "read", "begun", "committed", "queued", "done", "failed"},
                   input : Inputs, before : Rows, at : Nat]
JobRecords  == [state : JobStates, made : Nat, data : Inputs]
SyncRecords == [pc : {"idle", "write"}, snap : Leads \cup {NoInput}]

-----------------------------------------------------------------------------
(* The list of waiting pushes: no push is on it twice *)

\* A push is added at the end.
LEMMA AppendWaiting ==
    ASSUME NEW S, NEW q \in Seq(S), NEW r \in S, IsInjective(q), r \notin ToSet(q)
    PROVE  /\ Append(q, r) \in Seq(S)
           /\ IsInjective(Append(q, r))
           /\ ToSet(Append(q, r)) = ToSet(q) \cup {r}
<1> DEFINE a == Append(q, r)
<1>1. /\ a \in Seq(S)
      /\ Len(q) \in Nat /\ DOMAIN q = 1 .. Len(q) /\ DOMAIN a = 1 .. Len(q) + 1
      /\ \A i \in 1 .. Len(q) : a[i] = q[i]
      /\ a[Len(q) + 1] = r
  BY AppendProperties, LenProperties
<1> HIDE DEF a
<1>2. \A i \in 1 .. Len(q) : q[i] # r
  BY <1>1 DEF ToSet
<1>3. IsInjective(a)
  <2> SUFFICES ASSUME NEW i \in 1 .. Len(q) + 1, NEW j \in 1 .. Len(q) + 1, a[i] = a[j] PROVE i = j
    BY <1>1 DEF IsInjective
  <2>1. (i = Len(q) + 1 \/ i \in 1 .. Len(q)) /\ (j = Len(q) + 1 \/ j \in 1 .. Len(q))
    BY <1>1
  <2> QED BY <1>1, <1>2, <2>1 DEF IsInjective
<1>4. ToSet(a) \subseteq ToSet(q) \cup {r}
  BY <1>1 DEF ToSet
<1>5. ToSet(q) \cup {r} \subseteq ToSet(a)
  BY <1>1 DEF ToSet
<1> QED BY <1>1, <1>3, <1>4, <1>5 DEF a

\* The worker takes the first.
LEMMA TakeWaiting ==
    ASSUME NEW S, NEW q \in Seq(S), q # <<>>, IsInjective(q)
    PROVE  /\ Head(q) \in ToSet(q) /\ Head(q) \in S
           /\ Tail(q) \in Seq(S)
           /\ IsInjective(Tail(q))
           /\ ToSet(Tail(q)) = ToSet(q) \ {Head(q)}
<1>1. Len(q) \in Nat \ {0} /\ DOMAIN q = 1 .. Len(q) /\ Head(q) = q[1]
  BY EmptySeq, LenProperties
<1>2. /\ Tail(q) \in Seq(S) /\ DOMAIN Tail(q) = 1 .. Len(q) - 1
      /\ \A i \in 1 .. Len(q) - 1 : Tail(q)[i] = q[i + 1]
  BY <1>1
<1>3. Head(q) \in ToSet(q) /\ Head(q) \in S
  BY <1>1 DEF ToSet
<1>4. IsInjective(Tail(q))
  BY <1>1, <1>2 DEF IsInjective
<1>5. ToSet(Tail(q)) \subseteq ToSet(q) \ {Head(q)}
  BY <1>1, <1>2 DEF ToSet, IsInjective
<1>6. ASSUME NEW x \in ToSet(q) \ {Head(q)} PROVE x \in ToSet(Tail(q))
  <2>1. PICK i \in 2 .. Len(q) : x = q[i]
    BY <1>1 DEF ToSet
  <2>2. i - 1 \in DOMAIN Tail(q) /\ Tail(q)[i - 1] = x
    BY <1>1, <1>2, <2>1
  <2> QED BY <2>2 DEF ToSet
<1> QED BY <1>2, <1>3, <1>4, <1>5, <1>6

-----------------------------------------------------------------------------
(* What the mapper's operators return *)

LEMMA NewRowType == NewRow \in Rows /\ NoInput \in Inputs
BY ConstantsAssumption DEF NewRow, Rows, NoInput, Inputs, ConstantsAssumption

LEMMA IdleTypes == IdleRequest \in RequestRecords /\ NoJob \in JobRecords /\ IdleSync \in SyncRecords
BY NewRowType DEF IdleRequest, RequestRecords, NoJob, JobRecords, JobStates, IdleSync, SyncRecords

\* An update gives a row, and one that names nothing gives the row itself.
LEMMA MergedType ==
    ASSUME NEW row \in Rows, NEW input \in Inputs
    PROVE  Merged(input, row) \in Rows /\ Merged(NoInput, row) = row
BY ConstantsAssumption DEF Merged, Given, Rows, Inputs, NoInput, ConstantsAssumption

LEMMA ClampType == ASSUME NEW p \in Int PROVE Clamp(p) \in 0 .. 100
BY DEF Clamp

\* A sync gives a row, whatever number the lead holds, and syncing it again
\* changes nothing.
LEMMA SyncedRowType ==
    ASSUME NEW row \in Rows, NEW l \in Leads, LeadStage(l) # Invalid
    PROVE  SyncedRow(l, row) \in Rows /\ SyncedRow(l, SyncedRow(l, row)) = SyncedRow(l, row)
<1>1. LeadStage(l) \in Stages \cup {Absent}
  BY DEF LeadStage, Given, Leads
<1>2. Given(LeadStage(l), row.stage) \in Stages
  BY <1>1 DEF Given, Rows
<1>3. l.progress # Absent => Clamp(l.progress) \in 0 .. 100
  BY ClampType DEF Leads
<1>4. SyncedRow(l, row) \in Rows
  BY <1>2, <1>3 DEF SyncedRow, Rows
<1> QED BY <1>4 DEF SyncedRow, Given

\* A push gives a lead, and one that names nothing the lead itself.
LEMMA PatchedLeadType ==
    ASSUME NEW l \in Leads, NEW input \in Inputs
    PROVE  PatchedLead(l, input) \in Leads /\ PatchedLead(l, NoInput) = l
<1>1. /\ Given(input.stage, l.stage) \in Stages \cup {Absent, Invalid}
      /\ Given(input.progress, l.progress) \in Int \cup {Absent}
  <2>1. l.stage \in Stages \cup {Absent, Invalid} /\ l.progress \in Int \cup {Absent}
    BY DEF Leads
  <2>2. input.stage \in Stages \cup {Absent} /\ input.progress \in Percents \cup {Absent}
    BY DEF Inputs
  <2>3. Percents \subseteq Int
    BY ConstantsAssumption DEF ConstantsAssumption
  <2> QED BY <2>1, <2>2, <2>3 DEF Given
<1>2. PatchedLead(l, input) \in Leads
  BY <1>1 DEF PatchedLead, Leads
<1>3. Given(NoInput.stage, l.stage) = l.stage /\ Given(NoInput.progress, l.progress) = l.progress
  BY DEF Given, NoInput
<1>4. PatchedLead(l, NoInput) = l
  BY <1>3 DEF PatchedLead, Leads
<1> QED BY <1>2, <1>4

-----------------------------------------------------------------------------
(* Every step keeps the types *)

LEMMA Frames ==
    /\ CrmType /\ UNCHANGED crmVars => CrmType'
    /\ RowType /\ UNCHANGED rowVars => RowType'
    /\ RequestType /\ UNCHANGED req => RequestType'
    /\ JobType /\ AttemptsLeft /\ UNCHANGED jobs => JobType' /\ AttemptsLeft'
    /\ JobAfterQueueing /\ UNCHANGED <<req, jobs>> => JobAfterQueueing'
    /\ WaitingListed /\ UNCHANGED queueVars => WaitingListed'
    /\ SyncType /\ UNCHANGED sync => SyncType'
BY DEF CrmType, RowType, RequestType, JobType, AttemptsLeft, JobAfterQueueing, WaitingListed,
       SyncType, crmVars, rowVars, queueVars

LEMMA InitType == Init => TypeOK
<1> SUFFICES ASSUME Init PROVE TypeOK
  OBVIOUS
<1>1. CrmType /\ RowType
  BY NewRowType, ConstantsAssumption DEF Init, CrmType, RowType, Leads, ConstantsAssumption
<1>2. RequestType /\ JobType /\ SyncType
  BY IdleTypes DEF Init, RequestType, JobType, SyncType, RequestRecords, JobRecords, SyncRecords, IdleSync
<1>3. AttemptsLeft /\ JobAfterQueueing
  BY ConstantsAssumption DEF Init, AttemptsLeft, JobAfterQueueing, NoJob, ConstantsAssumption
<1>4. WaitingListed
  BY DEF Init, WaitingListed, NoJob, IsInjective, ToSet
<1> QED BY <1>1, <1>2, <1>3, <1>4, NewRowType DEF TypeOK, Init

LEMMA EditLeadType ==
    ASSUME TypeOK, NEW l \in ManagerLeads, EditLead(l) PROVE TypeOK'
<1>1. CrmType'
  BY ConstantsAssumption DEF TypeOK, CrmType, EditLead, Leads, ConstantsAssumption
<1> QED BY <1>1, Frames, NewRowType DEF TypeOK, EditLead, queueVars

LEMMA ReadOrderType ==
    ASSUME TypeOK, NEW r \in Requests, ReadOrder(r) PROVE TypeOK'
<1>1. RequestType'
  <2>1. PICK input \in Inputs :
          req' = [req EXCEPT ![r] = [IdleRequest EXCEPT !.pc = "read", !.input = input,
                                                        !.before = order]]
    BY DEF ReadOrder
  <2> DEFINE x == [IdleRequest EXCEPT !.pc = "read", !.input = input, !.before = order]
  <2>3. x \in RequestRecords
    BY IdleTypes DEF IdleRequest, RequestRecords, TypeOK, RowType
  <2>4. req \in [Requests -> RequestRecords] /\ req' = [req EXCEPT ![r] = x]
    BY <2>1 DEF TypeOK, RequestType, RequestRecords
  <2> HIDE DEF x
  <2> QED BY <2>3, <2>4 DEF RequestType, RequestRecords
<1>2. JobAfterQueueing'
  BY DEF TypeOK, RequestType, JobAfterQueueing, ReadOrder, queueVars
<1> QED BY <1>1, <1>2, Frames DEF TypeOK, ReadOrder, queueVars

LEMMA BeginUpdateType ==
    ASSUME TypeOK, NEW r \in Requests, BeginUpdate(r) PROVE TypeOK'
<1>1. begun' \in Nat
  BY DEF TypeOK, RowType, BeginUpdate
<1>2. RowType' /\ RequestType'
  BY <1>1 DEF TypeOK, RowType, RequestType, BeginUpdate
<1>3. JobAfterQueueing'
  BY DEF TypeOK, RequestType, JobAfterQueueing, BeginUpdate, queueVars
<1> QED BY <1>2, <1>3, Frames DEF TypeOK, BeginUpdate, queueVars

LEMMA CommitUpdateType ==
    ASSUME TypeOK, NEW r \in Requests, CommitUpdate(r) PROVE TypeOK'
<1>1. req[r].input \in Inputs /\ req[r].before \in Rows /\ req[r].at \in Nat
  BY DEF TypeOK, RequestType
<1>2. RowType'
  <2>1. UpdatedRow(r) \in Rows /\ HistoryRow(r) \in Rows
    BY <1>1, MergedType DEF TypeOK, RowType, UpdatedRow, HistoryRow
  <2> QED BY <1>1, <2>1 DEF TypeOK, RowType, CommitUpdate
<1>3. RequestType'
  BY DEF TypeOK, RequestType, CommitUpdate
<1>4. JobAfterQueueing'
  BY DEF TypeOK, RequestType, JobAfterQueueing, CommitUpdate, queueVars
<1>5. drift' \in BOOLEAN
  BY <1>1 DEF TypeOK, CommitUpdate
<1> QED BY <1>2, <1>3, <1>4, <1>5, Frames DEF TypeOK, CommitUpdate, queueVars

LEMMA EnqueuePushType ==
    ASSUME TypeOK, NEW r \in Requests, EnqueuePush(r) PROVE TypeOK'
<1>1. req[r].input \in Inputs /\ jobs[r].state = "none"
  BY DEF TypeOK, RequestType, JobAfterQueueing, EnqueuePush
<1> DEFINE j == [NoJob EXCEPT !.state = "waiting", !.data = req[r].input]
<1>2. j \in JobRecords /\ j.state = "waiting" /\ j.made = 0
  BY <1>1, IdleTypes DEF NoJob, JobRecords, JobStates
<1>3. jobs' = [jobs EXCEPT ![r] = j]
  BY DEF EnqueuePush
<1> HIDE DEF j
<1>4. JobType' /\ AttemptsLeft'
  BY <1>2, <1>3, ConstantsAssumption DEF TypeOK, JobType, JobRecords, AttemptsLeft, ConstantsAssumption
<1>5. RequestType'
  BY DEF TypeOK, RequestType, EnqueuePush
<1>6. JobAfterQueueing'
  BY <1>3 DEF TypeOK, RequestType, JobType, JobAfterQueueing, EnqueuePush
<1>7. r \notin ToSet(wait)
  BY <1>1 DEF TypeOK, WaitingListed
<1>8. WaitingListed'
  BY <1>2, <1>3, <1>7, AppendWaiting DEF TypeOK, WaitingListed, JobType, EnqueuePush
<1> QED BY <1>4, <1>5, <1>6, <1>8, Frames DEF TypeOK, EnqueuePush

LEMMA DropPushType ==
    ASSUME TypeOK, NEW r \in Requests, DropPush(r) PROVE TypeOK'
<1>1. jobs[r].state = "none"
  BY DEF TypeOK, JobAfterQueueing, DropPush
<1>2. JobType' /\ AttemptsLeft'
  BY DEF TypeOK, JobType, JobStates, AttemptsLeft, DropPush
<1>3. RequestType'
  BY DEF TypeOK, RequestType, DropPush
<1>4. JobAfterQueueing'
  BY DEF TypeOK, RequestType, JobType, JobAfterQueueing, DropPush
<1>5. WaitingListed'
  BY <1>1 DEF TypeOK, JobType, WaitingListed, DropPush
<1> QED BY <1>2, <1>3, <1>4, <1>5, Frames DEF TypeOK, DropPush

LEMMA EndUpdateType ==
    ASSUME TypeOK, NEW r \in Requests, EmitProgress(r) \/ UpdateThrows(r) PROVE TypeOK'
<1>1. RequestType'
  <2>1. \A pc \in {"done", "failed"} :
          /\ [IdleRequest EXCEPT !.pc = pc] \in RequestRecords
          /\ [IdleRequest EXCEPT !.pc = pc].pc = pc
    BY IdleTypes DEF IdleRequest, RequestRecords
  <2> QED BY <2>1 DEF TypeOK, RequestType, RequestRecords, EmitProgress, UpdateThrows
<1>2. JobAfterQueueing'
  BY DEF TypeOK, RequestType, JobAfterQueueing, EmitProgress, UpdateThrows, IdleRequest, queueVars
<1>3. excused' \in BOOLEAN
  BY DEF TypeOK, EmitProgress, UpdateThrows
<1> QED BY <1>1, <1>2, <1>3, Frames DEF TypeOK, EmitProgress, UpdateThrows, queueVars

LEMMA TakePushType ==
    ASSUME TypeOK, TakePush PROVE TypeOK'
<1>1. Head(wait) \in Requests /\ jobs[Head(wait)].state = "waiting"
  BY TakeWaiting DEF TypeOK, WaitingListed, TakePush
<1>2. JobType' /\ AttemptsLeft'
  <2>1. JobType'
    BY <1>1 DEF TypeOK, JobType, JobStates, TakePush
  <2>2. \A r \in Requests : jobs[r].made \in Nat
    BY DEF TypeOK, JobType
  <2>3. /\ jobs'[Head(wait)].state = "active" /\ jobs'[Head(wait)].made = jobs[Head(wait)].made + 1
        /\ \A r \in Requests : r # Head(wait) => jobs'[r] = jobs[r]
    BY <1>1 DEF TypeOK, JobType, TakePush
  <2>4. jobs[Head(wait)].made < MaxAttempts
    BY <1>1 DEF TypeOK, AttemptsLeft
  <2>5. AttemptsLeft'
    BY <1>1, <2>2, <2>3, <2>4, ConstantsAssumption DEF TypeOK, AttemptsLeft, ConstantsAssumption
  <2> QED BY <2>1, <2>5
<1>3. JobAfterQueueing'
  BY <1>1 DEF TypeOK, JobType, JobAfterQueueing, TakePush
<1>4. WaitingListed'
  BY <1>1, TakeWaiting DEF TypeOK, JobType, WaitingListed, TakePush
<1> QED BY <1>2, <1>3, <1>4, Frames DEF TypeOK, TakePush

LEMMA PushLeadType ==
    ASSUME TypeOK, NEW r \in Requests, PushLead(r) PROVE TypeOK'
<1>1. CrmType' /\ dirty' \in BOOLEAN
  BY PatchedLeadType DEF TypeOK, CrmType, JobType, PushLead, Patch
<1> DEFINE j == [NoJob EXCEPT !.state = "completed"]
<1>2. j \in JobRecords /\ j.state = "completed" /\ j.made = 0
  BY IdleTypes DEF NoJob, JobRecords, JobStates
<1>3. jobs' = [jobs EXCEPT ![r] = j] /\ jobs[r].state = "active"
  BY DEF PushLead
<1> HIDE DEF j
<1>4. JobType' /\ AttemptsLeft'
  BY <1>2, <1>3, ConstantsAssumption DEF TypeOK, JobType, JobRecords, AttemptsLeft, ConstantsAssumption
<1>5. JobAfterQueueing'
  BY <1>2, <1>3 DEF TypeOK, JobType, JobAfterQueueing, PushLead
<1>6. WaitingListed'
  BY <1>2, <1>3 DEF TypeOK, JobType, WaitingListed, PushLead
<1> QED BY <1>1, <1>4, <1>5, <1>6, Frames DEF TypeOK, PushLead

LEMMA PushFailsType ==
    ASSUME TypeOK, NEW r \in Requests, PushFails(r) PROVE TypeOK'
<1>1. CrmType' /\ dirty' \in BOOLEAN /\ excused' \in BOOLEAN
  BY PatchedLeadType DEF TypeOK, CrmType, JobType, PushFails, Patch
<1> DEFINE j == AfterFailure(r)
<1>2. jobs[r] \in JobRecords /\ jobs[r].made <= MaxAttempts /\ jobs[r].state = "active"
  BY DEF TypeOK, JobType, JobRecords, AttemptsLeft, PushFails
<1>3. /\ j \in JobRecords /\ j.state \in {"delayed", "failed"}
      /\ j.made <= MaxAttempts /\ (j.state = "delayed" => j.made < MaxAttempts)
  BY <1>2, IdleTypes, ConstantsAssumption
  DEF AfterFailure, NoJob, JobRecords, JobStates, ConstantsAssumption
<1>4. jobs' = [jobs EXCEPT ![r] = j]
  BY DEF PushFails
<1> HIDE DEF j
<1>5. JobType' /\ AttemptsLeft'
  BY <1>3, <1>4 DEF TypeOK, JobType, JobRecords, AttemptsLeft
<1>6. JobAfterQueueing'
  BY <1>2, <1>4 DEF TypeOK, JobType, JobAfterQueueing, PushFails
<1>7. WaitingListed'
  BY <1>2, <1>3, <1>4 DEF TypeOK, JobType, WaitingListed, PushFails
<1> QED BY <1>1, <1>5, <1>6, <1>7, Frames DEF TypeOK, PushFails

LEMMA RetryPushType ==
    ASSUME TypeOK, NEW r \in Requests, RetryPush(r) PROVE TypeOK'
<1>1. JobType' /\ AttemptsLeft'
  BY DEF TypeOK, JobType, JobStates, AttemptsLeft, RetryPush
<1>2. JobAfterQueueing'
  BY DEF TypeOK, JobType, JobAfterQueueing, RetryPush
<1>3. r \notin ToSet(wait)
  BY DEF TypeOK, WaitingListed, RetryPush
<1>4. WaitingListed'
  BY <1>3, AppendWaiting DEF TypeOK, JobType, WaitingListed, RetryPush
<1> QED BY <1>1, <1>2, <1>4, Frames DEF TypeOK, RetryPush

LEMMA SyncReadsType ==
    ASSUME TypeOK, NEW s \in Syncers, SyncReads(s) PROVE TypeOK'
<1>1. SyncType'
  BY DEF TypeOK, CrmType, SyncType, SyncReads
<1> QED BY <1>1, Frames DEF TypeOK, SyncReads, queueVars

LEMMA SyncStepType ==
    ASSUME TypeOK, NEW s \in Syncers, SyncStep(s) \/ SyncThrows(s) PROVE TypeOK'
<1>1. SyncType'
  BY IdleTypes DEF TypeOK, SyncType, SyncStep, SyncWrites, SyncRefuses, SyncThrows, SyncRecords, IdleSync
<1>2. RowType' /\ drift' \in BOOLEAN /\ dirty' \in BOOLEAN
  BY SyncedRowType
  DEF TypeOK, SyncType, RowType, SyncStep, SyncWrites, SyncRefuses, SyncThrows, rowVars
<1> QED BY <1>1, <1>2, Frames DEF TypeOK, SyncStep, SyncWrites, SyncRefuses, SyncThrows, queueVars

LEMMA NextType == TypeOK /\ [Next]_vars => TypeOK'
<1> SUFFICES ASSUME TypeOK, [Next]_vars PROVE TypeOK'
  OBVIOUS
<1>1. ASSUME UNCHANGED vars PROVE TypeOK'
  BY <1>1, Frames DEF TypeOK, vars, crmVars, rowVars, queueVars
<1>2. ASSUME Next PROVE TypeOK'
  BY <1>2, EditLeadType, ReadOrderType, BeginUpdateType, CommitUpdateType, EnqueuePushType, DropPushType,
     EndUpdateType, TakePushType, PushLeadType, PushFailsType, RetryPushType, SyncReadsType,
     SyncStepType
  DEF Next, UpdateStep, PushStep
<1> QED BY <1>1, <1>2

\* Type correctness, the jobs' attempts and the list of waiting jobs included, for any
\* number of requests and syncs: services and processors never leave their types.
THEOREM TypeCorrect == Spec => []TypeOK
<1>1. Init => TypeOK
  BY InitType
<1>2. TypeOK /\ [Next]_vars => TypeOK'
  BY NextType
<1> QED BY <1>1, <1>2, PTL DEF Spec

-----------------------------------------------------------------------------
(* The two copies agree in the end.  CopiesAgree speaks of the quiet states *)
(* only; in the others, what is still under way explains a difference.     *)

\* A push that has a field to send and will be sent.
PushAhead(r) ==
    \/ req[r].pc = "committed" /\ req[r].input # NoInput
    \/ jobs[r].state \in {"waiting", "active", "delayed"} /\ jobs[r].data # NoInput

Busy(s) == sync[s].pc = "write"

OneSync == \A s, t \in Syncers : Busy(s) /\ Busy(t) => s = t

SnapIsFresh == ~dirty => \A s \in Syncers : Busy(s) => sync[s].snap = lead

Explained == Agrees \/ dirty \/ \E r \in Requests : PushAhead(r)

AgreeInv == TypeOK /\ (~excused => OneSync /\ SnapIsFresh /\ Explained)

LEMMA AgreeFrames ==
    /\ Agrees /\ UNCHANGED <<lead, order>> => Agrees'
    /\ OneSync /\ UNCHANGED sync => OneSync'
    /\ SnapIsFresh /\ UNCHANGED <<dirty, sync, lead>> => SnapIsFresh'
    /\ \A r \in Requests : PushAhead(r) /\ UNCHANGED <<req, jobs>> => PushAhead(r)'
    /\ \A s \in Syncers : Busy(s) /\ UNCHANGED sync => Busy(s)'
BY DEF Agrees, OneSync, SnapIsFresh, PushAhead, Busy

LEMMA InitAgree == Init => OneSync /\ SnapIsFresh /\ Explained
<1> SUFFICES ASSUME Init PROVE OneSync /\ SnapIsFresh /\ Explained
  OBVIOUS
<1>1. \A s \in Syncers : ~Busy(s)
  BY DEF Init, Busy, IdleSync
<1>2. SyncedRow(lead, order) = order
  BY DEF Init
<1> QED BY <1>1, <1>2 DEF OneSync, SnapIsFresh, Explained, Agrees

\* Neither a request nor a push touches the syncs: it keeps every explanation it is not
\* itself, and takes its own with it.
LEMMA OthersAhead ==
    ASSUME NEW r \in Requests, NEW q \in Requests \ {r}, TypeOK, PushAhead(q),
           req'[q] = req[q], jobs'[q] = jobs[q]
    PROVE  PushAhead(q)'
BY DEF PushAhead

LEMMA UpdateAgrees ==
    ASSUME AgreeInv, NEW r \in Requests, ReadOrder(r) \/ UpdateStep(r) \/ UpdateThrows(r), ~excused'
    PROVE  OneSync' /\ SnapIsFresh' /\ Explained'
<1>1. ~excused /\ UNCHANGED <<lead, sync, dirty>>
  BY DEF AgreeInv, TypeOK, ReadOrder, UpdateStep, BeginUpdate, CommitUpdate, EnqueuePush, DropPush,
         EmitProgress, UpdateThrows, crmVars
<1>2. \A q \in Requests \ {r} : req'[q] = req[q] /\ jobs'[q] = jobs[q]
  BY DEF AgreeInv, TypeOK, RequestType, JobType, ReadOrder, UpdateStep, BeginUpdate, CommitUpdate,
         EnqueuePush, DropPush, EmitProgress, UpdateThrows, queueVars
<1>3. ASSUME PushAhead(r) PROVE PushAhead(r)'
  <2>1. CASE req[r].pc = "committed" /\ req[r].input # NoInput
    <3>1. EnqueuePush(r)
      BY <1>1, <2>1
      DEF ReadOrder, UpdateStep, BeginUpdate, CommitUpdate, DropPush, EmitProgress, UpdateThrows
    <3>2. jobs'[r].state = "waiting" /\ jobs'[r].data = req[r].input
      BY <3>1 DEF EnqueuePush, AgreeInv, TypeOK, JobType, NoJob
    <3> QED BY <2>1, <3>2 DEF PushAhead
  <2>2. CASE jobs[r].state \in {"waiting", "active", "delayed"} /\ jobs[r].data # NoInput
    <3>1. req[r].pc \notin {"idle", "read", "begun", "committed"}
      BY <2>2 DEF AgreeInv, TypeOK, JobAfterQueueing
    <3>2. UNCHANGED jobs
      BY <3>1 DEF ReadOrder, UpdateStep, BeginUpdate, CommitUpdate, EnqueuePush, DropPush,
                  EmitProgress, UpdateThrows, queueVars
    <3> QED BY <2>2, <3>2 DEF PushAhead
  <2> QED BY <1>3, <2>1, <2>2 DEF PushAhead
<1>4. (\E q \in Requests : PushAhead(q)) => \E q \in Requests : PushAhead(q)'
  <2> SUFFICES ASSUME NEW q \in Requests, PushAhead(q) PROVE PushAhead(q)'
    OBVIOUS
  <2> QED BY <1>2, <1>3, OthersAhead DEF AgreeInv
<1>5. order' = order \/ PushAhead(r)'
  <2>1. CASE CommitUpdate(r)
    <3>1. /\ req'[r].pc = "committed" /\ req'[r].input = req[r].input
          /\ order' = Merged(req[r].input, order) /\ order \in Rows /\ NoInput \in Inputs
      BY <2>1, NewRowType DEF CommitUpdate, UpdatedRow, AgreeInv, TypeOK, RequestType, RowType
    <3>2. req[r].input = NoInput => order' = order
      BY <3>1, MergedType
    <3> QED BY <3>1, <3>2 DEF PushAhead
  <2>2. CASE ~CommitUpdate(r)
    BY <2>2 DEF ReadOrder, UpdateStep, BeginUpdate, EnqueuePush, DropPush, EmitProgress,
                UpdateThrows, rowVars
  <2> QED BY <2>1, <2>2
<1> QED BY <1>1, <1>4, <1>5, AgreeFrames DEF AgreeInv, Explained

LEMMA PushAgrees ==
    ASSUME AgreeInv, NEW r \in Requests, PushStep(r), ~excused'
    PROVE  OneSync' /\ SnapIsFresh' /\ Explained'
<1>1. ~excused /\ UNCHANGED <<order, req, sync>>
  BY DEF AgreeInv, TypeOK, PushStep, PushLead, PushFails, RetryPush, crmVars, rowVars
<1>2. dirty' \/ (UNCHANGED <<lead, dirty>>)
  BY PatchedLeadType, NewRowType
  DEF PushStep, PushLead, PushFails, RetryPush, Patch, crmVars, AgreeInv, TypeOK, CrmType, JobType
<1>3. OneSync' /\ SnapIsFresh'
  BY <1>1, <1>2, AgreeFrames DEF AgreeInv, SnapIsFresh
<1>4. CASE dirty'
  BY <1>3, <1>4 DEF Explained
<1>5. CASE ~dirty'
  <2>1. \A q \in Requests \ {r} : req'[q] = req[q] /\ jobs'[q] = jobs[q]
    BY <1>1 DEF AgreeInv, TypeOK, JobType, PushStep, PushLead, PushFails, RetryPush
  <2>2. ASSUME PushAhead(r) PROVE PushAhead(r)'
    <3>1. CASE req[r].pc = "committed" /\ req[r].input # NoInput
      BY <1>1, <3>1 DEF PushAhead
    <3>2. CASE jobs[r].state \in {"waiting", "active", "delayed"} /\ jobs[r].data # NoInput
      <4>1. CASE RetryPush(r)
        BY <3>2, <4>1 DEF RetryPush, PushAhead, AgreeInv, TypeOK, JobType
      <4>2. CASE PushLead(r)
        BY <1>5, <3>2, <4>2 DEF PushLead, Patch
      <4>3. CASE PushFails(r)
        <5>1. AfterFailure(r).state # "failed"
          BY <4>3 DEF PushFails
        <5>2. jobs'[r] = [jobs[r] EXCEPT !.state = "delayed"]
          BY <4>3, <5>1 DEF PushFails, AfterFailure, NoJob, AgreeInv, TypeOK, JobType
        <5> QED BY <3>2, <5>2 DEF PushAhead, AgreeInv, TypeOK, JobType
      <4> QED BY <4>1, <4>2, <4>3 DEF PushStep
    <3> QED BY <2>2, <3>1, <3>2 DEF PushAhead
  <2>3. (\E q \in Requests : PushAhead(q)) => \E q \in Requests : PushAhead(q)'
    <3> SUFFICES ASSUME NEW q \in Requests, PushAhead(q) PROVE PushAhead(q)'
      OBVIOUS
    <3> QED BY <2>1, <2>2, OthersAhead DEF AgreeInv
  <2> QED BY <1>1, <1>2, <1>3, <1>5, <2>3, AgreeFrames DEF AgreeInv, Explained
<1> QED BY <1>4, <1>5

LEMMA TakePushAgrees ==
    ASSUME AgreeInv, TakePush, ~excused'
    PROVE  OneSync' /\ SnapIsFresh' /\ Explained'
<1>1. ~excused /\ UNCHANGED <<lead, order, req, sync, dirty>>
  BY DEF TakePush, crmVars, rowVars
<1>2. ASSUME NEW q \in Requests, PushAhead(q) PROVE PushAhead(q)'
  <2>1. /\ jobs'[q].data = jobs[q].data
        /\ jobs'[q].state = IF q = Head(wait) THEN "active" ELSE jobs[q].state
    BY DEF TakePush, AgreeInv, TypeOK, JobType
  <2> QED BY <1>1, <1>2, <2>1 DEF PushAhead
<1> QED BY <1>1, <1>2, AgreeFrames DEF AgreeInv, Explained

LEMMA EditLeadAgrees ==
    ASSUME AgreeInv, NEW l \in ManagerLeads, EditLead(l), ~excused'
    PROVE  OneSync' /\ SnapIsFresh' /\ Explained'
BY DEF AgreeInv, EditLead, OneSync, SnapIsFresh, Explained, Busy

\* A sync that reads the lead holds what it is; nothing is explained by it yet.
LEMMA SyncReadsAgrees ==
    ASSUME AgreeInv, NEW s \in Syncers, SyncReads(s), ~excused'
    PROVE  OneSync' /\ SnapIsFresh' /\ Explained'
<1>1. ~excused /\ UNCHANGED <<lead, order, req, jobs, dirty>>
  BY DEF SyncReads, AgreeInv, TypeOK, crmVars, rowVars, queueVars
<1>2. \A t \in Syncers : ~Busy(t)
  BY DEF SyncReads, AgreeInv, TypeOK, Busy
<1>3. \A t \in Syncers : Busy(t)' <=> t = s
  BY <1>2 DEF SyncReads, AgreeInv, TypeOK, SyncType, Busy
<1>4. sync'[s].snap = lead'
  BY DEF SyncReads, AgreeInv, TypeOK, SyncType, crmVars
<1>5. OneSync' /\ SnapIsFresh'
  BY <1>3, <1>4 DEF OneSync, SnapIsFresh
<1> QED BY <1>1, <1>5, AgreeFrames DEF AgreeInv, Explained

\* A sync that ends either has written what the lead is, or leaves row, lead and dirty alone.
LEMMA SyncStepAgrees ==
    ASSUME AgreeInv, NEW s \in Syncers, SyncStep(s) \/ SyncThrows(s), ~excused'
    PROVE  OneSync' /\ SnapIsFresh' /\ Explained'
<1>1. ~excused /\ Busy(s) /\ UNCHANGED <<lead, req, jobs>>
  BY DEF SyncStep, SyncWrites, SyncRefuses, SyncThrows, crmVars, queueVars, Busy
<1>2. \A t \in Syncers : ~Busy(t)'
  BY <1>1 DEF SyncStep, SyncWrites, SyncRefuses, SyncThrows, AgreeInv, TypeOK, SyncType, OneSync,
              Busy, IdleSync
<1>3. OneSync' /\ SnapIsFresh'
  BY <1>2 DEF OneSync, SnapIsFresh
<1>4. CASE SyncWrites(s)
  <2>1. CASE sync[s].snap = lead
    <3>1. /\ lead \in Leads /\ order \in Rows /\ LeadStage(lead) # Invalid
          /\ order' = SyncedRow(lead, order) /\ lead' = lead
      BY <1>1, <1>4, <2>1 DEF SyncWrites, AgreeInv, TypeOK, CrmType, RowType
    <3>2. Agrees'
      BY <3>1, SyncedRowType DEF Agrees
    <3> QED BY <1>3, <3>2 DEF Explained
  <2>2. CASE sync[s].snap # lead
    <3>1. dirty
      BY <1>1, <2>2 DEF AgreeInv, SnapIsFresh
    <3> QED BY <1>3, <1>4, <2>2, <3>1 DEF SyncWrites, Explained
  <2> QED BY <2>1, <2>2
<1>5. CASE SyncRefuses(s) \/ SyncThrows(s)
  <2>1. UNCHANGED <<order, dirty>>
    BY <1>5 DEF SyncRefuses, SyncThrows, rowVars
  <2> QED BY <1>1, <1>3, <2>1, AgreeFrames DEF AgreeInv, Explained
<1> QED BY <1>4, <1>5 DEF SyncStep

LEMMA NextAgree == AgreeInv /\ [Next]_vars => AgreeInv'
<1> SUFFICES ASSUME AgreeInv, [Next]_vars, ~excused'
             PROVE  OneSync' /\ SnapIsFresh' /\ Explained'
  BY NextType DEF AgreeInv
<1>1. CASE UNCHANGED vars
  BY <1>1, AgreeFrames DEF AgreeInv, Explained, vars, crmVars, rowVars, queueVars
<1>2. CASE Next
  BY <1>2, UpdateAgrees, PushAgrees, TakePushAgrees, EditLeadAgrees, SyncReadsAgrees, SyncStepAgrees
  DEF Next
<1> QED BY <1>1, <1>2

LEMMA AgreeImplies == AgreeInv => CopiesAgree
BY DEF AgreeInv, CopiesAgree, Quiet, Explained, PushAhead, Busy

\* The order and its lead agree once nothing is under way, however many requests, pushes
\* and retries there were, but for the five reasons CopiesAgree names: until a sync has
\* copied the lead as it is, and for good after a lost push or overlapping syncs.
THEOREM CopiesAgreeInTheEnd == Spec => []CopiesAgree
<1>1. Init => AgreeInv
  BY InitType, InitAgree DEF AgreeInv
<1>2. AgreeInv /\ [Next]_vars => AgreeInv'
  BY NextAgree
<1> QED BY <1>1, <1>2, AgreeImplies, PTL DEF Spec

-----------------------------------------------------------------------------
(* The timeline *)

LEMMA NextTimeline == TypeOK /\ TimelineIsCurrent /\ [Next]_vars => TimelineIsCurrent'
<1> SUFFICES ASSUME TypeOK, TimelineIsCurrent, [Next]_vars PROVE TimelineIsCurrent'
  OBVIOUS
<1>1. ASSUME NEW r \in Requests, CommitUpdate(r) PROVE TimelineIsCurrent'
  <2> SUFFICES ASSUME ~drift' PROVE timeline'.row = order'
    BY DEF TimelineIsCurrent
  <2>1. req[r].before = order /\ ~(req[r].at < timeline.at)
    BY <1>1 DEF CommitUpdate
  <2>2. order' = UpdatedRow(r) /\ timeline' = [row |-> HistoryRow(r), at |-> req[r].at]
    BY <1>1, <2>1 DEF CommitUpdate
  <2> QED BY <2>1, <2>2 DEF UpdatedRow, HistoryRow
<1>2. ASSUME NEW s \in Syncers, SyncWrites(s) PROVE TimelineIsCurrent'
  BY <1>2 DEF SyncWrites, TimelineIsCurrent, TypeOK
<1>3. ASSUME UNCHANGED <<order, timeline, drift>> PROVE TimelineIsCurrent'
  BY <1>3 DEF TimelineIsCurrent
<1>4. CASE UNCHANGED vars
  BY <1>3, <1>4 DEF vars, rowVars
<1>5. CASE Next
  BY <1>1, <1>2, <1>3, <1>5
  DEF Next, UpdateStep, PushStep, SyncStep, EditLead, ReadOrder, BeginUpdate, EnqueuePush, DropPush,
      EmitProgress, UpdateThrows, TakePush, PushLead, PushFails, RetryPush, SyncReads, SyncRefuses,
      SyncThrows, rowVars
<1> QED BY <1>4, <1>5

\* getHistory's latest row is the order's state, but for a sync's write, for a row
\* changed between an update's read and its transaction, and for updates that commit in
\* another order than their transactions began in.
THEOREM TimelineFollows == Spec => []TimelineIsCurrent
<1>1. Init => TimelineIsCurrent
  BY DEF Init, TimelineIsCurrent
<1> QED BY <1>1, NextTimeline, TypeCorrect, PTL DEF Spec

-----------------------------------------------------------------------------
(* The pages in front of it take no step that OrderProgress does not *)

LEMMA PageSteps ==
    ASSUME [PagesNext]_allVars
    PROVE  \/ Next /\ BackEnd
           \/ \E r \in Requests : ReadOrder(r) /\ (ServeSave(r) \/ ServeElse(r))
           \/ UNCHANGED vars /\ UNCHANGED allVars
           \/ UNCHANGED vars /\ (ListStep \/ OrderStep)
           \/ UNCHANGED vars /\ \E stage \in Stages \cup {Absent} : Type("stage", stage)
           \/ UNCHANGED vars /\ \E p \in Percents : Type("progress", p)
           \/ UNCHANGED vars /\ \E r \in Requests : Save(r) \/ SaveConfirmed(r) \/ SaveFails(r)
<1>1. BackEnd => Next
  BY DEF BackEnd, Next, UpdateStep, PushStep, SyncStep
<1>2. ListStep => UNCHANGED vars
  BY DEF ListStep, ServeRows, ServeCount, ShowList, ListFails, SetFilter, SetPage
<1>3. OrderStep => UNCHANGED vars
  BY DEF OrderStep, OpenOrder, LeaveOrder, Refetch, ServeOrder, ShowOrder, OrderFails, Forget
<1>4. ASSUME NEW field, NEW value PROVE Type(field, value) => UNCHANGED vars
  BY DEF Type
<1>5. ASSUME NEW r \in Requests
      PROVE  /\ Save(r) \/ SaveConfirmed(r) \/ SaveFails(r) => UNCHANGED vars
             /\ ServeSave(r) \/ ServeElse(r) => ReadOrder(r)
  BY DEF Save, SaveConfirmed, SaveFails, ServeSave, ServeElse
<1>6. CASE UNCHANGED allVars
  BY <1>6 DEF allVars
<1>7. CASE PagesNext
  BY <1>1, <1>2, <1>3, <1>4, <1>5, <1>7 DEF PagesNext, SaveStep
<1> QED BY <1>6, <1>7

LEMMA PageStepIsStep == [PagesNext]_allVars => [Next]_vars
BY PageSteps DEF Next

\* The pages use the order through its requests only: with them in front, OrderProgress
\* does what it does without, and all that is proved of it holds.
THEOREM PagesImplementProgress == PagesSpec => Spec
<1>1. PagesInit => Init
  BY DEF PagesInit
<1> QED BY <1>1, PageStepIsStep, PTL DEF PagesSpec, Spec

-----------------------------------------------------------------------------
(* What the page of the order knows *)

KeptRecords == [row : Rows \cup {Absent}, stale : BOOLEAN, failed : BOOLEAN]
LoadRecords == [pc : {"idle", "sent", "answered"}, row : Rows \cup {Absent}, stale : BOOLEAN,
                differs : BOOLEAN]
SaveRecords == [pc : {"none", "sent", "ended"}, input : Forms, untouched : SUBSET Fields,
                stale : BOOLEAN]

KeptInv ==
    /\ view \in {"list", "order", "away"} /\ kept \in KeptRecords
    /\ kept.row # Absent /\ ~kept.stale => kept.row = order

\* An answer says whether the order was written since the one that is kept.
LoadInv ==
    /\ load \in LoadRecords
    /\ load.pc = "answered" =>
          /\ load.row \in Rows
          /\ ~load.stale => load.row = order
          /\ load.differs => kept.row = Absent \/ kept.stale
          /\ ~load.differs => kept.row = load.row

\* The form holds what is kept, where nothing was typed.
FormInv ==
    /\ form \in Forms /\ touched \subseteq Fields
    /\ view # "order" \/ kept.row = Absent => touched = {}
    /\ view = "order" /\ kept.row # Absent =>
          \A field \in Fields \ touched : form[field] = kept.row[field]

\* Until it commits, a save that is not stale names what the row has, where nothing was typed.
SaveInv ==
    /\ saves \in [Requests -> SaveRecords]
    /\ saving \in Requests \cup {None} /\ (saving # None => saves[saving].pc = "sent")
    /\ \A r \in Requests : saves[r].pc = "none" => saves[r].untouched = {}
    /\ \A r \in Requests :
          saves[r].pc # "none" /\ req[r].pc \in {"read", "begun"} => req[r].input = saves[r].input
    /\ \A r \in Requests :
          saves[r].pc # "none" /\ ~saves[r].stale /\ req[r].pc \in {"idle", "read", "begun"} =>
              \A field \in saves[r].untouched : saves[r].input[field] = order[field]

PageInv == KeptInv /\ LoadInv /\ FormInv /\ SaveInv

LEMMA PageFrames ==
    /\ KeptInv /\ UNCHANGED <<view, kept, order>> => KeptInv'
    /\ LoadInv /\ UNCHANGED <<load, kept, order>> => LoadInv'
    /\ FormInv /\ UNCHANGED <<form, touched, view, kept>> => FormInv'
    /\ SaveInv /\ UNCHANGED <<saves, saving, req, order>> => SaveInv'
BY DEF KeptInv, LoadInv, FormInv, SaveInv

LEMMA InitPage == PagesInit => PageInv
<1> SUFFICES ASSUME PagesInit PROVE PageInv
  OBVIOUS
<1>1. KeptInv /\ LoadInv
  BY DEF PagesInit, KeptInv, KeptRecords, NoOrder, LoadInv, LoadRecords, IdleLoad
<1>2. FormInv
  BY DEF PagesInit, FormInv, Forms, NewForm, NoOrder
<1>3. SaveInv
  BY DEF PagesInit, SaveInv, SaveRecords, NoSave, Forms, NewForm
<1> QED BY <1>1, <1>2, <1>3 DEF PageInv

\* The requests as far as they have not committed.
Uncommitted ==
    \A r \in Requests :
        /\ req'[r].pc = "idle" => req[r].pc = "idle"
        /\ req'[r].pc \in {"read", "begun"} =>
              req[r].pc \in {"read", "begun"} /\ req'[r].input = req[r].input

LEMMA QuietStep ==
    ASSUME PageInv, UNCHANGED <<pageVars, order>>, Uncommitted PROVE PageInv'
<1>1. UNCHANGED <<view, kept, load, form, touched, saving, saves>>
  BY DEF pageVars, formVars
<1>2. SaveInv'
  BY <1>1 DEF PageInv, SaveInv, Uncommitted
<1> QED BY <1>1, <1>2, PageFrames DEF PageInv

LEMMA WrittenStep ==
    ASSUME PageInv, NEW updates \in SUBSET Requests, Written(updates), Uncommitted,
           \A r \in updates : req'[r].pc = "committed"
    PROVE  PageInv'
<1>1. UNCHANGED <<view, form, touched, saving>>
  BY DEF Written, formVars
<1>2. KeptInv' /\ LoadInv'
  BY <1>1 DEF PageInv, KeptInv, KeptRecords, LoadInv, LoadRecords, Written
<1>3. FormInv'
  BY <1>1 DEF PageInv, KeptInv, KeptRecords, FormInv, Written
<1>4. SaveInv'
  <2>1. ASSUME NEW r \in Requests
        PROVE  /\ saves'[r] \in SaveRecords
               /\ saves'[r].pc = saves[r].pc
               /\ saves'[r].pc = "none" => saves'[r].untouched = {}
               /\ r \notin updates /\ saves'[r].pc # "none" =>
                     saves'[r].stale /\ saves'[r].input = saves[r].input
    <3>1. saves[r] \in SaveRecords /\ (saves[r].pc = "none" => saves[r].untouched = {})
      BY DEF PageInv, SaveInv
    <3>2. CASE r \in updates
      <4>1. saves'[r] = [NoSave EXCEPT !.pc = saves[r].pc]
        BY <3>2 DEF Written
      <4>2. saves'[r] = [pc |-> saves[r].pc, input |-> NewForm, untouched |-> {}, stale |-> FALSE]
        BY <4>1 DEF NoSave
      <4>3. NewForm \in Forms /\ saves[r].pc \in {"none", "sent", "ended"}
        BY <3>1 DEF NewForm, Forms, SaveRecords
      <4> QED BY <3>2, <4>2, <4>3 DEF SaveRecords
    <3>3. CASE r \notin updates
      <4>1. saves'[r] = [saves[r] EXCEPT !.stale = @ \/ saves[r].pc # "none"]
        BY <3>3 DEF Written
      <4> QED BY <3>1, <3>3, <4>1 DEF SaveRecords
    <3> QED BY <3>2, <3>3
  <2>2. saves' \in [Requests -> SaveRecords]
    BY <2>1 DEF Written
  <2> QED BY <1>1, <2>1, <2>2 DEF PageInv, SaveInv, Uncommitted
<1> QED BY <1>2, <1>3, <1>4 DEF PageInv

LEMMA BackEndPage == ASSUME TypeOK, PageInv, BackEnd PROVE PageInv'
<1>1. ASSUME NEW r \in Requests, CommitUpdate(r) PROVE Uncommitted /\ req'[r].pc = "committed"
  BY <1>1 DEF TypeOK, RequestType, CommitUpdate, Uncommitted
<1>2. ASSUME NEW r \in Requests, \/ BeginUpdate(r) \/ EnqueuePush(r) \/ DropPush(r)
                                  \/ EmitProgress(r) \/ UpdateThrows(r) \/ PushStep(r)
      PROVE  Uncommitted /\ UNCHANGED order
  BY <1>2 DEF TypeOK, RequestType, BeginUpdate, EnqueuePush, DropPush, EmitProgress, UpdateThrows,
              PushStep, PushLead, PushFails, RetryPush, IdleRequest, Uncommitted, rowVars
<1>3. ASSUME NEW s \in Syncers, SyncReads(s) \/ SyncRefuses(s) \/ SyncThrows(s)
      PROVE  Uncommitted /\ UNCHANGED order
  BY <1>3 DEF SyncReads, SyncRefuses, SyncThrows, Uncommitted, rowVars
<1>4. ASSUME NEW s \in Syncers, SyncWrites(s) PROVE Uncommitted
  BY <1>4 DEF SyncWrites, Uncommitted
<1>5. ASSUME TakePush \/ \E l \in ManagerLeads : EditLead(l) PROVE Uncommitted /\ UNCHANGED order
  BY <1>5 DEF TakePush, EditLead, Uncommitted, rowVars
<1> QED BY <1>1, <1>2, <1>3, <1>4, <1>5, QuietStep, WrittenStep DEF BackEnd

LEMMA SaveServed ==
    ASSUME TypeOK, PageInv, NEW r \in Requests, ReadOrder(r), ServeSave(r) \/ ServeElse(r)
    PROVE  PageInv'
<1>1. UNCHANGED <<view, kept, load, form, touched, saving, saves, order>>
  BY DEF ServeSave, ServeElse, ReadOrder, pageVars, formVars, rowVars
<1>2. \A q \in Requests : q # r => req'[q] = req[q]
  BY DEF TypeOK, RequestType, ReadOrder
<1>3. req[r].pc = "idle" /\ (saves[r].pc # "none" => req'[r].input = saves[r].input)
  <2>1. saves[r].pc # "none" => ~ServeElse(r)
    BY DEF ServeElse, NoSave
  <2> QED BY <2>1 DEF ReadOrder, ServeSave
<1>4. SaveInv'
  BY <1>1, <1>2, <1>3 DEF PageInv, SaveInv
<1> QED BY <1>1, <1>4, PageFrames DEF PageInv

LEMMA OrderStepPage == ASSUME TypeOK, PageInv, UNCHANGED vars, OrderStep PROVE PageInv'
<1>1. UNCHANGED <<order, req>> /\ order \in Rows
  BY DEF vars, rowVars, TypeOK, RowType
<1>2. CASE OpenOrder
  <2>1. UNCHANGED <<kept, touched, saving, saves>>
    BY <1>2 DEF OpenOrder
  <2>2. KeptInv' /\ LoadInv'
    BY <1>1, <1>2, <2>1 DEF PageInv, KeptInv, LoadInv, LoadRecords, OpenOrder, SentLoad, IdleLoad
  <2>3. FormInv'
    BY <1>2, <2>1 DEF PageInv, FormInv, KeptInv, KeptRecords, Rows, Forms, NewForm, OpenOrder, Fields
  <2> QED BY <1>1, <2>1, <2>2, <2>3, PageFrames DEF PageInv
<1>3. CASE LeaveOrder
  <2>1. UNCHANGED <<kept, load, saves>>
    BY <1>3 DEF LeaveOrder
  <2>2. KeptInv' /\ FormInv' /\ SaveInv'
    BY <1>1, <1>3, <2>1
    DEF PageInv, KeptInv, FormInv, SaveInv, Forms, NewForm, LeaveOrder
  <2> QED BY <1>1, <2>1, <2>2, PageFrames DEF PageInv
<1>4. CASE Refetch
  <2>1. UNCHANGED <<view, kept, form, touched, saving, saves>>
    BY <1>4 DEF Refetch, formVars
  <2>2. LoadInv'
    BY <1>4 DEF LoadInv, LoadRecords, Refetch, SentLoad, IdleLoad
  <2> QED BY <1>1, <2>1, <2>2, PageFrames DEF PageInv
<1>5. CASE ServeOrder
  <2>1. UNCHANGED <<view, kept, form, touched, saving, saves>>
    BY <1>5 DEF ServeOrder, formVars
  <2>2. LoadInv'
    BY <1>1, <1>5, <2>1 DEF PageInv, KeptInv, KeptRecords, LoadInv, LoadRecords, ServeOrder
  <2> QED BY <1>1, <2>1, <2>2, PageFrames DEF PageInv
<1>6. CASE ShowOrder
  <2>1. UNCHANGED <<view, saving, saves>>
    BY <1>6 DEF ShowOrder
  <2>2. KeptInv' /\ LoadInv'
    BY <1>1, <1>6, <2>1
    DEF PageInv, KeptInv, KeptRecords, LoadInv, LoadRecords, ShowOrder, IdleLoad
  <2>3. FormInv'
    <3>1. kept'.row = load.row /\ load.row \in Rows /\ load.row # Absent
      BY <1>6, PagesAssumption DEF ShowOrder, PageInv, LoadInv, PagesAssumption
    <3>2. CASE view = "order" /\ load.differs
      BY <1>6, <2>1, <3>1, <3>2 DEF ShowOrder, FillsForm, FormInv, Rows, Forms
    <3>3. CASE view # "order"
      BY <1>6, <2>1, <3>1, <3>3 DEF ShowOrder, PageInv, FormInv
    <3>4. CASE view = "order" /\ ~load.differs
      BY <1>6, <2>1, <3>1, <3>4 DEF ShowOrder, FillsForm, PageInv, LoadInv, FormInv
    <3> QED BY <3>2, <3>3, <3>4
  <2> QED BY <1>1, <2>1, <2>2, <2>3, PageFrames DEF PageInv
<1>7. CASE OrderFails
  <2>1. UNCHANGED <<view, form, touched, saving, saves>>
    BY <1>7 DEF OrderFails, formVars
  <2>2. KeptInv' /\ LoadInv' /\ FormInv'
    BY <1>1, <1>7, <2>1
    DEF PageInv, KeptInv, KeptRecords, LoadInv, LoadRecords, FormInv, OrderFails, IdleLoad
  <2> QED BY <1>1, <2>1, <2>2, PageFrames DEF PageInv
<1>8. CASE Forget
  <2>1. UNCHANGED <<view, load, form, touched, saving, saves>>
    BY <1>8 DEF Forget, formVars
  <2>2. KeptInv' /\ LoadInv' /\ FormInv'
    BY <1>1, <1>8, <2>1 DEF PageInv, KeptInv, KeptRecords, LoadInv, FormInv, Forget, NoOrder
  <2> QED BY <1>1, <2>1, <2>2, PageFrames DEF PageInv
<1> QED BY <1>2, <1>3, <1>4, <1>5, <1>6, <1>7, <1>8 DEF OrderStep

LEMMA TypePage ==
    ASSUME PageInv, UNCHANGED vars, NEW field \in Fields, NEW value, Type(field, value),
           field = "stage" => value \in Stages \cup {Absent},
           field = "progress" => value \in 0 .. 100
    PROVE  PageInv'
<1>1. UNCHANGED <<view, kept, load, saving, saves, order, req>>
  BY DEF Type, vars, rowVars
<1>2. form' \in Forms
  BY DEF Type, PageInv, FormInv, Forms, Fields
<1>3. FormInv'
  BY <1>1, <1>2 DEF Type, PageInv, FormInv, FormShown, Forms, Fields
<1> QED BY <1>1, <1>3, PageFrames DEF PageInv

LEMMA SaveStepPage ==
    ASSUME TypeOK, PageInv, UNCHANGED vars, NEW r \in Requests,
           Save(r) \/ SaveConfirmed(r) \/ SaveFails(r)
    PROVE  PageInv'
<1>1. UNCHANGED <<view, kept, form, touched, order, req>>
  BY DEF Save, SaveConfirmed, SaveFails, vars, rowVars
<1>2. LoadInv'
  <2>1. UNCHANGED load \/ load' = SentLoad
    BY DEF Save, SaveConfirmed, SaveFails
  <2> QED BY <1>1, <2>1 DEF PageInv, LoadInv, LoadRecords, SentLoad, IdleLoad
<1>3. CASE Save(r)
  <2>1. /\ saves'[r] \in SaveRecords /\ saves'[r].pc = "sent" /\ saves'[r].input = form
        /\ saves'[r].untouched = Fields \ touched /\ saves'[r].stale = kept.stale
    BY <1>3 DEF Save, PageInv, SaveInv, SaveRecords, FormInv, KeptInv, KeptRecords
  <2>2. \A q \in Requests : q # r => saves'[q] = saves[q]
    BY <1>3 DEF Save, PageInv, SaveInv
  <2>3. saves' \in [Requests -> SaveRecords]
    BY <1>3, <2>1, <2>2 DEF Save, PageInv, SaveInv
  <2>4. ~kept.stale => \A field \in Fields \ touched : form[field] = order[field]
    BY <1>3 DEF Save, FormShown, PageInv, KeptInv, FormInv
  <2>5. req[r].pc = "idle" /\ saving' = r
    BY <1>3 DEF Save
  <2>6. SaveInv'
    BY <1>1, <2>1, <2>2, <2>3, <2>4, <2>5 DEF PageInv, SaveInv
  <2> QED BY <1>1, <1>2, <2>6, PageFrames DEF PageInv
<1>4. CASE EndSave(r) /\ saves[r].pc = "sent"
  <2>1. SaveInv'
    BY <1>1, <1>4 DEF EndSave, PageInv, SaveInv, SaveRecords
  <2> QED BY <1>1, <1>2, <2>1, PageFrames DEF PageInv
<1> QED BY <1>3, <1>4 DEF SaveConfirmed, SaveFails

LEMMA ListStepPage == ASSUME PageInv, UNCHANGED vars, ListStep PROVE PageInv'
<1>1. UNCHANGED <<view, kept, load, form, touched, saving, saves, order, req>>
  BY DEF ListStep, ServeRows, ServeCount, ShowList, ListFails, SetFilter, SetPage, formVars, vars, rowVars
<1> QED BY <1>1, PageFrames DEF PageInv

LEMMA NextPage == ASSUME TypeOK, PageInv, [PagesNext]_allVars PROVE PageInv'
<1>1. CASE UNCHANGED allVars
  BY <1>1, QuietStep DEF allVars, vars, rowVars, Uncommitted
<1>2. CASE UNCHANGED vars /\ \E stage \in Stages \cup {Absent} : Type("stage", stage)
  BY <1>2, TypePage DEF Fields
<1>3. CASE UNCHANGED vars /\ \E p \in Percents : Type("progress", p)
  BY <1>3, TypePage, ConstantsAssumption DEF Fields, ConstantsAssumption
<1> QED BY <1>1, <1>2, <1>3, PageSteps, BackEndPage, SaveServed, OrderStepPage, SaveStepPage, ListStepPage

LEMMA PageHolds == PagesSpec => [](TypeOK /\ PageInv)
<1>1. TypeOK /\ PageInv /\ [PagesNext]_allVars => PageInv'
  BY NextPage
<1> QED BY <1>1, InitPage, PagesImplementProgress, TypeCorrect, PTL DEF PagesSpec

\* A save commits by CommitUpdate, and what is typed goes by LeaveOrder or ShowOrder.
LEMMA CommitOnly ==
    ASSUME TypeOK, [PagesNext]_allVars, NEW r \in Requests,
           req[r].pc = "begun", req'[r].pc = "committed"
    PROVE  CommitUpdate(r)
<1>1. Next
  BY PageStepIsStep DEF vars
<1>2. PICK q \in Requests : ReadOrder(q) \/ UpdateStep(q) \/ UpdateThrows(q)
  BY <1>1
  DEF Next, EditLead, PushStep, PushLead, PushFails, RetryPush, TakePush, SyncReads, SyncStep,
      SyncWrites, SyncRefuses, SyncThrows
<1>3. q = r
  BY <1>2
  DEF TypeOK, RequestType, ReadOrder, UpdateStep, BeginUpdate, CommitUpdate, EnqueuePush, DropPush,
      EmitProgress, UpdateThrows
<1> QED BY <1>2, <1>3
  DEF TypeOK, RequestType, ReadOrder, UpdateStep, BeginUpdate, EnqueuePush, DropPush, EmitProgress,
      UpdateThrows, IdleRequest

LEMMA TouchedBy ==
    ASSUME [PagesNext]_allVars, ~(touched \subseteq touched') PROVE LeaveOrder \/ ShowOrder
<1>1. ~BackEnd
  BY DEF BackEnd, Written, pageVars, formVars
<1>2. ASSUME NEW r \in Requests PROVE ~SaveStep(r)
  BY DEF SaveStep, Save, ServeSave, ServeElse, SaveConfirmed, SaveFails, pageVars, formVars
<1>3. ~ListStep
  BY DEF ListStep, ServeRows, ServeCount, ShowList, ListFails, SetFilter, SetPage, formVars
<1>4. ASSUME NEW field, NEW value PROVE ~Type(field, value)
  BY DEF Type
<1>5. OrderStep
  BY <1>1, <1>2, <1>3, <1>4 DEF PagesNext, allVars, pageVars, formVars
<1> QED BY <1>5 DEF OrderStep, OpenOrder, Refetch, ServeOrder, OrderFails, Forget, formVars

\* OrderPage sends its whole form, yet undoes no change that it has shown: what its
\* administrator did not type is what the row has, or the row was written since.
THEOREM PageUndoesOnlyUnseen == PagesSpec => UndoesOnlyUnseen
<1>1. ASSUME TypeOK, PageInv, [PagesNext]_allVars, NEW r \in Requests,
             req[r].pc = "begun", req'[r].pc = "committed", NEW field \in saves[r].untouched
      PROVE  order'[field] = order[field] \/ saves[r].stale
  <2>1. order' = Merged(req[r].input, order)
    BY <1>1, CommitOnly DEF CommitUpdate, UpdatedRow
  <2>2. saves[r].pc # "none" /\ field \in Fields
    BY <1>1 DEF PageInv, SaveInv, SaveRecords
  <2>3. saves[r].stale \/ req[r].input[field] = order[field]
    BY <1>1, <2>2 DEF PageInv, SaveInv
  <2> QED BY <2>1, <2>2, <2>3 DEF Merged, Given, Fields
<1>2. TypeOK /\ PageInv /\ [PagesNext]_allVars =>
        [\A r \in Requests : req[r].pc = "begun" /\ req'[r].pc = "committed" =>
            \A field \in saves[r].untouched : order'[field] = order[field] \/ saves[r].stale]_allVars
  BY <1>1
<1> QED BY <1>2, PageHolds, PTL DEF PagesSpec, UndoesOnlyUnseen

\* The effect of OrderPage overwrites what was typed only with a row that was written
\* since the page read it.
THEOREM PageKeepsTyped == PagesSpec => TypedIsKept
<1>1. ASSUME PageInv, [PagesNext]_allVars, view = "order", view' = "order", ~kept.stale
      PROVE  touched \subseteq touched'
  <2>1. ASSUME ShowOrder, ~(touched \subseteq touched') PROVE FALSE
    <3>1. load.pc = "answered" /\ load.differs
      BY <1>1, <2>1 DEF ShowOrder, FillsForm
    <3>2. kept.row = Absent
      BY <1>1, <3>1 DEF PageInv, LoadInv
    <3> QED BY <1>1, <2>1, <3>2 DEF PageInv, FormInv
  <2> QED BY <1>1, <2>1, TouchedBy DEF LeaveOrder
<1>2. PageInv /\ [PagesNext]_allVars =>
        [view = "order" /\ view' = "order" /\ ~kept.stale => touched \subseteq touched']_allVars
  BY <1>1
<1> QED BY <1>2, PageHolds, PTL DEF PagesSpec, TypedIsKept

-----------------------------------------------------------------------------
(* The list *)

QueryRecords == [stage : Stages \cup {Absent}, page : Nat \ {0}, from : 0 .. Others + 1, guess : BOOLEAN]

\* Only a page beyond the orders is empty, unless the answer is split.
EmptyBeyond(answer) ==
    answer.page # 0 /\ answer.items = 0 /\ answer.total > 0 /\ ~answer.split =>
        answer.total <= (answer.page - 1) * PageSize

ListInv ==
    /\ list \in [query : QueryRecords, shown : Answers]
    /\ listLoad \in [pc : {"idle", "sent", "counting", "answered"}, answer : Answers]
    /\ EmptyBeyond(list.shown) /\ EmptyBeyond(listLoad.answer)
    /\ listLoad.pc = "counting" => ~listLoad.answer.split
    /\ \/ list.query.page = 1 \/ list.query.guess
       \/ (list.query.page - 1) * PageSize < list.query.from

LEMMA PagesConstants == Others \in Nat /\ PageSize \in Nat \ {0}
BY PagesAssumption DEF PagesAssumption

LEMMA NoAnswerType == NoAnswer \in Answers /\ EmptyBeyond(NoAnswer)
BY PagesConstants DEF NoAnswer, Answers, EmptyBeyond

LEMMA MatchingType ==
    ASSUME NEW stage PROVE Matching(stage) \in 0 .. Others + 1
BY PagesConstants DEF Matching

\* A page holds no more than PageSize orders, and none only beyond those that match.
LEMMA RowedType ==
    ASSUME NEW q \in QueryRecords
    PROVE  /\ Rowed(q) \in 0 .. PageSize
           /\ Rowed(q) = 0 => Matching(q.stage) <= (q.page - 1) * PageSize
<1> DEFINE total == Matching(q.stage)
           rest  == total - (q.page - 1) * PageSize
           least == Min({PageSize, rest})
           items == Max({0, least})
<1>1. q.page \in Nat \ {0} /\ (q.page - 1) * PageSize \in Int
  BY PagesConstants DEF QueryRecords
<1>2. total \in 0 .. Others + 1
  BY MatchingType
<1>3. rest \in Int
  <2> HIDE DEF total
  <2> QED BY <1>1, <1>2, PagesConstants
<1>4. least = (IF rest < PageSize THEN rest ELSE PageSize)
  <2> HIDE DEF rest
  <2> QED BY <1>3, PagesConstants DEF Min
<1>5. items = (IF least > 0 THEN least ELSE 0)
  <2>1. least \in Int
    BY <1>3, <1>4, PagesConstants
  <2> HIDE DEF least
  <2> QED BY <2>1 DEF Max
<1>6. items \in 0 .. PageSize /\ (items = 0 => rest <= 0)
  <2> HIDE DEF rest
  <2> QED BY <1>3, <1>4, <1>5, PagesConstants
<1>7. items = 0 => total <= (q.page - 1) * PageSize
  <2> HIDE DEF total, items
  <2> QED BY <1>1, <1>2, <1>6, PagesConstants
<1>8. Rowed(q) = items
  BY DEF Rowed
<1> QED BY <1>6, <1>7, <1>8

LEMMA TotalPagesLast ==
    ASSUME NEW total \in Nat, NEW n \in 1 .. Max({1, (total + PageSize - 1) \div PageSize}), n # 1
    PROVE  (n - 1) * PageSize < total
<1> DEFINE pages == (total + PageSize - 1) \div PageSize
<1>1. pages \in Int /\ pages * PageSize <= total + PageSize - 1
  BY PagesConstants
<1>2. Max({1, pages}) = (IF pages > 1 THEN pages ELSE 1)
  <2> HIDE DEF pages
  <2> QED BY <1>1 DEF Max
<1>3. n \in Int /\ n <= pages
  <2>1. n \in 1 .. Max({1, pages}) /\ n # 1
    OBVIOUS
  <2> HIDE DEF pages
  <2> QED BY <1>1, <1>2, <2>1
<1>4. n * PageSize <= pages * PageSize
  <2> HIDE DEF pages
  <2> QED BY <1>1, <1>3, PagesConstants
<1>5. (n - 1) * PageSize = n * PageSize - PageSize
  BY <1>3, PagesConstants
<1>6. n * PageSize \in Int /\ pages * PageSize \in Int
  <2> HIDE DEF pages
  <2> QED BY <1>1, <1>3, PagesConstants
<1> HIDE DEF pages
<1> QED BY <1>1, <1>4, <1>5, <1>6, PagesConstants

\* An answer is of the query that was asked, and the shown one of any.
LEMMA InitList == PagesInit => ListInv
<1> SUFFICES ASSUME PagesInit PROVE ListInv
  OBVIOUS
<1>1. list.query = FirstPage(Absent) /\ list.shown = NoAnswer /\ listLoad.answer = NoAnswer
  BY DEF PagesInit, NewList, SentList, IdleList
<1>2. FirstPage(Absent) \in QueryRecords /\ FirstPage(Absent).page = 1
  BY PagesConstants DEF FirstPage, QueryRecords
<1>3. /\ list \in [query : QueryRecords, shown : Answers]
      /\ listLoad \in [pc : {"idle", "sent", "counting", "answered"}, answer : Answers]
  BY <1>2, NoAnswerType DEF PagesInit, NewList, SentList, IdleList
<1>4. listLoad.pc # "counting"
  BY DEF PagesInit, SentList, IdleList
<1> QED BY <1>1, <1>2, <1>3, <1>4, NoAnswerType DEF ListInv

LEMMA QueryList ==
    ASSUME ListInv, NEW q \in QueryRecords, Query(q),
           q.page = 1 \/ q.guess \/ (q.page - 1) * PageSize < q.from
    PROVE  ListInv'
<1>1. /\ list' = [list EXCEPT !.query = q]
      /\ listLoad' = [pc |-> "sent", answer |-> NoAnswer]
  BY DEF Query, SentList, IdleList
<1> QED BY <1>1, NoAnswerType DEF ListInv

LEMMA ListStepList == ASSUME TypeOK, ListInv, ListStep PROVE ListInv'
<1>1. CASE ServeRows
  <2> DEFINE q == list.query
             a == [NoAnswer EXCEPT !.stage = q.stage, !.page = q.page,
                                   !.total = Matching(q.stage), !.items = Rowed(q)]
  <2>1. q \in QueryRecords /\ q.stage \in Stages \cup {Absent} /\ q.page \in Nat
    BY DEF ListInv, QueryRecords
  <2>2. listLoad' = [pc |-> "counting", answer |-> a] /\ UNCHANGED list
    BY <1>1 DEF ServeRows
  <2>3. /\ a.page = q.page /\ a.total = Matching(q.stage) /\ a.items = Rowed(q)
        /\ a.stage = q.stage /\ a.split = FALSE
    BY DEF NoAnswer
  <2> HIDE DEF a, q
  <2>4. EmptyBeyond(a)
    BY <2>1, <2>3, RowedType, MatchingType DEF EmptyBeyond
  <2>5. a \in Answers
    BY <2>1, NoAnswerType, RowedType, MatchingType DEF NoAnswer, Answers, a
  <2> QED BY <2>2, <2>3, <2>4, <2>5 DEF ListInv
<1>5. CASE ServeCount
  <2> DEFINE total == Matching(listLoad.answer.stage)
             a == [listLoad.answer EXCEPT !.total = total, !.split = (listLoad.answer.total # total)]
  <2>1. /\ listLoad.answer \in Answers /\ EmptyBeyond(listLoad.answer) /\ total \in 0 .. Others + 1
        /\ ~listLoad.answer.split
    BY <1>5, MatchingType DEF ListInv, ServeCount, Answers
  <2>2. listLoad' = [pc |-> "answered", answer |-> a] /\ UNCHANGED list
    BY <1>5 DEF ServeCount
  <2> HIDE DEF total
  <2>3. /\ a.page = listLoad.answer.page /\ a.items = listLoad.answer.items /\ a.total = total
        /\ a.split = (listLoad.answer.total # total) /\ a \in Answers
    BY <2>1 DEF Answers
  <2> HIDE DEF a
  <2>4. EmptyBeyond(a)
    <3> SUFFICES ASSUME a.page # 0, a.items = 0, a.total > 0, ~a.split
                 PROVE  a.total <= (a.page - 1) * PageSize
      BY DEF EmptyBeyond
    <3>1. listLoad.answer.total = total
      BY <2>3
    <3> QED BY <2>1, <2>3, <3>1 DEF EmptyBeyond
  <2> QED BY <2>2, <2>3, <2>4 DEF ListInv
<1>2. CASE ShowList \/ ListFails
  <2>1. /\ list'.query = list.query
        /\ list'.shown \in {list.shown, NoAnswer, listLoad.answer}
        /\ list' = [query |-> list.query, shown |-> list'.shown]
        /\ listLoad' = [pc |-> "idle", answer |-> NoAnswer]
    BY <1>2 DEF ShowList, ListFails, ListInv, IdleList
  <2> QED BY <2>1, NoAnswerType DEF ListInv
<1>3. ASSUME NEW stage \in Stages \cup {Absent}, SetFilter(stage) PROVE ListInv'
  <2>1. FirstPage(stage) \in QueryRecords /\ FirstPage(stage).page = 1
    BY PagesConstants DEF FirstPage, QueryRecords
  <2> QED BY <1>3, <2>1, QueryList DEF SetFilter, Filtered
<1>4. ASSUME NEW n \in 1 .. TotalPages, SetPage(n) PROVE ListInv'
  <2> DEFINE q == [list.query EXCEPT !.page = n, !.from = list.shown.total,
                                     !.guess = list.shown.stage # list.query.stage]
  <2>1. list.query \in QueryRecords /\ list.shown.total \in 0 .. Others + 1
    BY DEF ListInv, Answers
  <2>2. n \in Nat \ {0}
    <3>1. TotalPages \in Int
      <4>1. (list.shown.total + PageSize - 1) \div PageSize \in Int
        BY <2>1, PagesConstants
      <4> QED BY <4>1 DEF TotalPages, Max
    <3> QED BY <3>1
  <2>3. q \in QueryRecords
    BY <2>1, <2>2 DEF QueryRecords
  <2>4. q.page = n /\ q.from = list.shown.total
    BY <2>1 DEF QueryRecords
  <2>5. n = 1 \/ (n - 1) * PageSize < list.shown.total
    <3>1. list.shown.total \in Nat
      BY <2>1, PagesConstants
    <3>2. n \in 1 .. Max({1, (list.shown.total + PageSize - 1) \div PageSize})
      BY DEF TotalPages
    <3> QED BY <3>1, <3>2, TotalPagesLast
  <2>6. Query(q)
    BY <1>4 DEF SetPage
  <2> HIDE DEF q
  <2> QED BY <2>3, <2>4, <2>5, <2>6, QueryList
<1> QED BY <1>1, <1>2, <1>3, <1>4, <1>5 DEF ListStep

LEMMA NextList == ASSUME TypeOK, ListInv, [PagesNext]_allVars PROVE ListInv'
<1>1. ASSUME UNCHANGED listVars PROVE ListInv'
  BY <1>1 DEF listVars, ListInv
<1>2. UNCHANGED listVars \/ ListStep
  <2>1. BackEnd => UNCHANGED listVars
    BY DEF BackEnd, Written, pageVars
  <2>2. OrderStep => UNCHANGED listVars
    BY DEF OrderStep, OpenOrder, LeaveOrder, Refetch, ServeOrder, ShowOrder, OrderFails, Forget
  <2>3. ASSUME NEW r \in Requests PROVE SaveStep(r) => UNCHANGED listVars
    BY DEF SaveStep, Save, ServeSave, ServeElse, SaveConfirmed, SaveFails, pageVars
  <2>4. ASSUME NEW field, NEW value PROVE Type(field, value) => UNCHANGED listVars
    BY DEF Type
  <2> QED BY <2>1, <2>2, <2>3, <2>4 DEF PagesNext, allVars, pageVars
<1> QED BY <1>1, <1>2, ListStepList

LEMMA ListHolds == PagesSpec => []ListInv
<1>1. TypeOK /\ ListInv /\ [PagesNext]_allVars => ListInv'
  BY NextList
<1> QED BY <1>1, InitList, PageHolds, PTL DEF PagesSpec

\* For any number of orders and any page size, OrdersPage says that there are none where
\* there are only when orders have left the filter since the page number was chosen, the
\* number was chosen among the pages of another filter, or the rows and the total of the
\* answer are of two states.
THEOREM ListFinds == PagesSpec => []FoundWhatMatches
<1>1. ListInv => FoundWhatMatches
  <2> SUFFICES ASSUME ListInv, Own, list.shown.items = 0, list.shown.total > 0, ~list.query.guess,
                      ~list.shown.split
               PROVE  list.shown.total < list.query.from
    BY DEF FoundWhatMatches
  <2>1. /\ list.query.page \in Nat \ {0} /\ list.shown.page = list.query.page
        /\ list.shown.total \in Nat /\ list.query.from \in Nat
    BY PagesConstants DEF ListInv, QueryRecords, Answers, Own
  <2>2. list.shown.total <= (list.query.page - 1) * PageSize
    BY <2>1 DEF ListInv, EmptyBeyond
  <2>3. list.query.page # 1
    BY <2>1, <2>2, PagesConstants
  <2>4. (list.query.page - 1) * PageSize < list.query.from
    BY <2>3 DEF ListInv
  <2>5. (list.query.page - 1) * PageSize \in Int
    BY <2>1, PagesConstants
  <2> QED BY <2>1, <2>2, <2>4, <2>5
<1> QED BY <1>1, ListHolds, PTL

-----------------------------------------------------------------------------
(* Types, and that the form is an input of the update *)

GoodLead(l) == l.progress = Absent \/ Clamp(l.progress) \in Percents

RowInPercents ==
    /\ order.progress \in Percents /\ GoodLead(lead)
    /\ \A s \in Syncers : Busy(s) => GoodLead(sync[s].snap)

FormInPercents ==
    /\ form.progress \in Percents
    /\ kept.row # Absent => kept.row.progress \in Percents
    /\ load.pc = "answered" => load.row.progress \in Percents

LEMMA ClampPercent == ASSUME NEW p \in Percents PROVE Clamp(p) = p
BY ConstantsAssumption DEF Clamp, ConstantsAssumption

LEMMA InitRow == Init => RowInPercents
BY PagesAssumption DEF Init, RowInPercents, NewRow, GoodLead, PagesAssumption, Busy, IdleSync

LEMMA NextRow == ASSUME TypeOK, RowInPercents, [Next]_vars PROVE RowInPercents'
<1>1. ASSUME UNCHANGED <<order, lead, sync>> PROVE RowInPercents'
  BY <1>1 DEF RowInPercents, Busy
<1>2. ASSUME NEW r \in Requests, CommitUpdate(r) PROVE RowInPercents'
  <2>1. req[r].input.progress \in Percents \cup {Absent}
    BY DEF TypeOK, RequestType, Inputs
  <2>2. order'.progress \in Percents
    BY <1>2, <2>1 DEF CommitUpdate, UpdatedRow, Merged, Given, RowInPercents
  <2> QED BY <1>2, <2>2 DEF CommitUpdate, RowInPercents, Busy, crmVars
<1>3. ASSUME NEW r \in Requests, PushLead(r) \/ PushFails(r) PROVE RowInPercents'
  <2>1. jobs[r].data.progress \in Percents \cup {Absent} /\ lead \in Leads
    BY DEF TypeOK, JobType, CrmType, Inputs
  <2>2. PatchedLead(lead, jobs[r].data).progress = Given(jobs[r].data.progress, lead.progress)
    BY <2>1 DEF PatchedLead, Leads
  <2>3. GoodLead(PatchedLead(lead, jobs[r].data))
    BY <2>1, <2>2, ClampPercent DEF GoodLead, Given, RowInPercents
  <2>4. lead' = PatchedLead(lead, jobs[r].data) \/ lead' = lead
    BY <1>3 DEF PushLead, PushFails, Patch
  <2>5. GoodLead(lead')
    BY <2>3, <2>4 DEF RowInPercents
  <2> QED BY <1>3, <2>5 DEF PushLead, PushFails, RowInPercents, Busy, GoodLead, rowVars
<1>4. ASSUME NEW l \in ManagerLeads, EditLead(l) PROVE RowInPercents'
  BY <1>4, PagesAssumption DEF EditLead, RowInPercents, Busy, GoodLead, PagesAssumption, rowVars
<1>5. ASSUME NEW s \in Syncers, SyncReads(s) PROVE RowInPercents'
  BY <1>5 DEF SyncReads, RowInPercents, Busy, GoodLead, TypeOK, SyncType, crmVars, rowVars
<1>6. ASSUME NEW s \in Syncers, SyncStep(s) \/ SyncThrows(s) PROVE RowInPercents'
  <2>1. order'.progress \in Percents
    BY <1>6, PagesAssumption
    DEF SyncStep, SyncWrites, SyncRefuses, SyncThrows, SyncedRow, RowInPercents, Busy, GoodLead,
        PagesAssumption, rowVars
  <2>2. UNCHANGED lead /\ sync' = [sync EXCEPT ![s] = IdleSync]
    BY <1>6 DEF SyncStep, SyncWrites, SyncRefuses, SyncThrows, crmVars
  <2> QED BY <2>1, <2>2 DEF RowInPercents, Busy, GoodLead, IdleSync, TypeOK, SyncType
<1>7. CASE UNCHANGED vars
  BY <1>1, <1>7 DEF vars, crmVars, rowVars
<1>8. CASE Next
  BY <1>1, <1>2, <1>3, <1>4, <1>5, <1>6, <1>8
  DEF Next, UpdateStep, PushStep, ReadOrder, BeginUpdate, EnqueuePush, DropPush, EmitProgress,
      UpdateThrows, RetryPush, TakePush, crmVars, rowVars
<1> QED BY <1>7, <1>8

LEMMA NextForm ==
    ASSUME TypeOK, RowInPercents, PageInv, FormInPercents, [PagesNext]_allVars PROVE FormInPercents'
<1>1. ASSUME UNCHANGED form, UNCHANGED kept.row, UNCHANGED load.row, load'.pc = "answered" => load.pc = "answered"
      PROVE  FormInPercents'
  BY <1>1 DEF FormInPercents
<1>2. CASE OrderStep
  <2>1. 0 \in Percents /\ NewForm.progress = 0 /\ order.progress \in Percents
    BY PagesAssumption DEF PagesAssumption, NewForm, RowInPercents
  <2>2. CASE OpenOrder \/ LeaveOrder
    BY <2>1, <2>2 DEF OpenOrder, LeaveOrder, FormInPercents, SentLoad, IdleLoad
  <2>3. CASE Refetch \/ ServeOrder \/ OrderFails
    <3>1. UNCHANGED form /\ kept'.row = kept.row
      BY <2>3 DEF Refetch, ServeOrder, OrderFails, formVars, PageInv, KeptInv, KeptRecords
    <3>2. load'.pc = "answered" => load'.row = order
      BY <2>3 DEF Refetch, ServeOrder, OrderFails, SentLoad, IdleLoad
    <3> QED BY <2>1, <3>1, <3>2 DEF FormInPercents
  <2>4. CASE ShowOrder
    BY <2>4 DEF ShowOrder, FormInPercents, IdleLoad
  <2>5. CASE Forget
    BY <2>5 DEF Forget, FormInPercents, NoOrder, formVars
  <2> QED BY <1>2, <2>2, <2>3, <2>4, <2>5 DEF OrderStep
<1>3. ASSUME NEW p \in Percents, Type("progress", p) PROVE FormInPercents'
  BY <1>3 DEF Type, FormInPercents, PageInv, FormInv, Forms
<1>4. ASSUME NEW stage \in Stages \cup {Absent}, Type("stage", stage) PROVE FormInPercents'
  BY <1>4 DEF Type, FormInPercents, PageInv, FormInv, Forms
<1>5. ASSUME NEW r \in Requests, SaveStep(r) PROVE FormInPercents'
  BY <1>5
  DEF SaveStep, Save, ServeSave, ServeElse, SaveConfirmed, SaveFails, pageVars, formVars, FormInPercents,
      SentLoad, IdleLoad
<1>6. CASE BackEnd
  <2>1. UNCHANGED form /\ (UNCHANGED <<kept, load>> \/ \E updates \in SUBSET Requests : Written(updates))
    <3>1. \A r \in Requests : {r} \in SUBSET Requests
      OBVIOUS
    <3>2. {} \in SUBSET Requests
      OBVIOUS
    <3>3. UNCHANGED pageVars \/ \E updates \in SUBSET Requests : Written(updates)
      BY <1>6, <3>1, <3>2 DEF BackEnd
    <3>4. \A updates : Written(updates) => UNCHANGED form
      BY DEF Written, formVars
    <3> QED BY <3>3, <3>4 DEF pageVars, formVars
  <2>2. kept'.row = kept.row /\ load'.row = load.row /\ load'.pc = load.pc
    BY <2>1 DEF Written, PageInv, KeptInv, KeptRecords, LoadInv, LoadRecords
  <2> QED BY <1>1, <2>1, <2>2
<1>7. CASE ListStep \/ UNCHANGED allVars
  BY <1>1, <1>7
  DEF ListStep, ServeRows, ServeCount, ShowList, ListFails, SetFilter, SetPage, formVars, allVars, pageVars
<1> QED BY <1>2, <1>3, <1>4, <1>5, <1>6, <1>7 DEF PagesNext

\* Type correctness of the pages with the order behind them: what is kept of an order is
\* the row until that is written, and whatever the form holds can be sent.
THEOREM PagesTypeCorrect == PagesSpec => []PagesTypeOK
<1>1. PagesInit => FormInPercents /\ RowInPercents
  BY InitRow, PagesAssumption
  DEF PagesInit, FormInPercents, NewForm, NoOrder, IdleLoad, PagesAssumption
<1>2. TypeOK /\ RowInPercents /\ [PagesNext]_allVars => RowInPercents'
  BY NextRow, PageStepIsStep
<1>3. TypeOK /\ RowInPercents /\ PageInv /\ FormInPercents /\ [PagesNext]_allVars => FormInPercents'
  BY NextForm
<1>4. TypeOK /\ PageInv /\ ListInv /\ FormInPercents => PagesTypeOK
  <2> SUFFICES ASSUME TypeOK, PageInv, ListInv, FormInPercents PROVE PagesTypeOK
    OBVIOUS
  <2>1. list.query \in QueryRecords /\ list.shown \in Answers
    BY DEF ListInv
  <2>2. PageType
    BY <2>1
    DEF PageType, PageInv, KeptInv, KeptRecords, LoadInv, LoadRecords, FormInv, SaveInv, ListInv, QueryRecords
  <2>3. SaveType
    BY DEF SaveType, PageInv, SaveInv, SaveRecords
  <2> QED BY <2>2, <2>3 DEF PagesTypeOK, PageInv, KeptInv, SaveInv, FormInPercents
<1> QED BY <1>1, <1>2, <1>3, <1>4, PageHolds, ListHolds, PTL DEF PagesSpec
=============================================================================
