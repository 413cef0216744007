---------------------------- MODULE OrderProgress ----------------------------
(***************************************************************************)
(* One order and its lead, changed from both sides: administrators through *)
(* OrdersService.updateProgress, which pushes the change to AmoCRM over    *)
(* the queue 'amocrm-outbound', and managers in AmoCRM, whose changes      *)
(* syncDealById copies back.  What makes a sync start is InboundSync's     *)
(* subject; here one may start at any time.                                *)
(*                                                                         *)
(* The contents are a stage and a progress; the comment travels exactly as *)
(* the progress does.  orders.version is written and never read.           *)
(***************************************************************************)
EXTENDS Integers, Sequences, SequencesExt

CONSTANTS
    Stages,         \* order stages
    FirstStage,     \* 'preparation_for_production'
    Invalid,        \* a value of the stage field that is not a stage
    Absent,         \* a value that is not given: undefined, no custom field, no mapped status
    Percents,       \* progress an administrator may send; the DTO checks 0..100
    ManagerLeads,   \* what managers make of the lead, the status given as what it maps to
    Requests,       \* PATCH /admin/orders/:id/progress requests
    Syncers,        \* callers of syncDealById: the worker, failsafe runs
    MaxAttempts,    \* attempts of a job (queues.module.ts)
    Faults,         \* which of FaultKinds may happen
    MaxEdits        \* bound: changes made by managers

FaultKinds == {"update_failed", "same_ms", "push_failed", "sync_failed"}

ASSUME ConstantsAssumption ==
    /\ FirstStage \in Stages
    /\ Absent \notin Stages /\ Invalid \notin Stages \cup {Absent}
    /\ Percents \subseteq 0 .. 100
    /\ Absent \notin Int
    /\ ManagerLeads \subseteq [status : Stages \cup {Absent}, stage : Stages \cup {Absent, Invalid},
                              progress : Int \cup {Absent}]
    /\ MaxAttempts \in Nat \ {0}
    /\ Faults \subseteq FaultKinds
    /\ MaxEdits \in Nat

VARIABLES
    lead,       \* external: the lead in AmoCRM
    edits,      \* bound counter of managers' changes
    order,      \* the order row
    timeline,   \* the row of order_stage_history with the latest changedAt, the new
                \* order before the first
    begun,      \* updates whose transaction has begun: the clock of changedAt
    req,        \* updateProgress of each request: pc, input, the row read first, changedAt
    jobs,       \* BullMQ: state of each request's push job and attempts made
    wait,       \* BullMQ: the waiting jobs in the order they are taken
    sync,       \* syncDealById: idle, or holding the lead it read
    dirty,      \* history: no sync has written what the lead holds since it changed
    excused,    \* history: something has happened that lets row and lead differ
    drift       \* history: the row changed behind the timeline's back

crmVars   == <<lead, edits>>
queueVars == <<jobs, wait>>
rowVars   == <<order, timeline, begun>>
vars == <<crmVars, rowVars, req, queueVars, sync, dirty, excused, drift>>

Leads  == [status : Stages \cup {Absent}, stage : Stages \cup {Absent, Invalid},
           progress : Int \cup {Absent}]
Rows   == [stage : Stages, progress : 0 .. 100]
Inputs == [stage : Stages \cup {Absent}, progress : Percents \cup {Absent}]
NoInput == [stage |-> Absent, progress |-> Absent]
NewRow == [stage |-> FirstStage, progress |-> 0]

JobStates == {"none", "waiting", "active", "delayed", "completed", "failed", "dropped"}

-----------------------------------------------------------------------------
(* AmocrmMapper *)

Given(value, otherwise) == IF value # Absent THEN value ELSE otherwise

\* Faulty variant of Clamp: the lead's number is taken as it is.
Clamp_None(p) == p

Clamp(p) == IF p < 0 THEN 0 ELSE IF p > 100 THEN 100 ELSE p

\* The pipeline status decides; the custom field only when the status is not mapped.
LeadStage(l) == Given(l.status, l.stage)

\* leadToOrderPatch and the data of order.update: an absent stage keeps the row's, an
\* absent progress becomes 0.
SyncedRow(l, row) ==
    [stage    |-> Given(LeadStage(l), row.stage),
     progress |-> IF l.progress = Absent THEN 0 ELSE Clamp(l.progress)]

\* orderToCustomFields and patchLead: the fields given, never the status.
PatchedLead(l, input) ==
    [l EXCEPT !.stage = Given(input.stage, @), !.progress = Given(input.progress, @)]

\* input.x ?? order.x
Merged(input, row) ==
    [stage |-> Given(input.stage, row.stage), progress |-> Given(input.progress, row.progress)]

-----------------------------------------------------------------------------
IdleRequest == [pc |-> "idle", input |-> NoInput, before |-> NewRow, at |-> 0]
NoJob == [state |-> "none", made |-> 0, data |-> NoInput]
IdleSync == [pc |-> "idle", snap |-> NoInput]

Init ==
    /\ lead \in {l \in ManagerLeads : SyncedRow(l, NewRow) = NewRow}
    /\ edits = 0
    /\ order = NewRow
    /\ timeline = [row |-> NewRow, at |-> 0]
    /\ begun = 0
    /\ req = [r \in Requests |-> IdleRequest]
    /\ jobs = [r \in Requests |-> NoJob]
    /\ wait = <<>>
    /\ sync = [s \in Syncers |-> IdleSync]
    /\ dirty = FALSE
    /\ excused = FALSE
    /\ drift = FALSE

-----------------------------------------------------------------------------
(* AmoCRM: a manager moves the deal or fills in the fields *)

EditLead(l) ==
    /\ edits < MaxEdits
    /\ l # lead
    /\ lead' = l
    /\ edits' = edits + 1
    /\ dirty' = TRUE
    /\ UNCHANGED <<rowVars, req, queueVars, sync, excused, drift>>

-----------------------------------------------------------------------------
(* OrdersService.updateProgress *)

ReadOrder(r) ==
    /\ req[r].pc = "idle"
    /\ \E input \in Inputs :
          req' = [req EXCEPT ![r] = [IdleRequest EXCEPT !.pc = "read", !.input = input,
                                                        !.before = order]]
    /\ UNCHANGED <<crmVars, rowVars, queueVars, sync, dirty, excused, drift>>

\* The transaction begins, which is the history row's changedAt; its first statement may
\* have to wait for the order's row.
BeginUpdate(r) ==
    /\ req[r].pc = "read"
    /\ begun' = begun + 1
    /\ req' = [req EXCEPT ![r].pc = "begun", ![r].at = begun']
    /\ UNCHANGED <<crmVars, order, timeline, queueVars, sync, dirty, excused, drift>>

\* Faulty variant of UpdatedRow: the row read first is written back whole.
UpdatedRow_Whole(r) == Merged(req[r].input, req[r].before)

\* order.update with only the fields given, on the row as it is at the commit.
UpdatedRow(r) == Merged(req[r].input, order)

\* Faulty variant of HistoryRow: it records the row as it was.
HistoryRow_Before(r) == req[r].before

\* orderStageHistory.create completes the input from the row read first.
HistoryRow(r) == Merged(req[r].input, req[r].before)

\* $transaction commits; getHistory sorts by changedAt.
CommitUpdate(r) ==
    /\ req[r].pc = "begun"
    /\ order' = UpdatedRow(r)
    /\ timeline' = IF req[r].at < timeline.at THEN timeline
                   ELSE [row |-> HistoryRow(r), at |-> req[r].at]
    /\ req' = [req EXCEPT ![r].pc = "committed"]
    /\ drift' = (req[r].before # order \/ req[r].at < timeline.at)
    /\ UNCHANGED <<crmVars, begun, queueVars, sync, dirty, excused>>

\* Faulty variant of EnqueuePush: only a change of the stage is pushed.
EnqueuePush_StageOnly(r) ==
    /\ req[r].pc = "committed"
    /\ IF req[r].input.stage = Absent THEN UNCHANGED queueVars
       ELSE /\ jobs' = [jobs EXCEPT ![r] = [NoJob EXCEPT !.state = "waiting", !.data = req[r].input]]
            /\ wait' = Append(wait, r)
    /\ req' = [req EXCEPT ![r].pc = "queued"]
    /\ UNCHANGED <<crmVars, rowVars, sync, dirty, excused, drift>>

\* outQueue.add (after the audit row).
EnqueuePush(r) ==
    /\ req[r].pc = "committed"
    /\ jobs' = [jobs EXCEPT ![r] = [NoJob EXCEPT !.state = "waiting", !.data = req[r].input]]
    /\ wait' = Append(wait, r)
    /\ req' = [req EXCEPT ![r].pc = "queued"]
    /\ UNCHANGED <<crmVars, rowVars, sync, dirty, excused, drift>>

\* The jobId is the order and the millisecond: BullMQ ignores a job whose id it has.
DropPush(r) ==
    /\ "same_ms" \in Faults
    /\ req[r].pc = "committed"
    /\ \E q \in Requests \ {r} : jobs[q].state \notin {"none", "dropped"}
    /\ jobs' = [jobs EXCEPT ![r].state = "dropped"]
    /\ req' = [req EXCEPT ![r].pc = "queued"]
    /\ excused' = TRUE
    /\ UNCHANGED <<crmVars, rowVars, wait, sync, dirty, drift>>

\* emitAsync('order.progress.updated'), what becomes of it is Notifications' subject.
EmitProgress(r) ==
    /\ req[r].pc = "queued"
    /\ req' = [req EXCEPT ![r] = [IdleRequest EXCEPT !.pc = "done"]]
    /\ UNCHANGED <<crmVars, rowVars, queueVars, sync, dirty, excused, drift>>

\* The audit insert, Redis or the process fails: what is not done yet never is.
UpdateThrows(r) ==
    /\ "update_failed" \in Faults
    /\ req[r].pc \in {"read", "begun", "committed", "queued"}
    /\ req' = [req EXCEPT ![r] = [IdleRequest EXCEPT !.pc = "failed"]]
    /\ excused' = (excused \/ req[r].pc = "committed")
    /\ UNCHANGED <<crmVars, rowVars, queueVars, sync, dirty, drift>>

-----------------------------------------------------------------------------
(* AmocrmOutboundProcessor, one job at a time *)

TakePush ==
    /\ \A r \in Requests : jobs[r].state # "active"
    /\ wait # <<>>
    /\ jobs' = [jobs EXCEPT ![Head(wait)].state = "active", ![Head(wait)].made = @ + 1]
    /\ wait' = Tail(wait)
    /\ UNCHANGED <<crmVars, rowVars, req, sync, dirty, excused, drift>>

\* PATCH /leads/:id; nothing is sent for an input without fields.
Patch(r) ==
    /\ lead' = PatchedLead(lead, jobs[r].data)
    /\ dirty' = (dirty \/ jobs[r].data # NoInput)

PushLead(r) ==
    /\ jobs[r].state = "active"
    /\ Patch(r)
    /\ jobs' = [jobs EXCEPT ![r] = [NoJob EXCEPT !.state = "completed"]]
    /\ UNCHANGED <<edits, rowVars, req, wait, sync, excused, drift>>

AfterFailure(r) ==
    IF jobs[r].made < MaxAttempts THEN [jobs[r] EXCEPT !.state = "delayed"]
    ELSE [NoJob EXCEPT !.state = "failed"]

\* The request fails, or it succeeds and its answer is lost.
PushFails(r) ==
    /\ "push_failed" \in Faults
    /\ jobs[r].state = "active"
    /\ jobs[r].data # NoInput
    /\ Patch(r) \/ UNCHANGED <<lead, dirty>>
    /\ jobs' = [jobs EXCEPT ![r] = AfterFailure(r)]
    /\ excused' = (excused \/ AfterFailure(r).state = "failed")
    /\ UNCHANGED <<edits, rowVars, req, wait, sync, drift>>

\* The backoff is over: the job waits behind those queued meanwhile.
RetryPush(r) ==
    /\ jobs[r].state = "delayed"
    /\ jobs' = [jobs EXCEPT ![r].state = "waiting"]
    /\ wait' = Append(wait, r)
    /\ UNCHANGED <<crmVars, rowVars, req, sync, dirty, excused, drift>>

-----------------------------------------------------------------------------
(* AmocrmSyncService.syncDealById, on an order that exists *)

\* getLead; another sync of the order may be under way.
SyncReads(s) ==
    /\ sync[s].pc = "idle"
    /\ sync' = [sync EXCEPT ![s] = [pc |-> "write", snap |-> lead]]
    /\ excused' = (excused \/ \E t \in Syncers : sync[t].pc # "idle")
    /\ UNCHANGED <<crmVars, rowVars, req, queueVars, dirty, drift>>

\* No history row, and no event.
SyncWrites(s) ==
    /\ sync[s].pc = "write"
    /\ LeadStage(sync[s].snap) # Invalid
    /\ order' = SyncedRow(sync[s].snap, order)
    /\ sync' = [sync EXCEPT ![s] = IdleSync]
    /\ dirty' = (dirty /\ sync[s].snap # lead)
    /\ drift' = (drift \/ order' # order)
    /\ UNCHANGED <<crmVars, timeline, begun, req, queueVars, excused>>

\* The mapper throws on a value that is not a stage; every retry does too.
SyncRefuses(s) ==
    /\ sync[s].pc = "write"
    /\ LeadStage(sync[s].snap) = Invalid
    /\ sync' = [sync EXCEPT ![s] = IdleSync]
    /\ UNCHANGED <<crmVars, rowVars, req, queueVars, dirty, excused, drift>>

\* No contact, no phone, getContact fails, the upsert of the user is refused by a unique
\* column or fails, order.update fails: once, or at every attempt.
SyncThrows(s) ==
    /\ "sync_failed" \in Faults
    /\ sync[s].pc = "write"
    /\ sync' = [sync EXCEPT ![s] = IdleSync]
    /\ UNCHANGED <<crmVars, rowVars, req, queueVars, dirty, excused, drift>>

-----------------------------------------------------------------------------
UpdateStep(r) ==
    BeginUpdate(r) \/ CommitUpdate(r) \/ EnqueuePush(r) \/ DropPush(r) \/ EmitProgress(r)
PushStep(r) == PushLead(r) \/ PushFails(r) \/ RetryPush(r)
SyncStep(s) == SyncWrites(s) \/ SyncRefuses(s)

Next ==
    \/ \E l \in ManagerLeads : EditLead(l)
    \/ \E r \in Requests : ReadOrder(r) \/ UpdateStep(r) \/ UpdateThrows(r) \/ PushStep(r)
    \/ TakePush
    \/ \E s \in Syncers : SyncReads(s) \/ SyncStep(s) \/ SyncThrows(s)

Spec == Init /\ [][Next]_vars

\* The event loop goes on with a request it has started, the worker with its queue,
\* BullMQ with its backoff.  No request is assumed to arrive, no sync to start.
Fairness ==
    /\ \A r \in Requests : WF_vars(UpdateStep(r)) /\ WF_vars(PushStep(r))
    /\ WF_vars(TakePush)

FairSpec == Spec /\ Fairness

-----------------------------------------------------------------------------
(* Properties *)

CrmType == lead \in Leads /\ edits \in 0 .. MaxEdits

RowType == order \in Rows /\ timeline \in [row : Rows, at : Nat] /\ begun \in Nat

RequestType ==
    req \in [Requests -> [pc : {"idle", "read", "begun", "committed", "queued", "done", "failed"},
                         input : Inputs, before : Rows, at : Nat]]

JobType == jobs \in [Requests -> [state : JobStates, made : Nat, data : Inputs]]

\* A job that will be taken again has an attempt left.
AttemptsLeft ==
    \A r \in Requests : /\ jobs[r].made <= MaxAttempts
                        /\ jobs[r].state \in {"waiting", "delayed"} => jobs[r].made < MaxAttempts

\* A request has no job before it queues one.
JobAfterQueueing ==
    \A r \in Requests : req[r].pc \in {"idle", "read", "begun", "committed"} => jobs[r].state = "none"

\* The list holds the waiting jobs, each once.
WaitingListed ==
    /\ wait \in Seq(Requests)
    /\ IsInjective(wait)
    /\ ToSet(wait) = {r \in Requests : jobs[r].state = "waiting"}

SyncType ==
    /\ sync \in [Syncers -> [pc : {"idle", "write"}, snap : Leads \cup {NoInput}]]
    /\ \A s \in Syncers : sync[s].pc = "write" => sync[s].snap \in Leads

\* Every variable stays in its type: the row's progress within 0..100 whatever a manager
\* types, a job within its attempts, and the waiting jobs listed once each.
TypeOK ==
    /\ CrmType /\ RowType /\ RequestType /\ JobType /\ SyncType
    /\ AttemptsLeft /\ JobAfterQueueing /\ WaitingListed
    /\ dirty \in BOOLEAN /\ drift \in BOOLEAN /\ excused \in BOOLEAN

\* No update, push or sync is under way, and a sync has copied what the lead holds.
Quiet ==
    /\ ~dirty
    /\ \A r \in Requests : /\ req[r].pc \in {"idle", "done", "failed"}
                           /\ jobs[r].state \notin {"waiting", "active", "delayed"}
    /\ \A s \in Syncers : sync[s].pc = "idle"

\* The row is what a sync of the lead would make of it.
Agrees == SyncedRow(lead, order) = order

\* Once no update, push or sync is under way, the two copies differ for five reasons only:
\* no sync has copied what the lead holds since it last changed (none has come yet, or each
\* has thrown, be it for good: no contact or phone, no such stage, a refused upsert, a
\* failed write); a push was never queued, dropped for its jobId, or failed three
\* times; or syncs of the order overlapped.  Overlapping updates, lost answers and pushes
\* applied out of order are not among them: an update changes in the row only what it
\* pushes, and the sync that the push provokes brings the row back to the lead.
CopiesAgree == Quiet /\ ~excused => Agrees

\* The client's timeline ends with the state the order is in, unless a sync changed the
\* row since, the last update had read a row that was changed before it committed, or
\* an update whose transaction began after the last one's had committed before it.
TimelineIsCurrent == ~drift => timeline.row = order

\* A committed update is pushed in the end, unless it was never queued, dropped for its
\* jobId, or failed at every attempt: a job is never left waiting or in its backoff.
UpdateIsPushed ==
    \A r \in Requests : req[r].pc = "committed" ~>
        jobs[r].state \in {"completed", "failed", "dropped"} \/ req[r].pc = "failed"
=============================================================================
