----------------------------- MODULE InboundSync -----------------------------
(***************************************************************************)
(* How changes made in AmoCRM reach the orders table: webhooks, the Redis  *)
(* idempotency key, the BullMQ queue 'amocrm-inbound' with its one worker, *)
(* the failsafe cron and syncDealById, which both of them call.            *)
(*                                                                         *)
(* A lead is abstracted to the number of changes made to it in the CRM     *)
(* (0: it does not exist), so that "which version of the lead does the     *)
(* order row hold" is a comparison of numbers.  Every await between two    *)
(* effects is a point where another process may run.                       *)
(***************************************************************************)
EXTENDS Naturals, FiniteSets

CONSTANTS
    Deals,          \* amoCRM lead ids
    NoDeal,         \* not a lead id
    Handlers,       \* webhook requests the API may be serving at once
    Worker,         \* the worker of the queue (concurrency 1)
    Runs,           \* failsafe runs that may overlap: Nest does not wait for one to end
    MaxAttempts,    \* attempts of a job (queues.module.ts)
    PageLimit,      \* leads in one answer of listLeadsUpdatedSince
    Faults,         \* which of FaultKinds may happen
    MaxEdits,       \* bound: changes of one lead
    MaxJobs,        \* bound: jobs of one lead that wait with the same attempts made
    MaxRestarts     \* bound: restarts of the API process

FaultKinds == {"hook_lost", "redis_failed", "sync_failed", "list_failed", "restart", "outage"}

ASSUME ConstantsAssumption ==
    /\ NoDeal \notin Deals
    /\ Worker \notin Runs
    /\ MaxAttempts \in Nat \ {0}
    /\ PageLimit \in Nat \ {0}
    /\ Faults \subseteq FaultKinds
    /\ MaxEdits \in Nat \ {0}
    /\ MaxJobs \in Nat \ {0}
    /\ MaxRestarts \in Nat

VARIABLES
    lead,       \* external: changes made to each lead so far, what getLead returns
    hooks,      \* external: leads with a webhook on its way to the API
    marked,     \* Redis: amocrm:event keys that have not expired
    handler,    \* receive(): ids still to handle, id between markIfNew and queue.add
    queue,      \* BullMQ: jobs that wait, counted per lead and attempts made
    job,        \* BullMQ: the job the worker has
    recent,     \* leads changed since the failsafe's lastSync
    run,        \* failsafe runs: pc, and the leads listed and not yet synced
    sync,       \* syncDealById as called by the worker and by each run
    order,      \* orders: the version of the lead the row holds, 0 without a row
    best,       \* history: the latest version ever written to the row
    abandoned,  \* history: leads whose latest change a failsafe run gave up on
    restarts    \* bound counter

vars == <<lead, hooks, marked, handler, queue, job, recent, run, sync, order,
          best, abandoned, restarts>>

webhookVars == <<hooks, marked, handler>>
queueVars   == <<queue, job>>
cronVars    == <<recent, run, abandoned>>
rowVars     == <<order, best>>

Syncers == {Worker} \cup Runs
Jobs    == [deal : Deals, made : 0 .. MaxAttempts - 1]
NoJob   == [deal |-> NoDeal, made |-> 0]

Versions == 0 .. MaxEdits

-----------------------------------------------------------------------------
(* Records of the processes *)

IdleHandler == [batch |-> {}, todo |-> {}, adding |-> NoDeal]
IdleRun     == [pc |-> "idle", window |-> {}]
\* overtaken (history): another sync has written the row since this one read the lead.
IdleSync    == [pc |-> "idle", deal |-> NoDeal, snap |-> 0, found |-> FALSE, overtaken |-> FALSE]
Begin(d)    == [IdleSync EXCEPT !.pc = "get", !.deal = d]

\* The handler is done with id d: the next id of the set, or the answer 200.
Handled(h, d) ==
    LET rest == handler[h].todo \ {d}
    IN  IF rest = {} THEN IdleHandler
        ELSE [handler[h] EXCEPT !.todo = rest, !.adding = NoDeal]

\* Leads a failsafe run still has to bring up to date, the one it is on included.
Outstanding(c) ==
    run[c].window \cup (IF sync[c].pc \in {"get", "find", "write"} THEN {sync[c].deal} ELSE {})

Init ==
    /\ lead = [d \in Deals |-> 0]
    /\ hooks = {}
    /\ marked = {}
    /\ handler = [h \in Handlers |-> IdleHandler]
    /\ queue = [j \in Jobs |-> 0]
    /\ job = NoJob
    /\ recent = {}
    /\ run = [c \in Runs |-> IdleRun]
    /\ sync = [s \in Syncers |-> IdleSync]
    /\ order = [d \in Deals |-> 0]
    /\ best = [d \in Deals |-> 0]
    /\ abandoned = {}
    /\ restarts = 0

-----------------------------------------------------------------------------
(* AmoCRM *)

\* A manager creates the lead or changes it: updated_at moves past lastSync, also
\* for the runs that have not sent their list request yet, and a webhook leaves.
EditLead(d) ==
    /\ lead[d] < MaxEdits
    /\ lead' = [lead EXCEPT ![d] = @ + 1]
    /\ hooks' = hooks \cup {d}
    /\ recent' = recent \cup {d}
    /\ run' = [c \in Runs |-> IF run[c].pc = "listing"
                              THEN [run[c] EXCEPT !.window = @ \cup {d}] ELSE run[c]]
    /\ abandoned' = abandoned \ {d}
    /\ UNCHANGED <<marked, handler, queueVars, sync, rowVars, restarts>>

LoseHook(d) ==
    /\ "hook_lost" \in Faults
    /\ d \in hooks
    /\ hooks' = hooks \ {d}
    /\ UNCHANGED <<lead, marked, handler, queueVars, cronVars, sync, rowVars, restarts>>

-----------------------------------------------------------------------------
(* The webhook endpoint *)

\* One delivery names several leads; amoCRM may deliver it again even when it
\* was answered.
Receive(h) ==
    /\ handler[h] = IdleHandler
    /\ \E batch \in (SUBSET hooks) \ {{}} :
          /\ handler' = [handler EXCEPT ![h] = [IdleHandler EXCEPT !.batch = batch, !.todo = batch]]
          /\ hooks' \in {hooks, hooks \ batch}
    /\ UNCHANGED <<lead, marked, queueVars, cronVars, sync, rowVars, restarts>>

\* SET NX EX: a key that is alive swallows the id, a new one leads to queue.add.
MarkIfNew(h, d) ==
    /\ handler[h].adding = NoDeal
    /\ d \in handler[h].todo
    /\ marked' = marked \cup {d}
    /\ handler' = [handler EXCEPT ![h] = IF d \in marked THEN Handled(h, d)
                                         ELSE [@ EXCEPT !.adding = d]]
    /\ UNCHANGED <<lead, hooks, queueVars, cronVars, sync, rowVars, restarts>>

AddJob(h) ==
    LET d == handler[h].adding
    IN  /\ d # NoDeal
        /\ \A m \in 0 .. MaxAttempts - 1 : queue[[deal |-> d, made |-> m]] < MaxJobs
        /\ queue' = [queue EXCEPT ![[deal |-> d, made |-> 0]] = @ + 1]
        /\ handler' = [handler EXCEPT ![h] = Handled(h, d)]
        /\ UNCHANGED <<lead, hooks, marked, job, cronVars, sync, rowVars, restarts>>

\* Redis fails under markIfNew or queue.add: the rest of the delivery is not
\* handled, the key stays, and amoCRM may or may not deliver it again.
ReceiveThrows(h) ==
    /\ "redis_failed" \in Faults
    /\ handler[h] # IdleHandler
    /\ hooks' \in {hooks, hooks \cup handler[h].batch}
    /\ handler' = [handler EXCEPT ![h] = IdleHandler]
    /\ UNCHANGED <<lead, marked, queueVars, cronVars, sync, rowVars, restarts>>

ExpireKey(d) ==
    /\ d \in marked
    /\ marked' = marked \ {d}
    /\ UNCHANGED <<lead, hooks, handler, queueVars, cronVars, sync, rowVars, restarts>>

-----------------------------------------------------------------------------
(* syncDealById *)

\* Faulty variant of GetLead: the client answers from a cache it fills now and then.
GetLead_Cached(s) ==
    /\ sync[s].pc = "get"
    /\ \E v \in 1 .. lead[sync[s].deal] :
          sync' = [sync EXCEPT ![s].pc = "find", ![s].snap = v]
    /\ UNCHANGED <<lead, webhookVars, queueVars, cronVars, rowVars, restarts>>

GetLead(s) ==
    /\ sync[s].pc = "get"
    /\ sync' = [sync EXCEPT ![s].pc = "find", ![s].snap = lead[sync[s].deal]]
    /\ UNCHANGED <<lead, webhookVars, queueVars, cronVars, rowVars, restarts>>

FindOrder(s) ==
    /\ sync[s].pc = "find"
    /\ sync' = [sync EXCEPT ![s].pc = "write", ![s].found = (order[sync[s].deal] # 0)]
    /\ UNCHANGED <<lead, webhookVars, queueVars, cronVars, rowVars, restarts>>

\* orders.amocrm_deal_id is unique: create fails when another sync made the row
\* after this one looked for it.
Conflict(s) == ~sync[s].found /\ order[sync[s].deal] # 0

\* The other syncs of lead d that have read it and not written yet.
Overtake(s, d) ==
    [t \in Syncers |->
        IF t # s /\ sync[t].deal = d /\ sync[t].pc \in {"find", "write"}
        THEN [sync[t] EXCEPT !.overtaken = TRUE] ELSE sync[t]]

\* order.update or order.create, with everything read from the lead earlier.
WriteOrder(s) ==
    LET d == sync[s].deal
        v == sync[s].snap
    IN  /\ sync[s].pc = "write"
        /\ ~Conflict(s)
        /\ order' = [order EXCEPT ![d] = v]
        /\ best' = [best EXCEPT ![d] = IF v > @ THEN v ELSE @]
        /\ sync' = [Overtake(s, d) EXCEPT ![s] = [IdleSync EXCEPT !.pc = "audit", !.deal = d]]
        /\ UNCHANGED <<lead, webhookVars, queueVars, cronVars, restarts>>

SyncReturns(s) ==
    /\ sync[s].pc = "audit"
    /\ sync' = [sync EXCEPT ![s] = IdleSync]
    /\ job' = IF s = Worker THEN NoJob ELSE job
    /\ UNCHANGED <<lead, webhookVars, queue, cronVars, rowVars, restarts>>

\* BullMQ queues a failed job again until its attempts are used up.
RequeueFailed ==
    queue' = IF job.made + 1 < MaxAttempts
             THEN [queue EXCEPT ![[job EXCEPT !.made = @ + 1]] = @ + 1]
             ELSE queue

\* An exception out of syncDealById: the worker's job is retried, a failsafe
\* run logs a warning and goes on with its next lead.
Throw(s) ==
    /\ sync' = [sync EXCEPT ![s] = IdleSync]
    /\ IF s = Worker
       THEN RequeueFailed /\ job' = NoJob /\ UNCHANGED abandoned
       ELSE /\ abandoned' = abandoned \cup (IF sync[s].pc = "audit" THEN {} ELSE {sync[s].deal})
            /\ UNCHANGED queueVars
    /\ UNCHANGED <<lead, webhookVars, recent, run, rowVars, restarts>>

CreateConflicts(s) == sync[s].pc = "write" /\ Conflict(s) /\ Throw(s)

\* The CRM, the database or the audit insert fails, or the lead is refused (no
\* contact, no phone, an unknown stage).
SyncThrows(s) == "sync_failed" \in Faults /\ sync[s].pc # "idle" /\ Throw(s)

-----------------------------------------------------------------------------
(* The worker of amocrm-inbound *)

TakeJob(j) ==
    /\ job = NoJob
    /\ queue[j] > 0
    /\ queue' = [queue EXCEPT ![j] = @ - 1]
    /\ job' = j
    /\ sync' = [sync EXCEPT ![Worker] = Begin(j.deal)]
    /\ UNCHANGED <<lead, webhookVars, cronVars, rowVars, restarts>>

-----------------------------------------------------------------------------
(* AmocrmFailsafeService.run *)

\* Faulty variant of StartRun: lastSync is moved before since is read from it.
StartRun_SinceIsNow(c) ==
    /\ run[c] = IdleRun
    /\ run' = [run EXCEPT ![c] = [pc |-> "listing", window |-> {}]]
    /\ recent' = {}
    /\ UNCHANGED <<lead, webhookVars, queueVars, sync, rowVars, abandoned, restarts>>

\* since = lastSync; lastSync = now, before the request is sent.
StartRun(c) ==
    /\ run[c] = IdleRun
    /\ run' = [run EXCEPT ![c] = [pc |-> "listing", window |-> recent]]
    /\ recent' = {}
    /\ UNCHANGED <<lead, webhookVars, queueVars, sync, rowVars, abandoned, restarts>>

\* One page, without a request for the next.
ListLeads(c) ==
    /\ run[c].pc = "listing"
    /\ \E page \in SUBSET run[c].window :
          /\ \/ page = run[c].window /\ Cardinality(page) <= PageLimit
             \/ Cardinality(run[c].window) > PageLimit /\ Cardinality(page) = PageLimit
          /\ run' = [run EXCEPT ![c] = [pc |-> "syncing", window |-> page]]
          /\ abandoned' = abandoned \cup (run[c].window \ page)
    /\ UNCHANGED <<lead, webhookVars, queueVars, recent, sync, rowVars, restarts>>

\* The request fails: run() throws, and lastSync has already moved.
ListFails(c) ==
    /\ "list_failed" \in Faults
    /\ run[c].pc = "listing"
    /\ run' = [run EXCEPT ![c] = IdleRun]
    /\ abandoned' = abandoned \cup run[c].window
    /\ UNCHANGED <<lead, webhookVars, queueVars, recent, sync, rowVars, restarts>>

NextLead(c, d) ==
    /\ run[c].pc = "syncing"
    /\ sync[c] = IdleSync
    /\ d \in run[c].window
    /\ run' = [run EXCEPT ![c].window = @ \ {d}]
    /\ sync' = [sync EXCEPT ![c] = Begin(d)]
    /\ UNCHANGED <<lead, webhookVars, queueVars, recent, abandoned, rowVars, restarts>>

\* Faulty variant of EndRun: lastSync is moved (again) when the run is over.
EndRun_MovesLastSync(c) ==
    /\ run[c].pc = "syncing"
    /\ sync[c] = IdleSync
    /\ run[c].window = {}
    /\ run' = [run EXCEPT ![c] = IdleRun]
    /\ recent' = {}
    /\ UNCHANGED <<lead, webhookVars, queueVars, abandoned, sync, rowVars, restarts>>

EndRun(c) ==
    /\ run[c].pc = "syncing"
    /\ sync[c] = IdleSync
    /\ run[c].window = {}
    /\ run' = [run EXCEPT ![c] = IdleRun]
    /\ UNCHANGED <<lead, webhookVars, queueVars, recent, abandoned, sync, rowVars, restarts>>

-----------------------------------------------------------------------------
(* Restart of the API process.  Redis and the database keep their state, BullMQ  *)
(* gives a stalled job back; lastSync becomes 30 minutes ago.  After a short     *)
(* restart that reaches back past every run under way (they start every 15       *)
(* minutes); after an outage it need not.                                        *)

Unsynced == recent \cup UNION {Outstanding(c) : c \in Runs}

Restart(reach) ==
    /\ restarts < MaxRestarts
    /\ \/ "restart" \in Faults /\ Unsynced \subseteq reach
       \/ "outage" \in Faults
    /\ reach \subseteq {d \in Deals : lead[d] # 0}
    /\ recent' = reach
    /\ abandoned' = abandoned \cup (Unsynced \ reach)
    /\ handler' = [h \in Handlers |-> IdleHandler]
    /\ hooks' \in {hooks, hooks \cup UNION {handler[h].batch : h \in Handlers}}
    /\ run' = [c \in Runs |-> IdleRun]
    /\ sync' = [s \in Syncers |-> IdleSync]
    /\ job' = NoJob
    /\ queue' = IF job = NoJob THEN queue ELSE [queue EXCEPT ![job] = @ + 1]
    /\ restarts' = restarts + 1
    /\ UNCHANGED <<lead, marked, rowVars>>

-----------------------------------------------------------------------------
Crm == \E d \in Deals : EditLead(d) \/ LoseHook(d)

HandlerStep(h) == Receive(h) \/ AddJob(h) \/ \E d \in Deals : MarkIfNew(h, d)

SyncStep(s) ==
    \/ GetLead(s) \/ FindOrder(s) \/ WriteOrder(s)
    \/ CreateConflicts(s) \/ SyncReturns(s)

RunStep(c) == ListLeads(c) \/ EndRun(c) \/ \E d \in Deals : NextLead(c, d)

Next ==
    \/ Crm
    \/ \E h \in Handlers : HandlerStep(h) \/ ReceiveThrows(h)
    \/ \E d \in Deals : ExpireKey(d)
    \/ \E s \in Syncers : SyncStep(s) \/ SyncThrows(s)
    \/ \E j \in Jobs : TakeJob(j)
    \/ \E c \in Runs : StartRun(c) \/ RunStep(c) \/ ListFails(c)
    \/ \E reach \in SUBSET Deals : Restart(reach)

Spec == Init /\ [][Next]_vars

\* The cron keeps firing, and what was started goes on: the event loop, the worker and
\* the cron neither block nor stop.  Nothing is assumed of AmoCRM's deliveries.
Fairness ==
    /\ \A s \in Syncers : WF_vars(SyncStep(s))
    /\ WF_vars(\E c \in Runs : StartRun(c))
    /\ \A c \in Runs : WF_vars(RunStep(c))
    /\ WF_vars(\E j \in Jobs : TakeJob(j))

FairSpec == Spec /\ Fairness

-----------------------------------------------------------------------------
(* Properties *)

CrmType == lead \in [Deals -> Versions] /\ hooks \subseteq Deals

HandlerType ==
    /\ marked \subseteq Deals
    /\ handler \in [Handlers -> [batch : SUBSET Deals, todo : SUBSET Deals,
                                 adding : Deals \cup {NoDeal}]]
    /\ \A h \in Handlers : handler[h].adding # NoDeal => handler[h].adding \in handler[h].todo

QueueType == queue \in [Jobs -> Nat] /\ job \in Jobs \cup {NoJob}

CronType ==
    /\ recent \subseteq Deals
    /\ abandoned \subseteq Deals
    /\ run \in [Runs -> [pc : {"idle", "listing", "syncing"}, window : SUBSET Deals]]

SyncType ==
    /\ sync \in [Syncers -> [pc : {"idle", "get", "find", "write", "audit"},
                             deal : Deals \cup {NoDeal}, snap : Versions, found : BOOLEAN, overtaken : BOOLEAN]]
    /\ \A s \in Syncers : sync[s].pc = "idle" <=> sync[s].deal = NoDeal

RowType == order \in [Deals -> Versions] /\ best \in [Deals -> Versions]

WorkerOnItsJob == job.deal = sync[Worker].deal

\* Every variable stays in its type, each process's record consistent with its pc: a
\* sync under way has a lead, and the worker has a job exactly while it
\* syncs that job's lead.
TypeOK ==
    /\ CrmType /\ HandlerType /\ QueueType /\ CronType /\ SyncType /\ RowType
    /\ WorkerOnItsJob
    /\ restarts \in Nat

\* A failsafe run will still read the lead's latest version, or holds it.
Covered(d) ==
    \/ d \in recent
    \/ \E c \in Runs :
          \/ d \in run[c].window
          \/ sync[c].deal = d /\ sync[c].pc = "get"
          \/ sync[c].deal = d /\ sync[c].pc \in {"find", "write"} /\ sync[c].snap = lead[d]

\* The failsafe's promise, with its only exceptions: a change of a lead that never
\* reached the orders table is still ahead of a failsafe run, whatever became of
\* its webhooks, unless a run gave the lead up (failed list or sync, full page,
\* outage).
MissedOnlyIfAbandoned ==
    \A d \in Deals : best[d] < lead[d] => Covered(d) \/ d \in abandoned

\* An order never takes an older version of its lead than it holds, but by the one race the
\* code leaves open: a sync reads the lead, another sync writes the row, and the first, which
\* reads the lead no second time, writes what it had read.  Whatever webhooks, retries, runs
\* of the failsafe and restarts do, each write is otherwise at least as new as the row.
GoesBackOnlyIfOvertaken ==
    [][\A d \in Deals : order'[d] < order[d] =>
          \E s \in Syncers : sync[s].deal = d /\ sync[s].pc = "write" /\ sync[s].overtaken]_vars

\* Every change of a lead, or a later one, is written to its order eventually, also
\* when its webhook is lost or swallowed and every attempt of its job fails,
\* unless a failsafe run gives the lead up.
ChangeReachesOrder ==
    \A d \in Deals : \A v \in 1 .. MaxEdits :
        (lead[d] = v) ~> (best[d] >= v \/ d \in abandoned)
=============================================================================
