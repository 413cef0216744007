-------------------------- MODULE InboundSyncProofs --------------------------
(***************************************************************************)
(* Type correctness of InboundSync, the failsafe's promise, and which      *)
(* write may take a row back, for any number of leads, webhook requests,   *)
(* overlapping runs and faults.                                            *)
(***************************************************************************)
EXTENDS InboundSync, TLAPS

-----------------------------------------------------------------------------
(* The records the actions build *)

Syncs == [pc : {"idle", "get", "find", "write", "audit"},
          deal : Deals \cup {NoDeal}, snap : Versions, found : BOOLEAN, overtaken : BOOLEAN]

\* A new job is one of Jobs: attempts are counted from 0 to MaxAttempts - 1.
LEMMA NewJobType == ASSUME NEW d \in Deals PROVE [deal |-> d, made |-> 0] \in Jobs
BY ConstantsAssumption DEF Jobs, ConstantsAssumption

LEMMA NoDealIsNoLead == NoDeal \notin Deals
BY ConstantsAssumption DEF ConstantsAssumption

LEMMA WorkerIsSyncer == Worker \in Syncers /\ \A c \in Runs : c \in Syncers /\ c # Worker
BY ConstantsAssumption DEF Syncers, ConstantsAssumption

\* The two ways a sync record is set as a whole.
LEMMA SyncRecords ==
    /\ IdleSync \in Syncs /\ IdleSync.pc = "idle" /\ IdleSync.deal = NoDeal
    /\ \A d \in Deals : /\ Begin(d) \in Syncs /\ Begin(d).pc = "get" /\ Begin(d).deal = d
<1>1. 0 \in Versions
  BY ConstantsAssumption DEF Versions, ConstantsAssumption
<1>2. IdleSync \in Syncs
  BY <1>1 DEF IdleSync, Syncs
<1> QED BY <1>2 DEF IdleSync, Begin, Syncs

\* Replacing one record by IdleSync or by a new sync keeps SyncType.
LEMMA SetSyncType ==
    ASSUME SyncType, NEW s \in Syncers, NEW r \in Syncs,
           r.pc = "idle" <=> r.deal = NoDeal,
           sync' = [sync EXCEPT ![s] = r]
    PROVE  SyncType' /\ sync'[s] = r /\ \A t \in Syncers \ {s} : sync'[t] = sync[t]
BY DEF SyncType, Syncs

LEMMA BeginType ==
    ASSUME SyncType, NEW s \in Syncers, NEW d \in Deals,
           sync' = [sync EXCEPT ![s] = Begin(d)]
    PROVE  SyncType' /\ sync'[s] = Begin(d) /\ \A t \in Syncers \ {s} : sync'[t] = sync[t]
<1>1. Begin(d) \in Syncs /\ ~(Begin(d).pc = "idle") /\ ~(Begin(d).deal = NoDeal)
  BY SyncRecords, NoDealIsNoLead
<1> QED BY <1>1, SetSyncType

-----------------------------------------------------------------------------
(* What a step leaves alone keeps its type *)

LEMMA Frames ==
    /\ CrmType /\ UNCHANGED <<lead, hooks>> => CrmType'
    /\ HandlerType /\ UNCHANGED <<marked, handler>> => HandlerType'
    /\ QueueType /\ UNCHANGED <<queue, job>> => QueueType'
    /\ CronType /\ UNCHANGED <<recent, run, abandoned>> => CronType'
    /\ SyncType /\ UNCHANGED sync => SyncType'
    /\ RowType /\ UNCHANGED <<order, best>> => RowType'
    /\ WorkerOnItsJob /\ UNCHANGED <<job, sync>> => WorkerOnItsJob'
BY DEF CrmType, HandlerType, QueueType, CronType, SyncType, RowType, WorkerOnItsJob

LEMMA InitType == Init => TypeOK
<1> SUFFICES ASSUME Init PROVE TypeOK
  OBVIOUS
<1>1. 0 \in Versions /\ Worker \in Syncers
  BY WorkerIsSyncer, ConstantsAssumption DEF Versions, ConstantsAssumption
<1>2. CrmType /\ RowType
  BY <1>1 DEF Init, CrmType, RowType
<1>3. HandlerType
  BY DEF Init, HandlerType, IdleHandler
<1>4. QueueType /\ CronType
  BY DEF Init, QueueType, CronType, IdleRun
<1>5. SyncType /\ WorkerOnItsJob
  BY <1>1 DEF Init, SyncType, WorkerOnItsJob, IdleSync, NoJob
<1> QED BY <1>2, <1>3, <1>4, <1>5 DEF TypeOK, Init

-----------------------------------------------------------------------------
(* Every step keeps the types: AmoCRM and the webhook endpoint *)

LEMMA EditLeadType ==
    ASSUME TypeOK, NEW d \in Deals, EditLead(d) PROVE TypeOK'
<1>1. CrmType'
  <2>1. lead[d] + 1 \in Versions
    BY ConstantsAssumption DEF TypeOK, CrmType, EditLead, Versions, ConstantsAssumption
  <2> QED BY <2>1 DEF TypeOK, CrmType, EditLead
<1>2. CronType'
  BY DEF TypeOK, CronType, EditLead
<1> QED BY <1>1, <1>2, Frames DEF TypeOK, EditLead, queueVars, rowVars

LEMMA LoseHookType ==
    ASSUME TypeOK, NEW d \in Deals, LoseHook(d) PROVE TypeOK'
<1>1. CrmType'
  BY DEF TypeOK, CrmType, LoseHook
<1> QED BY <1>1, Frames DEF TypeOK, LoseHook, queueVars, cronVars, rowVars

LEMMA ReceiveType ==
    ASSUME TypeOK, NEW h \in Handlers, Receive(h) PROVE TypeOK'
<1>1. CrmType'
  BY DEF TypeOK, CrmType, Receive
<1>2. HandlerType'
  <2>1. PICK batch \in SUBSET hooks :
          handler' = [handler EXCEPT ![h] = [IdleHandler EXCEPT !.batch = batch, !.todo = batch]]
    BY DEF Receive
  <2>2. batch \subseteq Deals
    BY DEF TypeOK, CrmType
  <2> QED BY <2>1, <2>2 DEF TypeOK, HandlerType, Receive, IdleHandler
<1> QED BY <1>1, <1>2, Frames DEF TypeOK, Receive, queueVars, cronVars, rowVars

LEMMA MarkIfNewType ==
    ASSUME TypeOK, NEW h \in Handlers, NEW d \in Deals, MarkIfNew(h, d) PROVE TypeOK'
<1>1. HandlerType'
  <2>1. CASE d \in marked
    <3> DEFINE H == Handled(h, d)
    <3>1. handler[h] \in [batch : SUBSET Deals, todo : SUBSET Deals, adding : Deals \cup {NoDeal}]
      BY DEF TypeOK, HandlerType
    <3>2. /\ H \in [batch : SUBSET Deals, todo : SUBSET Deals, adding : Deals \cup {NoDeal}]
          /\ H.adding = NoDeal
      BY <3>1 DEF Handled, IdleHandler
    <3>3. handler' = [handler EXCEPT ![h] = H]
      BY <2>1 DEF MarkIfNew
    <3> HIDE DEF H
    <3>4. marked' \subseteq Deals
      BY DEF TypeOK, HandlerType, MarkIfNew
    <3> QED BY <3>2, <3>3, <3>4 DEF TypeOK, HandlerType
  <2>2. CASE d \notin marked
    BY <2>2 DEF TypeOK, HandlerType, MarkIfNew
  <2> QED BY <2>1, <2>2
<1> QED BY <1>1, Frames DEF TypeOK, MarkIfNew, queueVars, cronVars, rowVars

LEMMA AddJobType ==
    ASSUME TypeOK, NEW h \in Handlers, AddJob(h) PROVE TypeOK'
<1>1. handler[h].adding \in Deals
  BY DEF TypeOK, HandlerType, AddJob
<1>2. HandlerType'
  BY <1>1 DEF TypeOK, HandlerType, AddJob, Handled, IdleHandler
<1>3. QueueType'
  BY <1>1, NewJobType DEF TypeOK, QueueType, AddJob
<1> QED BY <1>2, <1>3, Frames DEF TypeOK, AddJob, cronVars, rowVars

LEMMA ReceiveThrowsType ==
    ASSUME TypeOK, NEW h \in Handlers, ReceiveThrows(h) PROVE TypeOK'
<1>1. CrmType'
  BY DEF TypeOK, CrmType, HandlerType, ReceiveThrows
<1>2. HandlerType'
  BY DEF TypeOK, HandlerType, ReceiveThrows, IdleHandler
<1> QED BY <1>1, <1>2, Frames DEF TypeOK, ReceiveThrows, queueVars, cronVars, rowVars

LEMMA ExpireKeyType ==
    ASSUME TypeOK, NEW d \in Deals, ExpireKey(d) PROVE TypeOK'
<1>1. HandlerType'
  BY DEF TypeOK, HandlerType, ExpireKey
<1> QED BY <1>1, Frames DEF TypeOK, ExpireKey, queueVars, cronVars, rowVars

-----------------------------------------------------------------------------
(* ... syncDealById and the worker *)

LEMMA GetLeadType ==
    ASSUME TypeOK, NEW s \in Syncers, GetLead(s) PROVE TypeOK'
<1>1. sync[s].deal \in Deals
  BY DEF TypeOK, SyncType, GetLead
<1>2. lead[sync[s].deal] \in Versions
  BY <1>1 DEF TypeOK, CrmType
<1>3. SyncType'
  BY <1>2 DEF TypeOK, SyncType, GetLead
<1>4. WorkerOnItsJob'
  BY WorkerIsSyncer DEF TypeOK, WorkerOnItsJob, SyncType, GetLead, queueVars
<1> QED BY <1>3, <1>4, Frames DEF TypeOK, GetLead, webhookVars, queueVars, cronVars, rowVars

LEMMA FindOrderType ==
    ASSUME TypeOK, NEW s \in Syncers, FindOrder(s) PROVE TypeOK'
<1>1. SyncType'
  <2>1. sync' = [sync EXCEPT ![s] = [sync[s] EXCEPT !.pc = "write", !.found = sync'[s].found]]
    BY DEF FindOrder, TypeOK, SyncType
  <2>2. sync'[s].found \in BOOLEAN
    BY DEF FindOrder, TypeOK, SyncType
  <2> QED BY <2>1, <2>2 DEF FindOrder, TypeOK, SyncType
<1>2. WorkerOnItsJob'
  BY WorkerIsSyncer DEF TypeOK, WorkerOnItsJob, SyncType, FindOrder, queueVars
<1> QED BY <1>1, <1>2, Frames DEF TypeOK, FindOrder, webhookVars, queueVars, cronVars, rowVars

\* A write marks the syncs it overtakes and changes nothing else of them.
LEMMA Overtaken ==
    ASSUME TypeOK, NEW s \in Syncers, WriteOrder(s), NEW t \in Syncers \ {s}
    PROVE  /\ sync'[t] \in Syncs
           /\ sync'[t].pc = sync[t].pc /\ sync'[t].deal = sync[t].deal
           /\ sync'[t].snap = sync[t].snap /\ sync'[t].found = sync[t].found
           /\ sync'[t].overtaken <=>
                 \/ sync[t].overtaken
                 \/ sync[t].deal = sync[s].deal /\ sync[t].pc \in {"find", "write"}
<1>1. sync[t] \in Syncs
  BY DEF TypeOK, SyncType, Syncs
<1>2. sync'[t] = Overtake(s, sync[s].deal)[t]
  BY DEF WriteOrder, Overtake
<1>3. CASE sync[t].deal = sync[s].deal /\ sync[t].pc \in {"find", "write"}
  <2>1. sync'[t] = [sync[t] EXCEPT !.overtaken = TRUE]
    BY <1>2, <1>3 DEF Overtake
  <2> QED BY <1>1, <1>3, <2>1 DEF Syncs
<1>4. CASE ~(sync[t].deal = sync[s].deal /\ sync[t].pc \in {"find", "write"})
  <2>1. sync'[t] = sync[t]
    BY <1>2, <1>4 DEF Overtake
  <2>2. sync[t].overtaken \in BOOLEAN
    BY <1>1 DEF Syncs
  <2> QED BY <1>1, <1>4, <2>1
<1> QED BY <1>3, <1>4

LEMMA WriteOrderType ==
    ASSUME TypeOK, NEW s \in Syncers, WriteOrder(s) PROVE TypeOK'
<1> DEFINE d == sync[s].deal
           r == [IdleSync EXCEPT !.pc = "audit", !.deal = d]
<1>1. d \in Deals /\ sync[s].snap \in Versions
  BY DEF TypeOK, SyncType, WriteOrder
<1>2. RowType'
  BY <1>1 DEF TypeOK, RowType, WriteOrder
<1>3. r \in Syncs /\ r.pc = "audit" /\ r.deal = d
  BY <1>1, SyncRecords DEF Syncs
<1>4. sync' = [Overtake(s, d) EXCEPT ![s] = r]
  BY DEF WriteOrder
<1>5. DOMAIN sync' = Syncers /\ sync' = [t \in Syncers |-> sync'[t]] /\ sync'[s] = r
  BY <1>4 DEF Overtake
<1>6. SyncType'
  <2>1. \A t \in Syncers : sync'[t] \in Syncs
    BY <1>3, <1>5, Overtaken
  <2>2. ASSUME NEW t \in Syncers PROVE sync'[t].pc = "idle" <=> sync'[t].deal = NoDeal
    <3>1. CASE t = s
      BY <1>1, <1>3, <1>5, <3>1, NoDealIsNoLead
    <3>2. CASE t # s
      <4>1. sync'[t].pc = sync[t].pc /\ sync'[t].deal = sync[t].deal
        BY <3>2, Overtaken
      <4> QED BY <4>1 DEF TypeOK, SyncType
    <3> QED BY <3>1, <3>2
  <2>3. sync' \in [Syncers -> Syncs]
    BY <1>5, <2>1
  <2> QED BY <2>2, <2>3 DEF SyncType, Syncs
<1>7. WorkerOnItsJob'
  <2>1. CASE Worker = s
    BY <1>3, <1>5, <2>1 DEF TypeOK, WorkerOnItsJob, WriteOrder, queueVars
  <2>2. CASE Worker # s
    <3>1. sync'[Worker].deal = sync[Worker].deal
      BY <2>2, Overtaken, WorkerIsSyncer
    <3> QED BY <3>1 DEF TypeOK, WorkerOnItsJob, WriteOrder, queueVars
  <2> QED BY <2>1, <2>2
<1> QED BY <1>2, <1>6, <1>7, Frames DEF TypeOK, WriteOrder, webhookVars, queueVars, cronVars

LEMMA SyncReturnsType ==
    ASSUME TypeOK, NEW s \in Syncers, SyncReturns(s) PROVE TypeOK'
<1>1. SyncType' /\ sync'[s] = IdleSync /\ \A t \in Syncers \ {s} : sync'[t] = sync[t]
  BY SetSyncType, SyncRecords DEF TypeOK, SyncReturns
<1>2. QueueType'
  BY DEF TypeOK, QueueType, SyncReturns
<1>3. WorkerOnItsJob'
  BY <1>1, WorkerIsSyncer, SyncRecords DEF TypeOK, WorkerOnItsJob, SyncReturns, NoJob
<1> QED BY <1>1, <1>2, <1>3, Frames DEF TypeOK, SyncReturns, webhookVars, cronVars, rowVars

\* When the worker is in a sync it has a job.
LEMMA WorkerHasJob ==
    ASSUME TypeOK, sync[Worker].pc # "idle" PROVE job \in Jobs
BY WorkerIsSyncer DEF TypeOK, SyncType, QueueType, WorkerOnItsJob, NoJob

LEMMA ThrowType ==
    ASSUME TypeOK, NEW s \in Syncers, sync[s].pc # "idle", Throw(s) PROVE TypeOK'
<1>1. SyncType' /\ sync'[s] = IdleSync /\ \A t \in Syncers \ {s} : sync'[t] = sync[t]
  BY SetSyncType, SyncRecords DEF TypeOK, Throw
<1>2. CASE s = Worker
  <2>1. job \in Jobs
    BY <1>2, WorkerHasJob
  <2>2. job.made + 1 < MaxAttempts => [job EXCEPT !.made = @ + 1] \in Jobs
    BY <2>1, ConstantsAssumption DEF Jobs, ConstantsAssumption
  <2>3. queue' \in [Jobs -> Nat]
    BY <1>2, <2>2 DEF TypeOK, QueueType, Throw, RequeueFailed
  <2>4. QueueType'
    BY <1>2, <2>3 DEF QueueType, Throw
  <2>5. WorkerOnItsJob'
    BY <1>1, <1>2, SyncRecords DEF WorkerOnItsJob, Throw, NoJob
  <2> QED BY <1>1, <1>2, <2>4, <2>5, Frames DEF TypeOK, Throw, webhookVars, rowVars
<1>3. CASE s # Worker
  <2>1. sync[s].deal \in Deals
    BY DEF TypeOK, SyncType
  <2>2. CronType'
    BY <1>3, <2>1 DEF TypeOK, CronType, Throw
  <2>3. WorkerOnItsJob'
    BY <1>1, <1>3, WorkerIsSyncer DEF TypeOK, WorkerOnItsJob, Throw, queueVars
  <2> QED BY <1>1, <1>3, <2>2, <2>3, Frames DEF TypeOK, Throw, webhookVars, queueVars, rowVars
<1> QED BY <1>2, <1>3

LEMMA TakeJobType ==
    ASSUME TypeOK, NEW j \in Jobs, TakeJob(j) PROVE TypeOK'
<1>1. j.deal \in Deals
  BY DEF Jobs
<1>2. /\ SyncType' /\ sync'[Worker] = Begin(j.deal)
  BY <1>1, BeginType, WorkerIsSyncer DEF TypeOK, TakeJob
<1>3. QueueType'
  BY DEF TypeOK, QueueType, TakeJob
<1>4. WorkerOnItsJob'
  BY <1>1, <1>2, SyncRecords DEF WorkerOnItsJob, TakeJob
<1> QED BY <1>2, <1>3, <1>4, Frames DEF TypeOK, TakeJob, webhookVars, cronVars, rowVars

-----------------------------------------------------------------------------
(* ... the failsafe and restarts *)

LEMMA RunType ==
    ASSUME TypeOK, NEW c \in Runs, StartRun(c) \/ ListLeads(c) \/ ListFails(c) \/ EndRun(c)
    PROVE  TypeOK'
<1>1. CronType'
  <2>1. CASE StartRun(c)
    BY <2>1 DEF TypeOK, CronType, StartRun
  <2>2. CASE ListLeads(c)
    BY <2>2 DEF TypeOK, CronType, ListLeads
  <2>3. CASE ListFails(c)
    BY <2>3 DEF TypeOK, CronType, ListFails, IdleRun
  <2>4. CASE EndRun(c)
    BY <2>4 DEF TypeOK, CronType, EndRun, IdleRun
  <2> QED BY <2>1, <2>2, <2>3, <2>4
<1>2. UNCHANGED <<lead, webhookVars, queueVars, sync, rowVars, restarts>>
  BY DEF StartRun, ListLeads, ListFails, EndRun
<1> QED BY <1>1, <1>2, Frames DEF TypeOK, webhookVars, queueVars, rowVars

LEMMA NextLeadType ==
    ASSUME TypeOK, NEW c \in Runs, NEW d \in Deals, NextLead(c, d) PROVE TypeOK'
<1>1. CronType'
  BY DEF TypeOK, CronType, NextLead
<1>2. SyncType' /\ \A t \in Syncers \ {c} : sync'[t] = sync[t]
  BY BeginType, WorkerIsSyncer DEF TypeOK, NextLead
<1>3. WorkerOnItsJob'
  BY <1>2, WorkerIsSyncer DEF TypeOK, WorkerOnItsJob, NextLead, queueVars
<1> QED BY <1>1, <1>2, <1>3, Frames DEF TypeOK, NextLead, webhookVars, queueVars, rowVars

LEMMA RestartType ==
    ASSUME TypeOK, NEW reach \in SUBSET Deals, Restart(reach) PROVE TypeOK'
<1>1. Unsynced \subseteq Deals
  BY WorkerIsSyncer DEF TypeOK, CronType, SyncType, Unsynced, Outstanding
<1>2. CronType'
  BY <1>1 DEF TypeOK, CronType, Restart, IdleRun
<1>3. CrmType'
  BY DEF TypeOK, CrmType, HandlerType, Restart
<1>4. HandlerType'
  BY DEF TypeOK, HandlerType, Restart, IdleHandler
<1>5. QueueType'
  BY DEF TypeOK, QueueType, Restart
<1>6. SyncType' /\ WorkerOnItsJob'
  BY SyncRecords, WorkerIsSyncer DEF SyncType, WorkerOnItsJob, Restart, NoJob, Syncs
<1>7. RowType' /\ restarts' \in Nat
  BY Frames DEF TypeOK, Restart, rowVars
<1> QED BY <1>2, <1>3, <1>4, <1>5, <1>6, <1>7 DEF TypeOK

-----------------------------------------------------------------------------
LEMMA StutterType == TypeOK /\ UNCHANGED vars => TypeOK'
BY Frames DEF TypeOK, vars, webhookVars, queueVars, cronVars, rowVars

LEMMA NextType ==
    ASSUME TypeOK, [Next]_vars PROVE TypeOK'
<1>1. CASE \E d \in Deals : EditLead(d) \/ LoseHook(d) \/ ExpireKey(d)
  BY <1>1, EditLeadType, LoseHookType, ExpireKeyType
<1>2. CASE \E h \in Handlers : HandlerStep(h) \/ ReceiveThrows(h)
  BY <1>2, ReceiveType, MarkIfNewType, AddJobType, ReceiveThrowsType DEF HandlerStep
<1>3. CASE \E s \in Syncers : SyncStep(s) \/ SyncThrows(s)
  <2>1. ASSUME NEW s \in Syncers, CreateConflicts(s) \/ SyncThrows(s) PROVE TypeOK'
    BY <2>1, ThrowType DEF CreateConflicts, SyncThrows
  <2> QED BY <1>3, <2>1, GetLeadType, FindOrderType, WriteOrderType, SyncReturnsType DEF SyncStep
<1>4. CASE \E j \in Jobs : TakeJob(j)
  BY <1>4, TakeJobType
<1>5. CASE \E c \in Runs : StartRun(c) \/ RunStep(c) \/ ListFails(c)
  BY <1>5, RunType, NextLeadType DEF RunStep
<1>6. CASE \E reach \in SUBSET Deals : Restart(reach)
  BY <1>6, RestartType
<1>7. CASE UNCHANGED vars
  BY <1>7, StutterType
<1> QED BY <1>1, <1>2, <1>3, <1>4, <1>5, <1>6, <1>7 DEF Next, Crm

\* The variables of the inbound path keep their types, and the worker has a job exactly
\* while it syncs that job's lead, whatever fails.
THEOREM TypeCorrect == Spec => []TypeOK
<1>1. TypeOK /\ [Next]_vars => TypeOK'
  BY NextType
<1> QED BY InitType, <1>1, PTL DEF Spec

-----------------------------------------------------------------------------
(* The failsafe's promise is inductive: every step hands a change that was not  *)
(* written yet from one stage of a failsafe run to the next.                    *)

\* What covers a lead, one disjunct of Covered after the other.
CoveredBySync(c, d) ==
    \/ sync[c].deal = d /\ sync[c].pc = "get"
    \/ sync[c].deal = d /\ sync[c].pc \in {"find", "write"} /\ sync[c].snap = lead[d]

LEMMA CoveredParts ==
    \A d : Covered(d) <=> \/ d \in recent
                         \/ \E c \in Runs : d \in run[c].window \/ CoveredBySync(c, d)
BY DEF Covered, CoveredBySync

LEMMA CoveredPartsNext ==
    \A d : Covered(d)' <=> \/ d \in recent'
                          \/ \E c \in Runs : d \in run'[c].window \/ CoveredBySync(c, d)'
BY DEF Covered, CoveredBySync

\* A step that neither changes leads nor lowers what was written keeps the promise when
\* it loses no cover without giving the lead up.
LEMMA KeepsPromise ==
    ASSUME TypeOK, TypeOK', MissedOnlyIfAbandoned, UNCHANGED lead, abandoned \subseteq abandoned',
           \A d \in Deals : best[d] <= best'[d],
           \A d \in Deals : Covered(d) /\ best'[d] < lead[d] => Covered(d)' \/ d \in abandoned'
    PROVE  MissedOnlyIfAbandoned'
<1> SUFFICES ASSUME NEW d \in Deals, best'[d] < lead'[d] PROVE Covered(d)' \/ d \in abandoned'
  BY DEF MissedOnlyIfAbandoned
<1>1. best[d] \in Nat /\ best'[d] \in Nat /\ lead[d] \in Nat
  BY ConstantsAssumption DEF TypeOK, RowType, CrmType, Versions, ConstantsAssumption
<1>2. best[d] < lead[d]
  BY <1>1
<1> QED BY <1>2 DEF MissedOnlyIfAbandoned

LEMMA SameRows == ASSUME TypeOK, UNCHANGED best PROVE \A d \in Deals : best[d] <= best'[d]
BY ConstantsAssumption DEF TypeOK, RowType, Versions, ConstantsAssumption

\* The webhook endpoint and the worker's side do not touch what the promise is about.
LEMMA FramePromise ==
    ASSUME MissedOnlyIfAbandoned, UNCHANGED <<lead, cronVars, best>>,
           \A c \in Runs : sync'[c] = sync[c]
    PROVE  MissedOnlyIfAbandoned'
BY DEF MissedOnlyIfAbandoned, Covered, cronVars

LEMMA EditLeadPromise ==
    ASSUME TypeOK, MissedOnlyIfAbandoned, NEW d \in Deals, EditLead(d)
    PROVE  MissedOnlyIfAbandoned'
<1> SUFFICES ASSUME NEW e \in Deals, best'[e] < lead'[e] PROVE Covered(e)' \/ e \in abandoned'
  BY DEF MissedOnlyIfAbandoned
<1>1. CASE e = d
  BY <1>1, CoveredPartsNext DEF EditLead
<1>2. CASE e # d
  <2>1. lead'[e] = lead[e] /\ best' = best
    BY <1>2 DEF EditLead, rowVars, TypeOK, CrmType
  <2>2. Covered(e) \/ e \in abandoned
    BY <2>1 DEF MissedOnlyIfAbandoned
  <2>3. ASSUME NEW c \in Runs, e \in run[c].window PROVE e \in run'[c].window
    BY <2>3 DEF EditLead, TypeOK, CronType
  <2>4. ASSUME NEW c \in Runs, CoveredBySync(c, e) PROVE CoveredBySync(c, e)'
    BY <2>1, <2>4 DEF EditLead, CoveredBySync
  <2>5. Covered(e) => Covered(e)'
    BY <2>3, <2>4, CoveredParts, CoveredPartsNext DEF EditLead
  <2> QED BY <1>2, <2>2, <2>5 DEF EditLead
<1> QED BY <1>1, <1>2

\* A sync that goes on keeps its cover: it has not read the lead yet, or reads its latest
\* version, or keeps what it has read.
LEMMA SyncProgressPromise ==
    ASSUME TypeOK, TypeOK', MissedOnlyIfAbandoned, NEW s \in Syncers, GetLead(s) \/ FindOrder(s)
    PROVE  MissedOnlyIfAbandoned'
<1>1. UNCHANGED <<lead, recent, run, abandoned, best>>
  BY DEF GetLead, FindOrder, cronVars, rowVars
<1>2. ASSUME NEW d \in Deals, NEW c \in Runs, CoveredBySync(c, d) PROVE CoveredBySync(c, d)'
  BY <1>1, <1>2, WorkerIsSyncer DEF CoveredBySync, GetLead, FindOrder, TypeOK, SyncType
<1>3. \A d \in Deals : Covered(d) => Covered(d)'
  BY <1>1, <1>2, CoveredParts, CoveredPartsNext
<1> QED BY <1>1, <1>3, SameRows, KeepsPromise

\* The write of a sync that covered the lead is the write of the lead's latest version.
LEMMA WriteOrderPromise ==
    ASSUME TypeOK, TypeOK', MissedOnlyIfAbandoned, NEW s \in Syncers, WriteOrder(s)
    PROVE  MissedOnlyIfAbandoned'
<1>1. UNCHANGED <<lead, recent, run, abandoned>>
  BY DEF WriteOrder, cronVars
<1>2. sync[s].deal \in Deals /\ sync[s].snap \in Nat
  BY ConstantsAssumption DEF TypeOK, SyncType, WriteOrder, Versions, ConstantsAssumption
<1>3. \A d \in Deals : best[d] <= best'[d]
  BY <1>2, ConstantsAssumption DEF TypeOK, RowType, WriteOrder, Versions, ConstantsAssumption
<1>4. best'[sync[s].deal] >= sync[s].snap
  BY <1>2, ConstantsAssumption DEF TypeOK, RowType, WriteOrder, Versions, ConstantsAssumption
<1>5. ASSUME NEW d \in Deals, NEW c \in Runs, CoveredBySync(c, d), best'[d] < lead[d]
      PROVE  CoveredBySync(c, d)'
  <2>1. CASE c = s
    <3>1. sync[s].deal = d /\ sync[s].snap = lead[d]
      BY <1>5, <2>1 DEF CoveredBySync, WriteOrder
    <3>2. best'[d] \in Nat /\ lead[d] \in Nat
      BY ConstantsAssumption DEF TypeOK, RowType, CrmType, Versions, ConstantsAssumption
    <3> QED BY <1>4, <1>5, <3>1, <3>2
  <2>2. CASE c # s
    <3>1. c \in Syncers \ {s}
      BY <2>2, WorkerIsSyncer
    <3> QED BY <1>1, <1>5, <3>1, Overtaken DEF CoveredBySync
  <2> QED BY <2>1, <2>2
<1>6. \A d \in Deals : Covered(d) /\ best'[d] < lead[d] => Covered(d)'
  BY <1>1, <1>5, CoveredParts, CoveredPartsNext
<1> QED BY <1>1, <1>3, <1>6, KeepsPromise

\* A sync that has written covers nothing any more.
LEMMA SyncReturnsPromise ==
    ASSUME TypeOK, TypeOK', MissedOnlyIfAbandoned, NEW s \in Syncers, SyncReturns(s)
    PROVE  MissedOnlyIfAbandoned'
<1>1. UNCHANGED <<lead, recent, run, abandoned, best>>
  BY DEF SyncReturns, cronVars, rowVars
<1>2. ASSUME NEW d \in Deals, NEW c \in Runs, CoveredBySync(c, d) PROVE CoveredBySync(c, d)'
  <2>1. c # s
    BY <1>2 DEF CoveredBySync, SyncReturns
  <2>2. sync'[c] = sync[c]
    BY <2>1, WorkerIsSyncer DEF SyncReturns, TypeOK, SyncType
  <2> QED BY <1>1, <1>2, <2>2 DEF CoveredBySync
<1>3. \A d \in Deals : Covered(d) => Covered(d)'
  BY <1>1, <1>2, CoveredParts, CoveredPartsNext
<1> QED BY <1>1, <1>3, SameRows, KeepsPromise

\* The worker covers nothing; a failsafe run that fails on a lead it covers gives it up.
LEMMA ThrowPromise ==
    ASSUME TypeOK, TypeOK', MissedOnlyIfAbandoned, NEW s \in Syncers, Throw(s)
    PROVE  MissedOnlyIfAbandoned'
<1>1. UNCHANGED <<lead, recent, run, best>> /\ abandoned \subseteq abandoned'
  BY DEF Throw, rowVars
<1>2. ASSUME NEW d \in Deals, NEW c \in Runs, CoveredBySync(c, d)
      PROVE  CoveredBySync(c, d)' \/ d \in abandoned'
  <2>1. CASE c = s
    BY <1>2, <2>1, WorkerIsSyncer DEF CoveredBySync, Throw
  <2>2. CASE c # s
    <3>1. sync'[c] = sync[c]
      BY <2>2, WorkerIsSyncer DEF Throw, TypeOK, SyncType
    <3> QED BY <1>1, <1>2, <3>1 DEF CoveredBySync
  <2> QED BY <2>1, <2>2
<1>3. \A d \in Deals : Covered(d) => Covered(d)' \/ d \in abandoned'
  BY <1>1, <1>2, CoveredParts, CoveredPartsNext
<1> QED BY <1>1, <1>3, SameRows, KeepsPromise

LEMMA TakeJobPromise ==
    ASSUME TypeOK, MissedOnlyIfAbandoned, NEW j \in Jobs, TakeJob(j)
    PROVE  MissedOnlyIfAbandoned'
<1>1. \A c \in Runs : sync'[c] = sync[c]
  BY WorkerIsSyncer DEF TakeJob, TypeOK, SyncType
<1> QED BY <1>1, FramePromise DEF TakeJob, rowVars

\* What was recent is listed, what is not in the page or the answer is given up.
LEMMA RunPromise ==
    ASSUME TypeOK, TypeOK', MissedOnlyIfAbandoned, NEW c \in Runs,
           StartRun(c) \/ ListLeads(c) \/ ListFails(c) \/ EndRun(c)
    PROVE  MissedOnlyIfAbandoned'
<1>1. UNCHANGED <<lead, sync, best>> /\ abandoned \subseteq abandoned'
  BY DEF StartRun, ListLeads, ListFails, EndRun, rowVars
<1>2. \A b \in Runs \ {c} : run'[b] = run[b]
  BY DEF StartRun, ListLeads, ListFails, EndRun, TypeOK, CronType
<1>3. ASSUME NEW d \in Deals, d \in run[c].window
      PROVE  d \in run'[c].window \/ d \in abandoned'
  BY <1>3 DEF StartRun, ListLeads, ListFails, EndRun, TypeOK, CronType, IdleRun
<1>4. ASSUME NEW d \in Deals, d \in recent
      PROVE  d \in recent' \/ d \in run'[c].window
  BY <1>4 DEF StartRun, ListLeads, ListFails, EndRun, TypeOK, CronType
<1>5. \A d \in Deals, b \in Runs : CoveredBySync(b, d) => CoveredBySync(b, d)'
  BY <1>1 DEF CoveredBySync
<1>6. \A d \in Deals : Covered(d) => Covered(d)' \/ d \in abandoned'
  BY <1>2, <1>3, <1>4, <1>5, CoveredParts, CoveredPartsNext
<1> QED BY <1>1, <1>6, SameRows, KeepsPromise

LEMMA NextLeadPromise ==
    ASSUME TypeOK, TypeOK', MissedOnlyIfAbandoned, NEW c \in Runs, NEW e \in Deals, NextLead(c, e)
    PROVE  MissedOnlyIfAbandoned'
<1>1. UNCHANGED <<lead, recent, abandoned, best>>
  BY DEF NextLead, rowVars
<1>2. sync'[c] = Begin(e) /\ \A b \in Runs \ {c} : sync'[b] = sync[b]
  BY BeginType, WorkerIsSyncer DEF TypeOK, NextLead
<1>3. CoveredBySync(c, e)'
  BY <1>2, SyncRecords DEF CoveredBySync
<1>4. ASSUME NEW d \in Deals, NEW b \in Runs, CoveredBySync(b, d) PROVE CoveredBySync(b, d)'
  BY <1>1, <1>2, <1>4, SyncRecords DEF CoveredBySync, NextLead
<1>5. ASSUME NEW d \in Deals, NEW b \in Runs, d \in run[b].window
      PROVE  d \in run'[b].window \/ d = e
  BY <1>5 DEF NextLead, TypeOK, CronType
<1>6. \A d \in Deals : Covered(d) => Covered(d)'
  BY <1>1, <1>3, <1>4, <1>5, CoveredParts, CoveredPartsNext
<1> QED BY <1>1, <1>6, SameRows, KeepsPromise

\* What a restart cuts off is either within the 30 minutes it looks back, or given up.
LEMMA RestartPromise ==
    ASSUME TypeOK, TypeOK', MissedOnlyIfAbandoned, NEW reach \in SUBSET Deals, Restart(reach)
    PROVE  MissedOnlyIfAbandoned'
<1>1. UNCHANGED <<lead, best>> /\ recent' = reach /\ abandoned' = abandoned \cup (Unsynced \ reach)
  BY DEF Restart, rowVars
<1>2. ASSUME NEW d \in Deals, Covered(d) PROVE d \in Unsynced
  BY <1>2 DEF Covered, Unsynced, Outstanding
<1>3. \A d \in Deals : Covered(d) => Covered(d)' \/ d \in abandoned'
  BY <1>1, <1>2, CoveredPartsNext
<1> QED BY <1>1, <1>3, SameRows, KeepsPromise

-----------------------------------------------------------------------------
LEMMA NextPromise ==
    ASSUME TypeOK, TypeOK', MissedOnlyIfAbandoned, [Next]_vars PROVE MissedOnlyIfAbandoned'
<1>1. CASE \E d \in Deals : EditLead(d)
  BY <1>1, EditLeadPromise
<1>2. CASE \/ \E d \in Deals : LoseHook(d) \/ ExpireKey(d)
           \/ \E h \in Handlers : HandlerStep(h) \/ ReceiveThrows(h)
           \/ UNCHANGED vars
  <2>1. UNCHANGED <<lead, cronVars, best, sync>>
        \/ \E d \in Deals, h \in Handlers : MarkIfNew(h, d)
    BY <1>2 DEF LoseHook, ExpireKey, HandlerStep, Receive, AddJob, ReceiveThrows,
                vars, cronVars, rowVars
  <2>2. UNCHANGED <<lead, cronVars, best, sync>>
    BY <2>1 DEF MarkIfNew, rowVars, cronVars
  <2> QED BY <2>2, FramePromise
<1>3. CASE \E s \in Syncers : SyncStep(s) \/ SyncThrows(s)
  <2>1. ASSUME NEW s \in Syncers, CreateConflicts(s) \/ SyncThrows(s) PROVE MissedOnlyIfAbandoned'
    BY <2>1, ThrowPromise DEF CreateConflicts, SyncThrows
  <2> QED BY <1>3, <2>1, SyncProgressPromise, WriteOrderPromise, SyncReturnsPromise DEF SyncStep
<1>4. CASE \E j \in Jobs : TakeJob(j)
  BY <1>4, TakeJobPromise
<1>5. CASE \E c \in Runs : StartRun(c) \/ RunStep(c) \/ ListFails(c)
  BY <1>5, RunPromise, NextLeadPromise DEF RunStep
<1>6. CASE \E reach \in SUBSET Deals : Restart(reach)
  BY <1>6, RestartPromise
<1> QED BY <1>1, <1>2, <1>3, <1>4, <1>5, <1>6 DEF Next, Crm

\* Whatever becomes of its webhooks, a change of a lead that never reached its order is
\* still ahead of a failsafe run, unless a run gave the lead up: for any number of leads,
\* overlapping runs, restarts and faults, and any page size.
THEOREM FailsafePromise == Spec => []MissedOnlyIfAbandoned
<1>1. Init => MissedOnlyIfAbandoned
  BY DEF Init, MissedOnlyIfAbandoned
<1>2. TypeOK /\ TypeOK' /\ MissedOnlyIfAbandoned /\ [Next]_vars => MissedOnlyIfAbandoned'
  BY NextPromise
<1> QED BY <1>1, <1>2, TypeCorrect, PTL DEF Spec

-----------------------------------------------------------------------------
(* Which versions meet: no row is ahead of its lead, and a row is ahead of what a *)
(* sync holds only once another sync has written it since that one read the lead. *)

Reading(t) == sync[t].pc \in {"find", "write"}

NoneAhead == \A d \in Deals : order[d] <= lead[d]

BehindOnlyIfOvertaken ==
    \A t \in Syncers : Reading(t) =>
        /\ sync[t].snap <= lead[sync[t].deal]
        /\ sync[t].overtaken \/ order[sync[t].deal] <= sync[t].snap

InOrder == NoneAhead /\ BehindOnlyIfOvertaken

LEMMA VersionTypes ==
    ASSUME TypeOK
    PROVE  /\ \A d \in Deals : lead[d] \in Nat /\ order[d] \in Nat
           /\ \A t \in Syncers : sync[t].snap \in Nat
           /\ \A t \in Syncers : Reading(t) => sync[t].deal \in Deals
BY ConstantsAssumption DEF TypeOK, CrmType, RowType, SyncType, Versions, Reading, ConstantsAssumption

\* A step that writes no row, lets no lead go back, and changes no sync that holds a version
\* but by ending it, keeps the order of the versions.
LEMMA InOrderFrame ==
    ASSUME TypeOK, TypeOK', InOrder, UNCHANGED order, \A d \in Deals : lead[d] <= lead'[d],
           \A t \in Syncers : Reading(t)' =>
              /\ Reading(t) /\ sync'[t].deal = sync[t].deal
              /\ sync'[t].snap = sync[t].snap /\ sync'[t].overtaken = sync[t].overtaken
    PROVE  InOrder'
<1>1. NoneAhead'
  BY VersionTypes DEF InOrder, NoneAhead, TypeOK, CrmType, Versions
<1>2. ASSUME NEW t \in Syncers, Reading(t)'
      PROVE  /\ sync'[t].snap <= lead'[sync'[t].deal]
             /\ sync'[t].overtaken \/ order'[sync'[t].deal] <= sync'[t].snap
  <2>1. /\ Reading(t) /\ sync'[t].deal = sync[t].deal
        /\ sync'[t].snap = sync[t].snap /\ sync'[t].overtaken = sync[t].overtaken
    BY <1>2
  <2>2. sync[t].deal \in Deals /\ lead'[sync[t].deal] \in Nat
    BY <2>1, VersionTypes, ConstantsAssumption DEF TypeOK, CrmType, Versions, ConstantsAssumption
  <2> QED BY <2>1, <2>2, VersionTypes DEF InOrder, BehindOnlyIfOvertaken
<1> QED BY <1>1, <1>2 DEF InOrder, BehindOnlyIfOvertaken

\* A sync reads the lead's latest version, which no row is ahead of.
LEMMA GetLeadInOrder ==
    ASSUME TypeOK, InOrder, NEW s \in Syncers, GetLead(s) PROVE InOrder'
<1>1. UNCHANGED <<lead, order>>
  BY DEF GetLead, rowVars
<1>2. /\ sync'[s].snap = lead[sync[s].deal] /\ sync'[s].deal = sync[s].deal
      /\ sync[s].deal \in Deals
  BY DEF GetLead, TypeOK, SyncType
<1>3. \A t \in Syncers \ {s} : sync'[t] = sync[t]
  BY DEF GetLead, TypeOK, SyncType
<1>4. ASSUME NEW t \in Syncers, Reading(t)'
      PROVE  /\ sync'[t].snap <= lead[sync'[t].deal]
             /\ sync'[t].overtaken \/ order[sync'[t].deal] <= sync'[t].snap
  <2>1. CASE t = s
    BY <1>2, <2>1, VersionTypes DEF InOrder, NoneAhead
  <2>2. CASE t # s
    BY <1>3, <1>4, <2>2 DEF InOrder, BehindOnlyIfOvertaken, Reading
  <2> QED BY <2>1, <2>2
<1> QED BY <1>1, <1>4 DEF InOrder, NoneAhead, BehindOnlyIfOvertaken

\* A write leaves its version in the row, and every other sync of the lead overtaken.
LEMMA WriteOrderInOrder ==
    ASSUME TypeOK, InOrder, NEW s \in Syncers, WriteOrder(s) PROVE InOrder'
<1> DEFINE d == sync[s].deal
<1>1. d \in Deals /\ sync[s].snap <= lead[d] /\ Reading(s)
  BY VersionTypes DEF WriteOrder, InOrder, BehindOnlyIfOvertaken, Reading
<1>2. lead' = lead /\ order'[d] = sync[s].snap /\ \A e \in Deals \ {d} : order'[e] = order[e]
  BY <1>1 DEF WriteOrder, TypeOK, RowType
<1>3. ~Reading(s)'
  <2>1. sync'[s] = [IdleSync EXCEPT !.pc = "audit", !.deal = d]
    BY DEF WriteOrder, Overtake
  <2>2. sync'[s].pc = "audit"
    BY <2>1 DEF IdleSync
  <2> QED BY <2>2 DEF Reading
<1>4. ASSUME NEW t \in Syncers, Reading(t)'
      PROVE  /\ sync'[t].snap <= lead'[sync'[t].deal]
             /\ sync'[t].overtaken \/ order'[sync'[t].deal] <= sync'[t].snap
  <2>1. t \in Syncers \ {s}
    BY <1>3, <1>4
  <2>2. Reading(t) /\ sync'[t].deal = sync[t].deal /\ sync'[t].snap = sync[t].snap
    BY <1>4, <2>1, Overtaken DEF Reading
  <2>3. sync'[t].overtaken <=> (sync[t].overtaken \/ sync[t].deal = d)
    BY <2>1, <2>2, Overtaken DEF Reading
  <2>4. sync[t].deal \in Deals
    BY <2>2, VersionTypes
  <2> QED BY <1>2, <2>2, <2>3, <2>4 DEF InOrder, BehindOnlyIfOvertaken
<1> QED BY <1>1, <1>2, <1>4 DEF InOrder, NoneAhead, BehindOnlyIfOvertaken

LEMMA NextInOrder ==
    ASSUME TypeOK, TypeOK', InOrder, [Next]_vars PROVE InOrder'
<1>1. \A e \in Deals : lead[e] <= lead[e]
  BY VersionTypes
<1>2. CASE \E e \in Deals : EditLead(e)
  <2>1. PICK e \in Deals : EditLead(e)
    BY <1>2
  <2>2. UNCHANGED <<order, sync>> /\ \A f \in Deals : lead[f] <= lead'[f]
    BY <2>1, VersionTypes DEF EditLead, rowVars, TypeOK, CrmType
  <2> QED BY <2>2, InOrderFrame DEF Reading
<1>3. CASE \/ \E e \in Deals : LoseHook(e) \/ ExpireKey(e)
           \/ \E h \in Handlers : HandlerStep(h) \/ ReceiveThrows(h)
           \/ UNCHANGED vars
  <2>1. UNCHANGED <<lead, order, sync>> \/ \E e \in Deals, h \in Handlers : MarkIfNew(h, e)
    BY <1>3 DEF LoseHook, ExpireKey, HandlerStep, Receive, AddJob, ReceiveThrows, vars, rowVars
  <2>2. UNCHANGED <<lead, order, sync>>
    BY <2>1 DEF MarkIfNew, rowVars
  <2> QED BY <1>1, <2>2, InOrderFrame DEF Reading
<1>4. CASE \E s \in Syncers : SyncStep(s) \/ SyncThrows(s)
  <2>1. PICK s \in Syncers : SyncStep(s) \/ SyncThrows(s)
    BY <1>4
  <2>2. CASE GetLead(s) \/ WriteOrder(s)
    BY <2>2, GetLeadInOrder, WriteOrderInOrder
  <2>3. CASE FindOrder(s)
    <3>1. UNCHANGED <<lead, order>>
      BY <2>3 DEF FindOrder, rowVars
    <3>2. \A t \in Syncers : Reading(t)' =>
              /\ Reading(t) /\ sync'[t].deal = sync[t].deal
              /\ sync'[t].snap = sync[t].snap /\ sync'[t].overtaken = sync[t].overtaken
      BY <2>3 DEF FindOrder, TypeOK, SyncType, Reading
    <3> QED BY <1>1, <3>1, <3>2, InOrderFrame
  <2>4. CASE SyncReturns(s) \/ Throw(s)
    <3>1. UNCHANGED <<lead, order>> /\ sync' = [sync EXCEPT ![s] = IdleSync]
      BY <2>4 DEF SyncReturns, Throw, rowVars
    <3>2. \A t \in Syncers : Reading(t)' => Reading(t) /\ sync'[t] = sync[t]
      BY <3>1, SyncRecords DEF TypeOK, SyncType, Reading
    <3> QED BY <1>1, <3>1, <3>2, InOrderFrame
  <2> QED BY <2>1, <2>2, <2>3, <2>4 DEF SyncStep, CreateConflicts, SyncThrows
<1>5. CASE \/ \E j \in Jobs : TakeJob(j)
           \/ \E c \in Runs, e \in Deals : NextLead(c, e)
  <2>1. PICK t \in Syncers, e \in Deals :
           sync' = [sync EXCEPT ![t] = Begin(e)] /\ UNCHANGED <<lead, order>>
    BY <1>5, WorkerIsSyncer DEF TakeJob, NextLead, rowVars, Jobs
  <2>2. \A u \in Syncers : Reading(u)' => Reading(u) /\ sync'[u] = sync[u]
    BY <2>1, SyncRecords DEF TypeOK, SyncType, Reading
  <2> QED BY <1>1, <2>1, <2>2, InOrderFrame
<1>6. CASE \E c \in Runs : StartRun(c) \/ ListLeads(c) \/ EndRun(c) \/ ListFails(c)
  <2>1. UNCHANGED <<lead, order, sync>>
    BY <1>6 DEF StartRun, ListLeads, EndRun, ListFails, rowVars
  <2> QED BY <1>1, <2>1, InOrderFrame DEF Reading
<1>7. CASE \E reach \in SUBSET Deals : Restart(reach)
  <2>1. UNCHANGED <<lead, order>> /\ \A t \in Syncers : ~Reading(t)'
    BY <1>7, SyncRecords DEF Restart, rowVars, Reading
  <2> QED BY <1>1, <2>1, InOrderFrame
<1> QED BY <1>2, <1>3, <1>4, <1>5, <1>6, <1>7 DEF Next, Crm, RunStep

THEOREM VersionsInOrder == Spec => []InOrder
<1>1. Init => InOrder
  BY DEF Init, InOrder, NoneAhead, BehindOnlyIfOvertaken, Reading, IdleSync
<1>2. TypeOK /\ TypeOK' /\ InOrder /\ [Next]_vars => InOrder'
  BY NextInOrder
<1> QED BY <1>1, <1>2, TypeCorrect, PTL DEF Spec

LEMMA OnlyWritesChangeRows ==
    ASSUME Next, order' # order PROVE \E s \in Syncers : WriteOrder(s)
BY DEF Next, Crm, EditLead, LoseHook, HandlerStep, Receive, AddJob, MarkIfNew, ReceiveThrows,
       ExpireKey, SyncStep, GetLead, FindOrder, CreateConflicts, SyncReturns, SyncThrows, Throw,
       TakeJob, StartRun, RunStep, ListLeads, EndRun, NextLead, ListFails, Restart, rowVars

\* A row takes an older version of its lead only by a sync that another sync's write has
\* overtaken since it read the lead: for any number of leads, overlapping runs, retries,
\* restarts and faults.
THEOREM RowsGoForward == Spec => GoesBackOnlyIfOvertaken
<1> DEFINE Forward == \A d \in Deals : order'[d] < order[d] =>
               \E s \in Syncers : sync[s].deal = d /\ sync[s].pc = "write" /\ sync[s].overtaken
<1>1. ASSUME TypeOK, InOrder, Next PROVE Forward
  <2> SUFFICES ASSUME NEW d \in Deals, order'[d] < order[d]
               PROVE  \E s \in Syncers : /\ sync[s].deal = d /\ sync[s].pc = "write"
                                          /\ sync[s].overtaken
    OBVIOUS
  <2>1. PICK s \in Syncers : WriteOrder(s)
    BY <1>1, OnlyWritesChangeRows, VersionTypes
  <2>2. sync[s].deal = d /\ order'[d] = sync[s].snap /\ sync[s].pc = "write"
    BY <1>1, <2>1, VersionTypes DEF WriteOrder, TypeOK, RowType
  <2>3. sync[s].overtaken \/ order[d] <= sync[s].snap
    BY <1>1, <2>2 DEF InOrder, BehindOnlyIfOvertaken, Reading
  <2> QED BY <1>1, <2>2, <2>3, VersionTypes
<1>2. TypeOK /\ InOrder /\ [Next]_vars => [Forward]_vars
  BY <1>1
<1> QED BY <1>2, TypeCorrect, VersionsInOrder, PTL DEF Spec, GoesBackOnlyIfOvertaken
=============================================================================
