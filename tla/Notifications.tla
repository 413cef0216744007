----------------------------- MODULE Notifications -----------------------------
(***************************************************************************)
(* How the client of one order hears of it: administrators' updates and    *)
(* chat replies, the event of an update and its listener, the              *)
(* deduplication key in Redis, the quiet hours, the BullMQ queue           *)
(* 'notifications' and its worker, which pushes to every registered device *)
(* and sends an SMS when the order is ready.                               *)
(*                                                                         *)
(* A text is abstracted to its event and to the stage it names.  What an   *)
(* update and a sync do to the row is OrderProgress's subject; here they   *)
(* change it in one step.                                                  *)
(***************************************************************************)
EXTENDS QuietHours, Sequences, SequencesExt, FiniteSets

CONSTANTS
    Stages,         \* order stages
    Ready,          \* 'ready_for_delivery'
    Percents,       \* values of the progress
    FirstRow,       \* the order at first
    Absent,         \* a field an update does not name
    Inputs,         \* bodies of PATCH /admin/orders/:id/progress
    Requests,       \* administrators' requests: updates and chat replies
    Devices,        \* devices of the client
    Phone,          \* the client's phone number, which an SMS goes to
    Instants,       \* the times at which the clock is looked at
    MaxAttempts,    \* attempts of a job (queues.module.ts)
    Faults,         \* which of FaultKinds may happen
    MaxSyncs,       \* bound: syncs that change the row
    MaxRestarts     \* bound: restarts of the API process

FaultKinds == {"update_failed", "send_failed", "push_failed", "dispatch_failed"}

Rows == [stage : Stages, progress : Percents]

ASSUME ConstantsAssumption ==
    /\ Ready \in Stages
    /\ Percents \subseteq 0 .. 100
    /\ Absent \notin Stages /\ Absent \notin Percents
    /\ FirstRow \in Rows
    /\ Inputs \subseteq [stage : Stages \cup {Absent}, progress : Percents \cup {Absent}]
    /\ Phone \notin Devices
    /\ Instants \subseteq Nat /\ IsFiniteSet(Instants) /\ Instants # {}
    /\ \A t, u \in Instants : t < u => u - t >= 60000
    /\ MaxAttempts \in Nat \ {0}
    /\ Faults \subseteq FaultKinds
    /\ MaxSyncs \in Nat /\ MaxRestarts \in Nat

VARIABLES
    row,        \* the order
    req,        \* each request: pc, the row an update read, the notification it sends
    marked,     \* Redis: notif:dedup keys, by event
    now,        \* the clock
    jobs,       \* BullMQ: each request's notification job
    wait,       \* BullMQ: the waiting jobs in the order they are taken
    worker,     \* the processor: the job's recipients it has still to reach
    registered, \* push_tokens: the client's devices
    got,        \* history: how often each recipient got each notification
    told,       \* history: the stage each device was told last
    syncs,      \* bound counter
    restarts,   \* bound counter
    moved,      \* history: a sync changed the stage, and no update has since
    excused     \* history: one of the listed reasons to be told late or never

rowVars   == <<row, syncs, moved>>
queueVars == <<jobs, wait, worker>>
pushVars  == <<got, told>>
vars == <<rowVars, req, marked, now, queueVars, registered, pushVars, restarts, excused>>

Events == {"order.stage.changed", "order.progress.changed", "order.ready", "chat.reply.received"}
NoEvent == "none"

Recipients == Devices \cup {Phone}

Unsettled == {"waiting", "active", "delayed", "stalled"}

-----------------------------------------------------------------------------
(* CHANNEL_MATRIX and the listener *)

Critical(event) == event = "order.ready"

\* The notification names the stage the order is in.
NamesStage(event) == event \in {"order.ready", "order.stage.changed"}

Merged(input, r) ==
    [stage    |-> IF input.stage = Absent THEN r.stage ELSE input.stage,
     progress |-> IF input.progress = Absent THEN r.progress ELSE input.progress]

\* OrderProgressListener.handle
EventOf(before, after) ==
    IF before.stage # after.stage
    THEN IF after.stage = Ready THEN "order.ready" ELSE "order.stage.changed"
    ELSE IF after.progress - before.progress >= 10 \/ before.progress - after.progress >= 10
         THEN "order.progress.changed" ELSE NoEvent

NoInput == [stage |-> Absent, progress |-> Absent]
Idle    == [pc |-> "idle", before |-> FirstRow, input |-> NoInput, event |-> NoEvent]
Ended(pc) == [Idle EXCEPT !.pc = pc]
NoJob   == [state |-> "none", made |-> 0, event |-> NoEvent, stage |-> FirstRow.stage, at |-> 0, due |-> 0]
Resting == [pc |-> "idle", todo |-> {}]

Settled(p, state) == [NoJob EXCEPT !.state = state, !.made = jobs[p].made]

Current(p) == jobs[p].state = "active"

\* A notification about the stage that request p is to send, or may yet.
Announcing(p) ==
    \/ req[p].pc \in {"read", "committed"}
    \/ req[p].pc \in {"marking", "adding"} /\ NamesStage(req[p].event)

\* Another job about the stage is in one of these states.
StageJobIn(states, p) ==
    \E q \in Requests \ {p} : jobs[q].state \in states /\ NamesStage(jobs[q].event)

Init ==
    /\ row = FirstRow
    /\ req = [p \in Requests |-> Idle]
    /\ marked = {}
    /\ now \in Instants /\ \A t \in Instants : now <= t
    /\ jobs = [p \in Requests |-> NoJob]
    /\ wait = <<>>
    /\ worker = Resting
    /\ registered \in SUBSET Devices
    /\ got = [p \in Requests |-> [r \in Recipients |-> 0]]
    /\ told = [d \in Devices |-> FirstRow.stage]
    /\ syncs = 0 /\ restarts = 0
    /\ moved = FALSE /\ excused = FALSE

-----------------------------------------------------------------------------
(* Time, managers, devices *)

\* Keys live for 60 seconds.
Tick ==
    /\ \E t \in Instants : t > now /\ now' = t /\ \A u \in Instants : u > now => t <= u
    /\ marked' = {}
    /\ UNCHANGED <<rowVars, req, queueVars, registered, pushVars, restarts, excused>>

ExpireKey(event) ==
    /\ event \in marked
    /\ marked' = marked \ {event}
    /\ UNCHANGED <<rowVars, req, now, queueVars, registered, pushVars, restarts, excused>>

\* syncDealById writes what managers made of the lead; it emits no event.
SyncChanges(r) ==
    /\ syncs < MaxSyncs
    /\ r # row
    /\ row' = r
    /\ syncs' = syncs + 1
    /\ moved' = (moved \/ r.stage # row.stage)
    /\ UNCHANGED <<req, marked, now, queueVars, registered, pushVars, restarts, excused>>

\* The client opens the application, which shows the order and registers the device.
Register(d) ==
    /\ d \notin registered
    /\ registered' = registered \cup {d}
    /\ told' = [told EXCEPT ![d] = row.stage]
    /\ UNCHANGED <<rowVars, req, marked, now, queueVars, got, restarts, excused>>

RemoveToken(d) ==
    /\ d \in registered
    /\ registered' = registered \ {d}
    /\ UNCHANGED <<rowVars, req, marked, now, queueVars, pushVars, restarts, excused>>

-----------------------------------------------------------------------------
(* OrdersService.updateProgress and ChatService.sendMessage, up to send() *)

ReadOrder(p) ==
    /\ req[p].pc = "idle"
    /\ \E input \in Inputs :
          req' = [req EXCEPT ![p] = [Idle EXCEPT !.pc = "read", !.before = row, !.input = input]]
    /\ UNCHANGED <<rowVars, marked, now, queueVars, registered, pushVars, restarts, excused>>

\* Faulty variant of UpdateEvent: the row is compared after the update.
UpdateEvent_AfterCommit(p) == EventOf(row', Merged(req[p].input, req[p].before))

\* The event carries before and after as of the row that was read first.
UpdateEvent(p) == EventOf(req[p].before, Merged(req[p].input, req[p].before))

CommitUpdate(p) ==
    /\ req[p].pc = "read"
    /\ row' = Merged(req[p].input, row)
    /\ req' = [req EXCEPT ![p].pc = "committed", ![p].event = UpdateEvent(p)]
    /\ moved' = (moved /\ ~NamesStage(UpdateEvent(p)))
    /\ excused' = (excused \/ \E q \in Requests \ {p} : Announcing(q))
    /\ UNCHANGED <<syncs, marked, now, queueVars, registered, pushVars, restarts>>

\* emitAsync, after the audit row and the push to amoCRM.
Emit(p) ==
    /\ req[p].pc = "committed"
    /\ req' = [req EXCEPT ![p] = IF @.event = NoEvent THEN Ended("done") ELSE [@ EXCEPT !.pc = "marking"]]
    /\ UNCHANGED <<rowVars, marked, now, queueVars, registered, pushVars, restarts, excused>>

\* The audit insert or the outbound queue fails: no event.
UpdateThrows(p) ==
    /\ "update_failed" \in Faults
    /\ req[p].pc \in {"read", "committed"}
    /\ req' = [req EXCEPT ![p] = Ended("failed")]
    /\ excused' = (excused \/ (req[p].pc = "committed" /\ NamesStage(req[p].event)))
    /\ UNCHANGED <<rowVars, marked, now, queueVars, registered, pushVars, restarts>>

\* An administrator answers in the chat: the message is stored, then send() is called.
Reply(p) ==
    /\ req[p].pc = "idle"
    /\ req' = [req EXCEPT ![p] = [Idle EXCEPT !.pc = "marking", !.event = "chat.reply.received"]]
    /\ UNCHANGED <<rowVars, marked, now, queueVars, registered, pushVars, restarts, excused>>

-----------------------------------------------------------------------------
(* NotificationsService.send *)

\* SET NX EX 60: a key that is alive swallows the notification, whatever it says.
ShouldSend(p) ==
    LET e == req[p].event
    IN  /\ req[p].pc = "marking"
        /\ marked' = marked \cup {e}
        /\ req' = [req EXCEPT ![p] = IF e \in marked THEN Ended("done") ELSE [@ EXCEPT !.pc = "adding"]]
        /\ excused' = (excused \/ (e \in marked /\ NamesStage(e)))
        /\ UNCHANGED <<rowVars, now, queueVars, registered, pushVars, restarts>>

Delay(event) == IF ~Critical(event) /\ isQuietHour(now) THEN deferUntilMorning(now) ELSE 0

AddJob(p) ==
    LET delay == Delay(req[p].event)
    IN  /\ req[p].pc = "adding"
        /\ jobs' = [jobs EXCEPT ![p] =
              [state |-> IF delay > 0 THEN "delayed" ELSE "waiting", made |-> 0, event |-> req[p].event,
               stage |-> Merged(req[p].input, req[p].before).stage, at |-> now, due |-> now + delay]]
        /\ wait' = IF delay > 0 THEN wait ELSE Append(wait, p)
        /\ req' = [req EXCEPT ![p] = Ended("done")]
        /\ excused' = (excused \/ (NamesStage(req[p].event) /\ StageJobIn({"delayed", "stalled"}, p)))
        /\ UNCHANGED <<rowVars, marked, now, worker, registered, pushVars, restarts>>

\* Redis fails, before or after it set the key; the exception is logged and forgotten.
SendThrows(p) ==
    /\ "send_failed" \in Faults
    /\ req[p].pc \in {"marking", "adding"}
    /\ marked' \in {marked, marked \cup {req[p].event}}
    /\ req' = [req EXCEPT ![p] = Ended("failed")]
    /\ excused' = (excused \/ NamesStage(req[p].event))
    /\ UNCHANGED <<rowVars, now, queueVars, registered, pushVars, restarts>>

-----------------------------------------------------------------------------
(* NotificationsProcessor, one job at a time *)

Busy == \E p \in Requests : Current(p)

TakeJob ==
    /\ ~Busy /\ wait # <<>>
    /\ jobs' = [jobs EXCEPT ![Head(wait)].state = "active"]
    /\ wait' = Tail(wait)
    /\ worker' = [Resting EXCEPT !.pc = "load"]
    /\ UNCHANGED <<rowVars, req, marked, now, registered, pushVars, restarts, excused>>

\* The template is rendered and the devices are read.
LoadTokens(p) ==
    /\ Current(p) /\ worker.pc = "load"
    /\ worker' = [pc |-> "push", todo |-> registered]
    /\ UNCHANGED <<rowVars, req, marked, now, jobs, wait, registered, pushVars, restarts, excused>>

\* Faulty variant of Reached: the device stays on the list.
Reached_Again(r) == worker

Reached(r) == [worker EXCEPT !.todo = @ \ {r}]

Deliver(p, r) ==
    /\ got' = [got EXCEPT ![p][r] = @ + 1]
    /\ told' = IF NamesStage(jobs[p].event) /\ r \in Devices THEN [told EXCEPT ![r] = jobs[p].stage] ELSE told

PushTo(p, d) ==
    /\ Current(p) /\ worker.pc = "push" /\ d \in worker.todo
    /\ Deliver(p, d)
    /\ worker' = Reached(d)
    /\ UNCHANGED <<rowVars, req, marked, now, jobs, wait, registered, restarts, excused>>

\* The provider refuses the push or cannot be reached: a warning, and the next device.
PushFails(p, d) ==
    /\ "push_failed" \in Faults
    /\ Current(p) /\ worker.pc = "push" /\ d \in worker.todo
    /\ worker' = Reached(d)
    /\ excused' = (excused \/ NamesStage(jobs[p].event))
    /\ UNCHANGED <<rowVars, req, marked, now, jobs, wait, registered, pushVars, restarts>>

\* The SMS of 'order.ready', delivered or not; without a phone number, none.
SmsStep(p) ==
    /\ Current(p) /\ worker = [pc |-> "push", todo |-> {}]
    /\ worker' = [worker EXCEPT !.pc = "audit"]
    /\ \/ Critical(jobs[p].event) /\ Deliver(p, Phone)
       \/ /\ Critical(jobs[p].event) => "push_failed" \in Faults
          /\ UNCHANGED pushVars
    /\ UNCHANGED <<rowVars, req, marked, now, jobs, wait, registered, restarts, excused>>

\* audit.record, and the job is done.
Complete(p) ==
    /\ Current(p) /\ worker.pc = "audit"
    /\ jobs' = [jobs EXCEPT ![p] = Settled(p, "completed")]
    /\ worker' = Resting
    /\ UNCHANGED <<rowVars, req, marked, now, wait, registered, pushVars, restarts, excused>>

\* The backoff takes seconds.
AfterFailure(p) ==
    IF jobs[p].made + 1 < MaxAttempts
    THEN [jobs[p] EXCEPT !.state = "delayed", !.made = @ + 1]
    ELSE [Settled(p, "failed") EXCEPT !.made = MaxAttempts]

\* The template, the tokens, the user or the audit insert: the database fails.  What was
\* pushed stays pushed.
DispatchThrows(p) ==
    /\ "dispatch_failed" \in Faults
    /\ Current(p)
    /\ jobs' = [jobs EXCEPT ![p] = AfterFailure(p)]
    /\ worker' = Resting
    /\ excused' = \/ excused
                  \/ NamesStage(jobs[p].event)
                     /\ (jobs[p].made + 1 = MaxAttempts \/ StageJobIn(Unsettled, p))
    /\ UNCHANGED <<rowVars, req, marked, now, wait, registered, pushVars, restarts>>

\* The delay or the backoff is over; jobs due at the same time come in any order.
Promote(p) ==
    /\ jobs[p].state = "delayed" /\ jobs[p].due <= now
    /\ jobs' = [jobs EXCEPT ![p].state = "waiting"]
    /\ wait' = Append(wait, p)
    /\ UNCHANGED <<rowVars, req, marked, now, worker, registered, pushVars, restarts, excused>>

\* BullMQ gives a stalled job back, to be taken next.
Recover(p) ==
    /\ jobs[p].state = "stalled"
    /\ jobs' = [jobs EXCEPT ![p].state = "waiting"]
    /\ wait' = <<p>> \o wait
    /\ UNCHANGED <<rowVars, req, marked, now, worker, registered, pushVars, restarts, excused>>

\* Faulty variant of AfterRestart: nobody finds out that the job has no worker.
AfterRestart_Active(p) == jobs[p]

AfterRestart(p) == IF Current(p) THEN [jobs[p] EXCEPT !.state = "stalled"] ELSE jobs[p]

\* The API process is restarted: its requests are gone, the job it had is stalled.
Restart ==
    /\ restarts < MaxRestarts
    /\ restarts' = restarts + 1
    /\ req' = [p \in Requests |-> IF req[p].pc \in {"idle", "done", "failed"} THEN req[p] ELSE Ended("failed")]
    /\ jobs' = [p \in Requests |-> AfterRestart(p)]
    /\ worker' = Resting
    /\ excused' = \/ excused
                  \/ \E p \in Requests : req[p].pc \in {"committed", "marking", "adding"} /\ NamesStage(req[p].event)
                  \/ \E p \in Requests : Current(p) /\ NamesStage(jobs[p].event) /\ StageJobIn(Unsettled, p)
    /\ UNCHANGED <<rowVars, marked, now, wait, registered, pushVars>>

-----------------------------------------------------------------------------
RequestStep(p) == CommitUpdate(p) \/ Emit(p) \/ ShouldSend(p) \/ AddJob(p)

WorkerStep(p) ==
    \/ LoadTokens(p) \/ SmsStep(p) \/ Complete(p)
    \/ \E d \in Devices : PushTo(p, d) \/ PushFails(p, d)

Next ==
    \/ Tick \/ Restart \/ TakeJob
    \/ \E e \in Events : ExpireKey(e)
    \/ \E r \in Rows : SyncChanges(r)
    \/ \E d \in Devices : Register(d) \/ RemoveToken(d)
    \/ \E p \in Requests :
          \/ ReadOrder(p) \/ Reply(p) \/ RequestStep(p) \/ UpdateThrows(p) \/ SendThrows(p)
          \/ WorkerStep(p) \/ DispatchThrows(p) \/ Promote(p) \/ Recover(p)

Spec == Init /\ [][Next]_vars

\* The event loop goes on with what it started, the worker with its queue, BullMQ with
\* what is due.  The clock may stop: nothing is assumed of the morning.
Fairness ==
    /\ \A p \in Requests : /\ WF_vars(RequestStep(p)) /\ WF_vars(WorkerStep(p))
                           /\ WF_vars(Promote(p)) /\ WF_vars(Recover(p))
    /\ WF_vars(TakeJob)

FairSpec == Spec /\ Fairness

-----------------------------------------------------------------------------
(* Properties *)

RowType == row \in Rows /\ moved \in BOOLEAN /\ excused \in BOOLEAN

RequestType ==
    /\ req \in [Requests -> [pc : {"idle", "read", "committed", "marking", "adding", "done", "failed"},
                            before : Rows, input : Inputs \cup {NoInput}, event : Events \cup {NoEvent}]]
    /\ \A p \in Requests : req[p].pc \in {"marking", "adding"} => req[p].event \in Events

JobType ==
    /\ jobs \in [Requests -> [state : {"none", "completed", "failed"} \cup Unsettled, made : 0 .. MaxAttempts,
                             event : Events \cup {NoEvent}, stage : Stages,
                             at : Nat, due : Int]]
    /\ wait \in Seq(Requests)
    /\ worker \in [pc : {"idle", "load", "push", "audit"}, todo : SUBSET Devices]

\* The worker has one job at a time, and none when it rests.
OneJob == /\ \A p, q \in Requests : Current(p) /\ Current(q) => p = q
          /\ worker.pc = "idle" <=> ~Busy

\* Every variable stays in its type, and the worker has exactly one job while it works.
TypeOK ==
    /\ RowType /\ RequestType /\ JobType /\ OneJob
    /\ marked \subseteq Events /\ now \in Instants /\ registered \subseteq Devices
    /\ got \in [Requests -> [Recipients -> Nat]] /\ told \in [Devices -> Stages]
    /\ syncs \in Nat /\ restarts \in Nat

\* Nothing is under way: no update, reply or notification.
Quiet ==
    /\ \A p \in Requests : req[p].pc \in {"idle", "done", "failed"} /\ jobs[p].state \notin Unsettled

\* mvp-design.md:497 (pushes are deferred in the quiet hours): a push or SMS in quiet hours
\* is that of an order that is ready, or was queued before they began; also after
\* retries, restarts and at the edges of the night.
NightIsQuiet ==
    [][\A p \in Requests : \A r \in Recipients :
          got'[p][r] > got[p][r] => Critical(jobs[p].event) \/ ~SameNight(jobs[p].at, now)]_vars

\* A recipient gets a notification again only because an attempt failed, or was cut off by
\* a restart, after it had reached the recipient.
RepeatsOnlyAfterFailure ==
    \A p \in Requests : \A r \in Recipients :
        got[p][r] <= jobs[p].made + restarts + (IF jobs[p].state \in {"active", "completed"} THEN 1 ELSE 0)

\* The last word each device has about the stage is the order's stage, once nothing is
\* under way, unless a sync moved the order or one of these happened to a notification about
\* the stage: a key of the minute before swallowed it, its update or its sending failed,
\* two updates overlapped, it was queued while an earlier one was put off, it
\* failed three times, or a push failed.
LastWordIsCurrent ==
    Quiet /\ ~excused /\ ~moved => \A d \in registered : told[d] = row.stage

\* A notification that is queued and due is dispatched or uses up its attempts; one about an
\* order that is ready is due at once, at night as well.
DueIsDispatched ==
    \A p \in Requests :
        jobs[p].state \in Unsettled ~> jobs[p].state \notin Unsettled \/ now < jobs[p].due
=============================================================================
