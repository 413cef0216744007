# VITTORIA HOME: a TLA+ model of the order platform

VITTORIA HOME tells the clients of a furniture maker how their orders are coming along. Managers
work in amoCRM, administrators in a web application, clients in an Android or iOS application; an
API (NestJS, PostgreSQL through Prisma, Redis, BullMQ) keeps the orders, copies them to and from
amoCRM and sends notifications. This directory models the parts of it in which several processes
meet, checks them with TLC on small instances and proves the main results with TLAPS.

The words in `code` are those of the sources or of the modules. Paths are relative to `src/`, those
without a leading directory to `src/apps/api/src/`.

## 1. Inventory

| component | state | operations | meets |
|---|---|---|---|
| amoCRM inbound sync (`amocrm/`) | `amocrm:event` keys in Redis, queue `amocrm-inbound`, `lastSync` in memory, `orders` | webhook `receive`, worker `process`, cron `run`, `syncDealById` | amoCRM, itself: worker and cron runs sync the same leads |
| order progress and outbound sync (`orders/`, `amocrm/amocrm-mapper.ts`, `amocrm/jobs/amocrm-outbound.processor.ts`) | order row, `order_stage_history`, queue `amocrm-outbound` | `updateProgress`, outbound `process`, `leadToOrderPatch`, `orderToCustomFields` | amoCRM, inbound sync, notifications (event) |
| the administrators' order pages (`apps/admin/src/pages/OrdersPage.tsx`, `OrderPage.tsx`) | the kept answers, the form, filter and page number | list, filter, turn pages; open, type, save, leave, fetch again | order progress |
| notifications (`notifications/`) | dedup keys, queue `notifications`, `push_tokens` | `handle` (listener), `send`, worker `process`, token registration | order progress, chat, push and SMS providers |
| sessions and codes (`auth/`) with the login forms | `sessions`, `auth_codes`; the forms' step and fields | `requestCode`, `verifyCode`, `refresh`, `logout` | the three clients, accounts |
| token refresh in the clients | the stored refresh token, access tokens, one refresh in flight | every call, boot, logout | sessions; tabs share one `localStorage` |
| chat (`chat/`, `storage/`, `apps/admin/src/components/chat/`) | chats, messages, attachments, objects in S3; per browser the answer shown, the newest message marked up to | find or create, attach, send, list, mark read; poll, load older | notifications; screens of several users poll one chat |
| accounts and CRM contacts (`users/`, `common/phone.ts`) | users with unique phone and `amocrm_contact_id`; the profile screens | upsert by a sync or a login, creation by an administrator, rename, anonymisation | inbound sync, login |
| commissions (`commissions/`) with their page and the partners' form | payouts and `paidAt`; rows shown, filter, form | create, list, update status | accounts (a partner is a user) |
| the rest: audit log, guards and filters, health, templates, other screens, scripts, infrastructure | rows inserted, rendering, deployment | | |

**What is hard.** Webhooks are lost, repeated and swallowed by keys; the failsafe cron that should
make up for that keeps its position in memory and overlaps itself. Orders are changed on both sides,
and every push comes back as a webhook (the echo). A BullMQ job is attempted three times and may be
applied after newer ones. `updateProgress` reads, commits, audits, queues and emits in separate
steps. Messages are ordered and marked read by the time their insert began, which is not the order
in which they become visible, while pages poll. A notification passes a key of one minute, a
deferral until the morning, a queue with retries, a list of devices. Codes are checked, counted and
used in separate awaits. Three writers upsert users whose phone and contact are both unique. Pages
keep answers, fetch them again at their own times, and save whole forms. Refresh tokens are rotated,
so each works once, while calls get 401 in any order, answers get lost and several tabs share one
token. PROJECT.json lists the hazards at their lines.

**What makes each part correct.**
- *Inbound*: a change in the CRM reaches the row, whatever happened to its webhook, unless the
  failsafe gave the lead up; the row goes back to an older version only by a sync that another one
  overtook between its read and its write.
- *Progress*: the two copies agree once nothing is under way; the client's timeline ends with the
  order's state; an update is pushed.
- *Notifications*: the last thing a device was told about the stage is the stage; nobody is woken at
  night; nobody gets a notification twice without a failure; what is due goes out.
- *Tokens*: a user who does not log out stays signed in; a device that shows the login page keeps no
  token; no session is left behind; no call waits for ever.
- *Chat*: messages and attachments add up, a file is in one message; nothing counts as read that
  nobody saw, and a client's message does not stay unread while an administrator looks at it.
- *Order pages*: a save undoes no change its administrator has seen; what is typed stays; a filter
  that has orders shows them.
- *Codes*: a code is used once, guesses and messages are limited, the newest code signs in.
- *Accounts*: a phone and a contact belong to one account; what was deleted stays deleted; a sync is
  refused for known reasons only; who logs in with the number of the lead's main contact finds the
  order; who is signed out after a deletion has no account any more.
- *Commissions*: a payout that was made is not taken back; a form makes one row; a page shows what
  was confirmed to it.

## 2. Modules

| module | what it is |
|---|---|
| `InboundSync` | amoCRM → orders: webhook, key, queue, failsafe, `syncDealById` |
| `OrderProgress` | `updateProgress`, the outbound queue, mapper in both directions, the echo |
| `OrderPages` | one administrator's tab in front of `OrderProgress`, which it extends: the list of orders and the page of one |
| `TokenRefresh` | sessions in the API and the refresh of the three clients |
| `QuietHours` | `isQuietHour`, `deferUntilMorning` on milliseconds |
| `Notifications` | listener, `send()`, queue, dispatch; extends `QuietHours` |
| `Chat` | `ChatService` and the web conversation of administrators and clients |
| `OneTimeCode` | abstract: what the API promises of the codes it texts |
| `Login` | `requestCode` and `verifyCode` await by await and the three login forms; implements `OneTimeCode` |
| `Accounts` | the users table, its four kinds of writers and the three profile screens |
| `Commissions` | commissions, the page that lists and pays them, the forms that create them and partners |
| `MC…` | the instances TLC checks |
| `InboundSyncProofs`, `OrderProgressProofs` (of `OrderPages` too), `NotificationsProofs`, `ChatProofs`, `LoginProofs`, `AccountsProofs`, `TokenRefreshProofs`, `CommissionsProofs` | theorems |

`OrderPages` composes the administrators' pages with `OrderProgress`, all of whose steps are its
own. The other components are modelled one by one, each with an abstract view of its neighbours:
`OrderProgress` lets a sync start at any time (when one starts is `InboundSync`'s subject),
`Notifications` lets a sync or an update change the row in one step (what they do is
`OrderProgress`'s subject). Operators whose name has a suffix after an underscore (`Clamp_None`) are
faulty variants of the operator they are named after; no specification uses them. They are what the
properties are tested with: putting one in the place of the right operator violates the property.

### InboundSync

A lead is the number of changes made to it, a row the version it holds (0: none), `best` the latest
version ever written. Each `await` between two effects is a step.

| code | actions |
|---|---|
| amoCRM | `EditLead`, `LoseHook` |
| `amocrm-webhook.controller.ts:21-74` | `Receive` (one delivery names several leads and may come again), `MarkIfNew`, `AddJob`, `ReceiveThrows` (500 to amoCRM; the rest of the batch is not handled), `ExpireKey` |
| `amocrm-inbound.processor.ts:21-32` | `TakeJob`; `SyncThrows` counts the attempt (`RequeueFailed`) |
| `amocrm-sync.service.ts:25-82` | `GetLead`, `FindOrder`, `WriteOrder`, `CreateConflicts` (unique `amocrm_deal_id`), `SyncReturns` after the audit row |
| `amocrm-failsafe.service.ts:22-37` | `StartRun` moves `lastSync` first, `ListLeads` (one page), `ListFails`, `NextLead`, `EndRun` |
| process | `Restart`: handlers, runs and syncs are gone; `lastSync` becomes half an hour ago, which reaches some of the leads (`reach`), the job is retried |

`recent` is the set of leads changed since `lastSync`. A lead is `abandoned` when a failsafe run
moved `lastSync` past its change and did not sync it.

### OrderProgress

The row and the lead are a stage and a progress; the comment travels exactly as the progress does.
`timeline` is the history row that the client's timeline ends with: `getHistory` sorts by
`changedAt` (`schema.prisma:119`, `now()`), the time at which the transaction of the update began
(`begun` numbers these times).

| code | actions |
|---|---|
| managers | `EditLead` |
| `orders.service.ts:26-88`, `143-147` | `ReadOrder`, `BeginUpdate` and `CommitUpdate` (the transaction with row and history begins, and commits, maybe after one that began later), `UpdateThrows`, `EnqueuePush`, `DropPush` (a jobId of order and millisecond that exists already), `EmitProgress` |
| `amocrm-outbound.processor.ts`, `queues.module.ts:18-23` | `TakePush`, `PushLead`, `PushFails` (with or without effect: a lost answer), `RetryPush` |
| `amocrm-mapper.ts`, `amocrm-sync.service.ts` | `SyncReads`, `SyncWrites`, `SyncRefuses` (a stage that is none), `SyncThrows` (`amocrm-sync.service.ts:29-57`: no contact or phone, a refused upsert of the user, a write that fails) with `LeadStage`, `Clamp`, `SyncedRow`, `PatchedLead` |

### TokenRefresh

A pair of tokens is the id of the session it was issued with. `platform` is chosen at first: the web
application with its tabs, Android, iOS. A call is a record whose `pc` says where it is.

| code | actions |
|---|---|
| `auth.service.ts:146-196`, `jwt.strategy.ts` | `Serve`, `RefreshChecks`, `RefreshRotates` (two steps: the session is read, then replaced in a transaction), `EndSession` |
| `apps/admin/src/api/client.ts`, `AuthProvider.tsx` | `Join`, `LeadRefresh`, `RefreshGranted`, `RefreshRefused`, `DeniedForGood`; `Restart` boots with a refresh outside the single flight; `Orphan`, `DropAnswer` for a page that is gone |
| `TokenAuthenticator.kt`, `AuthInterceptor.kt` | `Superseded`, `RetryWithCurrent` under the lock; no bearer on paths with `/auth/` (`BearerOf`) |
| `APIClient.swift`, `AuthStore.swift` | the shared task: `Join`, `JoinDone`, `Resend`; `Boots` with a `GET /users/me` the API does not serve (`NoRoute`, `NotFound`) |

### Notifications and QuietHours

A text is its event and the stage it names. `now` is one of `Instants`; the clock jumps to the next
of them, which is long enough after the last for every key of 60 seconds to be gone.

| code | actions |
|---|---|
| `orders.service.ts:26-88`, `order-progress.listener.ts:20-51` | `ReadOrder`, `CommitUpdate` (with `EventOf` on the row read and the row promised), `Emit`, `UpdateThrows` |
| `chat.service.ts:156-193` | `Reply` |
| `notifications.service.ts:18-38`, `notifications.dedup.service.ts` | `ShouldSend` (SET NX), `AddJob` with `Delay`, `SendThrows`, `ExpireKey` |
| `notifications.processor.ts:33-80` | `TakeJob`, `LoadTokens`, `PushTo` and `PushFails` per device, `SmsStep`, `Complete`, `DispatchThrows` |
| BullMQ | `Promote` (delay or backoff over), `Recover` (stalled job), `Restart` |
| `push-tokens.controller.ts` | `Register`, `RemoveToken` |

### Chat

One order's chat. A message is the post that sent it (`post[p]`: the request and the row), a file
its upload and row (`att[a]`), and each user has one conversation in the browser (`page[u]`): the
answer shown (`fresh`, `newest`, `unread`), the older messages loaded, and the requests to mark that
are under way. `seen` records what has ever been on a user's page.

| code | actions |
|---|---|
| `chat.service.ts:61-84` | `OpenChat`, `CreateChat` (the loser of two requests fails on the unique `order_id`), `PhoneOpensChat` |
| `chat.service.ts:120-135` | `PutObject`, `InsertAttachment`, `UploadThrows` (the object stays) |
| `chat.service.ts:137-172` | `CheckPost` (files that are the sender's and in no message), `InsertMessage` and `CommitMessage` (the row has its `created_at` before others see it), `LinkAttachments` by id alone, `PostThrows` |
| `chat.service.ts:86-101`, `199-219` | `NewestPages`; `Mark` with `MarkedBy` |
| `Conversation.tsx` | `Poll` (answer, rendering and effect; the effect asks to mark once per newest message), `MarkFails`, `LoadOlder`, `Close`; `Opened` because the query cache keeps the answer for five minutes |

The answer to a poll, its rendering and the effect are one step: all they read of the server is in
the answer, and what happens while it is on its way is in the model what happens between the step
and the mark it asks for.

### OrderPages

Of the tab's state: `kept` is the query cache's answer for the order, `load` its request, `form` the
three `useState`s but for the comment, `list` and `listLoad` the same of the list. `touched`,
`kept.stale` and `saves[r].stale` are history: what the administrator typed, and whether the row has
been written since the page read it. A request of `OrderProgress` is a save of this tab (`Save`,
`ServeSave`) or comes from elsewhere with any input (`ServeElse`).

| code | actions |
|---|---|
| `OrdersPage.tsx`, `orders.service.ts:105-129` | `SetFilter`, `SetPage`, `ServeRows` and `ServeCount` (the two statements of `listAll`, each with a snapshot of its own: `Rowed` and `Matching`), `ShowList`, `ListFails` |
| `OrderPage.tsx:11-29`, `admin-orders.controller.ts:44-49` | `OpenOrder` (the form is filled from the cache, and the order is fetched again), `ServeOrder`, `ShowOrder` with the effect (`FillsForm`: React Query hands out a new object only when the answer differs), `OrderFails`, `Refetch` (after a reconnect), `LeaveOrder`, `Forget` (five minutes after the page was left) |
| `OrderPage.tsx:31-82`, `admin-orders.controller.ts:51-70` | `Type`, `Save`, `SaveConfirmed` (invalidates), `SaveFails` |
| the API behind | `BackEnd`: the steps of `OrderProgress`, those that write the row marking what was read before as stale (`Written`) |

The search box does to the page number what the filter of stages does and is left out; the answers
kept for earlier filters are fetched anew when they are shown again.

### Login and OneTimeCode

A code is the number of its row. The form and the server take their own steps; a request that is
given up goes on in the server (`Orphan`).

| code | actions |
|---|---|
| `auth.service.ts:26-68` | `AskLimits` (a code of the last minute), `NoAccount`, `AskCreates`, `AskTexts` |
| `auth.service.ts:70-144` | `EnterFinds` (`Usable`, `Latest`, `Locked`), `EnterMisses`, `EnterConsumes` by id alone, `EnterOpens`, `EnterEnds` |
| time and SMS | `Ages`, `SmsArrives` in any order or never |
| `LoginPage.tsx`, `AuthScreen.kt`, `AuthView.swift` | `AskCode`, `EnterCode`, `EditPhone`, `GoBack` as far as each form lets (`WebTaps`, `AndroidTaps`, `IosTaps`), `CodeSent`, `Fails`, `SignsIn`, `ConsentPosted`, `Logout`, `Restart` |
| faults | `Throttled`, `StepFails`, `CallLost` |

`OneTimeCode` has a state for each code (none, unused, used), the guesses counted on it and the
sessions it opened. `Login` implements it with the mapping `CodeState`, its `attempts` and `opened`,
and `Cardinality(Calls)` for the number of verifications handled at once: checked as
`ImplementsOneTimeCode` and proved.

### Accounts

Row 1 is the account of the client whose lead it is. `"p"` and `"p8"` are one Russian number as
managers type it, `"f"` and `"+f"` one that `normalizePhone` does not know and the sync stores as it
is typed (`KeyOf`). Contacts may have one number, and the lead may get another main contact. Of the
account's sessions the model has the device's, and any other. A session is `"fresh"` when it was
opened while the transaction of `anonymize` runs, which does not revoke it then. History: `late`
(what came back to a deleted account), `refused`, `crm.moved`, `crm.other` (the main contact's
number is another one), and who was under way when the deletion committed (`login.overtaken`, a
refresh that is `"overtaken"`).

| code | actions |
|---|---|
| amoCRM | `EditContact`, `EditLead` |
| `amocrm-sync.service.ts:25-83`, `common/phone.ts` | `SyncReadsLead`, `SyncReadsContact`, `SyncUpserts` (by phone; the unique contact refuses it, `SyncedRow` puts the contact's id over another's), `SyncWrites` (the order gets its owner once), `SyncFails` |
| `auth.service.ts:100-144` | `LoginVerified`, `LoginUpserts`, `LoginOpens` |
| `auth.service.ts:146-196` | `RefreshChecks`, `RefreshRotates` (two steps as in `TokenRefresh`), `RefreshLost`, `EndSession` (over, or revoked otherwise), for the device and for another |
| `admin-users.service.ts` | `CreateChecks`, `CreateInserts` |
| `users.controller.ts`, `users.service.ts` | `Me`, `UpdateMe`, `EraseStarts`, `EraseCommits`, `EraseFails` (the transaction of `anonymize`), `Refused` |
| `ProfilePage.tsx`, `ProfileScreen.kt`, `ProfileView.swift` | `Load`, `TypeName`, `Save`, `DeleteAccount`, `Loaded`, `Saved`, `Deleted`, `Fails`, `SignedOut`, `CallLost` |

### Commissions

| code | actions |
|---|---|
| `commissions.service.ts`, `admin-commissions.controller.ts` | `Lists` (`listAdmin`), `updateStatus`, `CreateCommission`; `CreatePartner` for the partners' form |
| `CommissionsPage.tsx` | `Lands`, `FetchFails`, `ChangeFilter`, `Click`, `StatusChanged` (`Invalidates`), `StatusLost` |
| the forms of `CommissionsPage.tsx` and `PartnersPage.tsx` | `OpenForm`, `Submit`, `CloseForm`, `Created`, `NotCreated`, `PostLost` |

## 3. Runs

Every run is one question. Deadlock is checked for `Accounts`, `Commissions` and `OrderPages`, where
somebody can always do something: load a page again, log in, move a filter. Elsewhere the
configurations say `CHECK_DEADLOCK FALSE`: with the bounds on edits, requests and opened pages used
up, a system at rest is not a fault; that what has begun ends is what the liveness properties say.

| run | instance | question |
|---|---|---|
| `inbound_faults` | 1 lead changed twice, 1 handler, 1 failsafe run, every fault, 3 attempts, 1 restart | Is a change missed only if a failsafe run gave it up? Does every change not given up arrive? Does the row go back only by a sync that was overtaken? |
| `order_updates` | 2 updates of the stage whose transactions may overlap, 1 sync at a time, 1 edit by a manager, 2 attempts, every fault | Do updates, their pushes, the manager, the echoes and failing syncs leave copies that agree and a current timeline, but for the reasons named? Is each update pushed? |
| `order_pages` | 1 tab with the order's page or a list of 2 orders, one on each page; 1 update, from the tab or elsewhere; 1 sync, 1 edit by a manager; failing requests | Does a save undo only what its page had not read? Does what is typed stay? Is an empty list right? |
| `tokens_device` | web, Android, iOS in turn; 1 tab, 2 calls, 4 sessions, 1 expiry, every fault | Does the user stay signed in? Is no session and no token left behind? Does every call end? |
| `notifications_night` | 2 updates or replies, 1 device and the phone, 21:59, 22:00, 09:00, every fault, symmetry | Is nobody woken, and is the last word about the stage the right one? |
| `notifications_due` | 1 update or reply, 3 attempts, 4 times, 1 sync, 1 restart | Is a notification repeated only for a reason, and does it go out? |
| `chat_files` | 3 posts, 1 file, client and administrator, 1 conversation opened, a page of 2, every fault, symmetry | Do messages and attachments add up, is a file in one message, does nothing count as read that nobody saw? |
| `chat_pages` | 2 posts, no file, a page of 2, 2 conversations opened (also the same one twice), a mark that fails | Is a client's message marked while an administrator looks at the chat? |
| `login_codes` | web, Android, iOS in turn; 2 requests at a time, 2 codes, 2 attempts, 1 fault of any kind, symmetry | Are codes used once, guesses and messages limited, does the newest code sign in, is no session left behind, and is the abstract ledger implemented? |
| `accounts_rows` | web, Android, iOS in turn; 2 contacts, 3 rows, 2 syncs, 1 edit in amoCRM, 2 things under way at once, every fault, symmetry | Do phone and contact stay unique, does what was deleted stay deleted, is a sync refused for the named reasons only, does the client find the order, is an account gone when the device says so? |
| `commissions_pages` | 2 pages with 3 filters, 2 clicks or 2 requests of 2 forms, 3 rows, every fault, symmetry | Is a payout taken back by a stale click only, does a page show its own changes, does a form make one row? |
| `tokens_tabs` | as small as the disagreement allows | A sentence of the source that the code does not keep (section 6). |

**Why the bounds are enough to see the interesting cases.** Two changes of a lead (`MaxEdits`) give
an old and a new version that can arrive in either order; the third version 0 is "no row yet", so
that a create can race an update. One job of the queue stands for all: jobs carry only the lead and
are taken one at a time, so a second job of the same lead does what another attempt does. What
overlapping failsafe runs and a list cut off after one page can do is left to the proof of
`FailsafePromise`, which is for any number of runs and leads; overlapping syncs of one order to that
of `CopiesAgreeInTheEnd`. `MaxAttempts = 3` is the code's; where two requests meet it is 2, which
keeps "failed once and was retried after a newer job" and "failed for good". The two updates name
the stage, the manager's lead a mapped status, or a stage that is none and 150 percent, so "kept",
"overwritten" and "reset" can be told apart. For the pages, one update is enough for a save that
meets another writer: the manager's change and its sync is the other one, and the update may itself
be somebody else's. Two orders and a page of one give a filter with two pages, with one and with
none, and an order that comes between the rows and the count of one answer. For tokens, `MaxIds`
leaves a new session for each refresh the calls can make, so that no refresh is stopped by the
bound; an access token may expire at any moment, except that it outlives the retry it was fetched
for (the guard of `ExpireAccess`), since it lives fifteen minutes and the retry follows at once. For
notifications the three stages give a change, another one and the last (`order.ready`, which is
critical and sends the SMS); 50 and 90 percent are a step of more than ten. The times are those at
which a comparison changes its value: a minute before the night, its first millisecond and the
morning, to which a deferral points; `notifications_due` adds the last minute of the night. The
arithmetic itself is proved for every time (section 5). For the chat, two posts that compete for a
file and a third give a page that is full with older messages behind it, two messages of one
millisecond, and one that commits after a later one. `PageSize` is 2 instead of the code's 50. For
codes, two requests at a time are what it takes to overlap; two codes give an older and a newer one,
two attempts a guess that locks and one before it; one fault per behaviour shows each alone. For
accounts, three rows are the client's, another's and a new one's; two things under way at once are a
race, such as a deletion and a refresh, or two syncs of different main contacts. They start with two
contacts of one number typed in two ways, or with a main contact whose number has no canonical form.
One edit makes a number move, be typed otherwise, or the lead change its contact; longer chains are
left to the proofs. For commissions, two pages or two clicks on one row.

## 4. Fairness

No property assumes that amoCRM, a user or a manager does anything. Weak fairness is stated on the
steps of a process that has begun something and on what runs by a clock:

- `InboundSync`: a sync in flight and a failsafe run go on, BullMQ gives the worker its job, the
  cron fires again and again (`amocrm-failsafe.service.ts:17`, every 15 minutes). Deliveries of
  webhooks, their handlers and the expiry of keys are not fair: `ChangeReachesOrder` rests on the
  cron alone, as the code says it does.
- `OrderProgress`: the steps of a request, of the worker, and the end of BullMQ's backoff.
  Failures are not fair; a bounded number of attempts makes them end.
- `TokenRefresh`: each call and the server go on; an answer that is lost ends with the client's
  timeout (OkHttp and URLSession have one; a browser reports the closed connection). Restarts,
  expiry and logout are not fair.
- `Notifications`: the steps of a request, of the worker, and the end of a delay or backoff *once
  the clock is there*; the clock itself is not fair, so `DueIsDispatched` speaks of a job whose time
  has come.
- `Chat`: an open page polls again and again (`Conversation.tsx:27`, every ten seconds), a request
  that was sent is answered, a post goes on. Opening, closing, loading older messages and failures
  are not fair.

`Login`, `Accounts`, `Commissions` and `OrderPages` state no fairness: all their properties are
about safety. Strong fairness is nowhere used.

## 5. What is proved

TLAPS checks each theorem for every value of the constants. The assumptions on them are the named
ones of the modules (`ConstantsAssumption`, in `OrderPages` `PagesAssumption`: sets of processes are
disjoint where they share a function, a bound is a natural number, the null value is outside the
values; in `Login` also that `Calls` is finite and not empty), which TLC evaluates on each run. Four
theorems of `TokenRefreshProofs` have the further hypothesis `OneTab`, for the reason given there.
Every safety property that a passing run checks is also proved, from an inductive invariant that was
first checked by TLC. The type invariants of `InboundSync`, `Notifications`, `Chat` and
`Commissions` are proved and no longer checked by a run.
Each invariance proof has one lemma per action or group of actions; lemmas called `Frames` say once
that what an action leaves alone keeps the conjuncts that speak of it.

- **`InboundSyncProofs`**. `TypeCorrect`. `FailsafePromise`: `MissedOnlyIfAbandoned` is not
  inductive by itself, because between `StartRun`, the list and the sync of a lead the promise is
  only kept by what a run still has to do. Its `Covered` therefore names each of these stages: the
  lead is among the recent ones, in the window of a run, or a run's sync will read it or holds its
  latest version; with the types (a sync's lead, the monotone `best`) this is inductive, and the
  proof shows for each step how the change is handed on. `RowsGoForward` from `VersionsInOrder`: no
  row is ahead of its lead, and a sync that no other has overtaken holds a version at least as new
  as the row's.
- **`OrderProgressProofs`**. `TypeCorrect`. `CopiesAgreeInTheEnd` from `AgreeInv`: while no push was
  lost and no syncs have overlapped (`excused`), at most one sync is under way, what it has read is
  the lead as it is unless that has changed since (`dirty`, which a sync that throws leaves as it
  is), and every difference between the row and the lead is explained by a sync or a push still to
  come. The waiting list is a sequence: what appending, retrying at the front and taking do to the
  jobs in it are lemmas of their own. `TimelineFollows`: while no sync has written a difference, the
  last update read the row it committed on and no transaction that began later came before it, the
  history row that is shown last is the row.
- **`OrderProgressProofs`**, the pages. `PagesImplementProgress`: `PagesSpec => Spec`, since each
  step of the pages is one of `OrderProgress` or leaves its variables alone; with it every theorem
  above holds behind the pages. `PageUndoesOnlyUnseen` from `PageInv`: what is kept, and what an
  untouched field of the form or of a save under way holds, is the row's value unless the row has
  been written since (`stale`); that the effect fills the form exactly when the answer differs is
  what keeps this so. `PageKeepsTyped` follows from the same. `ListFinds` from `ListInv`: a page
  number lies within the total it was chosen from, unless that was another filter's, and an answer
  whose count found what its rows did (not `split`) is empty only beyond its total, so only a
  smaller total, or an order that came between the two statements, can leave the page empty.
  `PagesTypeCorrect`.
- **`NotificationsProofs`**. `DeferredToTheMorning`: for every time since the epoch at which
  `isQuietHour` holds, `deferUntilMorning` is exactly what is left of the night, so a job comes due
  at 09:00 in Moscow, not a day early or late; this covers the computations with UTC hours on both
  sides of midnight that the tests sample at a few times. `TypeCorrect`, and `NightStaysQuiet` from
  `NightInv`: a job that was queued at night and is not critical has its due time in the morning (by
  the arithmetic above), and wherever it is, waiting, active or to be retried, this time has come
  before it is taken. `Timed` carries this through failures, backoff and restarts.
  `RepeatsAccounted` from `GotInv`: what a device has received is at most one for each attempt
  counted, one for each restart, and one for the attempt under way unless its loop over the devices
  has yet to come to this one (`Unreached`); a push and the end of an attempt hand this bound on to
  each other.
  `LastWordCounts` from `WordInv`, which holds while nothing that the property names has happened
  (`excused`, and for its last part `moved`). `LastWordIsCurrent` speaks of a system at rest and is
  kept by hardly any step. `WordInv` says which of the notifications under way will be the last: at
  most one update is to announce the stage (`OneHerald`), at most one notification about it is put
  off by the night or a backoff and it goes last (`OnePutOff`), and of those that wait the last on
  the list does (`Before`, `LastWord`). That one names the order's stage, and each device has heard
  of this stage or some job will still reach it (`Words`). The proof follows the order of the list
  through appending, taking and putting back at the front (the lemmas `Ahead...`), and the tail of
  the worker's loop over the devices.
- **`ChatProofs`**. `TypeCorrect`. `FilesAddUp` and `FilesOnce` from `FileInv`: two posts hold one
  file only if one of them was lost before it became a message (`OneHolder`), and a message whose
  file is not linked yet is still on its way to link it (`LinkAhead`), so the check of a third post
  finds the file linked or in hand. `ReadSeen` from `MarkCovers`: whatever is not newer than a
  message up to which a page has asked to mark, or may ask without a new answer (`Cursors`), was on
  that page or is out of the cursor's reach. That a message which appears later cannot slip under a
  mark that is under way is the proof's point: such a message ties with the cursor or is `late`.
- **`LoginProofs`**. `TypeCorrect`, and `NewestCodeWorks` from `LoginInv`, which says of a
  verification marked `best` that its code is still the newest, usable and unlocked, and that this
  is the row its lookup has found. The three limits (`GuessesLimited`, `SessionsLimited`,
  `CodesLimited`) are not inductive, because a verification that has passed its check adds its guess
  or session later: `CountInv` bounds the count *and* the calls that are about to add to it
  (`Holders`, `Takers`, `Allowed`), by one more for each when they overlapped; the proofs count with
  the lemmas of `FiniteSetTheorems`. `Implements`: the refinement of `OneTimeCode`, step by step,
  with `CountInv` for the guards of `Guess` and `Open`. `NoSessionLost` from `VisitInv`: until a
  fault, a logout or an overlap excuses it, one verification at a time is under way, its form waits
  for it, the device has no session before it ends, and each session a code opened is the device's
  or in that verification's answer. `SessionsAccounted` counts per code the sessions opened against
  the places where one can be.
- **`AccountsProofs`**. One invariant, `Inv`, for all five. `RowsUnique` is `TypeOK` with its two
  unique columns: whatever a writer's earlier lookup saw, at its write it finds both values free or
  is refused. `RowsInv` relates rows, syncs and contacts: a row that holds a contact has the
  contact's number, until the number moves or the row is deleted (`HeldKeys`), so an upsert by this
  number finds that very row, which gives `SyncRefusals`; a sync goes on with the main contact's
  number (`SyncInv`), and the order's owner, or the row a sync was given for it, has this number
  (`Owns`, `OwnerInv`) until it changes or the account is deleted. `OrderIsFound` is this and the
  unique phone. `SessionInv` says who may still open a session of a deleted account: a login or a
  refresh that was under way when the deletion committed, each marked; `Erasure` follows.
  `AnswersInv` follows what an ended session and a failed or denied call tell the device, up to
  `SignedOutMeansGone`.
- **`TokenRefreshProofs`**. `SingleFlight` is `TypeOK`, with the fact that one call of a tab leads a
  refresh and does so with a token, for any number of tabs. `BaseInv` adds to it what each state of
  a call implies on each platform (`GoodCall`): which token it carries, that a token answered is of
  a session that exists, that a retry's token has not expired. From `DeviceInv` follow, for a device
  with one tab, `SessionIsKept`, `NoSessionForgotten` and `LogoutForgets`: a refresh under way holds
  the token that is stored, its session is live until it is rotated, and what it is answered is then
  the one live session. The hypothesis `OneTab` is the boundary of what the code keeps, not a
  convenience: phones satisfy it, a browser with one tab does, and with two tabs TLC finds
  counterexamples to all three (the fourth, `OneTabHasNoLosers`, is the sentence of
  `client.ts:30-32` which the run `tokens_tabs` refutes for two).
- **`CommissionsProofs`**. `TypeCorrect`. `OwnChangesShown`: a page that was told of a change is
  loading a list that was sent, or read, after it (`Told`). `FormsMakeOneRow` from `FormInv`: no two
  requests are of one form, and a form whose row is made is closed or about to be, with no request
  that could make another (`Over`). `PaidIsKept`: a request that is not behind asks for the step
  after the row's status (`InStep`).

## 6. What is only model-checked

Liveness under fairness is out of the prover's reach: `ChangeReachesOrder`, `UpdateIsPushed`,
`CallsEnd`, `DueIsDispatched` and `UnreadClears` are checked by TLC only. So is the refutation of
`NoLosers` with two tabs, which is a counterexample and no theorem. That an invariant's excuse is no
wider than it must be is not proved either: what speaks for it is that each property is violated by
a faulty variant of the code.

Some properties have an excuse: a variable that becomes true when one of a few named things has
happened. These are the conditions under which the code makes no promise, and each is a step of the
model: see the comments at `excused`, `drift`, `moved`, `abandoned`, `doubtful`, `late`, `unmarked`,
`overlapped`, `crowded`, `unsure`, `behind`, `stale`, `overtaken`, `split`, `crm.moved` and
`crm.other`.

**A disagreement between the code and its documentation** (the run that ends in a violation):
`tokens_tabs`: two tabs refresh with the one token of `localStorage`; the second is refused and
signs both out.

Met while modelling, and part of the models as they are, without a run of their own:

- Without any fault, the worker and the cron that sync one new lead may leave the older version in
  the row: the one with the newer version fails on the unique key (`CreateConflicts`).
- With a mapped pipeline status, the sync that our own push starts takes the administrator's stage
  back: the status beats the field the push has written (`LeadStage`), although
  `docs/superpowers/specs/2026-05-26-vittoria-home-mvp-design.md:296` says that our changes win and
  `docs/amocrm-fields.md:7` that the field goes both ways.
- `run()` of the failsafe moves `lastSync` before the list request
  (`amocrm-failsafe.service.ts:25`), so when that fails, the changes since the previous run are
  skipped by all later runs, although `amocrm-idempotency.service.ts:6-7` relies on the cron to make
  up for every loss (`abandoned`).
- The iOS application verifies its session at launch with `GET /users/me`
  (`APIService.swift:45`), which the API does not serve, and clears the tokens (`NoRoute`).
- `amocrm-mapper.ts:73` says of an absent partner field "leave existing value untouched";
  `amocrm-sync.service.ts:52` writes `?? []`. An absent progress resets the order's to 0.
- The pushes of concurrent updates may be queued in another order than their commits
  (`CommitUpdate`, `EnqueuePush`), and the client's timeline may show such updates in the order in
  which their transactions began: it then ends with a stage the order has left (`drift`).
- A sync that fails after it has read the lead, at each of its attempts, leaves the copies apart
  until the next change: no contact or phone, a user refused by a unique column, a failed write
  (`amocrm-sync.service.ts:29-57`).
- A sync announces nothing: `usage-guide.md:28` and `managers-guide.md:34` say that clients hear of
  a manager's change (the excuse `moved`).
- The deduplication key has no content: a second change of the stage within 60 seconds is never
  announced. A deferred push about the stage arrives after a later, critical `order.ready`. A job
  queued before 22:00 may be pushed after it, by a retry or a backlog.
- No client application registers a push token; only the endpoint exists.
- Android shows its signed-in screens after the `Authenticator` cleared the tokens; on iOS a
  logout that overlaps a refresh leaves the new tokens stored (`AuthStore.swift:49`).
- Two posts may carry one file (`chat.service.ts:168` links by id without looking again), and a post
  lost between the insert and the link leaves its file free for another (`doubtful`).
- A mark that failed is not sent again until a newer message arrives or the page is opened again
  (`Conversation.tsx:46-49`). On the client's own page the effect looks only at unread messages
  *of the client*, so replies are marked as read there only by accident; and a second
  administrator's page marks the first one's replies as read before the client saw them. The mark
  requests of the phones name `up_to` (Android, iOS) or use POST (iOS) and are always refused.
- After older messages were loaded, new ones push the fresh page forward and leave a gap between
  the two lists (`Conversation.tsx:33-38`).
- A save of `OrderPage.tsx` sends the whole form, so it undoes what changed since the page read the
  order (`UndoesOnlyUnseen` names exactly this); and the effect refills the form with every answer
  that differs, over what is being typed. A comment that was emptied is not sent
  (`comment || undefined`), so it comes back. A failed background fetch hides the form. A page that
  is left while it saves and opened again while an older request is under way joins that request and
  shows the row of before, until the next fetch.
- `OrdersPage.tsx` shows no pagination when there is one page: on an empty page beyond the end of a
  shrunken list only a change of the filter leads back. A list may also be empty beside a count of
  one, when the order came between the two statements of `listAll`
  (`orders.service.ts:118-126`), until it is fetched again.
- Verifications that overlap each open a session with one code, and requests that overlap each text
  one (`overlapped`, `crowded`; the latter also when one of them is for a mistyped number).
- Android's form keeps `authenticated` after a logout, so `AuthScreen.kt:112` lets the user into the
  application without tokens (`Logout`).
- `anonymize` keeps `amocrm_contact_id`, so the next sync of the contact is refused by the unique
  column and its order is not synced any more; the same design (`…-mvp-design.md:345`) also promises
  to redact messages and photos. The same happens when a manager gives the contact another number
  (`SyncRefusedOnlyIf`). `docs/superpowers/specs/2026-06-14-phone-normalization-design.md:88-90`
  says that a foreign number is repaired by editing it in amoCRM: that is such a change, and so is
  typing a foreign number with a "+" or without.
- Two contacts with one number share an account, whose `amocrm_contact_id` is that of the last one
  synced (`amocrm-sync.service.ts:40`). An order keeps its owner when the lead gets a main contact
  with another number.
- A refresh that found its session alive, or a login that had its user, before `anonymize`
  committed opens a live session of the deleted account afterwards (`auth.service.ts:156-186`;
  `late`).
- Android takes a deletion that failed for one that succeeded, and so it does one that was refused
  because the session had ended (`ProfileScreen.kt:96-103`). The web
  and iOS do not send an emptied name, and the web says that it was saved.
- `updateStatus` of commissions checks nothing, so a click on an old row takes a payout back. The
  success of a form that was closed closes the form that is open by then (`Created`).

## 7. What is not modelled

- *Provider token caches, the home, history and chat screens of the phones and of the web cabinet,
  the pages of templates and the audit log, the partners' own pages*: planned or lists only, section
  8.
- *Audit log, HTTP shell*: an insert, a listing, a status; the failure of an audit write is a step
  of the operations it can break (`SyncThrows`, `UpdateThrows`).
- *Layout and rendering*; the list of chats and the unread counts are queries that change nothing.
- *The query cache beyond one key*: the answers kept for an earlier filter or page, which React
  Query may show until the new one comes.
- *Templates and texts*: a text is its event and the stage it names.
- *Comments, partner fields, payment data of an order*: they travel as the progress does.
- *Two API processes*: the deployment runs one (`docker-compose`), with a worker of concurrency 1
  for each queue, so `lastSync` is one variable and a queue has one active job.
- *bcrypt's mismatch branch in `refresh`*: cannot be reached with a token the API has issued.
- *React's double start in development*, *a login while the web application is still loading*.
- *The throttler's clock*: `Throttled` may happen at any request.
- *Two history rows of one millisecond*, between which the database may choose.

## 8. Plan

In this order; each module with its runs, mutants and, where marked, proofs.

1. **A replica that follows its source** (proof): an abstract specification of a copy that is
   written only with versions its source has had and never misses one for good but by abandoning it;
   `InboundSync` implements it.
2. **Composition**: `InboundSync` as what starts the syncs of `OrderProgress`.
3. **`ProviderTokens`** (`push/fcm-token.service.ts`, `push/apns-token.service.ts`): a cached token,
   concurrent fetches, expiry while a request is under way.
4. **`Screens`**: load, send, error and leave in the home, history and chat screens of the phones
   and in the page of templates; on Android a load that ends during a send overwrites the message
   that was sent (`ChatScreen.kt:54-92`).
