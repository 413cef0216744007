----------------------------- MODULE TokenRefresh -----------------------------
(***************************************************************************)
(* How a signed-in device keeps its tokens: the API's sessions, rotated by *)
(* every POST /auth/refresh, and the three clients that refresh when a     *)
(* call is answered 401: the web application (tabs that share one          *)
(* localStorage), Android (an OkHttp Authenticator under a lock) and iOS   *)
(* (an actor with a shared refresh task).                                  *)
(*                                                                         *)
(* A pair of tokens is abstracted to the id (jti) of the session it was    *)
(* issued with, 0 for no token.  An access token is checked for its        *)
(* signature and expiry only, never against its session (jwt.strategy.ts). *)
(***************************************************************************)
EXTENDS Naturals, FiniteSets

CONSTANTS
    Platforms,      \* which clients the device may be
    Tabs,           \* tabs of the web application; one on a phone
    NoTab,          \* not a tab: the page or process that sent the call is gone
    Calls,          \* API calls the device may have under way at once
    Faults,         \* which of FaultKinds may happen
    MaxIds,         \* bound: sessions ever made
    MaxExpiries     \* bound: access tokens that expire

FaultKinds == {"call_lost", "refresh_lost", "session_ended"}

ASSUME ConstantsAssumption ==
    /\ Platforms \subseteq {"web", "android", "ios"}
    /\ NoTab \notin Tabs
    /\ IsFiniteSet(Calls)
    /\ Faults \subseteq FaultKinds
    /\ MaxIds \in Nat \ {0}
    /\ MaxExpiries \in Nat

VARIABLES
    platform,   \* which client the device is
    session,    \* sessions table: none, live or revoked
    expired,    \* access tokens whose 15 minutes are over
    stored,     \* localStorage, EncryptedSharedPreferences, Keychain: the refresh token
    access,     \* the access token: per tab on the web, of the one store on a phone
    status,     \* what each tab shows: the login page, a loader, the application
    call,       \* the calls under way, with the refresh each may lead
    expectIn,   \* history: the user has logged in and not asked to log out
    excused     \* history: one of the listed reasons to lose the session

vars == <<platform, session, expired, stored, access, status, call, expectIn, excused>>

serverVars == <<session, expired>>
storeVars  == <<stored, access, status>>

Ids == 1 .. MaxIds

IdleCall == [pc |-> "idle", tab |-> NoTab, kind |-> "get", token |-> 0,
             retried |-> FALSE, rt |-> 0, got |-> 0]

\* Its refresh request is with the server, or the answer is on its way.
AtRefresh == {"asking", "checked", "granted", "refused"}

Leads(c, t) == call[c].tab = t /\ call[c].pc \in AtRefresh

\* Faulty variant of Busy: every 401 leads a refresh of its own.
Busy_Never(t) == FALSE

\* inFlightRefresh, refreshTask, the Authenticator's lock.
Busy(t) == \E d \in Calls : Leads(d, t)

Idle(c) == call[c].pc = "idle"

NewId(i) == session[i] = "none" /\ \A j \in Ids : j < i => session[j] # "none"

\* Bound: an id is left for every refresh that the calls under way may need.
Room ==
    Cardinality({i \in Ids : session[i] = "none"})
        > Cardinality({c \in Calls : ~Idle(c)}) + MaxExpiries - Cardinality(expired)

Init ==
    /\ platform \in Platforms
    /\ session = [i \in Ids |-> "none"]
    /\ expired = {}
    /\ stored = 0
    /\ access = [t \in Tabs |-> 0]
    /\ status = [t \in Tabs |-> "out"]
    /\ call = [c \in Calls |-> IdleCall]
    /\ expectIn = FALSE
    /\ excused = FALSE

-----------------------------------------------------------------------------
(* The API *)

\* The iOS application asks for GET /users/me, the API has GET /me: 404.
NoRoute(c) == platform = "ios" /\ call[c].kind = "boot"

\* A protected route, POST /auth/logout included; logout revokes the session the
\* access token was issued with.  A logout that overlaps a refresh, or whose
\* token is of an earlier session than the last, leaves a live one behind.
Serve(c) ==
    LET k == call[c]
        valid == k.token \in Ids \ expired
    IN  /\ k.pc = "sent"
        /\ call' = [call EXCEPT ![c].pc = CASE NoRoute(c) -> "missing"
                                              [] ~NoRoute(c) /\ valid -> "ok"
                                              [] OTHER -> "denied"]
        /\ IF valid /\ k.kind = "logout"
           THEN /\ session' = [session EXCEPT ![k.token] = "revoked"]
                /\ excused' = \/ excused \/ session[k.token] # "live"
                              \/ \E d \in Calls : call[d].pc \in AtRefresh
           ELSE UNCHANGED <<session, excused>>
        /\ UNCHANGED <<platform, expired, storeVars, expectIn>>

\* refresh(): session.findUnique; a session revoked or over is refused.
RefreshChecks(c) ==
    /\ call[c].pc = "asking"
    /\ call' = [call EXCEPT ![c].pc = IF session[call[c].rt] = "live" THEN "checked" ELSE "refused"]
    /\ UNCHANGED <<platform, serverVars, storeVars, expectIn, excused>>

\* Faulty variant of RefreshRotates: the old session is not revoked.
RefreshRotates_KeepsOld(c) ==
    \E i \in Ids :
        /\ call[c].pc = "checked"
        /\ NewId(i)
        /\ session' = [session EXCEPT ![i] = "live"]
        /\ call' = [call EXCEPT ![c].pc = "granted", ![c].got = i]
        /\ UNCHANGED <<platform, expired, storeVars, expectIn, excused>>

\* refresh(): the transaction, whatever happened to the session since the check.
RefreshRotates(c) ==
    \E i \in Ids :
        /\ call[c].pc = "checked"
        /\ NewId(i)
        /\ session' = [session EXCEPT ![call[c].rt] = "revoked", ![i] = "live"]
        /\ call' = [call EXCEPT ![c].pc = "granted", ![c].got = i]
        /\ UNCHANGED <<platform, expired, storeVars, expectIn, excused>>

\* Bound on time: an access token outlives the retry it was fetched for.
ExpireAccess(i) ==
    /\ Cardinality(expired) < MaxExpiries
    /\ session[i] # "none"
    /\ i \notin expired
    /\ \A c \in Calls : /\ call[c].pc # "resend" /\ call[c].got # i
                        /\ ~(call[c].retried /\ call[c].token = i)
    /\ expired' = expired \cup {i}
    /\ UNCHANGED <<platform, session, storeVars, call, expectIn, excused>>

\* Thirty days without a refresh.
EndSession(i) ==
    /\ "session_ended" \in Faults
    /\ session[i] = "live"
    /\ session' = [session EXCEPT ![i] = "revoked"]
    /\ excused' = TRUE
    /\ UNCHANGED <<platform, expired, storeVars, call, expectIn>>

-----------------------------------------------------------------------------
(* Login, calls and their ends on the device *)

\* verify-code made a session; its tokens are stored.
Login(t) ==
    /\ status[t] = "out"
    /\ Room
    /\ \E i \in Ids :
          /\ NewId(i)
          /\ session' = [session EXCEPT ![i] = "live"]
          /\ stored' = i
          /\ access' = [access EXCEPT ![t] = i]
    /\ status' = [status EXCEPT ![t] = "in"]
    /\ expectIn' = TRUE
    /\ excused' = ((\E c \in Calls : ~Idle(c)) \/ \E i \in Ids : session[i] = "live")
    /\ UNCHANGED <<platform, expired, call>>

\* Android sends no bearer to a path with /auth/ in it, logout included.
BearerOf(t, kind) == IF platform = "android" /\ kind = "logout" THEN 0 ELSE access[t]

SendCall(c, t, kind) ==
    /\ Idle(c)
    /\ status[t] = "in"
    /\ Room
    /\ kind = "logout" => \A d \in Calls : call[d].kind # "logout" \/ call[d].tab # t
    /\ call' = [call EXCEPT ![c] = [IdleCall EXCEPT !.pc = "sent", !.tab = t, !.kind = kind,
                                                    !.token = BearerOf(t, kind)]]
    /\ expectIn' = (expectIn /\ kind # "logout")
    /\ UNCHANGED <<platform, serverVars, storeVars, excused>>

\* Faulty variant of Clear: the refresh token stays.
Clear_AccessOnly(t, shows) ==
    /\ access' = [access EXCEPT ![t] = 0]
    /\ status' = [status EXCEPT ![t] = shows]
    /\ UNCHANGED stored

\* clearSession, TokenStore.clear(): both tokens, those of the other tabs' localStorage
\* included.
Clear(t, shows) ==
    /\ stored' = 0
    /\ access' = [access EXCEPT ![t] = 0]
    /\ status' = [status EXCEPT ![t] = shows]

\* On Android nobody tells the user interface that the Authenticator cleared the store.
ShownAfterClear(c) ==
    IF platform = "android" /\ call[c].kind # "logout" THEN status[call[c].tab] ELSE "out"

\* An error that ends the call also ends the session: logout's finally, the boot's
\* catch, and on the web any failure of the retry.
ClearsOnError(c) ==
    call[c].kind \in {"logout", "boot"} \/ (platform = "web" /\ call[c].retried)

EndWithError(c) ==
    /\ call' = [call EXCEPT ![c] = IdleCall]
    /\ IF ClearsOnError(c) THEN Clear(call[c].tab, ShownAfterClear(c)) ELSE UNCHANGED storeVars

\* The answer 200: of /me at boot, of logout, of anything else.
Answered(c) ==
    LET k == call[c]
    IN  /\ k.pc = "ok" /\ k.tab # NoTab
        /\ call' = [call EXCEPT ![c] = IdleCall]
        /\ \/ k.kind = "get" /\ UNCHANGED storeVars
           \/ k.kind = "boot" /\ status' = [status EXCEPT ![k.tab] = "in"] /\ UNCHANGED <<stored, access>>
           \/ k.kind = "logout" /\ Clear(k.tab, "out")
        /\ excused' = (excused \/ (k.kind = "logout" /\ Busy(k.tab)))
        /\ UNCHANGED <<platform, serverVars, expectIn>>

\* The request or its answer is lost.
CallFails(c) ==
    /\ "call_lost" \in Faults
    /\ call[c].pc \in {"sent", "ok", "missing", "denied"} /\ call[c].tab # NoTab
    /\ EndWithError(c)
    /\ excused' = (excused \/ ClearsOnError(c))
    /\ UNCHANGED <<platform, serverVars, expectIn>>

\* The answer 404.
NotFound(c) ==
    /\ call[c].pc = "missing" /\ call[c].tab # NoTab
    /\ EndWithError(c)
    /\ excused' = TRUE
    /\ UNCHANGED <<platform, serverVars, expectIn>>

-----------------------------------------------------------------------------
(* A call answered 401 *)

\* The client may still refresh: the web and iOS retry once, iOS never for /auth paths.
Retriable(c) ==
    \/ platform = "android"
    \/ platform = "web" /\ ~call[c].retried
    \/ platform = "ios" /\ ~call[c].retried /\ call[c].kind # "logout"

Denied(c) == call[c].pc = "denied" /\ call[c].tab # NoTab

\* The second 401.  A logout iOS gives up leaves its session live.
DeniedForGood(c) ==
    /\ Denied(c) /\ ~Retriable(c)
    /\ EndWithError(c)
    /\ excused' = (excused \/ call[c].kind = "logout")
    /\ UNCHANGED <<platform, serverVars, expectIn>>

\* iOS: the task is done and its leader has not yet set refreshTask to nil.
TaskDone(t) == \E d \in Calls : call[d].tab = t /\ call[d].pc = "resend" /\ call[d].rt # 0

\* The web and iOS wait for the refresh under way.
Join(c) ==
    /\ Denied(c) /\ Retriable(c) /\ platform # "android"
    /\ Busy(call[c].tab)
    /\ call' = [call EXCEPT ![c].pc = "waiting"]
    /\ UNCHANGED <<platform, serverVars, storeVars, expectIn, excused>>

JoinDone(c) ==
    /\ Denied(c) /\ Retriable(c) /\ ~Busy(call[c].tab) /\ TaskDone(call[c].tab)
    /\ call' = [call EXCEPT ![c].pc = "resend"]
    /\ UNCHANGED <<platform, serverVars, storeVars, expectIn, excused>>

\* Android: another thread has refreshed since this call was sent.
Superseded(c) ==
    platform = "android" /\ call[c].token # 0 /\ access[call[c].tab] \notin {0, call[c].token}

MayLead(c) ==
    /\ Denied(c) /\ Retriable(c)
    /\ ~Busy(call[c].tab) /\ ~TaskDone(call[c].tab)
    /\ ~Superseded(c)

RetryWithCurrent(c) ==
    /\ Denied(c) /\ ~Busy(call[c].tab) /\ Superseded(c)
    /\ call' = [call EXCEPT ![c].pc = "sent", ![c].token = access[call[c].tab], ![c].retried = TRUE]
    /\ UNCHANGED <<platform, serverVars, storeVars, expectIn, excused>>

LeadRefresh(c) ==
    /\ MayLead(c)
    /\ stored # 0
    /\ call' = [call EXCEPT ![c].pc = "asking", ![c].rt = stored]
    /\ UNCHANGED <<platform, serverVars, storeVars, expectIn, excused>>

NoRefreshToken(c) ==
    /\ MayLead(c)
    /\ stored = 0
    /\ call' = [call EXCEPT ![c] = IdleCall]
    /\ Clear(call[c].tab, ShownAfterClear(c))
    /\ UNCHANGED <<platform, serverVars, expectIn, excused>>

-----------------------------------------------------------------------------
(* The answer of a refresh *)

\* Faulty variant of Sharers: those that joined are not told.
Sharers_LeaderOnly(c) == {c}

\* The call that led the refresh and those that wait for it.
Sharers(c) == {c} \cup {d \in Calls : call[d].tab = call[c].tab /\ call[d].pc = "waiting"}

\* The web and Android retry with the token of the answer, iOS reads it from the
\* store when the call runs again.
Retrying(d, i) ==
    IF platform = "ios" THEN [call[d] EXCEPT !.pc = "resend", !.got = 0]
    ELSE [call[d] EXCEPT !.pc = "sent", !.token = i, !.retried = TRUE, !.rt = 0, !.got = 0]

\* Faulty variant of RefreshGranted: the rotated refresh token is not stored.
RefreshGranted_AccessOnly(c) ==
    LET k == call[c]
    IN  /\ k.pc = "granted" /\ k.tab # NoTab
        /\ access' = [access EXCEPT ![k.tab] = k.got]
        /\ call' = [d \in Calls |-> IF d \in Sharers(c) THEN Retrying(d, k.got) ELSE call[d]]
        /\ UNCHANGED <<platform, serverVars, stored, status, expectIn, excused>>

RefreshGranted(c) ==
    LET k == call[c]
    IN  /\ k.pc = "granted" /\ k.tab # NoTab
        /\ stored' = k.got
        /\ access' = [access EXCEPT ![k.tab] = k.got]
        /\ call' = [d \in Calls |-> IF d \in Sharers(c) THEN Retrying(d, k.got) ELSE call[d]]
        /\ UNCHANGED <<platform, serverVars, status, expectIn, excused>>

\* Any failure of the refresh ends the session on every platform.
RefreshRefused(c) ==
    /\ call[c].pc = "refused" /\ call[c].tab # NoTab
    /\ Clear(call[c].tab, ShownAfterClear(c))
    /\ call' = [d \in Calls |-> IF d \in Sharers(c) THEN IdleCall ELSE call[d]]
    /\ UNCHANGED <<platform, serverVars, expectIn, excused>>

\* iOS: the call goes on after performRefresh.
Resend(c) ==
    /\ call[c].pc = "resend"
    /\ call' = [call EXCEPT ![c].pc = "sent", ![c].token = access[call[c].tab],
                            ![c].retried = TRUE, ![c].rt = 0]
    /\ UNCHANGED <<platform, serverVars, storeVars, expectIn, excused>>

\* The refresh request or its answer is lost; to the client this is a refusal.
RefreshFails(c) ==
    /\ "refresh_lost" \in Faults
    /\ call[c].pc \in {"asking", "granted"} /\ call[c].tab # NoTab
    /\ call' = [call EXCEPT ![c].pc = "refused", ![c].got = 0]
    /\ excused' = TRUE
    /\ UNCHANGED <<platform, serverVars, storeVars, expectIn>>

-----------------------------------------------------------------------------
(* A page is opened or loaded again, an application is started again *)

\* What a call of the old page becomes: what the server has goes on without it.
Orphan(k) == IF k.pc \in {"sent", "asking", "checked"} THEN [k EXCEPT !.tab = NoTab] ELSE IdleCall

\* The web boots with a refresh outside the single flight, iOS with GET /me.
BootCall(t) ==
    IF platform = "web"
    THEN [IdleCall EXCEPT !.pc = "asking", !.tab = t, !.kind = "boot", !.rt = stored]
    ELSE [IdleCall EXCEPT !.pc = "sent", !.tab = t, !.kind = "boot", !.token = access[t]]

Boots == stored # 0 /\ platform # "android"

Restart(t, c) ==
    /\ Idle(c)
    /\ Room
    /\ call' = [d \in Calls |-> IF d = c /\ Boots THEN BootCall(t)
                                ELSE IF call[d].tab = t THEN Orphan(call[d]) ELSE call[d]]
    /\ access' = IF platform = "web" THEN [access EXCEPT ![t] = 0] ELSE access
    /\ status' = [status EXCEPT ![t] = IF stored = 0 THEN "out"
                                       ELSE IF platform = "web" THEN "loading" ELSE "in"]
    /\ excused' = (excused \/ \E d \in Calls : Leads(d, t))
    /\ UNCHANGED <<platform, serverVars, stored, expectIn>>

DropAnswer(c) ==
    /\ call[c].tab = NoTab /\ call[c].pc \in {"ok", "missing", "denied", "granted", "refused"}
    /\ call' = [call EXCEPT ![c] = IdleCall]
    /\ UNCHANGED <<platform, serverVars, storeVars, expectIn, excused>>

-----------------------------------------------------------------------------
ServerStep(c) == Serve(c) \/ RefreshChecks(c) \/ RefreshRotates(c)

AfterDenial(c) ==
    \/ DeniedForGood(c) \/ Join(c) \/ JoinDone(c)
    \/ RetryWithCurrent(c) \/ LeadRefresh(c) \/ NoRefreshToken(c)

ClientStep(c) ==
    \/ Answered(c) \/ NotFound(c) \/ AfterDenial(c)
    \/ RefreshGranted(c) \/ RefreshRefused(c) \/ Resend(c) \/ DropAnswer(c)

Next ==
    \/ \E t \in Tabs : Login(t)
    \/ \E t \in Tabs, c \in Calls : Restart(t, c) \/ \E kind \in {"get", "logout"} : SendCall(c, t, kind)
    \/ \E c \in Calls : ServerStep(c) \/ ClientStep(c) \/ CallFails(c) \/ RefreshFails(c)
    \/ \E i \in Ids : ExpireAccess(i) \/ EndSession(i)

Spec == Init /\ [][Next]_vars

\* The server answers what reaches it and a client handles what it receives: a step one
\* of them can always take is taken.  Nothing is assumed of the user.
Fairness == \A c \in Calls : WF_vars(ServerStep(c) \/ ClientStep(c))

FairSpec == Spec /\ Fairness

-----------------------------------------------------------------------------
(* Properties *)

ServerType ==
    /\ platform \in Platforms
    /\ session \in [Ids -> {"none", "live", "revoked"}]
    /\ expired \subseteq Ids

StoreType ==
    /\ stored \in Ids \cup {0}
    /\ access \in [Tabs -> Ids \cup {0}]
    /\ status \in [Tabs -> {"out", "loading", "in"}]

CallState ==
    [pc : {"idle", "sent", "ok", "missing", "denied", "waiting", "resend"} \cup AtRefresh,
     tab : Tabs \cup {NoTab}, kind : {"get", "logout", "boot"}, token : Ids \cup {0},
     retried : BOOLEAN, rt : Ids \cup {0}, got : Ids \cup {0}]

\* Of the calls of a tab at most one leads a refresh, and it does so with a token.
OneLeader ==
    \A t \in Tabs : \A c, d \in Calls : Leads(c, t) /\ Leads(d, t) => c = d /\ call[c].rt # 0

\* Every variable stays in its type, and a tab has at most one refresh under way.
TypeOK ==
    /\ ServerType /\ StoreType
    /\ call \in [Calls -> CallState] /\ OneLeader
    /\ expectIn \in BOOLEAN /\ excused \in BOOLEAN

\* The refresh token works, or the answer that replaces it is on its way.
SessionKept ==
    \/ stored # 0 /\ session[stored] = "live"
    \/ \E c \in Calls : /\ call[c].pc = "granted" /\ call[c].tab # NoTab
                        /\ call[c].rt = stored /\ session[call[c].got] = "live"

\* A user who has not logged out stays signed in: calls answered 401 in any order, late,
\* and by several at once never cost the session, unless an answer is lost, a call of
\* the boot or a retry fails, or the session ended.  For a device with one tab, as are the
\* two properties after the next: two tabs take each other's session (NoLosers).
StaysSignedIn == expectIn /\ ~excused => SessionKept

\* The comment at admin/src/api/client.ts:30-32 says that concurrent 401s share one
\* refresh, so that there are no losers that send an already-revoked token: no refresh of
\* a user who is signed in is refused.
NoLosers == expectIn /\ ~excused => \A c \in Calls : call[c].pc # "refused"

\* No session is left behind: one that is live is that of the stored token, or the one an
\* answer brings.
SessionsAccounted ==
    ~excused => \A i \in Ids : session[i] = "live" =>
        \/ i = stored
        \/ \E c \in Calls : call[c].pc = "granted" /\ call[c].tab # NoTab /\ call[c].got = i

\* A device that shows the login page has no refresh token that would sign it in again at
\* the next start: logout always clears the local tokens (AuthStore.swift:49), and what
\* a call in flight brings later is not stored, unless a logout overlapped a refresh.
SignedOutHasNoToken == ~excused /\ (\A t \in Tabs : status[t] = "out") => stored = 0

\* Every call ends, those that wait for another call's refresh included.
CallsEnd == \A c \in Calls : ~Idle(c) ~> Idle(c)
=============================================================================
