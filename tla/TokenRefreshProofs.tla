-------------------------- MODULE TokenRefreshProofs --------------------------
(***************************************************************************)
(* Theorems about TokenRefresh: type correctness for any number of tabs,   *)
(* and for a device with one, a phone or one tab of the browser, that its  *)
(* session is kept, accounted for and forgotten after a logout.  For any   *)
(* number of calls, tokens and faults.                                     *)
(***************************************************************************)
EXTENDS TokenRefresh, TLAPS

Known(i, ses) == i \in Ids /\ ses[i] # "none"

\* A call as the sessions and the expired tokens allow it: the token that is sent or
\* answered is that of a session that was made, only the server's part of a call outlives
\* the page, a call is retried with a token that is still good, the boot of the web with no
\* other, and that of iOS finds no route; only iOS waits to run a call again.
GoodCall(k, ses, exp) ==
    /\ k.pc = "idle" => k = IdleCall
    /\ k.pc \in {"waiting", "resend"} => k.tab # NoTab
    /\ k.pc = "resend" => platform = "ios"
    /\ k.pc \in AtRefresh => Known(k.rt, ses)
    /\ k.pc = "granted" => Known(k.got, ses) /\ k.got \notin exp
    /\ platform = "web" /\ k.retried => k.token \in Ids \ exp /\ k.pc # "denied"
    /\ platform = "web" /\ k.kind = "boot" => k.retried \/ k.pc \in AtRefresh
    /\ platform = "ios" /\ k.kind = "boot" => k.pc \in {"sent", "missing"}
    /\ platform = "android" => k.kind # "boot"

TokensKnown ==
    /\ stored # 0 => Known(stored, session)
    /\ \A i \in expired : Known(i, session)

CallsGood == \A c \in Calls : GoodCall(call[c], session, expired)

BaseInv == TypeOK /\ TokensKnown /\ CallsGood

-----------------------------------------------------------------------------
(* The initial state, and steps in general *)

LEMMA IdleCallIsGood ==
    /\ IdleCall \in CallState
    /\ IdleCall.pc = "idle" /\ ~IdleCall.retried /\ IdleCall.kind = "get" /\ IdleCall.tab = NoTab
    /\ \A ses, exp : GoodCall(IdleCall, ses, exp)
BY DEF IdleCall, CallState, GoodCall, AtRefresh

LEMMA InitBase == Init => BaseInv
<1> SUFFICES ASSUME Init PROVE BaseInv
  OBVIOUS
<1>1. \A c \in Calls : call[c] = IdleCall
  BY DEF Init
<1>2. OneLeader
  BY <1>1, IdleCallIsGood DEF OneLeader, Leads, AtRefresh
<1>3. call \in [Calls -> CallState]
  BY IdleCallIsGood DEF Init
<1>4. ServerType /\ StoreType
  BY DEF Init, ServerType, StoreType
<1>5. TokensKnown
  BY DEF Init, TokensKnown
<1>6. CallsGood
  BY <1>1, IdleCallIsGood DEF CallsGood
<1> QED BY <1>2, <1>3, <1>4, <1>5, <1>6 DEF Init, BaseInv, TypeOK

\* What a call may be, it may be with more sessions made.
LEMMA SessionsGrow ==
    ASSUME NEW ses, NEW later, NEW exp, \A i \in Ids : ses[i] # "none" => later[i] # "none",
           NEW k, GoodCall(k, ses, exp)
    PROVE  GoodCall(k, later, exp)
BY DEF GoodCall, Known

\* One call changes, no token expires and no session is unmade.
LEMMA OneCall ==
    ASSUME BaseInv, NEW c \in Calls, NEW new \in CallState,
           call' = [call EXCEPT ![c] = new],
           platform' = platform, expired' = expired,
           session' \in [Ids -> {"none", "live", "revoked"}],
           \A i \in Ids : session[i] # "none" => session'[i] # "none",
           StoreType', stored' # 0 => Known(stored', session'),
           expectIn' \in BOOLEAN, excused' \in BOOLEAN,
           GoodCall(new, session', expired'),
           new.pc \in AtRefresh => \/ call[c].pc \in AtRefresh /\ call[c].tab = new.tab
                                   \/ ~Busy(new.tab)
    PROVE  BaseInv'
<1>1. /\ call' \in [Calls -> CallState]
      /\ \A d \in Calls : call'[d] = IF d = c THEN new ELSE call[d]
  BY DEF BaseInv, TypeOK
<1>2. CallsGood'
  <2> SUFFICES ASSUME NEW d \in Calls PROVE GoodCall(call'[d], session', expired')
    BY DEF CallsGood, GoodCall
  <2>1. GoodCall(call[d], session, expired)
    BY DEF BaseInv, CallsGood
  <2> QED BY <1>1, <2>1, SessionsGrow
<1>3. TokensKnown'
  BY DEF BaseInv, TokensKnown, Known
<1>4. OneLeader'
  <2> SUFFICES ASSUME NEW t \in Tabs, NEW a \in Calls, NEW d \in Calls, Leads(a, t)', Leads(d, t)'
               PROVE  a = d /\ call'[a].rt # 0
    BY DEF OneLeader
  <2>1. a # c => Leads(a, t)
    BY <1>1 DEF Leads
  <2>2. d # c => Leads(d, t)
    BY <1>1 DEF Leads
  <2>3. a = d
    <3>1. CASE Leads(c, t) \/ (a # c /\ d # c)
      BY <2>1, <2>2, <3>1 DEF BaseInv, TypeOK, OneLeader
    <3>2. CASE ~Leads(c, t) /\ (a = c \/ d = c)
      <4>1. ~Busy(t)
        BY <1>1, <3>2 DEF Leads
      <4> QED BY <2>1, <2>2, <4>1 DEF Busy
    <3> QED BY <3>1, <3>2
  <2>4. Known(call'[a].rt, session')
    BY <1>2 DEF CallsGood, GoodCall, Leads
  <2> QED BY <2>3, <2>4 DEF Known, Ids
<1>5. ServerType'
  BY DEF BaseInv, TypeOK, ServerType
<1> QED BY <1>1, <1>2, <1>3, <1>4, <1>5 DEF BaseInv, TypeOK

-----------------------------------------------------------------------------
(* The API *)

LEMMA CallTypes ==
    ASSUME BaseInv, NEW c \in Calls
    PROVE  /\ call[c] \in CallState /\ GoodCall(call[c], session, expired)
           /\ session \in [Ids -> {"none", "live", "revoked"}] /\ expired \subseteq Ids
           /\ call[c].tab # NoTab => call[c].tab \in Tabs
           /\ expectIn \in BOOLEAN /\ excused \in BOOLEAN
BY DEF BaseInv, CallsGood, TypeOK, CallState, ServerType

LEMMA SameStore ==
    ASSUME BaseInv, UNCHANGED storeVars, \A i \in Ids : session[i] # "none" => session'[i] # "none"
    PROVE  StoreType' /\ (stored' # 0 => Known(stored', session'))
BY DEF BaseInv, TypeOK, StoreType, TokensKnown, Known, storeVars

LEMMA ServeBase == ASSUME BaseInv, NEW c \in Calls, Serve(c) PROVE BaseInv'
<1> DEFINE valid == call[c].token \in Ids \ expired
           new == [call[c] EXCEPT !.pc = CASE NoRoute(c) -> "missing"
                                           [] ~NoRoute(c) /\ valid -> "ok"
                                           [] OTHER -> "denied"]
<1>1. /\ call[c].pc = "sent" /\ call' = [call EXCEPT ![c] = new]
      /\ platform' = platform /\ expired' = expired /\ UNCHANGED storeVars /\ expectIn' = expectIn
      /\ \/ UNCHANGED <<session, excused>>
         \/ /\ valid
            /\ session' = [session EXCEPT ![call[c].token] = "revoked"]
            /\ excused' = \/ excused \/ session[call[c].token] # "live"
                          \/ \E d \in Calls : call[d].pc \in AtRefresh
  BY DEF Serve
<1>2. /\ new \in CallState
      /\ new.pc = IF NoRoute(c) THEN "missing" ELSE IF valid THEN "ok" ELSE "denied"
      /\ new.kind = call[c].kind /\ new.token = call[c].token /\ new.retried = call[c].retried
      /\ new.tab = call[c].tab
  BY CallTypes DEF CallState
<1>3. /\ session' \in [Ids -> {"none", "live", "revoked"}]
      /\ \A i \in Ids : session[i] # "none" => session'[i] # "none"
      /\ expectIn' \in BOOLEAN /\ excused' \in BOOLEAN
  BY <1>1, CallTypes
<1>4. GoodCall(new, session', expired')
  BY <1>1, <1>2, CallTypes DEF GoodCall, NoRoute, AtRefresh
<1> HIDE DEF new, valid
<1> QED BY <1>1, <1>2, <1>3, <1>4, SameStore, OneCall DEF AtRefresh

LEMMA RefreshChecksBase == ASSUME BaseInv, NEW c \in Calls, RefreshChecks(c) PROVE BaseInv'
<1> DEFINE new == [call[c] EXCEPT !.pc = IF session[call[c].rt] = "live" THEN "checked" ELSE "refused"]
<1>1. /\ call[c].pc = "asking" /\ call' = [call EXCEPT ![c] = new]
      /\ UNCHANGED <<platform, session, expired, storeVars, expectIn, excused>>
  BY DEF RefreshChecks, serverVars
<1>2. /\ new \in CallState /\ new.pc \in {"checked", "refused"} /\ new.tab = call[c].tab
  BY CallTypes DEF CallState, AtRefresh
<1>3. GoodCall(new, session', expired')
  BY <1>1, CallTypes DEF CallState, GoodCall, AtRefresh
<1> HIDE DEF new
<1> QED BY <1>1, <1>2, <1>3, CallTypes, SameStore, OneCall DEF AtRefresh

LEMMA RefreshRotatesBase == ASSUME BaseInv, NEW c \in Calls, RefreshRotates(c) PROVE BaseInv'
<1>1. PICK i \in Ids :
        /\ call[c].pc = "checked" /\ NewId(i)
        /\ session' = [session EXCEPT ![call[c].rt] = "revoked", ![i] = "live"]
        /\ call' = [call EXCEPT ![c] = [call[c] EXCEPT !.pc = "granted", !.got = i]]
        /\ UNCHANGED <<platform, expired, storeVars, expectIn, excused>>
  <2>1. PICK i \in Ids :
          /\ call[c].pc = "checked" /\ NewId(i)
          /\ session' = [session EXCEPT ![call[c].rt] = "revoked", ![i] = "live"]
          /\ call' = [call EXCEPT ![c].pc = "granted", ![c].got = i]
          /\ UNCHANGED <<platform, expired, storeVars, expectIn, excused>>
    BY DEF RefreshRotates
  <2>2. [call EXCEPT ![c].pc = "granted", ![c].got = i]
          = [call EXCEPT ![c] = [call[c] EXCEPT !.pc = "granted", !.got = i]]
    BY DEF BaseInv, TypeOK
  <2> QED BY <2>1, <2>2
<1> DEFINE new == [call[c] EXCEPT !.pc = "granted", !.got = i]
<1>2. new \in CallState /\ new.pc = "granted" /\ new.got = i /\ new.tab = call[c].tab /\ new.rt = call[c].rt
  BY CallTypes DEF CallState, AtRefresh
<1>3. /\ session' \in [Ids -> {"none", "live", "revoked"}] /\ session'[i] = "live"
      /\ \A j \in Ids : session[j] # "none" => session'[j] # "none"
      /\ i \notin expired
  BY <1>1, CallTypes DEF NewId, BaseInv, TokensKnown, Known
<1>4. GoodCall(new, session', expired')
  BY <1>1, <1>2, <1>3, CallTypes DEF CallState, GoodCall, AtRefresh, Known
<1>5. call[c].pc \in AtRefresh /\ call[c].tab = new.tab
  BY <1>1, <1>2 DEF AtRefresh
<1>6. StoreType' /\ (stored' # 0 => Known(stored', session'))
  BY <1>1, <1>3, SameStore
<1>7. platform' = platform /\ expired' = expired /\ expectIn' \in BOOLEAN /\ excused' \in BOOLEAN
  BY <1>1, CallTypes
<1>8. call' = [call EXCEPT ![c] = new]
  BY <1>1
<1> HIDE DEF new
<1> QED BY <1>2, <1>3, <1>4, <1>5, <1>6, <1>7, <1>8, OneCall

\* Tokens expire that no retry carries, and sessions end.
LEMMA TimeBase == ASSUME BaseInv, NEW i \in Ids, ExpireAccess(i) \/ EndSession(i) PROVE BaseInv'
<1>1. UNCHANGED <<platform, storeVars, call, expectIn>>
  BY DEF ExpireAccess, EndSession
<1>2. /\ session' \in [Ids -> {"none", "live", "revoked"}]
      /\ \A j \in Ids : session[j] # "none" => session'[j] # "none"
      /\ excused' \in BOOLEAN /\ expired' \subseteq Ids
      /\ \A j \in expired' : j \in expired \/ (j = i /\ ExpireAccess(i))
  BY DEF ExpireAccess, EndSession, BaseInv, TypeOK, ServerType
<1>3. TokensKnown'
  BY <1>1, <1>2 DEF ExpireAccess, BaseInv, TokensKnown, Known, storeVars
<1>4. ASSUME NEW c \in Calls PROVE GoodCall(call[c], session', expired')
  <2>1. ExpireAccess(i) => call[c].got # i /\ ~(call[c].retried /\ call[c].token = i)
    BY DEF ExpireAccess
  <2> QED BY <1>2, <2>1, CallTypes DEF GoodCall, Known
<1>5. OneLeader' /\ call' \in [Calls -> CallState] /\ expectIn' \in BOOLEAN
  BY <1>1 DEF BaseInv, TypeOK, OneLeader, Leads
<1>6. StoreType' /\ ServerType' /\ CallsGood'
  BY <1>1, <1>2, <1>4 DEF BaseInv, TypeOK, StoreType, ServerType, CallsGood, GoodCall, storeVars
<1> QED BY <1>2, <1>3, <1>5, <1>6 DEF BaseInv, TypeOK

LEMMA LoginBase == ASSUME BaseInv, NEW t \in Tabs, Login(t) PROVE BaseInv'
<1>1. PICK i \in Ids :
          /\ NewId(i)
          /\ session' = [session EXCEPT ![i] = "live"]
          /\ stored' = i
          /\ access' = [access EXCEPT ![t] = i]
  BY DEF Login
<1>2. /\ status' = [status EXCEPT ![t] = "in"] /\ expectIn' = TRUE /\ excused' \in BOOLEAN
      /\ UNCHANGED <<platform, expired, call>>
  BY DEF Login
<1>3. /\ session' \in [Ids -> {"none", "live", "revoked"}] /\ session'[i] = "live"
      /\ \A j \in Ids : session[j] # "none" => session'[j] # "none"
  BY <1>1 DEF BaseInv, TypeOK, ServerType
<1>4. StoreType' /\ ServerType'
  BY <1>1, <1>2, <1>3 DEF BaseInv, TypeOK, StoreType, ServerType
<1>5. TokensKnown'
  BY <1>1, <1>2, <1>3 DEF BaseInv, TokensKnown, Known
<1>6. CallsGood'
  <2>1. ASSUME NEW c \in Calls PROVE GoodCall(call[c], session', expired')
    BY <1>2, <1>3, CallTypes, SessionsGrow
  <2> QED BY <1>2, <2>1 DEF CallsGood, GoodCall
<1>7. OneLeader'
  BY <1>2 DEF BaseInv, TypeOK, OneLeader, Leads
<1> QED BY <1>2, <1>4, <1>5, <1>6, <1>7 DEF BaseInv, TypeOK

-----------------------------------------------------------------------------
(* The device *)

LEMMA ClearTypes ==
    ASSUME BaseInv, NEW t \in Tabs, NEW shows \in {"out", "loading", "in"}, Clear(t, shows)
    PROVE  StoreType' /\ stored' = 0
BY DEF Clear, BaseInv, TypeOK, StoreType

LEMMA ShownType ==
    ASSUME BaseInv, NEW c \in Calls, call[c].tab # NoTab
    PROVE  ShownAfterClear(c) \in {"out", "loading", "in"}
BY CallTypes DEF ShownAfterClear, BaseInv, TypeOK, StoreType

\* A call ends, and the store is kept, cleared or shown otherwise.
LEMMA CallEnds ==
    ASSUME BaseInv, NEW c \in Calls, call' = [call EXCEPT ![c] = IdleCall],
           UNCHANGED <<platform, session, expired>>, StoreType', stored' \in {stored, 0},
           expectIn' \in BOOLEAN, excused' \in BOOLEAN
    PROVE  BaseInv'
<1>1. stored' # 0 => Known(stored', session')
  BY DEF BaseInv, TokensKnown
<1>2. session' \in [Ids -> {"none", "live", "revoked"}]
  BY CallTypes
<1>3. GoodCall(IdleCall, session', expired') /\ IdleCall \in CallState /\ IdleCall.pc \notin AtRefresh
  BY IdleCallIsGood DEF AtRefresh
<1> QED BY <1>1, <1>2, <1>3, OneCall

LEMMA AnswersBase ==
    ASSUME BaseInv, NEW c \in Calls,
           Answered(c) \/ CallFails(c) \/ NotFound(c) \/ DeniedForGood(c) \/ NoRefreshToken(c) \/ DropAnswer(c)
    PROVE  BaseInv'
<1>1. /\ call' = [call EXCEPT ![c] = IdleCall]
      /\ UNCHANGED <<platform, session, expired>> /\ expectIn' = expectIn
  BY DEF Answered, CallFails, NotFound, DeniedForGood, NoRefreshToken, DropAnswer, EndWithError, serverVars
<1>2. excused' \in BOOLEAN
  BY CallTypes DEF Answered, CallFails, NotFound, DeniedForGood, NoRefreshToken, DropAnswer
<1>3. \/ UNCHANGED storeVars
      \/ call[c].tab # NoTab /\ Clear(call[c].tab, ShownAfterClear(c))
      \/ call[c].tab # NoTab /\ Clear(call[c].tab, "out")
      \/ call[c].tab # NoTab /\ status' = [status EXCEPT ![call[c].tab] = "in"] /\ UNCHANGED <<stored, access>>
  BY DEF Answered, CallFails, NotFound, DeniedForGood, NoRefreshToken, DropAnswer, EndWithError, MayLead,
         Denied
<1>4. StoreType' /\ stored' \in {stored, 0}
  <2>1. CASE UNCHANGED storeVars
    BY <2>1 DEF BaseInv, TypeOK, StoreType, storeVars
  <2>2. CASE call[c].tab # NoTab /\ Clear(call[c].tab, ShownAfterClear(c))
    BY <2>2, CallTypes, ShownType, ClearTypes
  <2>3. CASE call[c].tab # NoTab /\ Clear(call[c].tab, "out")
    BY <2>3, CallTypes, ClearTypes
  <2>4. CASE call[c].tab # NoTab /\ status' = [status EXCEPT ![call[c].tab] = "in"] /\ UNCHANGED <<stored, access>>
    BY <2>4, CallTypes DEF BaseInv, TypeOK, StoreType
  <2> QED BY <1>3, <2>1, <2>2, <2>3, <2>4
<1> QED BY <1>1, <1>2, <1>4, CallTypes, CallEnds

\* One call goes on, and nothing else changes.
LEMMA CallGoesOn ==
    ASSUME BaseInv, NEW c \in Calls, NEW new \in CallState, call' = [call EXCEPT ![c] = new],
           UNCHANGED <<platform, serverVars, storeVars>>, expectIn' \in BOOLEAN, excused' \in BOOLEAN,
           GoodCall(new, session, expired),
           new.pc \in AtRefresh => \/ call[c].pc \in AtRefresh /\ call[c].tab = new.tab
                                   \/ ~Busy(new.tab)
    PROVE  BaseInv'
<1>1. /\ session' \in [Ids -> {"none", "live", "revoked"}]
      /\ \A i \in Ids : session[i] # "none" => session'[i] # "none"
  BY CallTypes DEF serverVars
<1>2. StoreType' /\ (stored' # 0 => Known(stored', session'))
  BY <1>1, SameStore
<1>3. platform' = platform /\ expired' = expired /\ GoodCall(new, session', expired')
  BY DEF serverVars
<1> QED BY <1>1, <1>2, <1>3, OneCall

LEMMA SendCallBase ==
    ASSUME BaseInv, NEW c \in Calls, NEW t \in Tabs, NEW kind \in {"get", "logout"}, SendCall(c, t, kind)
    PROVE  BaseInv'
<1> DEFINE new == [IdleCall EXCEPT !.pc = "sent", !.tab = t, !.kind = kind, !.token = BearerOf(t, kind)]
<1>1. BearerOf(t, kind) \in Ids \cup {0}
  BY DEF BearerOf, BaseInv, TypeOK, StoreType
<1>2. /\ new \in CallState /\ new.pc = "sent" /\ ~new.retried /\ new.kind = kind
  BY <1>1, IdleCallIsGood DEF CallState
<1>3. GoodCall(new, session, expired) /\ new.pc \notin AtRefresh
  BY <1>2 DEF GoodCall, AtRefresh
<1>4. /\ call' = [call EXCEPT ![c] = new] /\ UNCHANGED <<platform, serverVars, storeVars>>
      /\ expectIn' \in BOOLEAN /\ excused' \in BOOLEAN
  BY CallTypes DEF SendCall
<1> HIDE DEF new
<1> QED BY <1>2, <1>3, <1>4, CallGoesOn

\* A call answered 401 that goes on.
LEMMA AfterDenialBase ==
    ASSUME BaseInv, NEW c \in Calls, Join(c) \/ JoinDone(c) \/ RetryWithCurrent(c) \/ LeadRefresh(c)
    PROVE  BaseInv'
<1>0. /\ call[c].pc = "denied" /\ call[c].tab \in Tabs
      /\ UNCHANGED <<platform, serverVars, storeVars>> /\ expectIn' \in BOOLEAN /\ excused' \in BOOLEAN
  BY CallTypes DEF Join, JoinDone, RetryWithCurrent, LeadRefresh, MayLead, Denied
<1>1. /\ access[call[c].tab] \in Ids \cup {0} /\ (stored # 0 => Known(stored, session))
      /\ stored \in Ids \cup {0}
  BY <1>0 DEF BaseInv, TypeOK, StoreType, TokensKnown
<1>2. CASE Join(c)
  <2> DEFINE new == [call[c] EXCEPT !.pc = "waiting"]
  <2>1. /\ new \in CallState /\ new.pc = "waiting" /\ new.tab = call[c].tab /\ new.kind = call[c].kind
        /\ new.retried = call[c].retried
    BY CallTypes DEF CallState
  <2>3. call' = [call EXCEPT ![c] = new]
    BY <1>2 DEF Join
  <2> HIDE DEF new
  <2>2. GoodCall(new, session, expired) /\ new.pc \notin AtRefresh
    <3>1. call[c].tab # NoTab /\ (platform = "web" => ~call[c].retried /\ call[c].kind # "boot")
      BY <1>0, <1>2, CallTypes DEF GoodCall, Join, Denied, AtRefresh
    <3>2. platform # "web" => call[c].kind # "boot" \/ platform \notin {"ios", "android"}
      BY <1>0, CallTypes DEF GoodCall
    <3> QED BY <2>1, <3>1, <3>2 DEF GoodCall, AtRefresh
  <2> QED BY <1>0, <2>1, <2>2, <2>3, CallGoesOn
<1>3. CASE JoinDone(c)
  <2> DEFINE new == [call[c] EXCEPT !.pc = "resend"]
  <2>1. /\ new \in CallState /\ new.pc = "resend" /\ new.tab = call[c].tab /\ new.kind = call[c].kind
        /\ new.retried = call[c].retried
    BY CallTypes DEF CallState
  <2>2. platform = "ios"
    BY <1>3, CallTypes DEF JoinDone, TaskDone, GoodCall
  <2>4. call' = [call EXCEPT ![c] = new]
    BY <1>3 DEF JoinDone
  <2> HIDE DEF new
  <2>3. GoodCall(new, session, expired) /\ new.pc \notin AtRefresh
    <3>1. call[c].tab # NoTab /\ call[c].kind # "boot"
      BY <1>0, <1>3, <2>2, CallTypes DEF GoodCall, JoinDone, Denied
    <3> QED BY <2>1, <2>2, <3>1 DEF GoodCall, AtRefresh
  <2> QED BY <1>0, <2>1, <2>3, <2>4, CallGoesOn
<1>4. CASE RetryWithCurrent(c)
  <2> DEFINE new == [call[c] EXCEPT !.pc = "sent", !.token = access[call[c].tab], !.retried = TRUE]
  <2>1. new \in CallState /\ new.pc = "sent"
    BY <1>1, CallTypes DEF CallState
  <2>2. GoodCall(new, session, expired) /\ new.pc \notin AtRefresh
    BY <1>4, CallTypes DEF GoodCall, CallState, AtRefresh, RetryWithCurrent, Superseded
  <2>3. call' = [call EXCEPT ![c] = new]
    <3>1. [call EXCEPT ![c].pc = "sent", ![c].token = access[call[c].tab], ![c].retried = TRUE]
            = [call EXCEPT ![c] = new]
      BY DEF BaseInv, TypeOK
    <3> QED BY <1>4, <3>1 DEF RetryWithCurrent
  <2> HIDE DEF new
  <2> QED BY <1>0, <2>1, <2>2, <2>3, CallGoesOn
<1>5. CASE LeadRefresh(c)
  <2> DEFINE new == [call[c] EXCEPT !.pc = "asking", !.rt = stored]
  <2>1. new \in CallState /\ new.pc = "asking" /\ new.tab = call[c].tab
    BY <1>1, CallTypes DEF CallState, AtRefresh
  <2>2. GoodCall(new, session, expired) /\ ~Busy(new.tab)
    BY <1>0, <1>1, <1>5, <2>1, CallTypes DEF GoodCall, CallState, AtRefresh, LeadRefresh, MayLead
  <2>3. call' = [call EXCEPT ![c] = new]
    <3>1. [call EXCEPT ![c].pc = "asking", ![c].rt = stored] = [call EXCEPT ![c] = new]
      BY DEF BaseInv, TypeOK
    <3> QED BY <1>5, <3>1 DEF LeadRefresh
  <2> HIDE DEF new
  <2> QED BY <1>0, <2>1, <2>2, <2>3, CallGoesOn
<1> QED BY <1>2, <1>3, <1>4, <1>5

LEMMA ResendBase == ASSUME BaseInv, NEW c \in Calls, Resend(c) PROVE BaseInv'
<1> DEFINE new == [call[c] EXCEPT !.pc = "sent", !.token = access[call[c].tab], !.retried = TRUE, !.rt = 0]
<1>1. /\ call[c].pc = "resend" /\ call[c].tab \in Tabs /\ platform = "ios" /\ call[c].kind # "boot"
      /\ UNCHANGED <<platform, serverVars, storeVars>> /\ expectIn' \in BOOLEAN /\ excused' \in BOOLEAN
  BY CallTypes DEF Resend, GoodCall
<1>2. access[call[c].tab] \in Ids \cup {0}
  BY <1>1 DEF BaseInv, TypeOK, StoreType
<1>3. new \in CallState /\ new.pc = "sent" /\ new.kind = call[c].kind
  BY <1>2, CallTypes DEF CallState
<1>4. call' = [call EXCEPT ![c] = new]
  <2>1. [call EXCEPT ![c].pc = "sent", ![c].token = access[call[c].tab], ![c].retried = TRUE, ![c].rt = 0]
          = [call EXCEPT ![c] = new]
    BY DEF BaseInv, TypeOK
  <2> QED BY <2>1 DEF Resend
<1> HIDE DEF new
<1>5. GoodCall(new, session, expired) /\ new.pc \notin AtRefresh
  BY <1>1, <1>3 DEF GoodCall, AtRefresh
<1> QED BY <1>1, <1>3, <1>4, <1>5, CallGoesOn

LEMMA RefreshFailsBase == ASSUME BaseInv, NEW c \in Calls, RefreshFails(c) PROVE BaseInv'
<1> DEFINE new == [call[c] EXCEPT !.pc = "refused", !.got = 0]
<1>1. /\ call[c].pc \in AtRefresh /\ UNCHANGED <<platform, serverVars, storeVars>>
      /\ expectIn' \in BOOLEAN /\ excused' \in BOOLEAN
  BY CallTypes DEF RefreshFails, AtRefresh
<1>2. /\ new \in CallState /\ new.pc = "refused" /\ new.tab = call[c].tab /\ new.kind = call[c].kind
      /\ new.retried = call[c].retried /\ new.rt = call[c].rt /\ new.token = call[c].token
  BY CallTypes DEF CallState, AtRefresh
<1>3. call' = [call EXCEPT ![c] = new]
  <2>1. [call EXCEPT ![c].pc = "refused", ![c].got = 0] = [call EXCEPT ![c] = new]
    BY DEF BaseInv, TypeOK
  <2> QED BY <2>1 DEF RefreshFails
<1> HIDE DEF new
<1>4. GoodCall(new, session, expired)
  BY <1>1, <1>2, CallTypes DEF GoodCall, AtRefresh
<1> QED BY <1>1, <1>2, <1>3, <1>4, CallGoesOn

\* Several calls change, those that lead a refresh led it before.
LEMMA ManyCalls ==
    ASSUME BaseInv, UNCHANGED <<platform, session, expired>>,
           StoreType', stored' # 0 => Known(stored', session),
           expectIn' \in BOOLEAN, excused' \in BOOLEAN,
           call' \in [Calls -> CallState],
           \A d \in Calls : GoodCall(call'[d], session, expired),
           \A d \in Calls, t \in Tabs : Leads(d, t)' => Leads(d, t)
    PROVE  BaseInv'
<1>1. CallsGood'
  BY DEF CallsGood, GoodCall
<1>2. OneLeader'
  <2> SUFFICES ASSUME NEW t \in Tabs, NEW a \in Calls, NEW d \in Calls, Leads(a, t)', Leads(d, t)'
               PROVE  a = d /\ call'[a].rt # 0
    BY DEF OneLeader
  <2>1. a = d
    BY DEF BaseInv, TypeOK, OneLeader
  <2>2. Known(call'[a].rt, session)
    BY DEF GoodCall, Leads
  <2> QED BY <2>1, <2>2 DEF Known, Ids
<1>3. ServerType' /\ TokensKnown'
  BY DEF BaseInv, TypeOK, ServerType, TokensKnown, Known
<1> QED BY <1>1, <1>2, <1>3 DEF BaseInv, TypeOK

LEMMA RefreshGrantedBase == ASSUME BaseInv, NEW c \in Calls, RefreshGranted(c) PROVE BaseInv'
<1> DEFINE i == call[c].got
<1>1. /\ call[c].pc = "granted" /\ call[c].tab \in Tabs /\ Known(i, session) /\ i \in Ids \ expired
      /\ stored' = i /\ access' = [access EXCEPT ![call[c].tab] = i]
      /\ call' = [d \in Calls |-> IF d \in Sharers(c) THEN Retrying(d, i) ELSE call[d]]
      /\ UNCHANGED <<platform, session, expired, status>>
      /\ expectIn' \in BOOLEAN /\ excused' \in BOOLEAN
  BY CallTypes DEF RefreshGranted, GoodCall, serverVars, AtRefresh, Known
<1> HIDE DEF i
<1>2. StoreType'
  BY <1>1 DEF BaseInv, TypeOK, StoreType
<1>3. ASSUME NEW d \in Sharers(c)
      PROVE  /\ Retrying(d, i) \in CallState /\ GoodCall(Retrying(d, i), session, expired)
             /\ Retrying(d, i).pc \notin AtRefresh
  <2>1. d \in Calls /\ call[d].tab = call[c].tab /\ call[d].pc \in {"waiting"} \cup AtRefresh
    BY <1>1 DEF Sharers, AtRefresh
  <2>2. call[d].kind = "boot" => platform = "web"
    BY <2>1, CallTypes, ConstantsAssumption
    DEF GoodCall, BaseInv, TypeOK, ServerType, AtRefresh, ConstantsAssumption
  <2>3. CASE platform = "ios"
    <3> DEFINE new == [call[d] EXCEPT !.pc = "resend", !.got = 0]
    <3>1. /\ new \in CallState /\ new.pc = "resend" /\ new.tab = call[d].tab /\ new.kind = call[d].kind
      BY <2>1, CallTypes DEF CallState
    <3>2. Retrying(d, i) = new
      BY <2>3 DEF Retrying
    <3> HIDE DEF new
    <3>3. call[d].tab # NoTab /\ call[d].kind # "boot"
      BY <1>1, <2>1, <2>2, <2>3, ConstantsAssumption DEF ConstantsAssumption
    <3> QED BY <2>3, <3>1, <3>2, <3>3 DEF GoodCall, AtRefresh
  <2>4. CASE platform # "ios"
    <3> DEFINE new == [call[d] EXCEPT !.pc = "sent", !.token = i, !.retried = TRUE, !.rt = 0, !.got = 0]
    <3>1. /\ new \in CallState /\ new.pc = "sent" /\ new.token = i /\ new.retried /\ new.kind = call[d].kind
      BY <1>1, <2>1, CallTypes DEF CallState
    <3>2. Retrying(d, i) = new
      BY <2>4 DEF Retrying
    <3> HIDE DEF new
    <3> QED BY <1>1, <2>2, <2>4, <3>1, <3>2 DEF GoodCall, AtRefresh
  <2> QED BY <2>3, <2>4
<1>4. /\ call' \in [Calls -> CallState]
      /\ \A d \in Calls : GoodCall(call'[d], session, expired)
  BY <1>1, <1>3, CallTypes
<1>5. \A d \in Calls, t \in Tabs : Leads(d, t)' => Leads(d, t)
  BY <1>1, <1>3 DEF Leads
<1> QED BY <1>1, <1>2, <1>4, <1>5, ManyCalls

LEMMA RefreshRefusedBase == ASSUME BaseInv, NEW c \in Calls, RefreshRefused(c) PROVE BaseInv'
<1>1. /\ call[c].tab # NoTab /\ Clear(call[c].tab, ShownAfterClear(c))
      /\ call' = [d \in Calls |-> IF d \in Sharers(c) THEN IdleCall ELSE call[d]]
      /\ UNCHANGED <<platform, session, expired>> /\ expectIn' \in BOOLEAN /\ excused' \in BOOLEAN
  BY CallTypes DEF RefreshRefused, serverVars
<1>2. StoreType' /\ stored' = 0
  BY <1>1, CallTypes, ShownType, ClearTypes
<1>3. /\ call' \in [Calls -> CallState]
      /\ \A d \in Calls : GoodCall(call'[d], session, expired)
  BY <1>1, CallTypes, IdleCallIsGood
<1>4. \A d \in Calls, t \in Tabs : Leads(d, t)' => Leads(d, t)
  BY <1>1, IdleCallIsGood DEF Leads, AtRefresh
<1> QED BY <1>1, <1>2, <1>3, <1>4, ManyCalls

\* The page that is loaded again leads no refresh any more but that of its boot.
LEMMA RestartBase == ASSUME BaseInv, NEW t \in Tabs, NEW c \in Calls, Restart(t, c) PROVE BaseInv'
<1>1. /\ Idle(c) /\ call[c] = IdleCall
      /\ call' = [d \in Calls |-> IF d = c /\ Boots THEN BootCall(t)
                                  ELSE IF call[d].tab = t THEN Orphan(call[d]) ELSE call[d]]
      /\ UNCHANGED <<platform, session, expired, stored>>
      /\ expectIn' \in BOOLEAN /\ excused' \in BOOLEAN
  BY CallTypes DEF Restart, serverVars, GoodCall, Idle
<1>2. StoreType'
  BY <1>1 DEF Restart, BaseInv, TypeOK, StoreType
<1>3. Boots => /\ BootCall(t) \in CallState /\ GoodCall(BootCall(t), session, expired)
               /\ BootCall(t).tab = t
  <2> SUFFICES ASSUME Boots PROVE /\ BootCall(t) \in CallState /\ GoodCall(BootCall(t), session, expired)
                                  /\ BootCall(t).tab = t
    OBVIOUS
  <2>1. /\ stored \in Ids /\ Known(stored, session) /\ access[t] \in Ids \cup {0}
        /\ platform \in {"web", "ios"}
    BY ConstantsAssumption
    DEF Boots, BaseInv, TypeOK, ServerType, StoreType, TokensKnown, ConstantsAssumption
  <2>2. CASE platform = "web"
    <3> DEFINE new == [IdleCall EXCEPT !.pc = "asking", !.tab = t, !.kind = "boot", !.rt = stored]
    <3>1. /\ new \in CallState /\ new.pc = "asking" /\ new.tab = t /\ new.kind = "boot" /\ new.rt = stored
          /\ ~new.retried
      BY <2>1, IdleCallIsGood DEF CallState, AtRefresh
    <3>2. BootCall(t) = new
      BY <2>2 DEF BootCall
    <3> HIDE DEF new
    <3> QED BY <2>1, <2>2, <3>1, <3>2 DEF GoodCall, AtRefresh
  <2>3. CASE platform = "ios"
    <3> DEFINE new == [IdleCall EXCEPT !.pc = "sent", !.tab = t, !.kind = "boot", !.token = access[t]]
    <3>1. new \in CallState /\ new.pc = "sent" /\ new.tab = t /\ new.kind = "boot"
      BY <2>1, IdleCallIsGood DEF CallState
    <3>2. BootCall(t) = new
      BY <2>3 DEF BootCall
    <3> HIDE DEF new
    <3> QED BY <2>3, <3>1, <3>2 DEF GoodCall, AtRefresh
  <2> QED BY <2>1, <2>2, <2>3
<1>4. ASSUME NEW d \in Calls, call[d].tab = t
      PROVE  /\ Orphan(call[d]) \in CallState /\ GoodCall(Orphan(call[d]), session, expired)
             /\ Orphan(call[d]).tab = NoTab
  <2>1. CASE call[d].pc \in {"sent", "asking", "checked"}
    <3> DEFINE new == [call[d] EXCEPT !.tab = NoTab]
    <3>1. /\ new \in CallState /\ new.pc = call[d].pc /\ new.tab = NoTab /\ new.kind = call[d].kind
          /\ new.retried = call[d].retried /\ new.token = call[d].token /\ new.rt = call[d].rt
      BY CallTypes DEF CallState
    <3>2. Orphan(call[d]) = new
      BY <2>1 DEF Orphan
    <3> HIDE DEF new
    <3> QED BY <2>1, <3>1, <3>2, CallTypes DEF GoodCall, AtRefresh
  <2>2. CASE call[d].pc \notin {"sent", "asking", "checked"}
    BY <2>2, IdleCallIsGood DEF Orphan
  <2> QED BY <2>1, <2>2
<1>5. /\ call' \in [Calls -> CallState]
      /\ \A d \in Calls : GoodCall(call'[d], session, expired)
  BY <1>1, <1>3, <1>4, CallTypes
<1>6. ASSUME NEW u \in Tabs, NEW d \in Calls, Leads(d, u)'
      PROVE  (u = t /\ d = c) \/ (u # t /\ Leads(d, u))
  <2>1. CASE d = c /\ Boots
    BY <1>1, <1>3, <1>6, <2>1 DEF Leads
  <2>2. CASE ~(d = c /\ Boots) /\ call[d].tab = t
    BY <1>1, <1>4, <1>6, <2>2, ConstantsAssumption DEF Leads, ConstantsAssumption
  <2>3. CASE ~(d = c /\ Boots) /\ call[d].tab # t
    BY <1>1, <1>6, <2>3 DEF Leads
  <2> QED BY <2>1, <2>2, <2>3
<1>7. OneLeader'
  <2> SUFFICES ASSUME NEW u \in Tabs, NEW a \in Calls, NEW d \in Calls, Leads(a, u)', Leads(d, u)'
               PROVE  a = d /\ call'[a].rt # 0
    BY DEF OneLeader
  <2>1. a = d
    BY <1>6 DEF BaseInv, TypeOK, OneLeader
  <2>2. Known(call'[a].rt, session)
    BY <1>5 DEF GoodCall, Leads
  <2> QED BY <2>1, <2>2 DEF Known, Ids
<1>8. CallsGood'
  BY <1>1, <1>5 DEF CallsGood, GoodCall
<1>9. ServerType' /\ TokensKnown'
  BY <1>1 DEF BaseInv, TypeOK, ServerType, TokensKnown, Known
<1> QED BY <1>1, <1>2, <1>5, <1>7, <1>8, <1>9 DEF BaseInv, TypeOK

LEMMA StepBase == BaseInv /\ [Next]_vars => BaseInv'
<1> SUFFICES ASSUME BaseInv, [Next]_vars PROVE BaseInv'
  OBVIOUS
<1>1. CASE \E t \in Tabs : Login(t)
  BY <1>1, LoginBase
<1>2. CASE \E t \in Tabs, c \in Calls : Restart(t, c) \/ \E kind \in {"get", "logout"} : SendCall(c, t, kind)
  BY <1>2, RestartBase, SendCallBase
<1>3. CASE \E c \in Calls : ServerStep(c)
  BY <1>3, ServeBase, RefreshChecksBase, RefreshRotatesBase DEF ServerStep
<1>4. CASE \E c \in Calls : ClientStep(c) \/ CallFails(c) \/ RefreshFails(c)
  BY <1>4, AnswersBase, AfterDenialBase, RefreshGrantedBase, RefreshRefusedBase, ResendBase, RefreshFailsBase
  DEF ClientStep, AfterDenial
<1>5. CASE \E i \in Ids : ExpireAccess(i) \/ EndSession(i)
  BY <1>5, TimeBase
<1>6. CASE UNCHANGED vars
  BY <1>6 DEF vars, BaseInv, TypeOK, ServerType, StoreType, OneLeader, Leads, TokensKnown, Known, CallsGood,
              GoodCall
<1> QED BY <1>1, <1>2, <1>3, <1>4, <1>5, <1>6 DEF Next

LEMMA BaseHolds == Spec => []BaseInv
<1> QED BY InitBase, StepBase, PTL DEF Spec

\* Every variable stays in its type, and of the calls of a tab at most one leads a refresh,
\* with a token: for any number of tabs, calls and faults.
THEOREM SingleFlight == Spec => []TypeOK
<1>1. BaseInv => TypeOK
  BY DEF BaseInv
<1> QED BY <1>1, BaseHolds, PTL

-----------------------------------------------------------------------------
(* A device with one tab *)

OneTab == \A t, u \in Tabs : t = u

\* A call as the session of the device allows it: a refresh works with the stored token,
\* which is good until the server rotates it, and a logout that was served leaves no session.
DeviceCall(k, ses, st) ==
    /\ k.pc \in AtRefresh =>
          /\ k.tab # NoTab /\ k.rt = st
          /\ k.pc = "checked" => ses[st] = "live"
          /\ k.pc \in {"granted", "refused"} => ses[st] # "live"
          /\ k.pc = "granted" => ses[k.got] = "live"
    /\ k.kind = "logout" /\ k.pc = "ok" => \A i \in Ids : ses[i] # "live"

\* Unless one of the named things has happened; who expects to be signed in has no logout
\* under way.
DeviceInv ==
    /\ ~excused => /\ \A c \in Calls : DeviceCall(call[c], session, stored)
                   /\ expectIn => \A c \in Calls : call[c].kind # "logout"
    /\ SessionsAccounted /\ SignedOutHasNoToken /\ StaysSignedIn

LEMMA InitDevice == Init => DeviceInv
<1> SUFFICES ASSUME Init PROVE DeviceInv
  OBVIOUS
<1>1. \A c \in Calls : DeviceCall(call[c], session, stored)
  BY IdleCallIsGood DEF Init, DeviceCall, AtRefresh
<1> QED BY <1>1 DEF Init, DeviceInv, SessionsAccounted, SignedOutHasNoToken, StaysSignedIn

\* All refreshes of the device are of its one tab, so there is one at most.
LEMMA OneRefresh ==
    ASSUME OneTab, BaseInv, DeviceInv, ~excused, NEW c \in Calls, call[c].pc \in AtRefresh
    PROVE  /\ \A d \in Calls : call[d].pc \in AtRefresh => d = c
           /\ \A t \in Tabs : Leads(c, t)
           /\ call[c].rt = stored /\ stored \in Ids
           /\ call[c].pc \in {"checked", "granted"} => call[c].pc = "checked" \/ session[call[c].got] = "live"
<1>1. \A d \in Calls : call[d].pc \in AtRefresh => call[d].tab # NoTab /\ call[d].tab \in Tabs
  BY CallTypes DEF DeviceInv, DeviceCall
<1>2. \A d \in Calls, t \in Tabs : call[d].pc \in AtRefresh => Leads(d, t)
  BY <1>1 DEF OneTab, Leads
<1>3. \A d \in Calls : call[d].pc \in AtRefresh => d = c
  BY <1>1, <1>2 DEF BaseInv, TypeOK, OneLeader
<1>4. call[c].rt = stored /\ stored \in Ids
  BY CallTypes DEF DeviceInv, DeviceCall, GoodCall, Known
<1> QED BY <1>2, <1>3, <1>4 DEF DeviceInv, DeviceCall

\* One call goes on or ends, the session and its token stay.
LEMMA OneCallKeeps ==
    ASSUME OneTab, BaseInv, DeviceInv, ~excused, UNCHANGED <<session, stored>>,
           NEW c \in Calls, NEW new \in CallState, call' = [call EXCEPT ![c] = new],
           DeviceCall(new, session, stored), call[c].pc # "granted",
           expectIn' => expectIn /\ (new.kind = "logout" => call[c].kind = "logout"),
           (\A t \in Tabs : status'[t] = "out") => \A t \in Tabs : status[t] = "out"
    PROVE  DeviceInv'
<1>1. \A d \in Calls : call'[d] = IF d = c THEN new ELSE call[d]
  BY DEF BaseInv, TypeOK
<1>2. \A d \in Calls : call[d].pc = "granted" => call'[d] = call[d]
  BY <1>1
<1>3. /\ \A d \in Calls : DeviceCall(call'[d], session', stored')
      /\ expectIn' => \A d \in Calls : call'[d].kind # "logout"
  BY <1>1 DEF DeviceInv
<1>4. SessionsAccounted'
  BY <1>2 DEF DeviceInv, SessionsAccounted
<1>5. SignedOutHasNoToken'
  BY DEF DeviceInv, SignedOutHasNoToken
<1>6. StaysSignedIn'
  BY <1>2 DEF DeviceInv, StaysSignedIn, SessionKept
<1>7. (\A d \in Calls : DeviceCall(call[d], session, stored))'
  BY <1>3 DEF DeviceCall
<1> QED BY <1>3, <1>4, <1>5, <1>6, <1>7 DEF DeviceInv

\* The token is cleared when no session is live, nor a refresh under way afterwards.
LEMMA ClearedKeeps ==
    ASSUME BaseInv, DeviceInv, ~excused, session' = session, stored' = 0,
           \A i \in Ids : session[i] # "live",
           \A d \in Calls : call'[d].pc \notin AtRefresh,
           expectIn' => expectIn
    PROVE  DeviceInv'
<1>1. ~expectIn
  <2> SUFFICES ASSUME expectIn PROVE FALSE
    OBVIOUS
  <2>1. SessionKept
    BY DEF DeviceInv, StaysSignedIn
  <2>2. \A c \in Calls : call[c].pc = "granted" => call[c].got \in Ids
    BY CallTypes DEF GoodCall, Known
  <2>3. stored # 0 => stored \in Ids
    BY DEF BaseInv, TypeOK, StoreType
  <2> QED BY <2>1, <2>2, <2>3 DEF SessionKept
<1>2. (\A d \in Calls : DeviceCall(call[d], session, stored))'
  BY DEF DeviceCall
<1>3. SessionsAccounted' /\ SignedOutHasNoToken' /\ StaysSignedIn'
  BY <1>1 DEF SessionsAccounted, SignedOutHasNoToken, StaysSignedIn
<1> QED BY <1>1, <1>2, <1>3 DEF DeviceInv

\* Nothing is asked of a state in which one of the named things has happened.
LEMMA ExcusedKeeps == excused' = TRUE => DeviceInv'
BY DEF DeviceInv, SessionsAccounted, SignedOutHasNoToken, StaysSignedIn


\* A logout that is served overlaps no refresh: its session was the stored one, and the last.
LEMMA ServeDevice ==
    ASSUME OneTab, BaseInv, DeviceInv, ~excused, excused' = FALSE, NEW c \in Calls, Serve(c)
    PROVE  DeviceInv'
<1> DEFINE valid == call[c].token \in Ids \ expired
           new == [call[c] EXCEPT !.pc = CASE NoRoute(c) -> "missing"
                                           [] ~NoRoute(c) /\ valid -> "ok"
                                           [] OTHER -> "denied"]
<1>1. /\ call[c].pc = "sent" /\ call' = [call EXCEPT ![c] = new]
      /\ UNCHANGED storeVars /\ expectIn' = expectIn
      /\ IF valid /\ call[c].kind = "logout"
         THEN /\ session' = [session EXCEPT ![call[c].token] = "revoked"]
              /\ excused' = \/ excused \/ session[call[c].token] # "live"
                            \/ \E d \in Calls : call[d].pc \in AtRefresh
         ELSE UNCHANGED <<session, excused>>
  BY DEF Serve
<1>2. /\ new \in CallState /\ new.kind = call[c].kind /\ new.pc \notin AtRefresh
      /\ new.pc = IF NoRoute(c) THEN "missing" ELSE IF valid THEN "ok" ELSE "denied"
  BY CallTypes DEF CallState, AtRefresh
<1>3. CASE valid /\ call[c].kind = "logout"
  <2>1. /\ session[call[c].token] = "live" /\ call[c].token \in Ids
        /\ \A d \in Calls : call[d].pc \notin AtRefresh
    BY <1>1, <1>3
  <2>2. \A i \in Ids : session[i] = "live" => i = stored
    BY <2>1 DEF DeviceInv, SessionsAccounted, AtRefresh
  <2>3. session' = [session EXCEPT ![stored] = "revoked"]
    BY <1>1, <1>3, <2>1, <2>2
  <2>4. \A i \in Ids : session'[i] # "live"
    BY <2>2, <2>3, CallTypes
  <2> HIDE DEF new, valid
  <2>5. \A d \in Calls : call'[d] = IF d = c THEN new ELSE call[d]
    BY <1>1 DEF BaseInv, TypeOK
  <2>6. (\A d \in Calls : DeviceCall(call[d], session, stored))'
    BY <1>2, <2>1, <2>4, <2>5 DEF DeviceCall
  <2>7. ~expectIn'
    BY <1>1, <1>3 DEF DeviceInv
  <2>8. SessionsAccounted' /\ SignedOutHasNoToken' /\ StaysSignedIn'
    BY <1>1, <2>4, <2>7 DEF DeviceInv, SessionsAccounted, SignedOutHasNoToken, StaysSignedIn, storeVars
  <2> QED BY <2>6, <2>7, <2>8 DEF DeviceInv
<1>4. CASE ~(valid /\ call[c].kind = "logout")
  <2> HIDE DEF new
  <2>1. DeviceCall(new, session, stored)
    BY <1>2, <1>4 DEF DeviceCall
  <2>2. UNCHANGED <<session, stored>> /\ status' = status
    BY <1>1, <1>4 DEF storeVars
  <2> QED BY <1>1, <1>2, <2>1, <2>2, OneCallKeeps
<1> QED BY <1>3, <1>4

LEMMA RefreshChecksDevice ==
    ASSUME OneTab, BaseInv, DeviceInv, ~excused, NEW c \in Calls, RefreshChecks(c)
    PROVE  DeviceInv'
<1> DEFINE new == [call[c] EXCEPT !.pc = IF session[call[c].rt] = "live" THEN "checked" ELSE "refused"]
<1>1. /\ call[c].pc = "asking" /\ call' = [call EXCEPT ![c] = new]
      /\ UNCHANGED <<session, stored, status, expectIn>>
  BY DEF RefreshChecks, serverVars, storeVars
<1>2. /\ new \in CallState /\ new.tab = call[c].tab /\ new.rt = call[c].rt /\ new.kind = call[c].kind
      /\ new.pc = IF session[call[c].rt] = "live" THEN "checked" ELSE "refused"
  BY CallTypes DEF CallState, AtRefresh
<1> HIDE DEF new
<1>3. DeviceCall(new, session, stored)
  BY <1>1, <1>2 DEF DeviceInv, DeviceCall, AtRefresh
<1> QED BY <1>1, <1>2, <1>3, OneCallKeeps

\* The new session takes the place of the stored one, and the answer is on its way.
LEMMA RefreshRotatesDevice ==
    ASSUME OneTab, BaseInv, DeviceInv, ~excused, NEW c \in Calls, RefreshRotates(c)
    PROVE  DeviceInv'
<1>1. PICK i \in Ids :
        /\ call[c].pc = "checked" /\ NewId(i)
        /\ session' = [session EXCEPT ![call[c].rt] = "revoked", ![i] = "live"]
        /\ call' = [call EXCEPT ![c].pc = "granted", ![c].got = i]
        /\ UNCHANGED <<platform, expired, storeVars, expectIn, excused>>
  BY DEF RefreshRotates
<1>2. /\ call[c].tab # NoTab /\ call[c].rt = stored /\ session[stored] = "live" /\ stored \in Ids
      /\ call[c].tab \in Tabs /\ \A d \in Calls : call[d].pc \in AtRefresh => d = c
  BY <1>1, CallTypes, OneRefresh DEF DeviceInv, DeviceCall, AtRefresh
<1>3. /\ i # stored /\ session'[i] = "live" /\ session'[stored] = "revoked"
      /\ \A j \in Ids \ {i, stored} : session'[j] = session[j]
  BY <1>1, <1>2, CallTypes DEF NewId
<1> DEFINE new == [call[c] EXCEPT !.pc = "granted", !.got = i]
<1>4. /\ new.pc = "granted" /\ new.got = i /\ new.tab = call[c].tab /\ new.rt = stored /\ new.kind = call[c].kind
      /\ \A d \in Calls : call'[d] = IF d = c THEN new ELSE call[d]
  BY <1>1, <1>2, CallTypes DEF BaseInv, TypeOK, CallState
<1> HIDE DEF new
<1>5. ASSUME NEW d \in Calls PROVE DeviceCall(call'[d], session', stored')
  <2>1. stored' = stored /\ ~(call[d].kind = "logout" /\ call[d].pc = "ok")
    BY <1>1, <1>2 DEF DeviceInv, DeviceCall, storeVars
  <2>2. CASE d = c
    BY <1>2, <1>3, <1>4, <2>1, <2>2 DEF DeviceCall
  <2>3. CASE d # c
    BY <1>2, <1>4, <2>1, <2>3 DEF DeviceCall
  <2> QED BY <2>2, <2>3
<1>6. SessionsAccounted'
  <2> SUFFICES ASSUME NEW j \in Ids, session'[j] = "live"
               PROVE  \E d \in Calls : call'[d].pc = "granted" /\ call'[d].tab # NoTab /\ call'[d].got = j
    BY DEF SessionsAccounted
  <2>1. j # i => session[j] = "live" /\ j # stored
    BY <1>3
  <2>2. \A d \in Calls : call[d].pc # "granted"
    BY <1>1, <1>2 DEF AtRefresh
  <2>3. j = i
    BY <2>1, <2>2 DEF DeviceInv, SessionsAccounted
  <2> QED BY <1>2, <1>4, <2>3
<1>7. StaysSignedIn'
  <2>1. /\ call'[c].pc = "granted" /\ call'[c].tab # NoTab /\ call'[c].rt = stored'
        /\ session'[call'[c].got] = "live"
    <3>1. call'[c] = new /\ stored' = stored
      BY <1>1, <1>4 DEF storeVars
    <3> QED BY <1>2, <1>3, <1>4, <3>1
  <2> QED BY <2>1 DEF StaysSignedIn, SessionKept
<1>8. SignedOutHasNoToken' /\ (expectIn' => \A d \in Calls : call'[d].kind # "logout")
  BY <1>1, <1>4 DEF DeviceInv, SignedOutHasNoToken, storeVars
<1>9. (\A d \in Calls : DeviceCall(call[d], session, stored))'
  BY <1>5 DEF DeviceCall
<1> QED BY <1>6, <1>7, <1>8, <1>9 DEF DeviceInv

\* A login is not excused only if it finds no call under way and no session live.
LEMMA LoginDevice ==
    ASSUME BaseInv, excused' = FALSE, NEW t \in Tabs, Login(t) PROVE DeviceInv'
<1>1. PICK i \in Ids : session' = [session EXCEPT ![i] = "live"] /\ stored' = i
  BY DEF Login
<1>2. /\ \A c \in Calls : call'[c] = IdleCall
      /\ \A j \in Ids : session[j] # "live"
      /\ status'[t] = "in"
  BY CallTypes DEF Login, GoodCall, Idle, BaseInv, TypeOK, StoreType
<1>3. /\ session'[i] = "live"
      /\ \A j \in Ids : session'[j] = "live" => j = stored'
  BY <1>1, <1>2 DEF BaseInv, TypeOK, ServerType
<1>4. (\A d \in Calls : DeviceCall(call[d], session, stored))'
  BY <1>2, IdleCallIsGood DEF DeviceCall, AtRefresh
<1>5. \A d \in Calls : call'[d].kind # "logout"
  BY <1>2, IdleCallIsGood
<1>6. SessionsAccounted' /\ SignedOutHasNoToken'
  BY <1>2, <1>3 DEF SessionsAccounted, SignedOutHasNoToken
<1>7. StaysSignedIn'
  BY <1>1, <1>3 DEF StaysSignedIn, SessionKept, Ids
<1> QED BY <1>4, <1>5, <1>6, <1>7 DEF DeviceInv

LEMMA TimeDevice ==
    ASSUME BaseInv, DeviceInv, ~excused, excused' = FALSE, NEW i \in Ids, ExpireAccess(i) \/ EndSession(i)
    PROVE  DeviceInv'
<1>1. UNCHANGED <<session, stored, status, call, expectIn>>
  BY DEF ExpireAccess, EndSession, storeVars
<1> QED BY <1>1 DEF DeviceInv, DeviceCall, SessionsAccounted, SignedOutHasNoToken, StaysSignedIn, SessionKept

LEMMA IdleIsDevice == DeviceCall(IdleCall, session, stored)
BY IdleCallIsGood DEF DeviceCall, AtRefresh

\* An answer that ends its call: only that of a logout clears the store.
LEMMA AnsweredDevice ==
    ASSUME OneTab, BaseInv, DeviceInv, ~excused, excused' = FALSE, NEW c \in Calls, Answered(c)
    PROVE  DeviceInv'
<1>1. /\ call[c].pc = "ok" /\ call[c].tab \in Tabs /\ call' = [call EXCEPT ![c] = IdleCall]
      /\ session' = session /\ expectIn' = expectIn
      /\ ~(call[c].kind = "logout" /\ Busy(call[c].tab))
  BY CallTypes DEF Answered, serverVars
<1>2. CASE call[c].kind = "logout" /\ Clear(call[c].tab, "out")
  <2>1. \A i \in Ids : session[i] # "live"
    BY <1>1, <1>2 DEF DeviceInv, DeviceCall
  <2>2. \A d \in Calls : call[d].pc \notin AtRefresh
    BY <1>1, <1>2, OneRefresh DEF Busy
  <2>3. \A d \in Calls : call'[d].pc \notin AtRefresh
    BY <1>1, <2>2, IdleCallIsGood DEF BaseInv, TypeOK, AtRefresh
  <2>4. stored' = 0
    BY <1>2 DEF Clear
  <2> QED BY <1>1, <2>1, <2>3, <2>4, ClearedKeeps
<1>3. CASE stored' = stored /\ (status' = status \/ status' = [status EXCEPT ![call[c].tab] = "in"])
  <2>1. (\A t \in Tabs : status'[t] = "out") => \A t \in Tabs : status[t] = "out"
    BY <1>1, <1>3 DEF BaseInv, TypeOK, StoreType
  <2> QED BY <1>1, <1>3, <2>1, OneCallKeeps, IdleCallIsGood, IdleIsDevice
<1> QED BY <1>2, <1>3 DEF Answered, storeVars

\* A call that fails otherwise leaves the store as it is: what a retry or the boot of the
\* web sends is still good, and iOS does not clear for other calls.
LEMMA EndsDevice ==
    ASSUME OneTab, BaseInv, DeviceInv, ~excused, excused' = FALSE, NEW c \in Calls,
           CallFails(c) \/ NotFound(c) \/ DeniedForGood(c) \/ DropAnswer(c)
    PROVE  DeviceInv'
<1>1. /\ call' = [call EXCEPT ![c] = IdleCall] /\ session' = session /\ expectIn' = expectIn
  BY DEF CallFails, NotFound, DeniedForGood, DropAnswer, EndWithError, serverVars
<1>2. call[c].pc # "granted"
  BY DEF CallFails, NotFound, DeniedForGood, Denied, DropAnswer, DeviceInv, DeviceCall, AtRefresh
<1>3. UNCHANGED storeVars
  <2>1. CASE CallFails(c)
    BY <2>1 DEF CallFails, EndWithError
  <2>2. CASE NotFound(c)
    BY <2>2 DEF NotFound
  <2>3. CASE DeniedForGood(c)
    <3>1. call[c].pc = "denied" /\ call[c].kind # "logout" /\ ~Retriable(c)
      BY <2>3 DEF DeniedForGood, Denied
    <3>2. ~(platform = "web" /\ call[c].retried) /\ platform \in {"web", "android", "ios"}
      BY <3>1, CallTypes, ConstantsAssumption
      DEF GoodCall, BaseInv, TypeOK, ServerType, ConstantsAssumption
    <3>3. call[c].kind # "boot"
      BY <3>1, <3>2, CallTypes DEF GoodCall, AtRefresh
    <3> QED BY <2>3, <3>1, <3>2, <3>3 DEF DeniedForGood, EndWithError, ClearsOnError
  <2>4. CASE DropAnswer(c)
    BY <2>4 DEF DropAnswer
  <2> QED BY <2>1, <2>2, <2>3, <2>4
<1>4. stored' = stored /\ status' = status
  BY <1>3 DEF storeVars
<1> QED BY <1>1, <1>2, <1>4, OneCallKeeps, IdleCallIsGood, IdleIsDevice

LEMMA SendCallDevice ==
    ASSUME OneTab, BaseInv, DeviceInv, ~excused, NEW c \in Calls, NEW t \in Tabs,
           NEW kind \in {"get", "logout"}, SendCall(c, t, kind)
    PROVE  DeviceInv'
<1> DEFINE new == [IdleCall EXCEPT !.pc = "sent", !.tab = t, !.kind = kind, !.token = BearerOf(t, kind)]
<1>1. BearerOf(t, kind) \in Ids \cup {0}
  BY DEF BearerOf, BaseInv, TypeOK, StoreType
<1>2. new \in CallState /\ new.pc = "sent" /\ new.kind = kind
  BY <1>1, IdleCallIsGood DEF CallState
<1>3. /\ call[c].pc # "granted" /\ call' = [call EXCEPT ![c] = new]
      /\ UNCHANGED <<session, stored, status>> /\ expectIn' = (expectIn /\ kind # "logout")
  BY DEF SendCall, Idle, serverVars, storeVars
<1> HIDE DEF new
<1>4. DeviceCall(new, session, stored)
  BY <1>2 DEF DeviceCall, AtRefresh
<1> QED BY <1>2, <1>3, <1>4, OneCallKeeps

LEMMA DenialGoesOn ==
    ASSUME OneTab, BaseInv, BaseInv', DeviceInv, ~excused, NEW c \in Calls,
           call[c].pc \in {"denied", "resend"}, call[c].tab # NoTab,
           UNCHANGED <<session, stored, status, expectIn>>,
           NEW new, call' = [call EXCEPT ![c] = new],
           new.kind = call[c].kind, new.tab = call[c].tab,
           new.pc \in {"waiting", "resend", "sent"} \/ (new.pc = "asking" /\ new.rt = stored)
    PROVE  DeviceInv'
<1>1. new \in CallState
  BY DEF BaseInv, TypeOK
<1>2. DeviceCall(new, session, stored)
  BY DEF DeviceCall, AtRefresh
<1> QED BY <1>1, <1>2, OneCallKeeps

\* After a 401: a refresh is asked for with the stored token.
LEMMA AfterDenialDevice ==
    ASSUME OneTab, BaseInv, DeviceInv, ~excused, NEW c \in Calls,
           Join(c) \/ JoinDone(c) \/ RetryWithCurrent(c) \/ LeadRefresh(c) \/ Resend(c)
    PROVE  DeviceInv'
<1>0. call \in [Calls -> CallState]
  BY DEF BaseInv, TypeOK
<1>1. /\ call[c].pc \in {"denied", "resend"} /\ call[c].tab # NoTab
      /\ UNCHANGED <<session, stored, status, expectIn>> /\ BaseInv'
  BY AfterDenialBase, ResendBase, CallTypes
  DEF Join, JoinDone, RetryWithCurrent, LeadRefresh, MayLead, Denied, Resend, GoodCall, serverVars, storeVars
<1>2. CASE Join(c)
  <2> DEFINE new == [call[c] EXCEPT !.pc = "waiting"]
  <2>1. new.kind = call[c].kind /\ new.tab = call[c].tab /\ new.pc = "waiting"
    BY CallTypes DEF CallState
  <2>2. call' = [call EXCEPT ![c] = new]
    BY <1>0, <1>2 DEF Join
  <2> HIDE DEF new
  <2> QED BY <1>1, <2>1, <2>2, DenialGoesOn
<1>3. CASE JoinDone(c)
  <2> DEFINE new == [call[c] EXCEPT !.pc = "resend"]
  <2>1. new.kind = call[c].kind /\ new.tab = call[c].tab /\ new.pc = "resend"
    BY CallTypes DEF CallState
  <2>2. call' = [call EXCEPT ![c] = new]
    BY <1>0, <1>3 DEF JoinDone
  <2> HIDE DEF new
  <2> QED BY <1>1, <2>1, <2>2, DenialGoesOn
<1>4. CASE RetryWithCurrent(c)
  <2> DEFINE new == [call[c] EXCEPT !.pc = "sent", !.token = access[call[c].tab], !.retried = TRUE]
  <2>1. new.kind = call[c].kind /\ new.tab = call[c].tab /\ new.pc = "sent"
    BY CallTypes DEF CallState
  <2>2. call' = [call EXCEPT ![c] = new]
    BY <1>0, <1>4 DEF RetryWithCurrent
  <2> HIDE DEF new
  <2> QED BY <1>1, <2>1, <2>2, DenialGoesOn
<1>5. CASE LeadRefresh(c)
  <2> DEFINE new == [call[c] EXCEPT !.pc = "asking", !.rt = stored]
  <2>1. new.kind = call[c].kind /\ new.tab = call[c].tab /\ new.pc = "asking" /\ new.rt = stored
    BY CallTypes DEF CallState
  <2>2. call' = [call EXCEPT ![c] = new]
    BY <1>0, <1>5 DEF LeadRefresh
  <2> HIDE DEF new
  <2> QED BY <1>1, <2>1, <2>2, DenialGoesOn
<1>6. CASE Resend(c)
  <2> DEFINE new == [call[c] EXCEPT !.pc = "sent", !.token = access[call[c].tab], !.retried = TRUE, !.rt = 0]
  <2>1. new.kind = call[c].kind /\ new.tab = call[c].tab /\ new.pc = "sent"
    BY CallTypes DEF CallState
  <2>2. call' = [call EXCEPT ![c] = new]
    BY <1>0, <1>6 DEF Resend
  <2> HIDE DEF new
  <2> QED BY <1>1, <2>1, <2>2, DenialGoesOn
<1> QED BY <1>2, <1>3, <1>4, <1>5, <1>6

\* With no token there is no session either.
LEMMA NoRefreshTokenDevice ==
    ASSUME OneTab, BaseInv, DeviceInv, ~excused, NEW c \in Calls, NoRefreshToken(c)
    PROVE  DeviceInv'
<1>1. /\ call' = [call EXCEPT ![c] = IdleCall] /\ session' = session /\ expectIn' = expectIn
      /\ stored = 0 /\ stored' = 0
  BY DEF NoRefreshToken, Clear, serverVars
<1>2. \A d \in Calls : call[d].pc \notin AtRefresh
  BY <1>1, OneRefresh DEF Ids
<1>3. \A d \in Calls : call'[d].pc \notin AtRefresh
  BY <1>1, <1>2, IdleCallIsGood DEF BaseInv, TypeOK, AtRefresh
<1>4. \A i \in Ids : session[i] # "live"
  BY <1>1, <1>2 DEF DeviceInv, SessionsAccounted, AtRefresh, Ids
<1> QED BY <1>1, <1>3, <1>4, ClearedKeeps

\* The answer brings the one session that is live.
LEMMA RefreshGrantedDevice ==
    ASSUME OneTab, BaseInv, DeviceInv, ~excused, NEW c \in Calls, RefreshGranted(c)
    PROVE  DeviceInv'
<1> DEFINE i == call[c].got
<1>1. /\ call[c].pc = "granted" /\ stored' = i /\ UNCHANGED <<session, status, expectIn>>
      /\ call' = [d \in Calls |-> IF d \in Sharers(c) THEN Retrying(d, i) ELSE call[d]]
  BY DEF RefreshGranted, serverVars
<1>2. /\ \A d \in Calls : call[d].pc \in AtRefresh => d = c
      /\ stored \in Ids /\ session[i] = "live" /\ i \in Ids /\ session[stored] # "live"
  BY <1>1, CallTypes, OneRefresh DEF GoodCall, Known, DeviceInv, DeviceCall, AtRefresh
<1> HIDE DEF i
<1>3. ASSUME NEW d \in Calls
      PROVE  call'[d].kind = call[d].kind /\ call'[d].pc \notin AtRefresh /\ (call'[d].pc = "ok" => call[d].pc = "ok")
  <2>1. CASE d \in Sharers(c)
    <3>1. call'[d] = Retrying(d, i) /\ call[d] \in CallState
      BY <1>1, <2>1, CallTypes
    <3>2. /\ Retrying(d, i).pc \in {"resend", "sent"} /\ Retrying(d, i).kind = call[d].kind
      BY <3>1 DEF Retrying, CallState
    <3> QED BY <3>1, <3>2 DEF AtRefresh
  <2>2. CASE d \notin Sharers(c)
    BY <1>1, <1>2, <2>2 DEF Sharers
  <2> QED BY <2>1, <2>2
<1>4. (\A d \in Calls : DeviceCall(call[d], session, stored))'
  BY <1>1, <1>2, <1>3 DEF DeviceCall, DeviceInv
<1>5. SessionsAccounted'
  <2>1. \A j \in Ids : session[j] = "live" => j = i
    BY <1>1, <1>2 DEF DeviceInv, SessionsAccounted, AtRefresh, i
  <2> QED BY <1>1, <2>1 DEF SessionsAccounted
<1>6. SignedOutHasNoToken'
  BY <1>1, <1>2 DEF DeviceInv, SignedOutHasNoToken, Ids
<1>7. StaysSignedIn'
  BY <1>1, <1>2 DEF StaysSignedIn, SessionKept, Ids
<1> QED BY <1>1, <1>3, <1>4, <1>5, <1>6, <1>7 DEF DeviceInv

\* A refresh is refused only for a session that is not live any more, and no other is.
LEMMA RefreshRefusedDevice ==
    ASSUME OneTab, BaseInv, DeviceInv, ~excused, NEW c \in Calls, RefreshRefused(c)
    PROVE  DeviceInv'
<1>1. /\ call[c].pc = "refused" /\ stored' = 0 /\ UNCHANGED <<session, expectIn>>
      /\ call' = [d \in Calls |-> IF d \in Sharers(c) THEN IdleCall ELSE call[d]]
  BY DEF RefreshRefused, Clear, serverVars
<1>2. /\ \A d \in Calls : call[d].pc \in AtRefresh => d = c
      /\ session[stored] # "live"
  BY <1>1, OneRefresh DEF DeviceInv, DeviceCall, AtRefresh
<1>3. \A d \in Calls : call'[d].pc \notin AtRefresh
  BY <1>1, <1>2, IdleCallIsGood DEF Sharers, AtRefresh
<1>4. \A i \in Ids : session[i] # "live"
  BY <1>1, <1>2 DEF DeviceInv, SessionsAccounted, AtRefresh
<1> QED BY <1>1, <1>3, <1>4, ClearedKeeps

\* A page that was loaded again in the middle of a refresh is excused, so there is none.
LEMMA RestartDevice ==
    ASSUME OneTab, BaseInv, DeviceInv, ~excused, excused' = FALSE, NEW t \in Tabs, NEW c \in Calls,
           Restart(t, c)
    PROVE  DeviceInv'
<1>1. /\ call' = [d \in Calls |-> IF d = c /\ Boots THEN BootCall(t)
                                  ELSE IF call[d].tab = t THEN Orphan(call[d]) ELSE call[d]]
      /\ UNCHANGED <<session, stored, expectIn>>
      /\ status' = [status EXCEPT ![t] = IF stored = 0 THEN "out"
                                         ELSE IF platform = "web" THEN "loading" ELSE "in"]
      /\ \A d \in Calls : ~Leads(d, t)
  BY DEF Restart, serverVars
<1>2. \A d \in Calls : call[d].pc \notin AtRefresh
  BY <1>1, OneRefresh
<1>3. ASSUME NEW d \in Calls
      PROVE  /\ call'[d].kind = "logout" => call[d].kind = "logout"
             /\ call'[d].kind = "logout" /\ call'[d].pc = "ok" => call[d].pc = "ok"
             /\ call'[d].pc \in AtRefresh => /\ call'[d].tab = t /\ call'[d].rt = stored
                                             /\ call'[d].pc = "asking"
  <2>1. CASE d = c /\ Boots
    <3>1. call'[d] = BootCall(t)
      BY <1>1, <2>1
    <3>2. /\ BootCall(t).kind = "boot" /\ BootCall(t).tab = t
          /\ BootCall(t).pc = "sent" \/ (BootCall(t).pc = "asking" /\ BootCall(t).rt = stored)
      BY DEF BootCall, IdleCall
    <3> QED BY <3>1, <3>2 DEF AtRefresh
  <2>2. CASE ~(d = c /\ Boots) /\ call[d].tab = t
    <3>1. call'[d] = Orphan(call[d]) /\ call[d] \in CallState
      BY <1>1, <2>2, CallTypes
    <3>2. Orphan(call[d]) = IdleCall \/ (Orphan(call[d]).kind = call[d].kind /\ Orphan(call[d]).pc = call[d].pc)
      BY <3>1 DEF Orphan, CallState
    <3> QED BY <1>2, <3>1, <3>2, IdleCallIsGood DEF AtRefresh
  <2>3. CASE ~(d = c /\ Boots) /\ call[d].tab # t
    BY <1>1, <1>2, <2>3
  <2> QED BY <2>1, <2>2, <2>3
<1>4. (\A d \in Calls : DeviceCall(call[d], session, stored))'
  BY <1>1, <1>3, ConstantsAssumption DEF DeviceCall, DeviceInv, ConstantsAssumption
<1>5. SessionsAccounted' /\ StaysSignedIn'
  BY <1>1, <1>2 DEF DeviceInv, SessionsAccounted, StaysSignedIn, SessionKept, AtRefresh
<1>6. SignedOutHasNoToken'
  BY <1>1 DEF SignedOutHasNoToken, BaseInv, TypeOK, StoreType
<1> QED BY <1>1, <1>3, <1>4, <1>5, <1>6 DEF DeviceInv

LEMMA StepDevice ==
    ASSUME OneTab, BaseInv, DeviceInv, [Next]_vars PROVE DeviceInv'
<1>0. excused' \in BOOLEAN /\ excused \in BOOLEAN
  BY StepBase DEF BaseInv, TypeOK
<1>1. CASE \E t \in Tabs : Login(t)
  BY <1>0, <1>1, ExcusedKeeps, LoginDevice
<1>2. CASE UNCHANGED vars
  BY <1>2 DEF vars, DeviceInv, DeviceCall, SessionsAccounted, SignedOutHasNoToken, StaysSignedIn, SessionKept
<1>3. CASE ~(\E t \in Tabs : Login(t)) /\ ~UNCHANGED vars
  <2>1. \/ \E t \in Tabs, c \in Calls : Restart(t, c) \/ \E kind \in {"get", "logout"} : SendCall(c, t, kind)
        \/ \E c \in Calls : ServerStep(c) \/ ClientStep(c) \/ CallFails(c) \/ RefreshFails(c)
        \/ \E i \in Ids : ExpireAccess(i) \/ EndSession(i)
    BY <1>3 DEF Next
  <2>2. excused => excused'
    BY <2>1
    DEF Restart, SendCall, ServerStep, ClientStep, AfterDenial, Serve, RefreshChecks, RefreshRotates, Answered,
        NotFound, DeniedForGood, Join, JoinDone, RetryWithCurrent, LeadRefresh, NoRefreshToken,
        RefreshGranted, RefreshRefused, Resend, DropAnswer, CallFails, RefreshFails, ExpireAccess, EndSession
  <2>3. CASE excused'
    BY <1>0, <2>3, ExcusedKeeps
  <2>4. CASE ~excused'
    <3>1. ~excused /\ excused' = FALSE
      BY <1>0, <2>2, <2>4
    <3>2. CASE \E t \in Tabs, c \in Calls : Restart(t, c) \/ \E kind \in {"get", "logout"} : SendCall(c, t, kind)
      BY <3>1, <3>2, RestartDevice, SendCallDevice
    <3>3. CASE \E c \in Calls : ServerStep(c)
      BY <3>1, <3>3, ServeDevice, RefreshChecksDevice, RefreshRotatesDevice DEF ServerStep
    <3>4. CASE \E c \in Calls : ClientStep(c) \/ CallFails(c)
      BY <3>1, <3>4, AnsweredDevice, EndsDevice, AfterDenialDevice, NoRefreshTokenDevice, RefreshGrantedDevice,
         RefreshRefusedDevice
      DEF ClientStep, AfterDenial
    <3>5. CASE \E c \in Calls : RefreshFails(c)
      BY <2>4, <3>5 DEF RefreshFails
    <3>6. CASE \E i \in Ids : ExpireAccess(i) \/ EndSession(i)
      BY <3>1, <3>6, TimeDevice
    <3> QED BY <2>1, <3>2, <3>3, <3>4, <3>5, <3>6
  <2> QED BY <2>3, <2>4
<1> QED BY <1>1, <1>2, <1>3

LEMMA DeviceHolds == ASSUME OneTab PROVE Spec => []DeviceInv
<1>1. BaseInv /\ DeviceInv /\ [Next]_vars => DeviceInv'
  BY StepDevice
<1>2. Init => DeviceInv
  BY InitDevice
<1> QED BY <1>1, <1>2, BaseHolds, PTL DEF Spec

\* On a phone, or in the only tab, a user who has not logged out keeps a session that
\* works, whatever calls are answered 401 at once and in whatever order.
THEOREM SessionIsKept == ASSUME OneTab PROVE Spec => []StaysSignedIn
<1>1. DeviceInv => StaysSignedIn
  BY DEF DeviceInv
<1> QED BY <1>1, DeviceHolds, PTL

\* No session is left behind on the server: the live one is stored or about to be.
THEOREM NoSessionForgotten == ASSUME OneTab PROVE Spec => []SessionsAccounted
<1>1. DeviceInv => SessionsAccounted
  BY DEF DeviceInv
<1> QED BY <1>1, DeviceHolds, PTL

\* A device that shows the login page has no refresh token.
THEOREM LogoutForgets == ASSUME OneTab PROVE Spec => []SignedOutHasNoToken
<1>1. DeviceInv => SignedOutHasNoToken
  BY DEF DeviceInv
<1> QED BY <1>1, DeviceHolds, PTL

\* What the comment at client.ts:30-32 promises holds as long as there is one tab: no
\* refresh of a user who is signed in is refused.  With two it does not.
THEOREM OneTabHasNoLosers == ASSUME OneTab PROVE Spec => []NoLosers
<1>1. BaseInv /\ DeviceInv => NoLosers
  <2> SUFFICES ASSUME BaseInv, DeviceInv, expectIn, ~excused, NEW c \in Calls, call[c].pc = "refused"
               PROVE  FALSE
    BY DEF NoLosers
  <2>1. session[stored] # "live" /\ \A d \in Calls : call[d].pc # "granted"
    BY OneRefresh DEF DeviceInv, DeviceCall, AtRefresh
  <2> QED BY <2>1 DEF DeviceInv, StaysSignedIn, SessionKept
<1> QED BY <1>1, BaseHolds, DeviceHolds, PTL
=============================================================================
