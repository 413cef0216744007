----------------------------- MODULE LoginProofs -----------------------------
(***************************************************************************)
(* Theorems about Login, for any number of requests, codes and guesses,    *)
(* and its refinement of OneTimeCode.                                      *)
(***************************************************************************)
EXTENDS Login, FiniteSetTheorems, TLAPS

CallRecords == [pc : {"idle", "sent", "allowed", "created", "found", "consumed",
                      "opened", "ok", "failed", "consent"},
                kind : {"ask", "enter"}, phone : {"own", "typo"},
                typed : Codes \cup {0}, row : Codes \cup {0},
                waits : BOOLEAN, best : BOOLEAN]

Pcs == {"idle", "sent", "allowed", "created", "found", "consumed", "opened", "ok", "failed", "consent"}

\* The code that verification d sent is the newest and can be used.
Fine(d) ==
    /\ call[d].phone = "own" /\ call[d].typed \in Usable
    /\ \A q \in Issued : q <= call[d].typed
    /\ ~Locked(call[d].typed)

CallInv(d) ==
    /\ call[d].kind = "enter" =>
          /\ call[d].pc \in {"found", "consumed", "opened", "ok"} => call[d].row \in Issued
          /\ call[d].pc = "consumed" => call[d].row \in consumed
          /\ call[d].pc \in {"opened", "ok"} => opened[call[d].row] > 0
    /\ call[d].best =>
          /\ call[d].kind = "enter" /\ call[d].pc # "failed"
          /\ call[d].pc \in {"sent", "found"} => Fine(d)
          /\ call[d].pc = "found" => call[d].typed = call[d].row

LoginInv == TypeOK /\ \A d \in Calls : CallInv(d)

-----------------------------------------------------------------------------
(* The records of the requests *)

LEMMA Bounds == MaxAttempts \in Nat /\ MaxAttempts > 0 /\ MaxFaults \in Nat /\ MaxCodes \in Nat
BY ConstantsAssumption DEF ConstantsAssumption

LEMMA CodesAreNumbers == Codes \subseteq Nat \ {0} /\ Issued \subseteq Codes /\ Usable \subseteq Issued
BY Bounds DEF Codes, Issued, Usable

LEMMA IdleType == /\ IdleCall \in CallRecords /\ IdleCall.kind = "ask" /\ ~IdleCall.best
                  /\ IdleCall.pc = "idle"
BY DEF IdleCall, CallRecords

LEMMA BareType ==
    ASSUME NEW k \in CallRecords, NEW pc \in Pcs
    PROVE  /\ Bare(k, pc) \in CallRecords
           /\ Bare(k, pc).pc = pc /\ Bare(k, pc).kind = "ask" /\ Bare(k, pc).best = k.best
BY DEF Bare, IdleCall, CallRecords, Pcs

LEMMA SetCall ==
    ASSUME CallType, NEW c \in Calls, NEW k \in CallRecords, call' = [call EXCEPT ![c] = k]
    PROVE  CallType' /\ call'[c] = k /\ \A d \in Calls \ {c} : call'[d] = call[d]
BY DEF CallType, CallRecords

LEMMA GoesType ==
    ASSUME CallType, NEW c \in Calls, NEW pc \in Pcs, Goes(c, pc)
    PROVE  /\ CallType'
           /\ call'[c] = [call[c] EXCEPT !.pc = pc]
           /\ call'[c].pc = pc /\ call'[c].kind = call[c].kind /\ call'[c].phone = call[c].phone
           /\ call'[c].typed = call[c].typed /\ call'[c].row = call[c].row /\ call'[c].best = call[c].best
           /\ \A d \in Calls \ {c} : call'[d] = call[d]
<1> DEFINE k == [call[c] EXCEPT !.pc = pc]
<1>1. call[c] \in CallRecords
  BY DEF CallType, CallRecords
<1>2. /\ k \in CallRecords
      /\ k.pc = pc /\ k.kind = call[c].kind /\ k.phone = call[c].phone
      /\ k.typed = call[c].typed /\ k.row = call[c].row /\ k.best = call[c].best
  BY <1>1 DEF CallRecords, Pcs
<1>3. call' = [call EXCEPT ![c] = k]
  BY DEF Goes
<1> QED
  <2> HIDE DEF k
  <2>1. CallType' /\ call'[c] = k /\ \A d \in Calls \ {c} : call'[d] = call[d]
    BY <1>2, <1>3, SetCall
  <2> QED BY <1>2, <2>1 DEF k

LEMMA RefusedType ==
    ASSUME CallType, NEW c \in Calls, Refused(c)
    PROVE  /\ CallType'
           /\ call'[c].pc = "failed" /\ call'[c].kind = "ask" /\ call'[c].best = call[c].best
           /\ \A d \in Calls \ {c} : call'[d] = call[d]
<1>1. call[c] \in CallRecords
  BY DEF CallType, CallRecords
<1>2. Bare(call[c], "failed") \in CallRecords
  BY <1>1, BareType DEF Pcs
<1>3. call' = [call EXCEPT ![c] = Bare(call[c], "failed")]
  BY DEF Refused
<1>4. CallType' /\ call'[c] = Bare(call[c], "failed") /\ \A d \in Calls \ {c} : call'[d] = call[d]
  BY <1>2, <1>3, SetCall
<1> QED BY <1>1, <1>4, BareType DEF Pcs

\* Two states of a request that differ in who waits for it, or in best being lost.
Near(d) ==
    /\ call'[d].pc = call[d].pc /\ call'[d].kind = call[d].kind /\ call'[d].phone = call[d].phone
    /\ call'[d].typed = call[d].typed /\ call'[d].row = call[d].row
    /\ call'[d].best => call[d].best

LEMMA SpoilType ==
    ASSUME CallType, NEW c \in Calls, NEW r, NEW k \in CallRecords, Spoil(c, r, k)
    PROVE  /\ CallType' /\ call'[c] = k
           /\ \A d \in Calls \ {c} : Near(d) /\ (call'[d].best => call[d].typed # r)
<1>1. ASSUME NEW d \in Calls \ {c}
      PROVE  /\ call'[d] \in CallRecords
             /\ Near(d) /\ (call'[d].best => call[d].typed # r)
  <2>1. call[d] \in CallRecords
    BY DEF CallType, CallRecords
  <2>2. call'[d] = [call[d] EXCEPT !.best = @ /\ call[d].typed # r]
    BY <1>1 DEF Spoil
  <2>3. call'[d] = [call[d] EXCEPT !.best = (call[d].best /\ call[d].typed # r)]
    BY <2>1, <2>2
  <2> QED BY <2>1, <2>3 DEF CallRecords, Near
<1>2. call'[c] = k
  BY DEF Spoil
<1>3. call' = [d \in Calls |-> call'[d]]
  BY DEF Spoil
<1>4. call' \in [Calls -> CallRecords]
  BY <1>1, <1>2, <1>3
<1> QED BY <1>1, <1>2, <1>4 DEF CallType, CallRecords

LEMMA OrphanType ==
    ASSUME NEW k \in CallRecords
    PROVE  /\ Orphan(k) \in CallRecords /\ ~Orphan(k).best
           /\ Orphan(k).pc = k.pc /\ Orphan(k).kind = k.kind /\ Orphan(k).phone = k.phone
           /\ Orphan(k).typed = k.typed /\ Orphan(k).row = k.row
BY DEF Orphan, CallRecords

LEMMA SameIsNear == ASSUME NEW d, call'[d] = call[d] PROVE Near(d)
BY DEF Near

\* A request that stays where it is keeps what is known of it while the codes stay.
LEMMA CallKept ==
    ASSUME NEW d \in Calls, CallInv(d), Near(d), UNCHANGED codeVars
    PROVE  CallInv(d)'
BY DEF CallInv, Near, codeVars, Fine, Usable, Issued, Locked

\* The same when a session is opened.
LEMMA CallKeptOpened ==
    ASSUME NEW d \in Calls, CallInv(d), Near(d), UNCHANGED <<age, consumed, attempts>>,
           \A q \in Codes : opened[q] > 0 => opened'[q] > 0
    PROVE  CallInv(d)'
<1>1. call[d].row \in Issued => call[d].row \in Codes
  BY CodesAreNumbers
<1>2. Issued' = Issued /\ (Fine(d) => Fine(d)')
  BY DEF Fine, Issued, Usable, Locked, Near
<1> QED BY <1>1, <1>2 DEF CallInv, Near

LEMMA AskInv ==
    ASSUME NEW d \in Calls, call'[d].kind = "ask", ~call'[d].best PROVE CallInv(d)'
BY DEF CallInv

-----------------------------------------------------------------------------
(* Types, and what is known of each request: one lemma per kind of step *)

\* The part of the types that a step of the forms and of the requests leaves alone.
CodesStay == UNCHANGED <<platform, codeVars, inbox>>

HistoryType ==
    /\ overlapped' \subseteq Issued' /\ crowded' \in BOOLEAN /\ excused' \in BOOLEAN
    /\ faults' \in 0 .. MaxFaults

LEMMA Stays ==
    ASSUME LoginInv, CodesStay, HistoryType, CallType',
           form' \in [step : {"phone", "code"}, phone : {"own", "typo"}, loading : BOOLEAN, done : BOOLEAN],
           signedIn' \in BOOLEAN,
           stored' = stored \/ stored' = 0 \/ (stored' \in Codes /\ opened[stored'] > 0),
           \A d \in Calls : CallInv(d)'
    PROVE  LoginInv'
<1>1. CodeType'
  BY DEF LoginInv, TypeOK, CodeType, CodesStay, codeVars, HistoryType, Issued
<1>2. DeviceType'
  BY DEF LoginInv, TypeOK, DeviceType, CodesStay, HistoryType
<1>3. (stored # 0 => opened[stored] > 0)'
  BY DEF LoginInv, TypeOK, CodesStay, codeVars
<1> QED BY <1>1, <1>2, <1>3 DEF LoginInv, TypeOK

LEMMA FaultType == ASSUME LoginInv, NEW f, Fault(f) PROVE faults' \in 0 .. MaxFaults
BY Bounds DEF LoginInv, TypeOK, DeviceType, Fault

\* A request that ends, or goes on asking, is known to be nothing.
LEMMA AskEnds ==
    ASSUME LoginInv, NEW c \in Calls,
           AskLimits(c) \/ NoAccount(c) \/ AskTexts(c) \/ CodeSent(c) \/ Fails(c) \/ DropAnswer(c)
    PROVE  LoginInv'
<1>0. CallType /\ CallInv(c) /\ call[c] \in CallRecords
  BY DEF LoginInv, TypeOK, CallType, CallRecords
<1>1. CodesStay /\ stored' = stored /\ signedIn' \in BOOLEAN
  BY DEF AskLimits, NoAccount, AskTexts, CodeSent, Fails, DropAnswer, CodesStay, deviceVars, LoginInv, TypeOK, DeviceType
<1>2. form' \in [step : {"phone", "code"}, phone : {"own", "typo"}, loading : BOOLEAN, done : BOOLEAN]
  BY DEF AskLimits, NoAccount, AskTexts, CodeSent, Fails, DropAnswer, deviceVars, LoginInv, TypeOK, DeviceType
<1>3. HistoryType
  BY DEF AskLimits, NoAccount, AskTexts, CodeSent, Fails, DropAnswer, history, HistoryType,
         LoginInv, TypeOK, DeviceType, CodeType, codeVars, Issued
<1>4. /\ CallType' /\ call'[c].kind = "ask" /\ ~call'[c].best
      /\ \A d \in Calls \ {c} : call'[d] = call[d]
  <2>1. CASE AskLimits(c)
    <3>1. call[c].kind = "ask" /\ ~call[c].best
      BY <1>0, <2>1 DEF AskLimits, At, CallInv
    <3>2. Refused(c) \/ Goes(c, "allowed")
      BY <2>1 DEF AskLimits
    <3> QED BY <1>0, <3>1, <3>2, RefusedType, GoesType DEF Pcs
  <2>2. CASE NoAccount(c)
    <3>1. call[c].kind = "ask" /\ ~call[c].best /\ Refused(c)
      BY <1>0, <2>2 DEF NoAccount, At, CallInv
    <3> QED BY <1>0, <3>1, RefusedType
  <2>3. CASE AskTexts(c)
    <3>1. ~call[c].best /\ call' = [call EXCEPT ![c] = Bare(call[c], "ok")]
      BY <1>0, <2>3 DEF AskTexts, At, CallInv
    <3>2. /\ Bare(call[c], "ok") \in CallRecords
          /\ Bare(call[c], "ok").kind = "ask" /\ Bare(call[c], "ok").best = call[c].best
      BY <1>0, BareType DEF Pcs
    <3> QED BY <1>0, <3>1, <3>2, SetCall
  <2>4. CASE CodeSent(c) \/ Fails(c) \/ DropAnswer(c)
    <3>1. call' = [call EXCEPT ![c] = IdleCall]
      BY <2>4 DEF CodeSent, Fails, DropAnswer
    <3> QED BY <1>0, <3>1, IdleType, SetCall
  <2> QED BY <2>1, <2>2, <2>3, <2>4
<1>5. \A d \in Calls : CallInv(d)'
  BY <1>1, <1>4, SameIsNear, CallKept, AskInv DEF LoginInv, CodesStay
<1> QED BY <1>1, <1>2, <1>3, <1>4, <1>5, Stays

\* The two steps that cost an answer, and the two faults of the connection.
LEMMA FaultsKept ==
    ASSUME LoginInv, NEW c \in Calls, Throttled(c) \/ StepFails(c) \/ CallLost(c) PROVE LoginInv'
<1>0. CallType /\ CallInv(c) /\ call[c] \in CallRecords
  BY DEF LoginInv, TypeOK, CallType, CallRecords
<1>1. CodesStay /\ stored' = stored /\ signedIn' \in BOOLEAN
  BY DEF Throttled, StepFails, CallLost, CodesStay, deviceVars, LoginInv, TypeOK, DeviceType
<1>2. form' \in [step : {"phone", "code"}, phone : {"own", "typo"}, loading : BOOLEAN, done : BOOLEAN]
  BY DEF Throttled, StepFails, CallLost, deviceVars, LoginInv, TypeOK, DeviceType
<1>3. faults' \in 0 .. MaxFaults
  BY FaultType DEF Throttled, StepFails, CallLost
<1>4. HistoryType
  BY <1>3 DEF Throttled, StepFails, CallLost, HistoryType, LoginInv, TypeOK, DeviceType, CodeType, codeVars, Issued
<1>5. CallType' /\ \A d \in Calls : CallInv(d)'
  <2>1. CASE Throttled(c) \/ StepFails(c)
    <3> DEFINE k == [Bare(call[c], "failed") EXCEPT !.best = FALSE]
    <3>1. Bare(call[c], "failed") \in CallRecords /\ Bare(call[c], "failed").kind = "ask"
      BY <1>0, BareType DEF Pcs
    <3>2. k \in CallRecords /\ k.kind = "ask" /\ ~k.best
      BY <3>1 DEF CallRecords
    <3>3. call' = [call EXCEPT ![c] = k]
      BY <2>1 DEF Throttled, StepFails
    <3> HIDE DEF k
    <3>4. CallType' /\ call'[c] = k /\ \A d \in Calls \ {c} : call'[d] = call[d]
      BY <1>0, <3>2, <3>3, SetCall
    <3> QED BY <1>1, <3>2, <3>4, SameIsNear, CallKept, AskInv DEF LoginInv, CodesStay
  <2>2. CASE CallLost(c)
    <3>1. call' = [call EXCEPT ![c] = Orphan(call[c])]
      BY <2>2 DEF CallLost
    <3>2. CallType' /\ call'[c] = Orphan(call[c]) /\ \A d \in Calls \ {c} : call'[d] = call[d]
      BY <1>0, <3>1, OrphanType, SetCall
    <3>3. \A d \in Calls : Near(d)
      BY <1>0, <3>2, OrphanType, SameIsNear DEF Near
    <3> QED BY <1>1, <3>2, <3>3, CallKept DEF LoginInv, CodesStay
  <2> QED BY <2>1, <2>2
<1> QED BY <1>1, <1>2, <1>4, <1>5, Stays

\* What the user does while no request is concerned.
LEMMA UserKept ==
    ASSUME LoginInv, EditPhone \/ GoBack \/ Logout PROVE LoginInv'
<1>1. CodesStay /\ call' = call /\ (stored' = stored \/ stored' = 0)
  BY DEF EditPhone, GoBack, Logout, CodesStay
<1>2. /\ form' \in [step : {"phone", "code"}, phone : {"own", "typo"}, loading : BOOLEAN, done : BOOLEAN]
      /\ signedIn' \in BOOLEAN
  BY DEF EditPhone, GoBack, Logout, LoginInv, TypeOK, DeviceType
<1>3. faults' \in 0 .. MaxFaults
  BY FaultType DEF EditPhone, GoBack, Logout, history, LoginInv, TypeOK, DeviceType
<1>4. HistoryType
  BY <1>3 DEF EditPhone, GoBack, Logout, history, HistoryType, LoginInv, TypeOK, DeviceType, CodeType,
              CodesStay, codeVars, Issued
<1>5. CallType' /\ \A d \in Calls : CallInv(d)'
  BY <1>1, SameIsNear, CallKept DEF LoginInv, TypeOK, CallType, CodesStay
<1> QED BY <1>1, <1>2, <1>4, <1>5, Stays

LEMMA RestartKept == ASSUME LoginInv, Restart PROVE LoginInv'
<1>1. CodesStay /\ stored' = stored /\ call' = [d \in Calls |-> Orphan(call[d])]
  BY DEF Restart, CodesStay
<1>2. /\ form' \in [step : {"phone", "code"}, phone : {"own", "typo"}, loading : BOOLEAN, done : BOOLEAN]
      /\ signedIn' \in BOOLEAN
  BY DEF Restart, EmptyForm
<1>3. faults' \in 0 .. MaxFaults
  BY FaultType DEF Restart
<1>4. HistoryType
  BY <1>3 DEF Restart, HistoryType, LoginInv, TypeOK, DeviceType, CodeType, codeVars, Issued
<1>5. \A d \in Calls : call[d] \in CallRecords
  BY DEF LoginInv, TypeOK, CallType, CallRecords
<1>6. \A d \in Calls : call'[d] = Orphan(call[d]) /\ call'[d] \in CallRecords
  BY <1>1, <1>5, OrphanType
<1>7. \A d \in Calls : Near(d)
  BY <1>5, <1>6, OrphanType DEF Near
<1>8. call' \in [Calls -> CallRecords]
  BY <1>1, <1>5, OrphanType
<1>9. CallType' /\ \A d \in Calls : CallInv(d)'
  BY <1>1, <1>7, <1>8, CallKept DEF LoginInv, CodesStay, CallType, CallRecords
<1> QED BY <1>1, <1>2, <1>4, <1>9, Stays

\* The buttons that send a request.
LEMMA SendsKept ==
    ASSUME LoginInv, NEW c \in Calls, AskCode(c) \/ \E t \in Codes \cup {0} : EnterCode(c, t) PROVE LoginInv'
<1>0. CallType /\ form.phone \in {"own", "typo"}
  BY DEF LoginInv, TypeOK, DeviceType
<1>1. CodesStay /\ stored' = stored /\ signedIn' \in BOOLEAN
  BY DEF AskCode, EnterCode, CodesStay, LoginInv, TypeOK, DeviceType
<1>2. form' \in [step : {"phone", "code"}, phone : {"own", "typo"}, loading : BOOLEAN, done : BOOLEAN]
  BY DEF AskCode, EnterCode, LoginInv, TypeOK, DeviceType
<1>3. HistoryType
  BY DEF AskCode, EnterCode, history, HistoryType, LoginInv, TypeOK, DeviceType, CodeType, CodesStay, codeVars, Issued
<1>4. CallType' /\ \A d \in Calls : CallInv(d)'
  <2>1. CASE AskCode(c)
    <3> DEFINE k == [IdleCall EXCEPT !.pc = "sent", !.phone = form.phone, !.waits = TRUE]
    <3>1. k \in CallRecords /\ k.kind = "ask" /\ ~k.best
      BY <1>0 DEF CallRecords, IdleCall
    <3>2. call' = [call EXCEPT ![c] = k]
      BY <2>1 DEF AskCode
    <3> HIDE DEF k
    <3>3. CallType' /\ call'[c] = k /\ \A d \in Calls \ {c} : call'[d] = call[d]
      BY <1>0, <3>1, <3>2, SetCall
    <3> QED BY <1>1, <3>1, <3>3, SameIsNear, CallKept, AskInv DEF LoginInv, CodesStay
  <2>2. ASSUME NEW t \in Codes \cup {0}, EnterCode(c, t) PROVE CallType' /\ \A d \in Calls : CallInv(d)'
    <3> DEFINE k == [IdleCall EXCEPT !.pc = "sent", !.kind = "enter",
                       !.phone = form.phone, !.typed = t, !.waits = TRUE, !.best = Best(t)]
    <3>1. /\ k \in CallRecords /\ k.kind = "enter" /\ k.pc = "sent" /\ k.phone = form.phone
          /\ k.typed = t /\ k.best = Best(t)
      BY <1>0 DEF CallRecords, IdleCall, Best
    <3>2. call' = [call EXCEPT ![c] = k]
      BY <2>2 DEF EnterCode
    <3> HIDE DEF k
    <3>3. CallType' /\ call'[c] = k /\ \A d \in Calls \ {c} : call'[d] = call[d]
      BY <1>0, <3>1, <3>2, SetCall
    <3>4. Best(t) => Fine(c)'
      BY <1>1, <3>1, <3>3, Bounds, CodesAreNumbers
      DEF Best, Fine, Usable, Issued, Locked, CodesStay, codeVars, LoginInv, TypeOK, CodeType
    <3>5. CallInv(c)'
      BY <3>1, <3>3, <3>4 DEF CallInv
    <3> QED BY <1>1, <3>3, <3>5, SameIsNear, CallKept DEF LoginInv, CodesStay
  <2> QED BY <2>1, <2>2
<1> QED BY <1>1, <1>2, <1>3, <1>4, Stays

\* The answers that let the user in.
LEMMA SignsInKept ==
    ASSUME LoginInv, NEW c \in Calls, SignsIn(c) \/ ConsentPosted(c) PROVE LoginInv'
<1>0. CallType /\ CallInv(c)
  BY DEF LoginInv, TypeOK
<1>1. CodesStay
  BY DEF SignsIn, ConsentPosted, CodesStay
<1>2. stored' = stored \/ (stored' \in Codes /\ opened[stored'] > 0)
  BY <1>0, CodesAreNumbers DEF SignsIn, ConsentPosted, At, CallInv
<1>3. /\ form' \in [step : {"phone", "code"}, phone : {"own", "typo"}, loading : BOOLEAN, done : BOOLEAN]
      /\ signedIn' \in BOOLEAN
  <2>1. CASE SignsIn(c)
    <3>1. (form' = form /\ signedIn' = signedIn) \/ (form' = EmptyForm /\ signedIn' = TRUE)
      BY <2>1 DEF SignsIn
    <3>2. EmptyForm \in [step : {"phone", "code"}, phone : {"own", "typo"}, loading : BOOLEAN, done : BOOLEAN]
      BY DEF EmptyForm
    <3>3. /\ form \in [step : {"phone", "code"}, phone : {"own", "typo"}, loading : BOOLEAN, done : BOOLEAN]
          /\ signedIn \in BOOLEAN
      BY DEF LoginInv, TypeOK, DeviceType
    <3>4. CASE form' = form /\ signedIn' = signedIn
      BY <3>3, <3>4
    <3>5. CASE form' = EmptyForm /\ signedIn' = TRUE
      BY <3>2, <3>5
    <3> QED BY <3>1, <3>4, <3>5
  <2>2. CASE ConsentPosted(c)
    BY <2>2 DEF ConsentPosted, LoginInv, TypeOK, DeviceType
  <2> QED BY <2>1, <2>2
<1>4. HistoryType
  BY DEF SignsIn, ConsentPosted, history, HistoryType, LoginInv, TypeOK, DeviceType, CodeType, codeVars, Issued
<1>5. CallType' /\ \A d \in Calls : CallInv(d)'
  <2>1. CASE call' = [call EXCEPT ![c] = IdleCall]
    <3>1. CallType' /\ call'[c] = IdleCall /\ \A d \in Calls \ {c} : call'[d] = call[d]
      BY <1>0, <2>1, IdleType, SetCall
    <3> QED BY <1>1, <3>1, IdleType, SameIsNear, CallKept, AskInv DEF LoginInv, CodesStay
  <2>2. CASE Goes(c, "consent")
    <3>1. /\ CallType' /\ call'[c].pc = "consent" /\ call'[c].kind = call[c].kind /\ call'[c].best = call[c].best
          /\ \A d \in Calls \ {c} : call'[d] = call[d]
      BY <1>0, <2>2, GoesType DEF Pcs
    <3>2. CallInv(c)'
      BY <1>0, <3>1 DEF CallInv
    <3> QED BY <1>1, <3>1, <3>2, SameIsNear, CallKept DEF LoginInv, CodesStay
  <2> QED BY <2>1, <2>2 DEF SignsIn, ConsentPosted
<1> QED BY <1>1, <1>2, <1>3, <1>4, <1>5, Stays

-----------------------------------------------------------------------------
(* The steps that change the codes *)

\* A step that leaves the device alone, changes codes and keeps their types.
LEMMA CodesChange ==
    ASSUME LoginInv, UNCHANGED <<platform, deviceVars, crowded, excused, faults>>, CodeType', CallType',
           \A r \in Codes : opened[r] <= opened'[r],
           \A d \in Calls : CallInv(d)'
    PROVE  LoginInv'
<1>1. DeviceType'
  BY DEF LoginInv, TypeOK, DeviceType, deviceVars
<1>2. (stored # 0 => opened[stored] > 0)'
  BY DEF LoginInv, TypeOK, DeviceType, CodeType, deviceVars
<1> QED BY <1>1, <1>2 DEF LoginInv, TypeOK

LEMMA NoCodesChange ==
    ASSUME LoginInv, UNCHANGED <<age, consumed, attempts, opened, inbox>>, overlapped' \subseteq Issued'
    PROVE  CodeType' /\ \A r \in Codes : opened[r] <= opened'[r]
BY DEF LoginInv, TypeOK, CodeType, Issued

LEMMA AskCreatesKept ==
    ASSUME LoginInv, NEW c \in Calls, AskCreates(c) PROVE LoginInv'
<1>0. CallType /\ CallInv(c) /\ call[c].kind = "ask" /\ ~call[c].best /\ call[c] \in CallRecords
  BY DEF LoginInv, TypeOK, AskCreates, At, CallInv, CallType, CallRecords
<1>1. PICK r \in Codes :
         /\ r \notin Issued
         /\ age' = [age EXCEPT ![r] = "young"]
         /\ call' = [d \in Calls |-> IF d = c THEN [call[d] EXCEPT !.pc = "created", !.row = r]
                                     ELSE [call[d] EXCEPT !.best = FALSE]]
  BY DEF AskCreates
<1>2. UNCHANGED <<platform, deviceVars, crowded, excused, faults, consumed, attempts, opened, inbox, overlapped>>
  BY DEF AskCreates, history
<1>3. Issued \subseteq Issued' /\ CodeType'
  BY <1>1, <1>2 DEF LoginInv, TypeOK, CodeType, Issued
<1>4. ASSUME NEW d \in Calls PROVE call'[d] \in CallRecords /\ CallInv(d)'
  <2>0. call[d] \in CallRecords /\ CallInv(d)
    BY DEF LoginInv, TypeOK, CallType, CallRecords
  <2>1. CASE d = c
    <3>1. call'[c] = [call[c] EXCEPT !.pc = "created", !.row = r]
      BY <1>1
    <3> QED BY <1>0, <2>1, <3>1, AskInv DEF CallRecords
  <2>2. CASE d # c
    <3>1. call'[d] = [call[d] EXCEPT !.best = FALSE]
      BY <1>1, <2>2
    <3>2. /\ call'[d] \in CallRecords /\ ~call'[d].best
          /\ call'[d].pc = call[d].pc /\ call'[d].kind = call[d].kind /\ call'[d].row = call[d].row
      BY <2>0, <3>1 DEF CallRecords
    <3>3. CallInv(d)'
      BY <1>2, <1>3, <2>0, <3>2 DEF CallInv
    <3> QED BY <3>2, <3>3
  <2> QED BY <2>1, <2>2
<1>5. call' = [d \in Calls |-> call'[d]]
  BY <1>1
<1>6. call' \in [Calls -> CallRecords]
  BY <1>4, <1>5
<1> QED BY <1>2, <1>3, <1>4, <1>6, CodesChange DEF CallType, CallRecords, LoginInv, TypeOK, CodeType

LEMMA AgesKept ==
    ASSUME LoginInv, NEW r \in Codes, Ages(r) PROVE LoginInv'
<1>1. /\ age[r] \in {"young", "old"}
      /\ age' = [age EXCEPT ![r] = IF age[r] = "young" THEN "old" ELSE "over"]
      /\ call' = [c \in Calls |-> [call[c] EXCEPT !.best = @ /\ (call[c].typed # r \/ age[r] = "young")]]
      /\ UNCHANGED <<platform, deviceVars, crowded, excused, faults, consumed, attempts, opened, inbox, overlapped>>
  BY DEF Ages, history
<1>2. Issued' = Issued /\ CodeType'
  BY <1>1 DEF LoginInv, TypeOK, CodeType, Issued
<1>3. ASSUME NEW d \in Calls PROVE call'[d] \in CallRecords /\ CallInv(d)'
  <2>0. call[d] \in CallRecords /\ CallInv(d) /\ age \in [Codes -> {"none", "young", "old", "over"}]
    BY DEF LoginInv, TypeOK, CallType, CallRecords, CodeType
  <2>1. call'[d] = [call[d] EXCEPT !.best = (call[d].best /\ (call[d].typed # r \/ age[r] = "young"))]
    BY <1>1, <2>0
  <2>2. /\ call'[d] \in CallRecords /\ Near(d)
        /\ call'[d].best => (call[d].typed # r \/ age[r] = "young")
    BY <2>0, <2>1 DEF CallRecords, Near
  <2>3. call'[d].best /\ Fine(d) => Fine(d)'
    <3>1. ASSUME call'[d].best, call[d].typed \in Usable PROVE call[d].typed \in Usable'
      BY <1>1, <1>2, <2>0, <2>2, <3>1 DEF Usable, Issued
    <3> QED BY <1>1, <1>2, <2>2, <3>1 DEF Fine, Near, Locked
  <2>4. CallInv(d)'
    BY <1>1, <1>2, <2>0, <2>2, <2>3 DEF CallInv, Near
  <2> QED BY <2>2, <2>4
<1>4. call' \in [Calls -> CallRecords]
  <2>1. call' = [d \in Calls |-> call'[d]]
    BY <1>1
  <2> QED BY <1>3, <2>1
<1> QED BY <1>1, <1>2, <1>3, <1>4, CodesChange DEF CallType, CallRecords, LoginInv, TypeOK, CodeType

LEMMA SmsKept ==
    ASSUME LoginInv, NEW r \in Codes, SmsArrives(r) PROVE LoginInv'
<1>1. UNCHANGED <<platform, codeVars, call, deviceVars, overlapped, crowded, excused, faults>>
  BY DEF SmsArrives, history
<1>2. CodeType' /\ CallType' /\ \A q \in Codes : opened[q] <= opened'[q]
  BY <1>1 DEF SmsArrives, LoginInv, TypeOK, CodeType, CallType, codeVars, Issued
<1>3. \A d \in Calls : CallInv(d)'
  BY <1>1, SameIsNear, CallKept DEF LoginInv
<1> QED BY <1>1, <1>2, <1>3, CodesChange

\* The newest of the codes that can be used.
LEMMA LatestIs ==
    ASSUME Usable # {}
    PROVE  Latest(Usable) \in Usable /\ \A q \in Usable : q <= Latest(Usable)
<1> DEFINE up(q) == {p \in Codes : q <= p}
           ups   == {up(q) : q \in Usable}
<1>1. IsFiniteSet(Codes) /\ Usable \subseteq Codes
  BY Bounds, CodesAreNumbers, FS_Interval DEF Codes
<1>2. ups \subseteq FiniteSubsetsOf(Codes) /\ ups # {}
  <2>1. ASSUME NEW q PROVE up(q) \in FiniteSubsetsOf(Codes)
    <3>1. up(q) \subseteq Codes
      OBVIOUS
    <3>2. IsFiniteSet(up(q))
      BY <1>1, <3>1, FS_Subset
    <3> QED BY <3>1, <3>2 DEF FiniteSubsetsOf
  <2>2. PICK q \in Usable : TRUE
    OBVIOUS
  <2>3. up(q) \in ups
    OBVIOUS
  <2> HIDE DEF up
  <2> QED BY <2>1, <2>3
<1>3. PICK u \in ups : \A v \in ups : <<v, u>> \notin StrictSubsetOrdering(Codes)
  BY <1>2, FS_StrictSubsetOrderingWellFounded, WFMin
<1>4. PICK m \in Usable : u = up(m)
  OBVIOUS
<1>5. ASSUME NEW q \in Usable, ~(q <= m) PROVE FALSE
  <2>1. m \in Nat /\ q \in Nat /\ m \in Codes /\ q \in Codes /\ Codes \subseteq Nat
    BY <1>1, CodesAreNumbers
  <2>2. up(q) \subseteq up(m)
    <3>1. ASSUME NEW p \in up(q) PROVE p \in up(m)
      <4>1. p \in Codes /\ p \in Nat /\ q <= p
        BY <2>1
      <4>2. m <= p
        BY <1>5, <2>1, <4>1
      <4> QED BY <4>1, <4>2
    <3> QED BY <3>1
  <2>4. m \in up(m)
    BY <2>1
  <2>5. m \notin up(q)
    BY <1>5, <2>1
  <2>6. up(q) \in SUBSET Codes /\ up(m) \in SUBSET Codes
    OBVIOUS
  <2> HIDE DEF up
  <2>3. <<up(q), up(m)>> \in StrictSubsetOrdering(Codes)
    BY <2>2, <2>4, <2>5, <2>6 DEF StrictSubsetOrdering
  <2>7. up(q) \in ups
    BY DEF up
  <2> QED BY <1>3, <1>4, <2>3, <2>7
<1>6. \E x \in Usable : \A q \in Usable : q <= x
  BY <1>5
<1> QED BY <1>6 DEF Latest

\* The lookup finds the code of a verification that sent the newest one.
LEMMA LatestIsBest ==
    ASSUME LoginInv, NEW c \in Calls, At(c, "enter", "sent"), call[c].best
    PROVE  Fine(c) /\ Usable # {} /\ Latest(Usable) = call[c].typed
<1>1. Fine(c)
  BY DEF LoginInv, CallInv, At
<1>2. Latest(Usable) \in Usable /\ call[c].typed <= Latest(Usable) /\ Latest(Usable) <= call[c].typed
  BY <1>1, LatestIs, CodesAreNumbers DEF Fine
<1>3. Latest(Usable) \in Nat /\ call[c].typed \in Nat
  BY <1>1, <1>2, CodesAreNumbers DEF Fine
<1> QED BY <1>1, <1>2, <1>3 DEF Fine

LEMMA EnterFindsKept ==
    ASSUME LoginInv, NEW c \in Calls, EnterFinds(c) PROVE LoginInv'
<1> DEFINE L == Latest(Usable)
           found == call[c].phone = "own" /\ Usable # {} /\ ~Locked(Latest(Usable))
<1>0. CallType /\ CallInv(c) /\ call[c] \in CallRecords /\ At(c, "enter", "sent")
  BY DEF LoginInv, TypeOK, CallType, CallRecords, EnterFinds
<1>1. UNCHANGED <<platform, codeVars, inbox, deviceVars, crowded, excused, faults>>
  BY DEF EnterFinds
<1>2. Usable # {} => L \in Issued /\ L \in Codes
  BY LatestIs, CodesAreNumbers
<1>3. overlapped' \subseteq Issued'
  <2>1. overlapped \subseteq Issued /\ Issued' = Issued
    BY <1>1 DEF LoginInv, TypeOK, CodeType, Issued, codeVars
  <2>2. found => overlapped' \subseteq overlapped \cup {L}
    BY DEF EnterFinds
  <2>3. ~found => overlapped' = overlapped
    BY DEF EnterFinds
  <2> HIDE DEF L
  <2> QED BY <1>2, <2>1, <2>2, <2>3
<1>4. CallType' /\ CallInv(c)' /\ \A d \in Calls \ {c} : call'[d] = call[d]
  <2>1. CASE found
    <3> DEFINE k == [call[c] EXCEPT !.pc = "found", !.row = L]
    <3>1. call' = [call EXCEPT ![c].pc = "found", ![c].row = L]
      BY <2>1 DEF EnterFinds
    <3> HIDE DEF L
    <3>2. /\ k \in CallRecords /\ k.pc = "found" /\ k.row = L /\ k.kind = call[c].kind
          /\ k.phone = call[c].phone /\ k.typed = call[c].typed /\ k.best = call[c].best
      BY <1>0, <1>2, <2>1 DEF CallRecords
    <3>3. call' = [call EXCEPT ![c] = k]
      BY <1>0, <3>1 DEF CallType
    <3> HIDE DEF k
    <3>4. CallType' /\ call'[c] = k /\ \A d \in Calls \ {c} : call'[d] = call[d]
      BY <1>0, <3>2, <3>3, SetCall
    <3>5. call[c].best => Fine(c)' /\ call[c].typed = L
      <4>1. call[c].best => Fine(c) /\ call[c].typed = L
        BY <1>0, LatestIsBest DEF L
      <4> QED BY <1>1, <3>2, <3>4, <4>1 DEF Fine, Usable, Issued, Locked, codeVars
    <3>6. L \in Issued'
      BY <1>1, <1>2, <2>1 DEF Issued, codeVars
    <3> QED BY <1>0, <3>2, <3>4, <3>5, <3>6 DEF CallInv, At
  <2>2. CASE ~found
    <3>1. Refused(c)
      BY <2>2 DEF EnterFinds
    <3>2. ~call[c].best
      BY <1>0, <2>2, LatestIsBest DEF Fine
    <3> QED BY <1>0, <3>1, <3>2, RefusedType, AskInv
  <2> QED BY <2>1, <2>2
<1>5. \A d \in Calls : CallInv(d)'
  BY <1>1, <1>4, SameIsNear, CallKept DEF LoginInv
<1>6. CodeType' /\ \A r \in Codes : opened[r] <= opened'[r]
  BY <1>1, <1>3, NoCodesChange DEF codeVars
<1> QED BY <1>1, <1>4, <1>5, <1>6, CodesChange

\* What a verification that still sends the best code keeps, when another code is changed.
LEMMA FineKept ==
    ASSUME NEW d \in Calls, Near(d), CallInv(d), NEW r,
           UNCHANGED age, consumed' \subseteq consumed \cup {r}, consumed \subseteq consumed',
           \A q \in Codes \ {r} : attempts'[q] = attempts[q],
           \A q \in Codes : opened[q] > 0 => opened'[q] > 0,
           call'[d].best => call[d].typed # r
    PROVE  CallInv(d)'
<1>1. Issued' = Issued
  BY DEF Issued
<1>2. ASSUME call'[d].best, Fine(d) PROVE Fine(d)'
  <2>1. call[d].typed \in Codes
    BY <1>2, CodesAreNumbers DEF Fine
  <2> QED BY <1>1, <1>2, <2>1 DEF Near, Fine, Usable, Locked
<1>3. call[d].row \in Issued => call[d].row \in Codes
  BY CodesAreNumbers
<1> QED BY <1>1, <1>2, <1>3 DEF CallInv, Near

LEMMA EnterMissesKept ==
    ASSUME LoginInv, NEW c \in Calls, EnterMisses(c) PROVE LoginInv'
<1> DEFINE r == call[c].row
           k == Bare(call[c], "failed")
<1>0. CallType /\ CallInv(c) /\ call[c] \in CallRecords /\ At(c, "enter", "found") /\ call[c].typed # r
  BY DEF LoginInv, TypeOK, CallType, CallRecords, EnterMisses
<1>1. /\ UNCHANGED <<platform, age, consumed, opened, inbox, deviceVars, overlapped, crowded, excused, faults>>
      /\ attempts' = [attempts EXCEPT ![r] = @ + 1] /\ Spoil(c, r, k)
  BY DEF EnterMisses, history
<1>2. k \in CallRecords /\ k.kind = "ask" /\ ~k.best
  BY <1>0, BareType DEF CallInv, At, Pcs
<1>3. r \in Codes
  BY <1>0, CodesAreNumbers DEF CallInv, At
<1> HIDE DEF r, k
<1>4. /\ CallType' /\ call'[c] = k
      /\ \A d \in Calls \ {c} : Near(d) /\ (call'[d].best => call[d].typed # r)
  BY <1>0, <1>1, <1>2, SpoilType
<1>5. ASSUME NEW d \in Calls PROVE CallInv(d)'
  <2>1. CASE d = c
    BY <1>2, <1>4, <2>1, AskInv
  <2>2. CASE d # c
    <3>1. CallInv(d) /\ Near(d) /\ (call'[d].best => call[d].typed # r)
      BY <1>4, <2>2 DEF LoginInv
    <3>2. \A q \in Codes \ {r} : attempts'[q] = attempts[q]
      BY <1>1 DEF LoginInv, TypeOK, CodeType
    <3> QED BY <1>1, <3>1, <3>2, FineKept
  <2> QED BY <2>1, <2>2
<1>6. CodeType' /\ \A q \in Codes : opened[q] <= opened'[q]
  BY <1>1, <1>3 DEF LoginInv, TypeOK, CodeType, Issued
<1> QED BY <1>1, <1>4, <1>5, <1>6, CodesChange

LEMMA EnterConsumesKept ==
    ASSUME LoginInv, NEW c \in Calls, EnterConsumes(c) PROVE LoginInv'
<1> DEFINE r == call[c].row
           k == [call[c] EXCEPT !.pc = "consumed"]
<1>0. CallType /\ CallInv(c) /\ call[c] \in CallRecords /\ At(c, "enter", "found")
  BY DEF LoginInv, TypeOK, CallType, CallRecords, EnterConsumes
<1>1. /\ UNCHANGED <<platform, age, attempts, opened, inbox, deviceVars, overlapped, crowded, excused, faults>>
      /\ consumed' = consumed \cup {r} /\ Spoil(c, r, k)
  BY DEF EnterConsumes, history
<1>2. k \in CallRecords /\ k.kind = "enter" /\ k.pc = "consumed" /\ k.row = r
  BY <1>0 DEF CallRecords, At
<1>3. r \in Codes /\ r \in Issued
  BY <1>0, CodesAreNumbers DEF CallInv, At
<1> HIDE DEF r, k
<1>4. /\ CallType' /\ call'[c] = k
      /\ \A d \in Calls \ {c} : Near(d) /\ (call'[d].best => call[d].typed # r)
  BY <1>0, <1>1, <1>2, SpoilType
<1>5. ASSUME NEW d \in Calls PROVE CallInv(d)'
  <2>1. CASE d = c
    <3>1. r \in Issued' /\ r \in consumed'
      BY <1>1, <1>3 DEF Issued
    <3> QED BY <1>2, <1>4, <2>1, <3>1 DEF CallInv
  <2>2. CASE d # c
    <3>1. CallInv(d) /\ Near(d) /\ (call'[d].best => call[d].typed # r)
      BY <1>4, <2>2 DEF LoginInv
    <3> QED BY <1>1, <3>1, FineKept
  <2> QED BY <2>1, <2>2
<1>6. CodeType' /\ \A q \in Codes : opened[q] <= opened'[q]
  BY <1>1, <1>3 DEF LoginInv, TypeOK, CodeType, Issued
<1> QED BY <1>1, <1>4, <1>5, <1>6, CodesChange

LEMMA EnterOpensKept ==
    ASSUME LoginInv, NEW c \in Calls, EnterOpens(c) \/ EnterEnds(c) PROVE LoginInv'
<1>0. CallType /\ CallInv(c) /\ At(c, "enter", call[c].pc) /\ call[c].pc \in {"consumed", "opened"}
  BY DEF LoginInv, TypeOK, EnterOpens, EnterEnds, At
<1>1. UNCHANGED <<platform, age, consumed, attempts, inbox, deviceVars, overlapped, crowded, excused, faults>>
  BY DEF EnterOpens, EnterEnds, history, codeVars
<1>2. call[c].row \in Codes /\ call[c].row \in Issued
  BY <1>0, CodesAreNumbers DEF CallInv, At
<1>3. /\ opened' \in [Codes -> Nat] /\ opened'[call[c].row] > 0
      /\ \A q \in Codes : opened[q] <= opened'[q] /\ (opened[q] > 0 => opened'[q] > 0)
  <2>1. CASE EnterOpens(c)
    BY <1>2, <2>1 DEF EnterOpens, LoginInv, TypeOK, CodeType
  <2>2. CASE EnterEnds(c)
    BY <1>0, <1>2, <2>2 DEF EnterEnds, LoginInv, TypeOK, CodeType, At, CallInv, codeVars
  <2> QED BY <2>1, <2>2
<1>4. PICK pc \in {"opened", "ok"} : Goes(c, pc)
  BY DEF EnterOpens, EnterEnds
<1>5. /\ CallType' /\ call'[c].pc = pc /\ call'[c].kind = call[c].kind /\ call'[c].row = call[c].row
      /\ call'[c].best = call[c].best
      /\ \A d \in Calls \ {c} : call'[d] = call[d]
  BY <1>0, <1>4, GoesType DEF Pcs
<1>6. CallInv(c)'
  BY <1>0, <1>1, <1>2, <1>3, <1>5 DEF CallInv, At, Issued
<1>7. ASSUME NEW d \in Calls PROVE CallInv(d)'
  <2>1. CASE d # c
    <3>1. CallInv(d) /\ Near(d)
      BY <1>5, <2>1, SameIsNear DEF LoginInv
    <3> QED BY <1>1, <1>3, <3>1, CallKeptOpened
  <2> QED BY <1>6, <2>1
<1>8. CodeType'
  BY <1>1, <1>3 DEF LoginInv, TypeOK, CodeType, Issued
<1> QED BY <1>1, <1>3, <1>5, <1>7, <1>8, CodesChange

LEMMA Preserved == LoginInv /\ [Next]_vars => LoginInv'
<1> SUFFICES ASSUME LoginInv, [Next]_vars PROVE LoginInv'
  OBVIOUS
<1>1. ASSUME NEW c \in Calls, AskStep(c) \/ EnterStep(c) \/ FormStep(c) PROVE LoginInv'
  BY <1>1, AskEnds, AskCreatesKept, EnterFindsKept, EnterMissesKept, EnterConsumesKept, EnterOpensKept,
     SignsInKept DEF AskStep, EnterStep, FormStep
<1>2. CASE UNCHANGED vars
  <2>1. CodesStay /\ HistoryType
    BY <1>2 DEF vars, codeVars, CodesStay, HistoryType, LoginInv, TypeOK, CodeType, DeviceType, Issued
  <2>2. CallType' /\ \A d \in Calls : CallInv(d)'
    BY <1>2, <2>1, SameIsNear, CallKept DEF vars, LoginInv, TypeOK, CallType, CodesStay
  <2> QED BY <1>2, <2>1, <2>2, Stays DEF vars, LoginInv, TypeOK, DeviceType
<1> QED BY <1>1, <1>2, FaultsKept, SendsKept, AgesKept, SmsKept, UserKept, RestartKept DEF Next

LEMMA InitInv == Init => LoginInv
<1> SUFFICES ASSUME Init PROVE LoginInv
  OBVIOUS
<1>1. CodeType
  BY DEF Init, CodeType
<1>2. DeviceType
  <2>1. EmptyForm \in [step : {"phone", "code"}, phone : {"own", "typo"}, loading : BOOLEAN, done : BOOLEAN]
    BY DEF EmptyForm
  <2>2. platform \in Platforms /\ form = EmptyForm
    BY DEF Init
  <2>3. stored \in Codes \cup {0} /\ faults \in 0 .. MaxFaults
    BY Bounds DEF Init
  <2>4. signedIn \in BOOLEAN /\ crowded \in BOOLEAN /\ excused \in BOOLEAN
    BY DEF Init
  <2> QED BY <2>1, <2>2, <2>3, <2>4 DEF DeviceType
<1>3. CallType /\ \A d \in Calls : call[d] = IdleCall
  BY IdleType DEF Init, CallType, CallRecords
<1>4. \A d \in Calls : CallInv(d)
  BY <1>3, IdleType DEF CallInv
<1>5. stored = 0
  BY DEF Init
<1> QED BY <1>1, <1>2, <1>3, <1>4, <1>5 DEF LoginInv, TypeOK

\* Every variable stays in its type, and a device's tokens are of a session that exists.
THEOREM TypeCorrect == Spec => []TypeOK
<1>1. LoginInv => TypeOK
  BY DEF LoginInv
<1> QED BY InitInv, Preserved, <1>1, PTL DEF Spec

\* A verification of the newest code that the throttler lets through is never refused
\* while nothing it could not know of happened to the code, for any number of codes and
\* requests.
THEOREM NewestCodeWorks == Spec => []NewestCodeSignsIn
<1>1. LoginInv => NewestCodeSignsIn
  BY DEF LoginInv, CallInv, NewestCodeSignsIn
<1> QED BY InitInv, Preserved, <1>1, PTL DEF Spec

-----------------------------------------------------------------------------
(* What the rate limit, the lock and the use of a code bound *)

\* The requests that may still add a guess, a session or a code.
Holders(r) == {d \in Calls : InHand(d, r)}
Takers(r)  == {d \in Calls : /\ At(d, "enter", "found") \/ At(d, "enter", "consumed")
                             /\ call[d].row = r}
Allowed    == {d \in Calls : At(d, "ask", "allowed") /\ call[d].phone = "own"}

GuessLimit(r)   == IF r \in overlapped THEN MaxAttempts + Cardinality(Calls) - 1 ELSE MaxAttempts
SessionLimit(r) == IF r \in overlapped THEN Cardinality(Calls) ELSE 1
CodeLimit       == IF crowded THEN Cardinality(Calls) ELSE 1

\* Each bound also counts the requests that are about to reach it.
CountInv ==
    /\ \A r \in Codes : attempts[r] + Cardinality(Holders(r)) <= GuessLimit(r)
    /\ \A r \in Codes : opened[r] + Cardinality(Takers(r)) <= SessionLimit(r)
    /\ \A r \in Codes : r \notin consumed => opened[r] = 0
    /\ Cardinality(Young) + Cardinality(Allowed) <= CodeLimit

LEMMA Counted ==
    /\ IsFiniteSet(Calls) /\ IsFiniteSet(Codes)
    /\ Cardinality(Calls) \in Nat /\ Cardinality(Calls) >= 1
<1>1. IsFiniteSet(Calls) /\ Calls # {}
  BY ConstantsAssumption DEF ConstantsAssumption
<1>2. Cardinality(Calls) \in Nat /\ Cardinality(Calls) # 0
  BY <1>1, FS_CardinalityType, FS_EmptySet
<1>3. IsFiniteSet(Codes)
  BY Bounds, FS_Interval DEF Codes
<1> QED BY <1>1, <1>2, <1>3

LEMMA Sizes ==
    ASSUME NEW S, IsFiniteSet(S), NEW A, A \subseteq S
    PROVE  Cardinality(A) \in Nat /\ Cardinality(A) <= Cardinality(S) /\ Cardinality(S) \in Nat
BY FS_Subset, FS_CardinalityType

LEMMA Fewer ==
    ASSUME NEW S, IsFiniteSet(S), NEW x \in S, NEW A, A \subseteq S \ {x}
    PROVE  Cardinality(A) \in Nat /\ Cardinality(A) + 1 <= Cardinality(S) /\ Cardinality(S) \in Nat
<1>1. IsFiniteSet(S \ {x}) /\ Cardinality(S \ {x}) = Cardinality(S) - 1
  BY FS_RemoveElement
<1>2. Cardinality(A) \in Nat /\ Cardinality(A) <= Cardinality(S \ {x})
  BY <1>1, Sizes
<1> QED BY <1>1, <1>2, FS_CardinalityType

LEMMA OneAtMost ==
    ASSUME NEW x, NEW A, A \subseteq {x} PROVE Cardinality(A) \in Nat /\ Cardinality(A) <= 1
<1>1. IsFiniteSet({x}) /\ Cardinality({x}) = 1
  BY FS_Singleton
<1> QED BY <1>1, Sizes

LEMMA SetsOfCalls ==
    /\ \A r : /\ IsFiniteSet(Holders(r)) /\ Cardinality(Holders(r)) \in Nat
              /\ Cardinality(Holders(r)) <= Cardinality(Calls)
              /\ IsFiniteSet(Takers(r)) /\ Cardinality(Takers(r)) \in Nat
              /\ Cardinality(Takers(r)) <= Cardinality(Calls)
    /\ IsFiniteSet(Allowed) /\ Cardinality(Allowed) \in Nat /\ Cardinality(Allowed) <= Cardinality(Calls)
    /\ IsFiniteSet(Young) /\ Cardinality(Young) \in Nat
<1>1. ASSUME NEW r PROVE Holders(r) \subseteq Calls /\ Takers(r) \subseteq Calls
  BY DEF Holders, Takers
<1>2. Allowed \subseteq Calls /\ Young \subseteq Codes
  BY DEF Allowed, Young
<1>3. ASSUME NEW A, A \subseteq Calls
      PROVE  IsFiniteSet(A) /\ Cardinality(A) \in Nat /\ Cardinality(A) <= Cardinality(Calls)
  BY <1>3, Counted, FS_Subset, Sizes
<1>4. IsFiniteSet(Young) /\ Cardinality(Young) \in Nat
  BY <1>2, Counted, FS_Subset, Sizes
<1> QED BY <1>1, <1>2, <1>3, <1>4

\* A request that is not newly on its way to a guess, a session or a code.
Later(d) ==
    call'[d].pc \in {"allowed", "found", "consumed"} =>
        /\ call[d].pc = call'[d].pc /\ call[d].kind = call'[d].kind
        /\ call[d].phone = call'[d].phone /\ call[d].row = call'[d].row

LEMMA NearIsLater == ASSUME NEW d, Near(d) PROVE Later(d)
BY DEF Near, Later

LEMMA SameIsLater == ASSUME NEW d, call'[d] = call[d] PROVE Later(d)
BY DEF Later

LEMMA SetsShrink ==
    ASSUME \A d \in Calls : Later(d)
    PROVE  /\ \A r : Holders(r)' \subseteq Holders(r) /\ Takers(r)' \subseteq Takers(r)
           /\ Allowed' \subseteq Allowed
BY DEF Later, Holders, Takers, Allowed, InHand, At

\* The frame of every step that makes no guess, session or code.
LEMMA CountsShrink ==
    ASSUME LoginInv, CountInv, \A d \in Calls : Later(d),
           UNCHANGED <<consumed, attempts, opened, overlapped>>, crowded' = crowded, Young' \subseteq Young
    PROVE  CountInv'
<1>1. /\ \A r : Holders(r)' \subseteq Holders(r) /\ Takers(r)' \subseteq Takers(r)
      /\ Allowed' \subseteq Allowed
  BY SetsShrink
<1>2. ASSUME NEW r \in Codes
      PROVE  /\ attempts'[r] + Cardinality(Holders(r)') <= GuessLimit(r)'
             /\ opened'[r] + Cardinality(Takers(r)') <= SessionLimit(r)'
             /\ r \notin consumed' => opened'[r] = 0
  <2>1. /\ Cardinality(Holders(r)') \in Nat /\ Cardinality(Holders(r)') <= Cardinality(Holders(r))
        /\ Cardinality(Takers(r)') \in Nat /\ Cardinality(Takers(r)') <= Cardinality(Takers(r))
        /\ Cardinality(Holders(r)) \in Nat /\ Cardinality(Takers(r)) \in Nat
    BY <1>1, SetsOfCalls, Sizes
  <2>2. attempts[r] \in Nat /\ opened[r] \in Nat
    BY DEF LoginInv, TypeOK, CodeType
  <2>3. /\ attempts[r] + Cardinality(Holders(r)) <= GuessLimit(r)
        /\ opened[r] + Cardinality(Takers(r)) <= SessionLimit(r)
        /\ r \notin consumed => opened[r] = 0
    BY DEF CountInv
  <2>4. GuessLimit(r)' = GuessLimit(r) /\ SessionLimit(r)' = SessionLimit(r)
    BY DEF GuessLimit, SessionLimit
  <2>5. GuessLimit(r) \in Nat /\ SessionLimit(r) \in Nat
    BY Counted, Bounds DEF GuessLimit, SessionLimit
  <2> QED BY <2>1, <2>2, <2>3, <2>4, <2>5
<1>3. Cardinality(Young)' + Cardinality(Allowed)' <= CodeLimit'
  <2>1. /\ Cardinality(Young') \in Nat /\ Cardinality(Young') <= Cardinality(Young)
        /\ Cardinality(Allowed') \in Nat /\ Cardinality(Allowed') <= Cardinality(Allowed)
        /\ Cardinality(Young) \in Nat /\ Cardinality(Allowed) \in Nat
    BY <1>1, SetsOfCalls, Sizes
  <2>2. Cardinality(Young) + Cardinality(Allowed) <= CodeLimit /\ CodeLimit' = CodeLimit /\ CodeLimit \in Nat
    BY Counted DEF CountInv, CodeLimit
  <2> QED BY <2>1, <2>2
<1> QED BY <1>2, <1>3 DEF CountInv

\* A request that is replaced by one that is on its way to nothing.
LEMMA OutOfTheWay ==
    ASSUME NEW c \in Calls, call'[c].pc \notin {"allowed", "found", "consumed"},
           \A d \in Calls \ {c} : Later(d)
    PROVE  \A d \in Calls : Later(d)
BY DEF Later

\* Replacing the record of one request.
LEMMA Replaced ==
    ASSUME CallType, NEW c \in Calls, NEW k \in CallRecords, call' = [call EXCEPT ![c] = k],
           k.pc \notin {"allowed", "found", "consumed"}
    PROVE  \A d \in Calls : Later(d)
<1>1. call'[c] = k /\ \A d \in Calls \ {c} : call'[d] = call[d]
  BY SetCall
<1> QED BY <1>1, SameIsLater, OutOfTheWay

\* The steps of the forms and the faults bring no request closer to a code.
LEMMA QuietSteps ==
    ASSUME LoginInv, NEW c \in Calls,
           \/ NoAccount(c) \/ AskTexts(c) \/ CodeSent(c) \/ Fails(c) \/ DropAnswer(c)
           \/ SignsIn(c) \/ ConsentPosted(c) \/ Throttled(c) \/ StepFails(c) \/ CallLost(c)
           \/ AskCode(c) \/ (\E t \in Codes \cup {0} : EnterCode(c, t)) \/ EnterEnds(c)
    PROVE  /\ \A d \in Calls : Later(d)
           /\ UNCHANGED <<age, consumed, attempts, opened, overlapped, crowded>>
<1>0. CallType /\ call[c] \in CallRecords /\ form.phone \in {"own", "typo"}
  BY DEF LoginInv, TypeOK, CallType, CallRecords, DeviceType
<1>1. CASE NoAccount(c)
  <2>1. Refused(c) /\ UNCHANGED <<age, consumed, attempts, opened, overlapped, crowded>>
    BY <1>1 DEF NoAccount, codeVars, history
  <2> QED BY <1>0, <2>1, RefusedType, SameIsLater, OutOfTheWay
<1>2. CASE AskTexts(c)
  <2>1. call' = [call EXCEPT ![c] = Bare(call[c], "ok")]
    BY <1>2 DEF AskTexts
  <2>2. Bare(call[c], "ok") \in CallRecords /\ Bare(call[c], "ok").pc = "ok"
    BY <1>0, BareType DEF Pcs
  <2>3. UNCHANGED <<age, consumed, attempts, opened, overlapped, crowded>>
    BY <1>2 DEF AskTexts, codeVars, history
  <2> QED BY <1>0, <2>1, <2>2, <2>3, Replaced
<1>3. CASE CodeSent(c) \/ Fails(c) \/ DropAnswer(c) \/ ConsentPosted(c)
  <2>1. call' = [call EXCEPT ![c] = IdleCall]
    BY <1>3 DEF CodeSent, Fails, DropAnswer, ConsentPosted
  <2>2. UNCHANGED <<age, consumed, attempts, opened, overlapped, crowded>>
    BY <1>3 DEF CodeSent, Fails, DropAnswer, ConsentPosted, codeVars, history
  <2> QED BY <1>0, <2>1, <2>2, IdleType, Replaced
<1>4. CASE SignsIn(c) \/ EnterEnds(c)
  <2>1. call' = [call EXCEPT ![c] = IdleCall] \/ \E pc \in {"consent", "ok"} : Goes(c, pc)
    BY <1>4 DEF SignsIn, EnterEnds
  <2>2. UNCHANGED <<age, consumed, attempts, opened, overlapped, crowded>>
    BY <1>4 DEF SignsIn, EnterEnds, codeVars, history
  <2>3. CASE call' = [call EXCEPT ![c] = IdleCall]
    BY <1>0, <2>2, <2>3, IdleType, Replaced
  <2>4. ASSUME NEW pc \in {"consent", "ok"}, Goes(c, pc) PROVE \A d \in Calls : Later(d)
    <3>1. call'[c].pc = pc /\ \A d \in Calls \ {c} : call'[d] = call[d]
      BY <1>0, <2>4, GoesType DEF Pcs
    <3> QED BY <2>4, <3>1, SameIsLater, OutOfTheWay
  <2> QED BY <2>1, <2>2, <2>3, <2>4
<1>5. CASE Throttled(c) \/ StepFails(c)
  <2> DEFINE k == [Bare(call[c], "failed") EXCEPT !.best = FALSE]
  <2>1. Bare(call[c], "failed") \in CallRecords /\ Bare(call[c], "failed").pc = "failed"
    BY <1>0, BareType DEF Pcs
  <2>2. k \in CallRecords /\ k.pc = "failed"
    BY <2>1 DEF CallRecords
  <2>3. call' = [call EXCEPT ![c] = k]
    BY <1>5 DEF Throttled, StepFails
  <2>4. UNCHANGED <<age, consumed, attempts, opened, overlapped, crowded>>
    BY <1>5 DEF Throttled, StepFails, codeVars
  <2> HIDE DEF k
  <2> QED BY <1>0, <2>2, <2>3, <2>4, Replaced
<1>6. CASE CallLost(c)
  <2>1. call' = [call EXCEPT ![c] = Orphan(call[c])]
    BY <1>6 DEF CallLost
  <2>2. UNCHANGED <<age, consumed, attempts, opened, overlapped, crowded>>
    BY <1>6 DEF CallLost, codeVars
  <2>3. call'[c] = Orphan(call[c]) /\ \A d \in Calls \ {c} : call'[d] = call[d]
    BY <1>0, <2>1, OrphanType, SetCall
  <2>4. Near(c)
    BY <1>0, <2>3, OrphanType DEF Near
  <2> QED BY <2>2, <2>3, <2>4, NearIsLater, SameIsLater
<1>7. CASE AskCode(c)
  <2> DEFINE k == [IdleCall EXCEPT !.pc = "sent", !.phone = form.phone, !.waits = TRUE]
  <2>1. k \in CallRecords /\ k.pc = "sent"
    BY <1>0 DEF CallRecords, IdleCall
  <2>2. call' = [call EXCEPT ![c] = k]
    BY <1>7 DEF AskCode
  <2>3. UNCHANGED <<age, consumed, attempts, opened, overlapped, crowded>>
    BY <1>7 DEF AskCode, codeVars, history
  <2> HIDE DEF k
  <2> QED BY <1>0, <2>1, <2>2, <2>3, Replaced
<1>8. ASSUME NEW t \in Codes \cup {0}, EnterCode(c, t)
      PROVE  /\ \A d \in Calls : Later(d)
             /\ UNCHANGED <<age, consumed, attempts, opened, overlapped, crowded>>
  <2> DEFINE k == [IdleCall EXCEPT !.pc = "sent", !.kind = "enter",
                     !.phone = form.phone, !.typed = t, !.waits = TRUE, !.best = Best(t)]
  <2>1. k \in CallRecords /\ k.pc = "sent"
    BY <1>0 DEF CallRecords, IdleCall, Best
  <2>2. call' = [call EXCEPT ![c] = k]
    BY <1>8 DEF EnterCode
  <2>3. UNCHANGED <<age, consumed, attempts, opened, overlapped, crowded>>
    BY <1>8 DEF EnterCode, codeVars
  <2> HIDE DEF k
  <2> QED BY <1>0, <2>1, <2>2, <2>3, Replaced
<1> QED BY <1>1, <1>2, <1>3, <1>4, <1>5, <1>6, <1>7, <1>8

\* So do the steps that concern no single request.
LEMMA OtherQuietSteps ==
    ASSUME LoginInv, (\E r \in Codes : Ages(r) \/ SmsArrives(r)) \/ EditPhone \/ GoBack \/ Logout \/ Restart
                     \/ UNCHANGED vars
    PROVE  /\ \A d \in Calls : Later(d)
           /\ UNCHANGED <<consumed, attempts, opened, overlapped, crowded>>
           /\ Young' \subseteq Young /\ Issued' = Issued
<1>0. \A d \in Calls : call[d] \in CallRecords
  BY DEF LoginInv, TypeOK, CallType, CallRecords
<1>1. ASSUME NEW r \in Codes, Ages(r)
      PROVE  /\ \A d \in Calls : Later(d)
             /\ UNCHANGED <<consumed, attempts, opened, overlapped, crowded>>
             /\ Young' \subseteq Young /\ Issued' = Issued
  <2>1. ASSUME NEW d \in Calls PROVE Later(d)
    <3>1. call'[d] = [call[d] EXCEPT !.best = (call[d].best /\ (call[d].typed # r \/ age[r] = "young"))]
      BY <1>0, <1>1 DEF Ages
    <3>2. Near(d)
      BY <1>0, <3>1 DEF CallRecords, Near
    <3> QED BY <3>2, NearIsLater
  <2>2. Young' \subseteq Young /\ Issued' = Issued
    BY <1>1 DEF Ages, Young, Issued, LoginInv, TypeOK, CodeType
  <2> QED BY <1>1, <2>1, <2>2 DEF Ages, history
<1>2. CASE (\E r \in Codes : SmsArrives(r)) \/ EditPhone \/ GoBack \/ Logout \/ UNCHANGED vars
  <2>1. call' = call /\ UNCHANGED <<age, consumed, attempts, opened, overlapped, crowded>>
    BY <1>2 DEF SmsArrives, EditPhone, GoBack, Logout, vars, codeVars, history
  <2> QED BY <2>1, SameIsLater DEF Young, Issued
<1>3. CASE Restart
  <2>1. call' = [d \in Calls |-> Orphan(call[d])] /\ UNCHANGED <<age, consumed, attempts, opened, overlapped, crowded>>
    BY <1>3 DEF Restart, codeVars
  <2>2. \A d \in Calls : Near(d)
    BY <1>0, <2>1, OrphanType DEF Near
  <2> QED BY <2>1, <2>2, NearIsLater DEF Young, Issued
<1> QED BY <1>1, <1>2, <1>3

\* The three bounds, each kept by a step that adds nothing to it.
LEMMA GuessKept ==
    ASSUME LoginInv, CountInv, NEW r \in Codes, attempts'[r] = attempts[r],
           Holders(r)' \subseteq Holders(r), r \in overlapped => r \in overlapped'
    PROVE  attempts'[r] + Cardinality(Holders(r)') <= GuessLimit(r)'
<1>1. /\ Cardinality(Holders(r)') \in Nat /\ Cardinality(Holders(r)') <= Cardinality(Holders(r))
      /\ Cardinality(Holders(r)) \in Nat
  BY SetsOfCalls, Sizes
<1>2. attempts[r] \in Nat /\ attempts[r] + Cardinality(Holders(r)) <= GuessLimit(r)
  BY DEF CountInv, LoginInv, TypeOK, CodeType
<1>3. GuessLimit(r) \in Nat /\ GuessLimit(r)' \in Nat /\ GuessLimit(r) <= GuessLimit(r)'
  BY Counted, Bounds DEF GuessLimit
<1> QED BY <1>1, <1>2, <1>3

LEMMA SessionKept ==
    ASSUME LoginInv, CountInv, NEW r \in Codes, opened'[r] = opened[r],
           Takers(r)' \subseteq Takers(r), r \in overlapped => r \in overlapped'
    PROVE  opened'[r] + Cardinality(Takers(r)') <= SessionLimit(r)'
<1>1. /\ Cardinality(Takers(r)') \in Nat /\ Cardinality(Takers(r)') <= Cardinality(Takers(r))
      /\ Cardinality(Takers(r)) \in Nat
  BY SetsOfCalls, Sizes
<1>2. opened[r] \in Nat /\ opened[r] + Cardinality(Takers(r)) <= SessionLimit(r)
  BY DEF CountInv, LoginInv, TypeOK, CodeType
<1>3. SessionLimit(r) \in Nat /\ SessionLimit(r)' \in Nat /\ SessionLimit(r) <= SessionLimit(r)'
  BY Counted DEF SessionLimit
<1> QED BY <1>1, <1>2, <1>3

LEMMA CodesKept ==
    ASSUME CountInv, Young' \subseteq Young, Allowed' \subseteq Allowed, crowded => crowded'
    PROVE  Cardinality(Young') + Cardinality(Allowed') <= CodeLimit'
<1>1. /\ Cardinality(Young') \in Nat /\ Cardinality(Young') <= Cardinality(Young)
      /\ Cardinality(Allowed') \in Nat /\ Cardinality(Allowed') <= Cardinality(Allowed)
      /\ Cardinality(Young) \in Nat /\ Cardinality(Allowed) \in Nat
  BY SetsOfCalls, Sizes
<1>2. Cardinality(Young) + Cardinality(Allowed) <= CodeLimit
  BY DEF CountInv
<1>3. CodeLimit \in Nat /\ CodeLimit' \in Nat /\ CodeLimit <= CodeLimit'
  BY Counted DEF CodeLimit
<1> QED BY <1>1, <1>2, <1>3

-----------------------------------------------------------------------------
(* The steps that do reach for a bound *)

LEMMA AskLimitsCounted ==
    ASSUME LoginInv, CountInv, NEW c \in Calls, AskLimits(c) PROVE CountInv'
<1>0. CallType /\ At(c, "ask", "sent")
  BY DEF LoginInv, TypeOK, AskLimits
<1>1. UNCHANGED <<age, consumed, attempts, opened, overlapped>> /\ Young' = Young
  BY DEF AskLimits, codeVars, Young
<1>2. CASE Young # {} /\ call[c].phone = "own"
  <2>1. Refused(c) /\ crowded' = crowded
    BY <1>2 DEF AskLimits
  <2>2. \A d \in Calls : Later(d)
    BY <1>0, <2>1, RefusedType, SameIsLater, OutOfTheWay
  <2> QED BY <1>1, <2>1, <2>2, CountsShrink
<1>3. CASE ~(Young # {} /\ call[c].phone = "own")
  <2>1. Goes(c, "allowed") /\ crowded' = (crowded \/ \E d \in Calls : At(d, "ask", "allowed"))
    BY <1>3 DEF AskLimits
  <2>2. /\ call'[c].pc = "allowed" /\ call'[c].kind = "ask" /\ call'[c].phone = call[c].phone
        /\ \A d \in Calls \ {c} : call'[d] = call[d]
    BY <1>0, <2>1, GoesType DEF Pcs, At
  <2>3. \A r : Holders(r)' \subseteq Holders(r) /\ Takers(r)' \subseteq Takers(r)
    BY <2>2 DEF Holders, Takers, InHand, At
  <2>4. Cardinality(Young') + Cardinality(Allowed') <= CodeLimit'
    <3>1. CASE call[c].phone # "own"
      <4>1. Allowed' \subseteq Allowed
        BY <2>2, <3>1 DEF Allowed, At
      <4> QED BY <1>1, <2>1, <4>1, CodesKept
    <3>2. CASE call[c].phone = "own"
      <4>1. Young' = {} /\ Cardinality(Young') = 0
        BY <1>1, <1>3, <3>2, FS_EmptySet
      <4>2. CASE \E d \in Calls : At(d, "ask", "allowed")
        <5>1. CodeLimit' = Cardinality(Calls)
          BY <2>1, <4>2 DEF CodeLimit
        <5>2. Cardinality(Allowed') \in Nat /\ Cardinality(Allowed') <= Cardinality(Calls)
          <6>1. Allowed' \subseteq Calls
            BY DEF Allowed
          <6> QED BY <6>1, Counted, Sizes
        <5> QED BY <4>1, <5>1, <5>2, Counted
      <4>3. CASE ~\E d \in Calls : At(d, "ask", "allowed")
        <5>1. Allowed' \subseteq {c}
          BY <2>2, <4>3 DEF Allowed, At
        <5>2. Cardinality(Allowed') \in Nat /\ Cardinality(Allowed') <= 1
          BY <5>1, OneAtMost
        <5>3. CodeLimit' >= 1 /\ CodeLimit' \in Nat
          BY Counted DEF CodeLimit
        <5> QED BY <4>1, <5>2, <5>3
      <4> QED BY <4>2, <4>3
    <3> QED BY <3>1, <3>2
  <2>5. ASSUME NEW r \in Codes
        PROVE  /\ attempts'[r] + Cardinality(Holders(r)') <= GuessLimit(r)'
               /\ opened'[r] + Cardinality(Takers(r)') <= SessionLimit(r)'
               /\ r \notin consumed' => opened'[r] = 0
    BY <1>1, <2>3, GuessKept, SessionKept DEF CountInv
  <2> QED BY <2>4, <2>5 DEF CountInv
<1> QED BY <1>2, <1>3

LEMMA AskCreatesCounted ==
    ASSUME LoginInv, CountInv, NEW c \in Calls, AskCreates(c) PROVE CountInv'
<1>0. CallType /\ call[c] \in CallRecords /\ At(c, "ask", "allowed") /\ call[c].phone = "own"
  BY DEF LoginInv, TypeOK, CallType, CallRecords, AskCreates
<1>1. PICK r \in Codes :
         /\ r \notin Issued
         /\ age' = [age EXCEPT ![r] = "young"]
         /\ call' = [d \in Calls |-> IF d = c THEN [call[d] EXCEPT !.pc = "created", !.row = r]
                                     ELSE [call[d] EXCEPT !.best = FALSE]]
  BY DEF AskCreates
<1>2. UNCHANGED <<consumed, attempts, opened, overlapped, crowded>>
  BY DEF AskCreates, history
<1>3. call'[c].pc = "created"
  <2>1. call'[c] = [call[c] EXCEPT !.pc = "created", !.row = r]
    BY <1>1
  <2> QED BY <1>0, <2>1 DEF CallRecords
<1>4. ASSUME NEW d \in Calls \ {c} PROVE Later(d)
  <2>1. call'[d] = [call[d] EXCEPT !.best = FALSE] /\ call[d] \in CallRecords
    BY <1>0, <1>1 DEF CallType, CallRecords
  <2>2. Near(d)
    BY <2>1 DEF CallRecords, Near
  <2> QED BY <2>2, NearIsLater
<1>5. \A d \in Calls : Later(d)
  BY <1>3, <1>4, OutOfTheWay
<1>6. /\ \A q : Holders(q)' \subseteq Holders(q) /\ Takers(q)' \subseteq Takers(q)
      /\ Allowed' \subseteq Allowed
  BY <1>5, SetsShrink
<1>7. Cardinality(Young') + Cardinality(Allowed') <= CodeLimit'
  <2>1. Young' \subseteq Young \cup {r}
    BY <1>1 DEF Young, LoginInv, TypeOK, CodeType
  <2>2. /\ IsFiniteSet(Young \cup {r}) /\ Cardinality(Young \cup {r}) <= Cardinality(Young) + 1
        /\ Cardinality(Young \cup {r}) \in Nat /\ Cardinality(Young) \in Nat
    BY SetsOfCalls, FS_AddElement, FS_CardinalityType
  <2>3. Cardinality(Young') \in Nat /\ Cardinality(Young') <= Cardinality(Young) + 1
    BY <2>1, <2>2, Sizes
  <2>4. c \in Allowed /\ Allowed' \subseteq Allowed \ {c}
    BY <1>0, <1>3, <1>6 DEF Allowed, At
  <2>5. Cardinality(Allowed') \in Nat /\ Cardinality(Allowed') + 1 <= Cardinality(Allowed)
        /\ Cardinality(Allowed) \in Nat
    BY <2>4, SetsOfCalls, Fewer
  <2>6. Cardinality(Young) + Cardinality(Allowed) <= CodeLimit /\ CodeLimit' = CodeLimit /\ CodeLimit \in Nat
    BY <1>2, Counted DEF CountInv, CodeLimit
  <2> QED BY <2>2, <2>3, <2>5, <2>6
<1>8. ASSUME NEW q \in Codes
      PROVE  /\ attempts'[q] + Cardinality(Holders(q)') <= GuessLimit(q)'
             /\ opened'[q] + Cardinality(Takers(q)') <= SessionLimit(q)'
             /\ q \notin consumed' => opened'[q] = 0
  BY <1>2, <1>6, GuessKept, SessionKept DEF CountInv
<1> QED BY <1>7, <1>8 DEF CountInv

LEMMA EnterFindsCounted ==
    ASSUME LoginInv, CountInv, NEW c \in Calls, EnterFinds(c) PROVE CountInv'
<1> DEFINE found == call[c].phone = "own" /\ Usable # {} /\ ~Locked(Latest(Usable))
<1>0. CallType /\ call[c] \in CallRecords /\ At(c, "enter", "sent")
  BY DEF LoginInv, TypeOK, CallType, CallRecords, EnterFinds
<1>1. UNCHANGED <<age, consumed, attempts, opened, crowded>> /\ Young' = Young
  BY DEF EnterFinds, codeVars, Young
<1>2. CASE ~found
  <2>1. Refused(c) /\ overlapped' = overlapped
    BY <1>2 DEF EnterFinds
  <2>2. \A d \in Calls : Later(d)
    BY <1>0, <2>1, RefusedType, SameIsLater, OutOfTheWay
  <2> QED BY <1>1, <2>1, <2>2, CountsShrink
<1>3. CASE found
  <2>2. PICK r \in Codes : r = Latest(Usable) /\ r \in Usable
    BY <1>3, LatestIs, CodesAreNumbers
  <2>1. /\ call' = [call EXCEPT ![c].pc = "found", ![c].row = r]
        /\ overlapped' = overlapped \cup {q \in {r} : \E d \in Calls : InHand(d, q)}
        /\ ~Locked(r)
    BY <1>3, <2>2 DEF EnterFinds
  <2>3. call'[c].pc = "found" /\ call'[c].kind = "enter" /\ call'[c].row = r
    <3>1. call'[c] = [call[c] EXCEPT !.pc = "found", !.row = r]
      BY <1>0, <2>1 DEF CallType
    <3> QED BY <1>0, <3>1 DEF CallRecords, At
  <2>4. \A d \in Calls \ {c} : call'[d] = call[d]
    BY <1>0, <2>1 DEF CallType
  <2>5. Allowed' \subseteq Allowed
    BY <2>3, <2>4 DEF Allowed, At
  <2>6. Cardinality(Young') + Cardinality(Allowed') <= CodeLimit'
    BY <1>1, <2>5, CodesKept
  <2>7. ASSUME NEW q \in Codes, q # r
        PROVE  /\ attempts'[q] + Cardinality(Holders(q)') <= GuessLimit(q)'
               /\ opened'[q] + Cardinality(Takers(q)') <= SessionLimit(q)'
    <3>1. Holders(q)' \subseteq Holders(q) /\ Takers(q)' \subseteq Takers(q)
      BY <2>3, <2>4, <2>7 DEF Holders, Takers, InHand, At
    <3> QED BY <1>1, <2>1, <3>1, GuessKept, SessionKept
  <2>8. /\ attempts'[r] + Cardinality(Holders(r)') <= GuessLimit(r)'
        /\ opened'[r] + Cardinality(Takers(r)') <= SessionLimit(r)'
    <3>1. attempts'[r] \in Nat /\ attempts'[r] + 1 <= MaxAttempts /\ MaxAttempts \in Nat
      BY <1>1, <2>1, <2>2, Bounds DEF Locked, LoginInv, TypeOK, CodeType
    <3>2. r \notin consumed /\ opened'[r] = 0
      BY <1>1, <2>2 DEF Usable, CountInv
    <3>3. Takers(r) = Holders(r) /\ Takers(r)' \subseteq Takers(r) \cup {c} /\ Holders(r)' \subseteq Holders(r) \cup {c}
      BY <2>3, <2>4, <3>2 DEF Takers, Holders, InHand, At, LoginInv, CallInv
    <3>4. CASE Holders(r) = {}
      <4>1. Takers(r)' \subseteq {c} /\ Holders(r)' \subseteq {c}
        BY <3>3, <3>4
      <4>2. /\ Cardinality(Takers(r)') \in Nat /\ Cardinality(Takers(r)') <= 1
            /\ Cardinality(Holders(r)') \in Nat /\ Cardinality(Holders(r)') <= 1
        BY <4>1, OneAtMost
      <4>3. /\ GuessLimit(r)' \in Nat /\ GuessLimit(r)' >= MaxAttempts
            /\ SessionLimit(r)' \in Nat /\ SessionLimit(r)' >= 1
        BY Counted, <3>1 DEF GuessLimit, SessionLimit
      <4> QED BY <3>1, <3>2, <4>2, <4>3
    <3>5. CASE Holders(r) # {}
      <4>1. r \in overlapped'
        BY <2>1, <3>5 DEF Holders
      <4>2. GuessLimit(r)' = MaxAttempts + Cardinality(Calls) - 1 /\ SessionLimit(r)' = Cardinality(Calls)
        BY <4>1 DEF GuessLimit, SessionLimit
      <4>3. Takers(r)' \subseteq Calls /\ Holders(r)' \subseteq Calls
        BY DEF Takers, Holders
      <4>4. /\ Cardinality(Takers(r)') \in Nat /\ Cardinality(Takers(r)') <= Cardinality(Calls)
            /\ Cardinality(Holders(r)') \in Nat /\ Cardinality(Holders(r)') <= Cardinality(Calls)
        BY <4>3, Counted, Sizes
      <4> QED BY <3>1, <3>2, <4>2, <4>4, Counted
    <3> QED BY <3>4, <3>5
  <2>9. \A q \in Codes : q \notin consumed' => opened'[q] = 0
    BY <1>1 DEF CountInv
  <2> QED BY <2>6, <2>7, <2>8, <2>9 DEF CountInv
<1> QED BY <1>2, <1>3

LEMMA EnterMissesCounted ==
    ASSUME LoginInv, CountInv, NEW c \in Calls, EnterMisses(c)
    PROVE  CountInv' /\ attempts[call[c].row] + 1 < MaxAttempts + Cardinality(Calls)
<1> DEFINE k == Bare(call[c], "failed")
<1>0. CallType /\ CallInv(c) /\ call[c] \in CallRecords /\ At(c, "enter", "found")
  BY DEF LoginInv, TypeOK, CallType, CallRecords, EnterMisses
<1>3. PICK r \in Codes : r = call[c].row
  BY <1>0, CodesAreNumbers DEF CallInv, At
<1>1. /\ UNCHANGED <<age, consumed, opened, overlapped, crowded>> /\ Young' = Young
      /\ attempts' = [attempts EXCEPT ![r] = @ + 1] /\ Spoil(c, r, k)
  BY <1>3 DEF EnterMisses, history, Young
<1>2. k \in CallRecords /\ k.pc = "failed"
  BY <1>0, BareType DEF Pcs
<1>4. c \in Holders(r)
  BY <1>0, <1>3 DEF Holders, InHand
<1> HIDE DEF k
<1>5. call'[c] = k /\ \A d \in Calls \ {c} : Near(d)
  BY <1>0, <1>1, <1>2, SpoilType
<1>6. \A d \in Calls : Later(d)
  BY <1>2, <1>5, NearIsLater, OutOfTheWay
<1>7. /\ \A q : Holders(q)' \subseteq Holders(q) /\ Takers(q)' \subseteq Takers(q)
      /\ Allowed' \subseteq Allowed
  BY <1>6, SetsShrink
<1>8. c \notin Holders(r)'
  BY <1>2, <1>5 DEF Holders, InHand, At
<1>9. /\ Cardinality(Holders(r)') \in Nat /\ Cardinality(Holders(r)') + 1 <= Cardinality(Holders(r))
      /\ Cardinality(Holders(r)) \in Nat
  BY <1>4, <1>7, <1>8, SetsOfCalls, Fewer
<1>10. attempts[r] \in Nat /\ attempts[r] + Cardinality(Holders(r)) <= GuessLimit(r)
  BY <1>3 DEF CountInv, LoginInv, TypeOK, CodeType
<1>11. /\ GuessLimit(r) \in Nat /\ GuessLimit(r) <= MaxAttempts + Cardinality(Calls) - 1
       /\ GuessLimit(r)' = GuessLimit(r)
  BY <1>1, Counted, Bounds DEF GuessLimit
<1>12. attempts[r] + 1 < MaxAttempts + Cardinality(Calls)
  BY <1>9, <1>10, <1>11, Counted, Bounds
<1>13. ASSUME NEW q \in Codes PROVE attempts'[q] + Cardinality(Holders(q)') <= GuessLimit(q)'
  <2>1. CASE q = r
    <3>1. attempts'[r] = attempts[r] + 1
      BY <1>1, <1>3 DEF LoginInv, TypeOK, CodeType
    <3> QED BY <2>1, <3>1, <1>9, <1>10, <1>11
  <2>2. CASE q # r
    <3>1. attempts'[q] = attempts[q]
      BY <1>1, <2>2 DEF LoginInv, TypeOK, CodeType
    <3> QED BY <1>1, <1>7, <3>1, GuessKept
  <2> QED BY <2>1, <2>2
<1>14. ASSUME NEW q \in Codes
       PROVE  opened'[q] + Cardinality(Takers(q)') <= SessionLimit(q)' /\ (q \notin consumed' => opened'[q] = 0)
  BY <1>1, <1>7, SessionKept DEF CountInv
<1>15. Cardinality(Young') + Cardinality(Allowed') <= CodeLimit'
  BY <1>1, <1>7, CodesKept
<1> QED BY <1>3, <1>12, <1>13, <1>14, <1>15 DEF CountInv

LEMMA EnterConsumesCounted ==
    ASSUME LoginInv, CountInv, NEW c \in Calls, EnterConsumes(c) PROVE CountInv'
<1> DEFINE r == call[c].row
           k == [call[c] EXCEPT !.pc = "consumed"]
<1>0. CallType /\ call[c] \in CallRecords /\ At(c, "enter", "found")
  BY DEF LoginInv, TypeOK, CallType, CallRecords, EnterConsumes
<1>1. /\ UNCHANGED <<age, attempts, opened, overlapped, crowded>> /\ Young' = Young
      /\ consumed' = consumed \cup {r} /\ Spoil(c, r, k)
  BY DEF EnterConsumes, history, Young
<1>2. k \in CallRecords /\ k.kind = "enter" /\ k.pc = "consumed" /\ k.row = r
  BY <1>0 DEF CallRecords, At
<1> HIDE DEF k
<1>3. call'[c] = k /\ \A d \in Calls \ {c} : Near(d)
  BY <1>0, <1>1, <1>2, SpoilType
<1>4. /\ \A q : Holders(q)' \subseteq Holders(q) /\ Takers(q)' \subseteq Takers(q)
      /\ Allowed' \subseteq Allowed
  BY <1>0, <1>2, <1>3 DEF Near, Holders, Takers, Allowed, InHand, At
<1>5. ASSUME NEW q \in Codes
      PROVE  /\ attempts'[q] + Cardinality(Holders(q)') <= GuessLimit(q)'
             /\ opened'[q] + Cardinality(Takers(q)') <= SessionLimit(q)'
             /\ q \notin consumed' => opened'[q] = 0
  BY <1>1, <1>4, GuessKept, SessionKept DEF CountInv
<1>6. Cardinality(Young') + Cardinality(Allowed') <= CodeLimit'
  BY <1>1, <1>4, CodesKept
<1> QED BY <1>5, <1>6 DEF CountInv

LEMMA EnterOpensCounted ==
    ASSUME LoginInv, CountInv, NEW c \in Calls, EnterOpens(c)
    PROVE  CountInv' /\ opened[call[c].row] < Cardinality(Calls)
<1>0. CallType /\ CallInv(c) /\ At(c, "enter", "consumed")
  BY DEF LoginInv, TypeOK, EnterOpens
<1>2. PICK r \in Codes : r = call[c].row /\ r \in consumed
  BY <1>0, CodesAreNumbers DEF CallInv, At
<1>1. /\ UNCHANGED <<age, consumed, attempts, overlapped, crowded>> /\ Young' = Young
      /\ opened' = [opened EXCEPT ![r] = @ + 1] /\ Goes(c, "opened")
  BY <1>2 DEF EnterOpens, history, Young
<1>3. c \in Takers(r)
  BY <1>0, <1>2 DEF Takers
<1>4. call'[c].pc = "opened" /\ \A d \in Calls \ {c} : call'[d] = call[d]
  BY <1>0, <1>1, GoesType DEF Pcs
<1>5. \A d \in Calls : Later(d)
  BY <1>4, SameIsLater, OutOfTheWay
<1>6. /\ \A q : Holders(q)' \subseteq Holders(q) /\ Takers(q)' \subseteq Takers(q)
      /\ Allowed' \subseteq Allowed
  BY <1>5, SetsShrink
<1>7. c \notin Takers(r)'
  BY <1>4 DEF Takers, At
<1>8. /\ Cardinality(Takers(r)') \in Nat /\ Cardinality(Takers(r)') + 1 <= Cardinality(Takers(r))
      /\ Cardinality(Takers(r)) \in Nat
  BY <1>3, <1>6, <1>7, SetsOfCalls, Fewer
<1>9. opened[r] \in Nat /\ opened[r] + Cardinality(Takers(r)) <= SessionLimit(r)
  BY <1>2 DEF CountInv, LoginInv, TypeOK, CodeType
<1>10. /\ SessionLimit(r) \in Nat /\ SessionLimit(r) <= Cardinality(Calls)
       /\ SessionLimit(r)' = SessionLimit(r)
  BY <1>1, Counted DEF SessionLimit
<1>11. opened[r] < Cardinality(Calls)
  BY <1>8, <1>9, <1>10, Counted
<1>12. ASSUME NEW q \in Codes
       PROVE  opened'[q] + Cardinality(Takers(q)') <= SessionLimit(q)' /\ (q \notin consumed' => opened'[q] = 0)
  <2>1. CASE q = r
    <3>1. opened'[r] = opened[r] + 1
      BY <1>1, <1>2 DEF LoginInv, TypeOK, CodeType
    <3>2. r \in consumed'
      BY <1>1, <1>2
    <3> QED BY <2>1, <3>1, <3>2, <1>8, <1>9, <1>10
  <2>2. CASE q # r
    <3>1. opened'[q] = opened[q]
      BY <1>1, <2>2 DEF LoginInv, TypeOK, CodeType
    <3> QED BY <1>1, <1>6, <3>1, SessionKept DEF CountInv
  <2> QED BY <2>1, <2>2
<1>13. ASSUME NEW q \in Codes PROVE attempts'[q] + Cardinality(Holders(q)') <= GuessLimit(q)'
  BY <1>1, <1>6, GuessKept
<1>14. Cardinality(Young') + Cardinality(Allowed') <= CodeLimit'
  BY <1>1, <1>6, CodesKept
<1> QED BY <1>2, <1>11, <1>12, <1>13, <1>14 DEF CountInv

LEMMA CountPreserved == LoginInv /\ CountInv /\ [Next]_vars => CountInv'
<1> SUFFICES ASSUME LoginInv, CountInv, [Next]_vars PROVE CountInv'
  OBVIOUS
<1>1. ASSUME NEW c \in Calls, AskStep(c) \/ EnterStep(c) \/ FormStep(c) \/ Throttled(c) \/ StepFails(c)
             \/ CallLost(c) \/ AskCode(c) \/ \E t \in Codes \cup {0} : EnterCode(c, t)
      PROVE  CountInv'
  <2>1. CASE \/ NoAccount(c) \/ AskTexts(c) \/ CodeSent(c) \/ Fails(c) \/ DropAnswer(c)
             \/ SignsIn(c) \/ ConsentPosted(c) \/ Throttled(c) \/ StepFails(c) \/ CallLost(c)
             \/ AskCode(c) \/ (\E t \in Codes \cup {0} : EnterCode(c, t)) \/ EnterEnds(c)
    <3>1. /\ \A d \in Calls : Later(d)
          /\ UNCHANGED <<age, consumed, attempts, opened, overlapped, crowded>>
      BY <2>1, QuietSteps
    <3> QED BY <3>1, CountsShrink DEF Young
  <2> QED BY <1>1, <2>1, AskLimitsCounted, AskCreatesCounted, EnterFindsCounted, EnterMissesCounted,
             EnterConsumesCounted, EnterOpensCounted DEF AskStep, EnterStep, FormStep
<1>2. CASE (\E r \in Codes : Ages(r) \/ SmsArrives(r)) \/ EditPhone \/ GoBack \/ Logout \/ Restart \/ UNCHANGED vars
  BY <1>2, OtherQuietSteps, CountsShrink
<1> QED BY <1>1, <1>2 DEF Next

LEMMA InitCounted == Init => CountInv
<1> SUFFICES ASSUME Init PROVE CountInv
  OBVIOUS
<1>1. \A d \in Calls : call[d].pc = "idle"
  BY IdleType DEF Init
<1>2. Young = {} /\ Allowed = {} /\ \A r : Holders(r) = {} /\ Takers(r) = {}
  BY <1>1 DEF Init, Young, Allowed, Holders, Takers, InHand, At
<1>3. \A r \in Codes : attempts[r] = 0 /\ opened[r] = 0 /\ overlapped = {} /\ ~crowded
  BY DEF Init
<1>4. Cardinality(Young) = 0 /\ Cardinality(Allowed) = 0 /\ CodeLimit = 1
  BY <1>2, FS_EmptySet DEF Init, CodeLimit
<1>5. \A r \in Codes : Cardinality(Holders(r)) = 0 /\ Cardinality(Takers(r)) = 0
  BY <1>2, FS_EmptySet
<1>6. \A r \in Codes : GuessLimit(r) = MaxAttempts /\ SessionLimit(r) = 1
  BY <1>3 DEF GuessLimit, SessionLimit
<1> QED BY <1>3, <1>4, <1>5, <1>6, Bounds DEF CountInv

LEMMA SpecInv == Spec => [](LoginInv /\ CountInv)
BY InitInv, InitCounted, Preserved, CountPreserved, PTL DEF Spec

\* However requests interleave, a code takes at most MaxAttempts wrong guesses and one for each
\* other verification that had it in hand at the same time.
THEOREM GuessesLimited == Spec => []GuessesBounded
<1>1. LoginInv /\ CountInv => GuessesBounded
  <2> SUFFICES ASSUME LoginInv, CountInv, NEW r \in Codes PROVE attempts[r] <= GuessLimit(r)
    BY DEF GuessesBounded, GuessLimit
  <2>1. attempts[r] \in Nat /\ attempts[r] + Cardinality(Holders(r)) <= GuessLimit(r)
    BY DEF CountInv, LoginInv, TypeOK, CodeType
  <2>2. Cardinality(Holders(r)) \in Nat /\ GuessLimit(r) \in Nat
    BY SetsOfCalls, Counted, Bounds DEF GuessLimit
  <2> QED BY <2>1, <2>2
<1> QED BY SpecInv, <1>1, PTL

\* A code opens one session, or one for each verification that had it in hand together.
THEOREM SessionsLimited == Spec => []OneSessionPerCode
<1>1. LoginInv /\ CountInv => OneSessionPerCode
  <2> SUFFICES ASSUME LoginInv, CountInv, NEW r \in Codes PROVE opened[r] <= SessionLimit(r)
    BY DEF OneSessionPerCode, SessionLimit
  <2>1. opened[r] \in Nat /\ opened[r] + Cardinality(Takers(r)) <= SessionLimit(r)
    BY DEF CountInv, LoginInv, TypeOK, CodeType
  <2>2. Cardinality(Takers(r)) \in Nat /\ SessionLimit(r) \in Nat
    BY SetsOfCalls, Counted DEF SessionLimit
  <2> QED BY <2>1, <2>2
<1> QED BY SpecInv, <1>1, PTL

\* One code a minute is made, unless requests passed the rate limit together.
THEOREM CodesLimited == Spec => []OneCodeAMinute
<1>1. LoginInv /\ CountInv => OneCodeAMinute
  <2> SUFFICES ASSUME LoginInv, CountInv PROVE Cardinality(Young) <= CodeLimit
    BY DEF OneCodeAMinute, CodeLimit
  <2>1. Cardinality(Young) + Cardinality(Allowed) <= CodeLimit
    BY DEF CountInv
  <2>2. Cardinality(Young) \in Nat /\ Cardinality(Allowed) \in Nat /\ CodeLimit \in Nat
    BY SetsOfCalls, Counted DEF CodeLimit
  <2> QED BY <2>1, <2>2
<1> QED BY SpecInv, <1>1, PTL

-----------------------------------------------------------------------------
(* The sessions that the codes open *)

Verifying(d) == call[d].kind = "enter" /\ call[d].pc # "idle"

\* While nothing was lost, at most one verification is under way, its form waits for it and
\* the device has no session but the one it stored a moment ago; a session that a code opened
\* is the device's, or is in that verification's answer.
VisitInv ==
    /\ \A d, e \in Calls : Verifying(d) /\ Verifying(e) => d = e
    /\ \A d \in Calls : Verifying(d) => call[d].waits /\ ~signedIn
    /\ \A d \in Calls : call[d].pc = "consent" => call[d].kind = "enter"
    /\ stored # 0 => signedIn \/ \E d \in Calls : Verifying(d) /\ call[d].pc = "consent"
    /\ \A r \in Codes :
          opened[r] > 0 => opened[r] = 1 /\ (stored = r \/ \E d \in Calls : Answers(d, r))

\* A step starts no verification, and ends none that has something for the device.
Keeps(d) ==
    /\ Verifying(d)' => Verifying(d) /\ call'[d].waits = call[d].waits
    /\ Verifying(d) /\ call[d].pc = "consent" => Verifying(d)' /\ call'[d].pc = "consent"
    /\ \A r \in Codes : Answers(d, r) => Answers(d, r)'
    /\ call'[d].pc = "consent" => call[d].pc = "consent" /\ call'[d].kind = call[d].kind

LEMMA SameKeeps ==
    ASSUME NEW d, call'[d].kind = call[d].kind, call'[d].waits = call[d].waits,
           call'[d].row = call[d].row, call'[d].pc = call[d].pc
    PROVE  Keeps(d)
BY DEF Keeps, Verifying, Answers

LEMMA AskKeeps ==
    ASSUME NEW d, call'[d].kind = "ask", call'[d].pc # "consent",
           call[d].kind = "ask" \/ call[d].pc \notin {"opened", "ok", "consent"}
    PROVE  Keeps(d)
BY DEF Keeps, Verifying, Answers

LEMMA OneKeeps ==
    ASSUME NEW c \in Calls, Keeps(c), \A d \in Calls \ {c} : call'[d] = call[d]
    PROVE  \A d \in Calls : Keeps(d)
BY SameKeeps

\* The frame of every step that opens no session and lets nobody in.
LEMMA VisitFrame ==
    ASSUME VisitInv, \A d \in Calls : Keeps(d), UNCHANGED <<opened, stored, signedIn>>
    PROVE  VisitInv'
<1>1. \A d \in Calls : Verifying(d)' => Verifying(d) /\ call'[d].waits = call[d].waits
  BY DEF Keeps
<1>2. \A d, e \in Calls : Verifying(d)' /\ Verifying(e)' => d = e
  BY <1>1 DEF VisitInv
<1>3. \A d \in Calls : Verifying(d)' => call'[d].waits /\ ~signedIn'
  BY <1>1 DEF VisitInv
<1>4. stored' # 0 => signedIn' \/ \E d \in Calls : Verifying(d)' /\ call'[d].pc = "consent"
  BY DEF VisitInv, Keeps
<1>5. \A r \in Codes :
        opened'[r] > 0 => opened'[r] = 1 /\ (stored' = r \/ \E d \in Calls : Answers(d, r)')
  BY DEF VisitInv, Keeps
<1>6. \A d \in Calls : call'[d].pc = "consent" => call'[d].kind = "enter"
  BY DEF VisitInv, Keeps
<1> QED BY <1>2, <1>3, <1>4, <1>5, <1>6 DEF VisitInv

\* The parts of a record that these lemmas need besides those of GoesType and SpoilType.
LEMMA GoesKeeps ==
    ASSUME CallType, NEW c \in Calls, NEW pc \in Pcs, Goes(c, pc)
    PROVE  call'[c].waits = call[c].waits
<1>1. call[c] \in CallRecords /\ call'[c] = [call[c] EXCEPT !.pc = pc]
  BY GoesType DEF CallType, CallRecords
<1> QED BY <1>1 DEF CallRecords

LEMMA SpoilKeeps ==
    ASSUME CallType, NEW c \in Calls, NEW r, NEW k \in CallRecords, Spoil(c, r, k)
    PROVE  \A d \in Calls \ {c} : Keeps(d)
<1> SUFFICES ASSUME NEW d \in Calls \ {c} PROVE Keeps(d)
  OBVIOUS
<1>1. call[d] \in CallRecords
  BY DEF CallType, CallRecords
<1>2. call'[d] = [call[d] EXCEPT !.best = @ /\ call[d].typed # r]
  BY DEF Spoil
<1>3. call'[d] = [call[d] EXCEPT !.best = (call[d].best /\ call[d].typed # r)]
  BY <1>1, <1>2
<1>4. /\ call'[d].kind = call[d].kind /\ call'[d].waits = call[d].waits
      /\ call'[d].row = call[d].row /\ call'[d].pc = call[d].pc
  BY <1>1, <1>3 DEF CallRecords
<1> QED BY <1>4, SameKeeps

\* The requests for a code, the refusals and the answers that let nobody in.
LEMMA AskVisit ==
    ASSUME LoginInv, VisitInv, NEW c \in Calls,
           \/ AskLimits(c) \/ NoAccount(c) \/ AskTexts(c) \/ CodeSent(c) \/ Fails(c)
           \/ DropAnswer(c) \/ Throttled(c) \/ AskCode(c)
    PROVE  VisitInv'
<1>0. CallType /\ call[c] \in CallRecords /\ form.phone \in {"own", "typo"}
  BY DEF LoginInv, TypeOK, CallType, CallRecords, DeviceType
<1>1. UNCHANGED <<opened, stored, signedIn>>
  BY DEF AskLimits, NoAccount, AskTexts, CodeSent, Fails, DropAnswer, Throttled, AskCode, codeVars, deviceVars
<1>2. call[c].kind = "ask" \/ call[c].pc \notin {"opened", "ok", "consent"}
  <2>1. CASE AskLimits(c) \/ NoAccount(c) \/ AskTexts(c) \/ CodeSent(c)
    BY <2>1 DEF AskLimits, NoAccount, AskTexts, CodeSent, At
  <2>2. CASE Fails(c) \/ Throttled(c) \/ AskCode(c)
    BY <2>2 DEF Fails, Throttled, AskCode, Idle
  <2>3. CASE DropAnswer(c)
    <3>1. ~Verifying(c) /\ call[c].pc # "idle"
      BY <2>3 DEF DropAnswer, VisitInv
    <3> QED BY <1>0, <3>1 DEF Verifying, CallRecords
  <2> QED BY <2>1, <2>2, <2>3
<1>3. call'[c].kind = "ask" /\ call'[c].pc # "consent" /\ \A d \in Calls \ {c} : call'[d] = call[d]
  <2>1. CASE AskLimits(c) \/ NoAccount(c)
    <3>1. call[c].kind = "ask" /\ (Refused(c) \/ Goes(c, "allowed"))
      BY <2>1 DEF AskLimits, NoAccount, At
    <3> QED BY <1>0, <3>1, RefusedType, GoesType DEF Pcs
  <2>2. CASE AskTexts(c)
    <3>1. call' = [call EXCEPT ![c] = Bare(call[c], "ok")]
      BY <2>2 DEF AskTexts
    <3>2. Bare(call[c], "ok") \in CallRecords /\ Bare(call[c], "ok").kind = "ask" /\ Bare(call[c], "ok").pc = "ok"
      BY <1>0, BareType DEF Pcs
    <3> QED BY <1>0, <3>1, <3>2, SetCall
  <2>3. CASE CodeSent(c) \/ Fails(c) \/ DropAnswer(c)
    <3>1. call' = [call EXCEPT ![c] = IdleCall]
      BY <2>3 DEF CodeSent, Fails, DropAnswer
    <3> QED BY <1>0, <3>1, IdleType, SetCall
  <2>4. CASE Throttled(c)
    <3> DEFINE k == [Bare(call[c], "failed") EXCEPT !.best = FALSE]
    <3>1. /\ Bare(call[c], "failed") \in CallRecords
          /\ Bare(call[c], "failed").kind = "ask" /\ Bare(call[c], "failed").pc = "failed"
      BY <1>0, BareType DEF Pcs
    <3>2. k \in CallRecords /\ k.kind = "ask" /\ k.pc = "failed"
      BY <3>1 DEF CallRecords
    <3>3. call' = [call EXCEPT ![c] = k]
      BY <2>4 DEF Throttled
    <3> HIDE DEF k
    <3> QED BY <1>0, <3>2, <3>3, SetCall
  <2>5. CASE AskCode(c)
    <3> DEFINE k == [IdleCall EXCEPT !.pc = "sent", !.phone = form.phone, !.waits = TRUE]
    <3>1. k \in CallRecords /\ k.kind = "ask" /\ k.pc = "sent"
      BY <1>0 DEF CallRecords, IdleCall
    <3>2. call' = [call EXCEPT ![c] = k]
      BY <2>5 DEF AskCode
    <3> HIDE DEF k
    <3> QED BY <1>0, <3>1, <3>2, SetCall
  <2> QED BY <2>1, <2>2, <2>3, <2>4, <2>5
<1> QED BY <1>1, <1>2, <1>3, AskKeeps, OneKeeps, VisitFrame

\* A new row, and a code that ages, change no request in what matters here.
LEMMA CodesVisit ==
    ASSUME LoginInv, VisitInv, (\E c \in Calls : AskCreates(c)) \/ (\E r \in Codes : Ages(r))
    PROVE  VisitInv'
<1>0. \A d \in Calls : call[d] \in CallRecords
  BY DEF LoginInv, TypeOK, CallType, CallRecords
<1>1. UNCHANGED <<opened, stored, signedIn>>
  BY DEF AskCreates, Ages, deviceVars
<1>2. ASSUME NEW c \in Calls, AskCreates(c), NEW d \in Calls PROVE Keeps(d)
  <2>1. PICK r \in Codes :
          call' = [e \in Calls |-> IF e = c THEN [call[e] EXCEPT !.pc = "created", !.row = r]
                                   ELSE [call[e] EXCEPT !.best = FALSE]]
    BY <1>2 DEF AskCreates
  <2>2. CASE d = c
    <3>1. call[d].kind = "ask" /\ call'[d] = [call[d] EXCEPT !.pc = "created", !.row = r]
      BY <1>2, <2>1, <2>2 DEF AskCreates, At
    <3>2. call'[d].kind = "ask" /\ call'[d].pc # "consent"
      BY <1>0, <3>1 DEF CallRecords
    <3> QED BY <3>1, <3>2, AskKeeps
  <2>3. CASE d # c
    <3>1. call'[d] = [call[d] EXCEPT !.best = FALSE]
      BY <2>1, <2>3
    <3>2. /\ call'[d].kind = call[d].kind /\ call'[d].waits = call[d].waits
          /\ call'[d].row = call[d].row /\ call'[d].pc = call[d].pc
      BY <1>0, <3>1 DEF CallRecords
    <3> QED BY <3>2, SameKeeps
  <2> QED BY <2>2, <2>3
<1>3. ASSUME NEW r \in Codes, Ages(r), NEW d \in Calls PROVE Keeps(d)
  <2>1. call'[d] = [call[d] EXCEPT !.best = (call[d].best /\ (call[d].typed # r \/ age[r] = "young"))]
    BY <1>0, <1>3 DEF Ages
  <2>2. /\ call'[d].kind = call[d].kind /\ call'[d].waits = call[d].waits
        /\ call'[d].row = call[d].row /\ call'[d].pc = call[d].pc
    BY <1>0, <2>1 DEF CallRecords
  <2> QED BY <2>2, SameKeeps
<1> QED BY <1>1, <1>2, <1>3, VisitFrame

\* The steps of a verification before it opens a session, and the end of its answer.
LEMMA EnterVisit ==
    ASSUME LoginInv, VisitInv, NEW c \in Calls,
           EnterFinds(c) \/ EnterMisses(c) \/ EnterConsumes(c) \/ EnterEnds(c)
    PROVE  VisitInv'
<1>0. CallType /\ call[c] \in CallRecords
  BY DEF LoginInv, TypeOK, CallType, CallRecords
<1>1. UNCHANGED <<opened, stored, signedIn>>
  BY DEF EnterFinds, EnterMisses, EnterConsumes, EnterEnds, codeVars, deviceVars
<1>2. \A d \in Calls : Keeps(d)
  <2>1. CASE EnterFinds(c)
    <3>1. call[c].kind = "enter" /\ call[c].pc = "sent"
      BY <2>1 DEF EnterFinds, At
    <3>2. CASE Refused(c)
      BY <1>0, <3>1, <3>2, RefusedType, AskKeeps, OneKeeps
    <3>3. CASE ~Refused(c)
      <4>1. call' = [call EXCEPT ![c].pc = "found", ![c].row = Latest(Usable)]
        BY <2>1, <3>3 DEF EnterFinds
      <4>2. call'[c] = [call[c] EXCEPT !.pc = "found", !.row = Latest(Usable)]
        BY <1>0, <4>1 DEF CallType
      <4>3. call'[c].kind = "enter" /\ call'[c].pc = "found" /\ call'[c].waits = call[c].waits
        BY <1>0, <3>1, <4>2 DEF CallRecords
      <4>4. \A d \in Calls \ {c} : call'[d] = call[d]
        BY <1>0, <4>1 DEF CallType
      <4>5. Keeps(c)
        BY <3>1, <4>3 DEF Keeps, Verifying, Answers
      <4> QED BY <4>4, <4>5, OneKeeps
    <3> QED BY <3>2, <3>3
  <2>2. CASE EnterMisses(c)
    <3> DEFINE k == Bare(call[c], "failed")
    <3>1. k \in CallRecords /\ k.kind = "ask" /\ k.pc = "failed"
      BY <1>0, BareType DEF Pcs
    <3>2. Spoil(c, call[c].row, k) /\ call[c].pc = "found"
      BY <2>2 DEF EnterMisses, At
    <3> HIDE DEF k
    <3>3. call'[c] = k /\ \A d \in Calls \ {c} : Keeps(d)
      BY <1>0, <3>1, <3>2, SpoilType, SpoilKeeps
    <3>4. Keeps(c)
      BY <3>1, <3>2, <3>3, AskKeeps
    <3> QED BY <3>3, <3>4
  <2>3. CASE EnterConsumes(c)
    <3> DEFINE k == [call[c] EXCEPT !.pc = "consumed"]
    <3>1. k \in CallRecords /\ k.kind = call[c].kind /\ k.pc = "consumed" /\ k.waits = call[c].waits
      BY <1>0 DEF CallRecords
    <3>2. Spoil(c, call[c].row, k) /\ call[c].pc = "found"
      BY <2>3 DEF EnterConsumes, At
    <3> HIDE DEF k
    <3>3. call'[c] = k /\ \A d \in Calls \ {c} : Keeps(d)
      BY <1>0, <3>1, <3>2, SpoilType, SpoilKeeps
    <3>4. Keeps(c)
      BY <3>1, <3>2, <3>3 DEF Keeps, Verifying, Answers
    <3> QED BY <3>3, <3>4
  <2>4. CASE EnterEnds(c)
    <3>1. call[c].kind = "enter" /\ call[c].pc = "opened" /\ Goes(c, "ok")
      BY <2>4 DEF EnterEnds, At
    <3>2. /\ call'[c].pc = "ok" /\ call'[c].kind = call[c].kind /\ call'[c].row = call[c].row
          /\ call'[c].waits = call[c].waits /\ \A d \in Calls \ {c} : call'[d] = call[d]
      BY <1>0, <3>1, GoesType, GoesKeeps DEF Pcs
    <3>3. Keeps(c)
      BY <3>1, <3>2 DEF Keeps, Verifying, Answers
    <3> QED BY <3>2, <3>3, OneKeeps
  <2> QED BY <2>1, <2>2, <2>3, <2>4
<1> QED BY <1>1, <1>2, VisitFrame

\* The device has no tokens when a verification opens its session.
LEMMA EnterOpensVisit ==
    ASSUME LoginInv, VisitInv, NEW c \in Calls, EnterOpens(c) PROVE VisitInv'
<1>0. CallType /\ Verifying(c) /\ call[c].kind = "enter" /\ call[c].pc = "consumed"
  BY DEF LoginInv, TypeOK, EnterOpens, At, Verifying
<1>1. PICK r \in Codes : r = call[c].row
  BY <1>0, CodesAreNumbers DEF LoginInv, CallInv
<1>2. /\ opened' = [opened EXCEPT ![r] = @ + 1] /\ UNCHANGED <<stored, signedIn>>
      /\ opened \in [Codes -> Nat]
  BY <1>1 DEF EnterOpens, deviceVars, LoginInv, TypeOK, CodeType
<1>3. /\ call'[c].pc = "opened" /\ call'[c].kind = "enter" /\ call'[c].row = r
      /\ call'[c].waits = call[c].waits
      /\ \A d \in Calls \ {c} : call'[d] = call[d]
  BY <1>0, <1>1, GoesType, GoesKeeps DEF EnterOpens, Pcs
<1>4. /\ ~signedIn /\ call[c].waits /\ stored = 0
      /\ \A q \in Codes, d \in Calls : ~Answers(d, q)
  BY <1>0 DEF VisitInv, Verifying, Answers
<1>5. \A q \in Codes : opened[q] = 0
  <2>1. ASSUME NEW q \in Codes, opened[q] > 0 PROVE FALSE
    <3>1. stored = q
      BY <1>4, <2>1 DEF VisitInv
    <3> QED BY <1>4, <3>1, CodesAreNumbers
  <2> QED BY <1>2, <2>1
<1>6. Answers(c, r)' /\ opened'[r] = 1 /\ \A q \in Codes \ {r} : opened'[q] = 0
  BY <1>2, <1>3, <1>4, <1>5 DEF Answers
<1>7. \A d \in Calls : Verifying(d)' => d = c
  BY <1>0, <1>3 DEF VisitInv, Verifying
<1>8. \A d \in Calls : call'[d].pc = "consent" => call'[d].kind = "enter"
  BY <1>3 DEF VisitInv
<1> QED BY <1>2, <1>3, <1>4, <1>6, <1>7, <1>8 DEF VisitInv

LEMMA SignsInVisit ==
    ASSUME LoginInv, VisitInv, NEW c \in Calls, SignsIn(c) PROVE VisitInv'
<1>0. CallType /\ Verifying(c) /\ call[c].kind = "enter" /\ call[c].pc = "ok" /\ call[c].waits
  BY DEF LoginInv, TypeOK, SignsIn, At, Verifying
<1>1. PICK r \in Codes : r = call[c].row
  BY <1>0, CodesAreNumbers DEF LoginInv, CallInv
<1>2. opened' = opened /\ stored' = r
  BY <1>1 DEF SignsIn, codeVars
<1>3. ~signedIn /\ stored = 0 /\ \A d \in Calls : Verifying(d) => d = c
  BY <1>0 DEF VisitInv, Verifying
<1>4. \A q \in Codes : opened[q] > 0 => opened[q] = 1 /\ q = r
  <2>1. ASSUME NEW q \in Codes, opened[q] > 0 PROVE opened[q] = 1 /\ q = r
    <3>1. stored # q
      BY <1>3, CodesAreNumbers
    <3>2. PICK d \in Calls : Answers(d, q)
      BY <2>1, <3>1 DEF VisitInv
    <3>3. d = c
      BY <1>3, <3>2 DEF Answers, Verifying
    <3> QED BY <1>1, <2>1, <3>2, <3>3 DEF VisitInv, Answers
  <2> QED BY <2>1
<1>5. CASE call' = [call EXCEPT ![c] = IdleCall] /\ signedIn' = TRUE
  <2>1. call'[c] = IdleCall /\ \A d \in Calls \ {c} : call'[d] = call[d]
    BY <1>0, <1>5, IdleType, SetCall
  <2>2. \A d \in Calls : ~Verifying(d)'
    BY <1>3, <2>1, IdleType DEF Verifying
  <2>3. \A d \in Calls : call'[d].pc = "consent" => call'[d].kind = "enter"
    BY <2>1, IdleType DEF VisitInv
  <2> QED BY <1>2, <1>4, <1>5, <2>2, <2>3 DEF VisitInv
<1>6. CASE Goes(c, "consent") /\ signedIn' = signedIn
  <2>1. /\ call'[c].pc = "consent" /\ call'[c].kind = "enter" /\ call'[c].waits
        /\ \A d \in Calls \ {c} : call'[d] = call[d]
    BY <1>0, <1>6, GoesType, GoesKeeps DEF Pcs
  <2>2. Verifying(c)' /\ \A d \in Calls : Verifying(d)' => d = c
    BY <1>3, <2>1 DEF Verifying
  <2> QED BY <1>2, <1>3, <1>4, <1>6, <2>1, <2>2 DEF VisitInv
<1> QED BY <1>5, <1>6 DEF SignsIn

LEMMA ConsentVisit ==
    ASSUME LoginInv, VisitInv, NEW c \in Calls, ConsentPosted(c) PROVE VisitInv'
<1>0. CallType /\ call[c].pc = "consent" /\ call' = [call EXCEPT ![c] = IdleCall]
  BY DEF LoginInv, TypeOK, ConsentPosted
<1>1. UNCHANGED <<opened, stored>> /\ signedIn' = TRUE
  BY DEF ConsentPosted, codeVars
<1>2. call'[c] = IdleCall /\ \A d \in Calls \ {c} : call'[d] = call[d]
  BY <1>0, IdleType, SetCall
<1>3. call[c].kind = "enter"
  BY <1>0 DEF VisitInv
<1>4. Verifying(c) /\ \A d \in Calls : Verifying(d) => d = c
  BY <1>0, <1>3 DEF VisitInv, Verifying
<1>5. \A d \in Calls : ~Verifying(d)'
  BY <1>2, <1>4, IdleType DEF Verifying
<1>6. \A r \in Codes, d \in Calls : Answers(d, r) => Answers(d, r)'
  BY <1>0, <1>2 DEF Answers
<1>7. \A d \in Calls : call'[d].pc = "consent" => call'[d].kind = "enter"
  BY <1>2, IdleType DEF VisitInv
<1> QED BY <1>1, <1>5, <1>6, <1>7 DEF VisitInv

\* A code is sent when no verification is under way.
LEMMA EnterCodeVisit ==
    ASSUME LoginInv, VisitInv, NEW c \in Calls, NEW t \in Codes \cup {0}, EnterCode(c, t), ~excused'
    PROVE  VisitInv'
<1>0. CallType /\ form.phone \in {"own", "typo"} /\ call[c].pc = "idle"
  BY DEF LoginInv, TypeOK, DeviceType, EnterCode, Idle
<1>1. Alone /\ ~signedIn /\ UNCHANGED <<opened, stored, signedIn>>
  BY DEF EnterCode, Taps, codeVars
<1>2. call'[c].kind = "enter" /\ call'[c].pc = "sent" /\ call'[c].waits /\ \A d \in Calls \ {c} : call'[d] = call[d]
  <2> DEFINE k == [IdleCall EXCEPT !.pc = "sent", !.kind = "enter",
                     !.phone = form.phone, !.typed = t, !.waits = TRUE, !.best = Best(t)]
  <2>1. k \in CallRecords /\ k.kind = "enter" /\ k.pc = "sent" /\ k.waits
    BY <1>0 DEF CallRecords, IdleCall, Best
  <2>2. call' = [call EXCEPT ![c] = k]
    BY DEF EnterCode
  <2> HIDE DEF k
  <2> QED BY <1>0, <2>1, <2>2, SetCall
<1>3. \A d \in Calls : ~Verifying(d) /\ (Verifying(d)' => d = c)
  BY <1>1, <1>2 DEF Alone, Idle, Verifying
<1>4. stored = 0 /\ \A r \in Codes : ~(opened[r] > 0)
  <2>1. stored = 0
    BY <1>1, <1>3 DEF VisitInv
  <2>2. ASSUME NEW r \in Codes, opened[r] > 0 PROVE FALSE
    <3>1. stored # r
      BY <2>1, CodesAreNumbers
    <3>2. PICK d \in Calls : Answers(d, r)
      BY <2>2, <3>1 DEF VisitInv
    <3> QED BY <1>3, <3>2 DEF Answers, Verifying
  <2> QED BY <2>1, <2>2
<1> QED BY <1>1, <1>2, <1>3, <1>4 DEF VisitInv

\* A restart that loses no answer finds no verification under way.
LEMMA RestartVisit ==
    ASSUME LoginInv, VisitInv, Restart, ~excused' PROVE VisitInv'
<1>1. /\ \A d \in Calls : ~call[d].waits /\ call[d] \in CallRecords
      /\ UNCHANGED <<opened, stored>> /\ signedIn' = (stored # 0)
  BY DEF Restart, codeVars, LoginInv, TypeOK, CallType, CallRecords
<1>2. \A d \in Calls : call'[d].pc = call[d].pc /\ call'[d].kind = call[d].kind
  BY <1>1, OrphanType DEF Restart
<1>3. \A d \in Calls : ~Verifying(d) /\ ~Verifying(d)' /\ \A r \in Codes : ~Answers(d, r)
  BY <1>1, <1>2 DEF VisitInv, Verifying, Answers
<1> QED BY <1>1, <1>2, <1>3 DEF VisitInv

LEMMA VisitPreserved == LoginInv /\ (~excused => VisitInv) /\ [Next]_vars => (~excused => VisitInv)'
<1> SUFFICES ASSUME LoginInv, ~excused => VisitInv, [Next]_vars, ~excused' PROVE VisitInv'
  OBVIOUS
<1>1. ~(\E c \in Calls : StepFails(c) \/ CallLost(c)) /\ ~Logout
  BY DEF StepFails, CallLost, Logout
<1>2. ASSUME excused PROVE FALSE
  <2>1. excused' = excused \/ excused' = TRUE
    BY <1>2 DEF Next, AskStep, EnterStep, FormStep, AskLimits, NoAccount, AskCreates, AskTexts, EnterFinds,
       EnterMisses, EnterConsumes, EnterOpens, EnterEnds, CodeSent, Fails, SignsIn, ConsentPosted, DropAnswer,
       Throttled, StepFails, CallLost, AskCode, EnterCode, Ages, SmsArrives, EditPhone, GoBack, Logout,
       Restart, history, vars
  <2> QED BY <1>2, <2>1
<1>3. VisitInv
  BY <1>2
<1>4. ASSUME NEW c \in Calls, AskStep(c) \/ EnterStep(c) \/ FormStep(c) PROVE VisitInv'
  BY <1>3, <1>4, AskVisit, CodesVisit, EnterVisit, EnterOpensVisit, SignsInVisit, ConsentVisit
  DEF AskStep, EnterStep, FormStep
<1>5. CASE (\E r \in Codes : SmsArrives(r)) \/ EditPhone \/ GoBack \/ UNCHANGED vars
  <2>1. call' = call /\ UNCHANGED <<opened, stored, signedIn>>
    BY <1>5 DEF SmsArrives, EditPhone, GoBack, vars, codeVars, deviceVars
  <2> QED BY <1>3, <2>1, SameKeeps, VisitFrame
<1> QED BY <1>1, <1>3, <1>4, <1>5, AskVisit, CodesVisit, EnterCodeVisit, RestartVisit DEF Next

LEMMA InitVisit == Init => VisitInv
BY IdleType DEF Init, VisitInv, Verifying

\* No session is left behind: while no answer was lost, no step failed, the user did not sign
\* out and verifications came one at a time, each session a code opened is that of the device's
\* tokens or is in the answer under way.
THEOREM NoSessionLost == Spec => []SessionsAccounted
<1>1. LoginInv /\ (~excused => VisitInv) => SessionsAccounted
  <2> SUFFICES ASSUME LoginInv, VisitInv, NEW r \in Codes
               PROVE  opened[r] <= (IF stored = r THEN 1 ELSE 0)
                                   + Cardinality({c \in Calls : Answers(c, r)})
    BY DEF SessionsAccounted
  <2> DEFINE A == {c \in Calls : Answers(c, r)}
  <2>1. IsFiniteSet(A) /\ Cardinality(A) \in Nat /\ opened[r] \in Nat
    BY Counted, FS_Subset, FS_CardinalityType DEF LoginInv, TypeOK, CodeType
  <2>2. CASE stored = r \/ opened[r] = 0
    BY <2>1, <2>2 DEF VisitInv
  <2>3. CASE stored # r /\ opened[r] > 0
    <3>1. A # {} /\ opened[r] = 1
      BY <2>3 DEF VisitInv
    <3>2. Cardinality(A) # 0
      BY <2>1, <3>1, FS_EmptySet
    <3> QED BY <2>1, <2>3, <3>1, <3>2
  <2> QED BY <2>1, <2>2, <2>3
<1>2. Init => (~excused => VisitInv)
  BY InitVisit
<1> QED BY InitInv, Preserved, <1>1, <1>2, VisitPreserved, PTL DEF Spec

-----------------------------------------------------------------------------
(* The endpoints implement the promise of OneTimeCode *)

LEMMA SameState ==
    ASSUME consumed' = consumed, Issued' = Issued PROVE CodeState' = CodeState
<1>1. ASSUME NEW r \in Codes PROVE age'[r] = "none" <=> age[r] = "none"
  BY DEF Issued
<1> QED BY <1>1 DEF CodeState

LEMMA StateIs ==
    \A r \in Codes : /\ r \in consumed => CodeState[r] = "used"
                     /\ r \notin consumed /\ age[r] = "none" => CodeState[r] = "none"
                     /\ r \notin consumed /\ age[r] # "none" => CodeState[r] = "unused"
BY DEF CodeState

LEMMA InitLedger == Init => Ledger!Init
<1> SUFFICES ASSUME Init PROVE Ledger!Init
  OBVIOUS
<1>1. CodeState = [r \in Codes |-> "none"]
  BY DEF Init, CodeState
<1> QED BY <1>1 DEF Init, Ledger!Init

LEMMA StepLedger == LoginInv /\ CountInv /\ [Next]_vars => [Ledger!Next]_(Ledger!vars)
<1> SUFFICES ASSUME LoginInv, CountInv, [Next]_vars PROVE [Ledger!Next]_(Ledger!vars)
  OBVIOUS
<1>1. ASSUME consumed' = consumed, Issued' = Issued, UNCHANGED <<attempts, opened>>
      PROVE  UNCHANGED Ledger!vars
  BY <1>1, SameState DEF Ledger!vars
<1>2. ASSUME NEW c \in Calls, AskLimits(c) \/ EnterFinds(c)
      PROVE  UNCHANGED Ledger!vars
  BY <1>1, <1>2 DEF AskLimits, EnterFinds, codeVars, Issued
<1>3. ASSUME NEW c \in Calls,
             \/ NoAccount(c) \/ AskTexts(c) \/ CodeSent(c) \/ Fails(c) \/ DropAnswer(c)
             \/ SignsIn(c) \/ ConsentPosted(c) \/ Throttled(c) \/ StepFails(c) \/ CallLost(c)
             \/ AskCode(c) \/ (\E t \in Codes \cup {0} : EnterCode(c, t)) \/ EnterEnds(c)
      PROVE  UNCHANGED Ledger!vars
  <2>1. UNCHANGED <<age, consumed, attempts, opened>>
    BY <1>3, QuietSteps
  <2> QED BY <1>1, <2>1 DEF Issued
<1>4. CASE (\E r \in Codes : Ages(r) \/ SmsArrives(r)) \/ EditPhone \/ GoBack \/ Logout \/ Restart \/ UNCHANGED vars
  BY <1>1, <1>4, OtherQuietSteps
<1>5. ASSUME NEW c \in Calls, AskCreates(c) PROVE \E r \in Codes : Ledger!Issue(r)
  <2>1. PICK r \in Codes : r \notin Issued /\ age' = [age EXCEPT ![r] = "young"]
    BY <1>5 DEF AskCreates
  <2>2. UNCHANGED <<consumed, attempts, opened>> /\ r \notin consumed /\ age[r] = "none"
    BY <1>5, <2>1 DEF AskCreates, LoginInv, TypeOK, CodeType, Issued
  <2>3. CodeState[r] = "none"
    BY <2>2, StateIs
  <2>4. CodeState' = [CodeState EXCEPT ![r] = "unused"]
    <3>1. age'[r] = "young" /\ \A q \in Codes \ {r} : age'[q] = age[q]
      BY <2>1 DEF LoginInv, TypeOK, CodeType
    <3>2. CodeState'[r] = "unused"
      BY <2>2, <3>1 DEF CodeState
    <3>3. \A q \in Codes \ {r} : CodeState'[q] = CodeState[q]
      BY <2>2, <3>1 DEF CodeState
    <3> QED BY <3>2, <3>3 DEF CodeState
  <2> QED BY <2>2, <2>3, <2>4 DEF Ledger!Issue
<1>6. ASSUME NEW c \in Calls, EnterMisses(c) PROVE \E r \in Codes : Ledger!Guess(r)
  <2>1. PICK r \in Codes : r = call[c].row /\ r \in Issued
    BY <1>6, CodesAreNumbers DEF EnterMisses, LoginInv, CallInv, At
  <2>2. /\ UNCHANGED <<age, consumed, opened>> /\ attempts' = [attempts EXCEPT ![r] = @ + 1]
        /\ attempts[r] + 1 < MaxAttempts + Cardinality(Calls)
    BY <1>6, <2>1, EnterMissesCounted DEF EnterMisses
  <2>3. CodeState' = CodeState
    BY <2>2, SameState DEF Issued
  <2>4. CodeState[r] # "none"
    BY <2>1 DEF CodeState, Issued
  <2> QED BY <2>2, <2>3, <2>4 DEF Ledger!Guess
<1>7. ASSUME NEW c \in Calls, EnterConsumes(c)
      PROVE  (\E r \in Codes : Ledger!Use(r)) \/ UNCHANGED Ledger!vars
  <2>1. PICK r \in Codes : r = call[c].row /\ r \in Issued
    BY <1>7, CodesAreNumbers DEF EnterConsumes, LoginInv, CallInv, At
  <2>2. UNCHANGED <<age, attempts, opened>> /\ consumed' = consumed \cup {r}
    BY <1>7, <2>1 DEF EnterConsumes
  <2>3. CASE r \in consumed
    <3>1. consumed' = consumed
      BY <2>2, <2>3
    <3> QED BY <1>1, <2>2, <3>1 DEF Issued
  <2>4. CASE r \notin consumed
    <3>1. CodeState[r] = "unused"
      BY <2>1, <2>4, StateIs DEF Issued
    <3>2. CodeState'[r] = "used" /\ \A q \in Codes \ {r} : CodeState'[q] = CodeState[q]
      BY <2>2 DEF CodeState
    <3>3. CodeState' = [CodeState EXCEPT ![r] = "used"]
      BY <3>2 DEF CodeState
    <3> QED BY <2>2, <3>1, <3>3 DEF Ledger!Use
  <2> QED BY <2>3, <2>4
<1>8. ASSUME NEW c \in Calls, EnterOpens(c) PROVE \E r \in Codes : Ledger!Open(r)
  <2>1. PICK r \in Codes : r = call[c].row /\ r \in consumed
    BY <1>8, CodesAreNumbers DEF EnterOpens, LoginInv, CallInv, At
  <2>2. /\ UNCHANGED <<age, consumed, attempts>> /\ opened' = [opened EXCEPT ![r] = @ + 1]
        /\ opened[r] < Cardinality(Calls)
    BY <1>8, <2>1, EnterOpensCounted DEF EnterOpens
  <2>3. CodeState' = CodeState
    BY <2>2, SameState DEF Issued
  <2>4. CodeState[r] = "used"
    BY <2>1, StateIs
  <2> QED BY <2>2, <2>3, <2>4 DEF Ledger!Open
<1> QED BY <1>2, <1>3, <1>4, <1>5, <1>6, <1>7, <1>8 DEF Next, AskStep, EnterStep, FormStep, Ledger!Next

\* Whatever order their steps come in, the two endpoints do to the codes only what OneTimeCode
\* promises: the implementation shown to refine the abstract specification.
THEOREM Implements == Spec => ImplementsOneTimeCode
BY SpecInv, InitLedger, StepLedger, PTL DEF Spec, ImplementsOneTimeCode, Ledger!Spec
=============================================================================
