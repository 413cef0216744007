-------------------------------- MODULE Login --------------------------------
(***************************************************************************)
(* Signing in with a code sent by SMS: POST /auth/request-code and POST    *)
(* /auth/verify-code of the API, and the login forms of the three clients. *)
(* A request is modelled await by await, so that requests of one phone     *)
(* number interleave; a form goes on while its request is under way.       *)
(*                                                                         *)
(* One person signs in: "own" is their registered number, "typo" one that  *)
(* no account has.  A code is the number of its row in auth_codes, in the  *)
(* order of creation; 0 stands for any other four digits.                  *)
(***************************************************************************)
EXTENDS Naturals, FiniteSets

CONSTANTS
    Platforms,      \* which clients the device may be
    Calls,          \* requests the server may be handling at once
    Faults,         \* which of FaultKinds may come in between
    MaxAttempts,    \* OTP_MAX_ATTEMPTS
    MaxCodes,       \* bound: codes ever made
    MaxFaults       \* bound: faults that happen

FaultKinds == {"call_lost", "throttled", "step_fails", "restart", "mistyped", "logout"}

ASSUME ConstantsAssumption ==
    /\ Platforms \subseteq {"web", "android", "ios"}
    /\ IsFiniteSet(Calls) /\ Calls # {}
    /\ Faults \subseteq FaultKinds
    /\ MaxAttempts \in Nat \ {0}
    /\ MaxCodes \in Nat \ {0}
    /\ MaxFaults \in Nat

VARIABLES
    platform,   \* which client the device is
    age,        \* auth_codes.created_at: none, young (the rate limit sees it), old, over
    consumed,   \* auth_codes.consumed_at: the codes that have it
    attempts,   \* auth_codes.attempts
    opened,     \* sessions opened with each code
    inbox,      \* codes whose SMS has reached the phone
    call,       \* the requests under way
    form,       \* the login form: its step, its phone field, loading
    stored,     \* the device has tokens: 0, or the code they were got with
    signedIn,   \* the device shows the application
    overlapped, \* history: codes that two verifications had in hand at once
    crowded,    \* history: two requests for a code passed the rate limit together
    excused,    \* history: an answer was lost, a step failed, or two codes were sent at once
    faults      \* history: how many faults have happened

vars == <<platform, age, consumed, attempts, opened, inbox, call, form, stored, signedIn,
          overlapped, crowded, excused, faults>>

codeVars   == <<age, consumed, attempts, opened>>
deviceVars == <<form, stored, signedIn>>
history    == <<overlapped, crowded, excused, faults>>

Codes == 1 .. MaxCodes

\* done: AuthUiState.authenticated of the Android form.
EmptyForm == [step |-> "phone", phone |-> "own", loading |-> FALSE, done |-> FALSE]

\* waits: the form waits for the answer; best: the form sent the newest code, and
\* nothing has happened since that could make it fail.
IdleCall == [pc |-> "idle", kind |-> "ask", phone |-> "own", typed |-> 0, row |-> 0,
             waits |-> FALSE, best |-> FALSE]

Idle(c) == call[c].pc = "idle"
Issued  == {r \in Codes : age[r] # "none"}
Young   == {r \in Codes : age[r] = "young"}

Init ==
    /\ platform \in Platforms
    /\ age = [r \in Codes |-> "none"]
    /\ consumed = {}
    /\ attempts = [r \in Codes |-> 0]
    /\ opened = [r \in Codes |-> 0]
    /\ inbox = {}
    /\ call = [c \in Calls |-> IdleCall]
    /\ form = EmptyForm
    /\ stored = 0
    /\ signedIn = FALSE
    /\ overlapped = {}
    /\ crowded = FALSE
    /\ excused = FALSE
    /\ faults = 0

-----------------------------------------------------------------------------
(* POST /auth/request-code *)

Goes(c, pc) == call' = [call EXCEPT ![c].pc = pc]

\* What is left of a request that is refused or done with its row.
Bare(k, pc) == [IdleCall EXCEPT !.pc = pc, !.waits = k.waits, !.best = k.best]

Refused(c) == call' = [call EXCEPT ![c] = Bare(@, "failed")]

At(c, kind, pc) == call[c].kind = kind /\ call[c].pc = pc

\* Faulty variant of AskLimits: the limit counts the used codes only.
AskLimits_UsedOnly(c) ==
    /\ At(c, "ask", "sent")
    /\ IF Young \cap consumed # {} THEN Refused(c) ELSE Goes(c, "allowed")
    /\ UNCHANGED <<platform, codeVars, inbox, deviceVars, history>>

\* A code of the last minute refuses the request; the code is made later.
AskLimits(c) ==
    /\ At(c, "ask", "sent")
    /\ IF Young # {} /\ call[c].phone = "own"
       THEN Refused(c) /\ UNCHANGED crowded
       ELSE /\ Goes(c, "allowed")
            /\ crowded' = (crowded \/ \E d \in Calls : At(d, "ask", "allowed"))
    /\ UNCHANGED <<platform, codeVars, inbox, deviceVars, overlapped, excused, faults>>

NoAccount(c) ==
    /\ At(c, "ask", "allowed") /\ call[c].phone = "typo"
    /\ Refused(c)
    /\ UNCHANGED <<platform, codeVars, inbox, deviceVars, history>>

\* The new row makes any other code that is being typed the wrong one.
AskCreates(c) ==
    /\ At(c, "ask", "allowed") /\ call[c].phone = "own"
    /\ \E r \in Codes :
          /\ r \notin Issued /\ \A q \in Codes : q < r => q \in Issued
          /\ age' = [age EXCEPT ![r] = "young"]
          /\ call' = [d \in Calls |-> IF d = c THEN [call[d] EXCEPT !.pc = "created", !.row = r]
                                      ELSE [call[d] EXCEPT !.best = FALSE]]
    /\ UNCHANGED <<platform, consumed, attempts, opened, inbox, deviceVars, history>>

\* The SMS provider takes the message, which arrives whenever it does, or never.
AskTexts(c) ==
    /\ At(c, "ask", "created")
    /\ call' = [call EXCEPT ![c] = Bare(@, "ok")]
    /\ UNCHANGED <<platform, codeVars, inbox, deviceVars, history>>

\* A minute passes, or the code's five minutes do.
Ages(r) ==
    /\ age[r] \in {"young", "old"}
    /\ age' = [age EXCEPT ![r] = IF age[r] = "young" THEN "old" ELSE "over"]
    /\ call' = [c \in Calls |-> [call[c] EXCEPT !.best = @ /\ (call[c].typed # r \/ age[r] = "young")]]
    /\ UNCHANGED <<platform, consumed, attempts, opened, inbox, deviceVars, history>>

SmsArrives(r) ==
    /\ r \in Issued \ inbox
    /\ \A c \in Calls : ~(At(c, "ask", "created") /\ call[c].row = r)
    /\ inbox' = inbox \cup {r}
    /\ UNCHANGED <<platform, codeVars, call, deviceVars, history>>

-----------------------------------------------------------------------------
(* POST /auth/verify-code *)

\* The codes the lookup considers.
Usable == {r \in Issued : age[r] # "over" /\ r \notin consumed}

\* Faulty variant of Latest: the first code that is found.
Latest_Oldest(S) == CHOOSE r \in S : \A q \in S : r <= q

Latest(S) == CHOOSE r \in S : \A q \in S : q <= r

\* A verification of row r is past its lookup.
InHand(d, r) == At(d, "enter", "found") /\ call[d].row = r

\* Faulty variants of Locked: no lock; one guess more.
Locked_Never(r) == FALSE
Locked_Late(r) == attempts[r] > MaxAttempts

Locked(r) == attempts[r] >= MaxAttempts

EnterFinds(c) ==
    /\ At(c, "enter", "sent")
    /\ IF call[c].phone = "own" /\ Usable # {} /\ ~Locked(Latest(Usable))
       THEN /\ call' = [call EXCEPT ![c].pc = "found", ![c].row = Latest(Usable)]
            /\ overlapped' = overlapped \cup
                  {r \in {Latest(Usable)} : \E d \in Calls : InHand(d, r)}
       ELSE Refused(c) /\ UNCHANGED overlapped
    /\ UNCHANGED <<platform, codeVars, inbox, deviceVars, crowded, excused, faults>>

\* The other verifications of row r may find it locked or used now.
Spoil(c, r, k) ==
    call' = [d \in Calls |-> IF d = c THEN k ELSE [call[d] EXCEPT !.best = @ /\ call[d].typed # r]]

EnterMisses(c) ==
    /\ At(c, "enter", "found") /\ call[c].typed # call[c].row
    /\ attempts' = [attempts EXCEPT ![call[c].row] = @ + 1]
    /\ Spoil(c, call[c].row, Bare(call[c], "failed"))
    /\ UNCHANGED <<platform, age, consumed, opened, inbox, deviceVars, history>>

\* Faulty variant of EnterConsumes: the code can be used again.
EnterConsumes_Keeps(c) ==
    /\ At(c, "enter", "found") /\ call[c].typed = call[c].row
    /\ Spoil(c, call[c].row, [call[c] EXCEPT !.pc = "consumed"])
    /\ UNCHANGED <<platform, codeVars, inbox, deviceVars, history>>

\* The update is by id: a code that another verification has used is used again.
EnterConsumes(c) ==
    /\ At(c, "enter", "found") /\ call[c].typed = call[c].row
    /\ consumed' = consumed \cup {call[c].row}
    /\ Spoil(c, call[c].row, [call[c] EXCEPT !.pc = "consumed"])
    /\ UNCHANGED <<platform, age, attempts, opened, inbox, deviceVars, history>>

\* Faulty variant of EnterOpens: the answer does not wait for the session.
EnterOpens_Unstored(c) ==
    /\ At(c, "enter", "consumed")
    /\ Goes(c, "opened")
    /\ UNCHANGED <<platform, codeVars, inbox, deviceVars, history>>

\* The user is found by the phone, tokens are issued and their session is stored.
EnterOpens(c) ==
    /\ At(c, "enter", "consumed")
    /\ opened' = [opened EXCEPT ![call[c].row] = @ + 1]
    /\ Goes(c, "opened")
    /\ UNCHANGED <<platform, age, consumed, attempts, inbox, deviceVars, history>>

EnterEnds(c) ==
    /\ At(c, "enter", "opened")
    /\ Goes(c, "ok")
    /\ UNCHANGED <<platform, codeVars, inbox, deviceVars, history>>

-----------------------------------------------------------------------------
(* What can go wrong between the form and the service *)

\* One of the faults that may happen does.
Fault(kind) == kind \in Faults /\ faults < MaxFaults /\ faults' = faults + 1

\* The throttler refuses the request before the service sees it.
Throttled(c) ==
    /\ Fault("throttled")
    /\ call[c].pc = "sent"
    /\ call' = [call EXCEPT ![c] = [Bare(@, "failed") EXCEPT !.best = FALSE]]
    /\ UNCHANGED <<platform, codeVars, inbox, deviceVars, overlapped, crowded, excused>>

\* The SMS provider, the database or the audit log throws: 500, and nothing is undone.
StepFails(c) ==
    /\ Fault("step_fails")
    /\ call[c].pc \in {"allowed", "created", "found", "consumed", "opened"}
    /\ call' = [call EXCEPT ![c] = [Bare(@, "failed") EXCEPT !.best = FALSE]]
    /\ excused' = TRUE
    /\ UNCHANGED <<platform, codeVars, inbox, deviceVars, overlapped, crowded>>

-----------------------------------------------------------------------------
(* The login forms *)

\* What each form lets its user do.  On the web both buttons are inert while busy.
WebTaps(f) ==
    IF f.step = "phone" THEN {"edit"} \cup {t \in {"ask"} : ~f.loading}
    ELSE {"back"} \cup {t \in {"enter"} : ~f.loading}

\* The Done key of the keyboard is not disabled while loading; the button that is to
\* change the number empties the code field only.
AndroidTaps(f) == IF f.step = "phone" THEN {"edit", "ask"} ELSE {"enter"}

\* The number can be changed while the code is being verified.
IosTaps(f) ==
    IF f.step = "phone" THEN {"edit"} \cup {t \in {"ask"} : ~f.loading}
    ELSE {"back"} \cup {t \in {"enter"} : ~f.loading}

Taps ==
    IF signedIn THEN {}
    ELSE CASE platform = "web" -> WebTaps(form)
           [] platform = "android" -> AndroidTaps(form)
           [] platform = "ios" -> IosTaps(form)

\* Bound: a row is left for every request that may make one.
Room == Cardinality(Codes \ Issued) >
            Cardinality({c \in Calls : call[c].kind = "ask" /\ call[c].pc \in {"sent", "allowed"}})

AskCode(c) ==
    /\ Idle(c) /\ "ask" \in Taps /\ Room
    /\ call' = [call EXCEPT ![c] = [IdleCall EXCEPT !.pc = "sent", !.phone = form.phone, !.waits = TRUE]]
    /\ form' = [form EXCEPT !.loading = TRUE]
    /\ UNCHANGED <<platform, codeVars, inbox, stored, signedIn, history>>

Alone == \A d \in Calls : call[d].kind = "enter" => Idle(d)

\* The newest code, and the only verification under way.
Best(t) ==
    /\ form.phone = "own" /\ t \in Usable /\ (\A q \in Issued : q <= t) /\ attempts[t] < MaxAttempts
    /\ Alone

EnterCode(c, t) ==
    /\ Idle(c) /\ "enter" \in Taps
    /\ t \in inbox \cup {0}
    /\ call' = [call EXCEPT ![c] = [IdleCall EXCEPT !.pc = "sent", !.kind = "enter",
                  !.phone = form.phone, !.typed = t, !.waits = TRUE, !.best = Best(t)]]
    /\ form' = [form EXCEPT !.loading = TRUE]
    /\ excused' = (excused \/ ~Alone)
    /\ UNCHANGED <<platform, codeVars, inbox, stored, signedIn, overlapped, crowded, faults>>

\* The user types a wrong number, or corrects it.
EditPhone ==
    /\ "edit" \in Taps
    /\ \/ form.phone = "own" /\ Fault("mistyped") /\ form' = [form EXCEPT !.phone = "typo"]
       \/ form.phone = "typo" /\ form' = [form EXCEPT !.phone = "own"] /\ UNCHANGED faults
    /\ UNCHANGED <<platform, codeVars, inbox, call, stored, signedIn, overlapped, crowded, excused>>

GoBack ==
    /\ "back" \in Taps
    /\ form' = [form EXCEPT !.step = "phone"]
    /\ UNCHANGED <<platform, codeVars, inbox, call, stored, signedIn, history>>

\* The answer 200 to the request for a code.
CodeSent(c) ==
    /\ At(c, "ask", "ok") /\ call[c].waits
    /\ call' = [call EXCEPT ![c] = IdleCall]
    /\ form' = [form EXCEPT !.step = "code", !.loading = FALSE]
    /\ UNCHANGED <<platform, codeVars, inbox, stored, signedIn, history>>

\* Any error: the form says so and stays where it is.
Fails(c) ==
    /\ call[c].pc = "failed" /\ call[c].waits
    /\ call' = [call EXCEPT ![c] = IdleCall]
    /\ form' = [form EXCEPT !.loading = FALSE]
    /\ UNCHANGED <<platform, codeVars, inbox, stored, signedIn, history>>

\* Nobody is left to take the answer.
Orphan(k) == [k EXCEPT !.waits = FALSE, !.best = FALSE]

\* Faulty variant of SignsIn: the tokens are kept in memory only.
SignsIn_Unstored(c) ==
    /\ At(c, "enter", "ok") /\ call[c].waits
    /\ call' = [call EXCEPT ![c] = IdleCall]
    /\ form' = EmptyForm
    /\ signedIn' = TRUE
    /\ UNCHANGED <<platform, codeVars, inbox, stored, history>>

\* verify-code answered 200.  Android posts the consent before it leaves the form.
SignsIn(c) ==
    /\ At(c, "enter", "ok") /\ call[c].waits
    /\ stored' = call[c].row
    /\ IF platform = "android"
       THEN Goes(c, "consent") /\ UNCHANGED <<form, signedIn>>
       ELSE /\ call' = [call EXCEPT ![c] = IdleCall]
            /\ form' = EmptyForm
            /\ signedIn' = TRUE
    /\ UNCHANGED <<platform, codeVars, inbox, history>>

\* Accepted or not, it lets the user in.  The view model outlives the form: what else it
\* waits for is taken later.
ConsentPosted(c) ==
    /\ call[c].pc = "consent" /\ call[c].waits
    /\ call' = [call EXCEPT ![c] = IdleCall]
    /\ form' = [form EXCEPT !.loading = FALSE, !.done = TRUE, !.phone = "own"]
    /\ signedIn' = TRUE
    /\ UNCHANGED <<platform, codeVars, inbox, stored, history>>

\* The session is revoked and the tokens are cleared (TokenRefresh has the details).  The
\* form is shown again, on Android by the view model that was authenticated before.
Logout ==
    /\ signedIn
    /\ Fault("logout")
    /\ stored' = 0
    /\ signedIn' = form.done
    /\ excused' = TRUE
    /\ UNCHANGED <<platform, codeVars, inbox, call, form, overlapped, crowded>>

DropAnswer(c) ==
    /\ ~call[c].waits /\ call[c].pc \in {"ok", "failed", "consent"}
    /\ call' = [call EXCEPT ![c] = IdleCall]
    /\ UNCHANGED <<platform, codeVars, inbox, deviceVars, history>>

\* The connection breaks: the form sees an error, the server may go on without it.
CallLost(c) ==
    /\ Fault("call_lost")
    /\ call[c].waits /\ call[c].pc # "consent"
    /\ call' = [call EXCEPT ![c] = Orphan(@)]
    /\ form' = [form EXCEPT !.loading = FALSE]
    /\ excused' = TRUE
    /\ UNCHANGED <<platform, codeVars, inbox, stored, signedIn, overlapped, crowded>>

\* The page is loaded again, or the application started again: tokens that were stored
\* sign in, everything else starts anew.
Restart ==
    /\ Fault("restart")
    /\ form' = EmptyForm
    /\ call' = [c \in Calls |-> Orphan(call[c])]
    /\ signedIn' = (stored # 0)
    /\ excused' = (excused \/ \E c \in Calls : call[c].waits)
    /\ UNCHANGED <<platform, codeVars, inbox, stored, overlapped, crowded>>

-----------------------------------------------------------------------------
AskStep(c) == AskLimits(c) \/ NoAccount(c) \/ AskCreates(c) \/ AskTexts(c)

EnterStep(c) ==
    EnterFinds(c) \/ EnterMisses(c) \/ EnterConsumes(c) \/ EnterOpens(c) \/ EnterEnds(c)

FormStep(c) == CodeSent(c) \/ Fails(c) \/ SignsIn(c) \/ ConsentPosted(c) \/ DropAnswer(c)

Next ==
    \/ \E c \in Calls : AskStep(c) \/ EnterStep(c) \/ FormStep(c)
    \/ \E c \in Calls : Throttled(c) \/ StepFails(c) \/ CallLost(c)
    \/ \E c \in Calls : AskCode(c) \/ \E t \in Codes \cup {0} : EnterCode(c, t)
    \/ \E r \in Codes : Ages(r) \/ SmsArrives(r)
    \/ EditPhone \/ GoBack \/ Logout \/ Restart

Spec == Init /\ [][Next]_vars

-----------------------------------------------------------------------------
(* Properties *)

CodeType ==
    /\ age \in [Codes -> {"none", "young", "old", "over"}]
    /\ consumed \subseteq Issued
    /\ attempts \in [Codes -> Nat]
    /\ opened \in [Codes -> Nat]
    /\ inbox \subseteq Issued
    /\ overlapped \subseteq Issued

DeviceType ==
    /\ platform \in Platforms
    /\ form \in [step : {"phone", "code"}, phone : {"own", "typo"}, loading : BOOLEAN, done : BOOLEAN]
    /\ stored \in Codes \cup {0}
    /\ signedIn \in BOOLEAN /\ crowded \in BOOLEAN /\ excused \in BOOLEAN
    /\ faults \in 0 .. MaxFaults

CallType ==
    call \in [Calls -> [pc : {"idle", "sent", "allowed", "created", "found", "consumed",
                              "opened", "ok", "failed", "consent"},
                        kind : {"ask", "enter"}, phone : {"own", "typo"},
                        typed : Codes \cup {0}, row : Codes \cup {0},
                        waits : BOOLEAN, best : BOOLEAN]]

\* Every variable stays in its type; codes used, texted or guessed at were made before,
\* and the device's tokens are of a session that exists.
TypeOK ==
    /\ CodeType /\ DeviceType /\ CallType
    /\ stored # 0 => opened[stored] > 0

\* A code is locked after MaxAttempts wrong guesses; verifications that were under way
\* together may add one each.
GuessesBounded ==
    \A r \in Codes : attempts[r] <= IF r \in overlapped THEN MaxAttempts + Cardinality(Calls) - 1
                                    ELSE MaxAttempts

\* A code opens one session; verifications that had it in hand together, one each.
OneSessionPerCode ==
    \A r \in Codes : opened[r] <= IF r \in overlapped THEN Cardinality(Calls) ELSE 1

\* One code a minute: only requests that passed the rate limit together make more.
OneCodeAMinute == Cardinality(Young) <= IF crowded THEN Cardinality(Calls) ELSE 1

\* The newest code signs in, however many older ones there are and in whatever order
\* their messages arrived: it is refused only if, since it was sent, it expired, a newer
\* one was made, another verification used or locked it, the throttler answered 429, or a
\* step failed.  (A deletion of the account, which deletes its codes, is Accounts'.)
NewestCodeSignsIn == \A c \in Calls : call[c].best => call[c].pc # "failed"

\* A verification that has opened a session with code r, and whose answer a form waits for.
Answers(c, r) ==
    /\ call[c].kind = "enter" /\ call[c].pc \in {"opened", "ok"}
    /\ call[c].row = r /\ call[c].waits

\* No session is left behind: each one that a code opened is that of the device's tokens or
\* is in an answer under way, unless an answer was lost, a step failed, the user signed out
\* or two were verified at once.
SessionsAccounted ==
    ~excused =>
        \A r \in Codes :
            opened[r] <= (IF stored = r THEN 1 ELSE 0) + Cardinality({c \in Calls : Answers(c, r)})

\* What the codes promise (OneTimeCode): the abstract state of a code.
CodeState == [r \in Codes |-> IF r \in consumed THEN "used"
                              ELSE IF age[r] = "none" THEN "none" ELSE "unused"]

Ledger == INSTANCE OneTimeCode WITH MaxGuesses <- MaxAttempts,
                                    MaxTogether <- Cardinality(Calls),
                                    state <- CodeState, guesses <- attempts

\* The two endpoints implement the promise, whatever order their steps come in.
ImplementsOneTimeCode == Ledger!Spec
=============================================================================
