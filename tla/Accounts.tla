------------------------------- MODULE Accounts -------------------------------
(***************************************************************************)
(* The rows of the users table and everybody who writes them: the sync of  *)
(* the amoCRM contact of one lead, a login, an administrator who creates a *)
(* partner, and the client's own profile screen, which saves the name and  *)
(* deletes the account; and the sessions of the account.  Row 1 is the     *)
(* client's account.  "p" and "p8" are one Russian number as it is typed,  *)
(* "f" and "+f" one that normalizePhone does not know.  A deleted account  *)
(* keeps its row, without the phone and with a placeholder for a name; any *)
(* name but that is "own".                                                 *)
(***************************************************************************)
EXTENDS Naturals, FiniteSets

CONSTANTS
    Platforms,      \* which clients the device may be
    Contacts,       \* contacts in amoCRM, two may have one number
    CrmStarts,      \* the lead's main contact and the contacts' numbers at first
    Syncers,        \* the worker and the failsafe run of InboundSync
    Faults,         \* which of FaultKinds may happen
    MaxRows,        \* bound: rows ever made
    MaxEdits,       \* bound: changes of the contacts and the lead in amoCRM
    MaxBusy         \* bound: syncs, logins, inserts and calls under way at once

FaultKinds == {"call_lost", "sync_fails", "session_ends", "erase_fails"}

Raw == {"p", "p8", "f", "+f"}

ASSUME ConstantsAssumption ==
    /\ Platforms \subseteq {"web", "android", "ios"}
    /\ "none" \notin Contacts
    /\ CrmStarts \subseteq [main : Contacts, raw : [Contacts -> Raw]]
    /\ Faults \subseteq FaultKinds
    /\ MaxRows \in Nat \ {0}
    /\ MaxEdits \in Nat
    /\ MaxBusy \in Nat \ {0}

VARIABLES
    platform,   \* which client the device is
    user,       \* the users table
    session,    \* the sessions of account 1: the device's, and any other
    refresh,    \* AuthService.refresh of each
    crm,        \* the lead's main contact and the contacts' numbers; what changed is history
    sync,       \* the syncs under way: the contact as read, the row it was given
    owner,      \* orders.client_user_id of the lead's order, 0 before it exists
    login,      \* a verification that used its code: its phone, then its row
    create,     \* POST /admin/users under way: the phone found free
    call,       \* the device's call of each kind
    form,       \* the profile screen
    over,       \* the access token's 15 minutes are over
    late,       \* history: what came back to the account since it was deleted
    refused,    \* history: contacts whose sync failed on a unique column
    excused     \* history: a request or answer of the device was lost, or its session ended

vars == <<platform, user, session, refresh, crm, sync, owner, login, create, call, form, over,
          late, refused, excused>>

syncVars   == <<crm, sync, owner, refused>>
loginVars  == <<login, create>>
accessVars == <<session, refresh, over, late, excused>>

Rows    == 1 .. MaxRows
Phones  == {"p"}
Keys    == {"p", "f", "+f"}
Devices == {"mine", "other"}
Kinds   == {"load", "save", "delete"}
Typed   == {"name", "empty"}
Names   == {"own", "gone"}

NoRow    == [phone |-> "none", name |-> "own", contact |-> "none", made |-> FALSE, gone |-> FALSE]
NoSync   == [pc |-> "idle", contact |-> "none", raw |-> "p", row |-> 0]
NoLogin  == [pc |-> "idle", phone |-> "p", row |-> 0, overtaken |-> FALSE]
NoCreate == [pc |-> "idle", phone |-> "p"]
NoCall   == [pc |-> "idle", named |-> FALSE]

\* Bound: something more may begin.
Room == Cardinality({s \in Syncers : sync[s].pc # "idle"}) + Cardinality({k \in Kinds : call[k].pc # "idle"})
          + (IF login.pc = "idle" THEN 0 ELSE 1) + (IF create.pc = "idle" THEN 0 ELSE 1)
          + (IF refresh["other"] = "idle" THEN 0 ELSE 1) < MaxBusy

-----------------------------------------------------------------------------
(* Numbers *)

\* Faulty variant of normalizePhone: the number as it is typed.
normalizePhone_AsIs(raw) == raw

\* The one canonical form of a Russian number, "none" for any other.
normalizePhone(raw) == IF raw \in {"p", "p8"} THEN "p" ELSE "none"

\* normalizePhone(contact.phone) ?? contact.phone
KeyOf(raw) == IF normalizePhone(raw) = "none" THEN raw ELSE normalizePhone(raw)

\* What the sync takes for one number: a number that has no canonical form is another one
\* when it is typed in another way.
SameNumber(a, b) == a = b \/ {a, b} = {"p", "p8"}

-----------------------------------------------------------------------------
\* The account has the number of the lead's main contact, and was made by its sync or
\* not.  With a number that cannot log in, there is no session.
Init ==
    /\ platform \in Platforms
    /\ \E start \in CrmStarts :
          LET raw == start.raw[start.main]
              in  == normalizePhone(raw) # "none"
          IN  /\ crm = [main |-> start.main, raw |-> start.raw, edits |-> 0, moved |-> {}, other |-> FALSE]
              /\ \E contact \in {start.main, "none"} :
                    /\ user = [r \in Rows |->
                                 IF r = 1 THEN [NoRow EXCEPT !.phone = KeyOf(raw), !.contact = contact,
                                                             !.made = TRUE]
                                 ELSE NoRow]
                    /\ owner \in IF contact = "none" THEN {0} ELSE {0, 1}
              /\ session = [d \in Devices |-> IF d = "mine" /\ in THEN "live" ELSE "ended"]
              /\ form = [screen |-> IF in THEN "in" ELSE "out", shown |-> FALSE, typed |-> "none",
                         asked |-> FALSE]
    /\ refresh = [d \in Devices |-> "idle"]
    /\ sync = [s \in Syncers |-> NoSync]
    /\ login = NoLogin
    /\ create = NoCreate
    /\ call = [k \in Kinds |-> NoCall]
    /\ over = FALSE
    /\ late = {}
    /\ refused = {}
    /\ excused = FALSE

-----------------------------------------------------------------------------
(* The contacts and the sync of the lead *)

Holders(ph) == {r \in Rows : user[r].phone = ph}

\* Bound: the next row that may be made.
Free(r) == ~user[r].made /\ \A o \in Rows : o < r => user[o].made

\* The row a phone has, or a new one.
RowOf(r, ph) == r \in Holders(ph) \/ (Holders(ph) = {} /\ Free(r))

\* A manager corrects or replaces a contact's number.
EditContact(c, raw) ==
    /\ crm.edits < MaxEdits
    /\ raw # crm.raw[c]
    /\ LET moves == ~SameNumber(raw, crm.raw[c])
           read  == \E s \in Syncers : sync[s].pc = "lead" /\ sync[s].contact = c
       IN  crm' = [crm EXCEPT !.raw[c] = raw, !.edits = @ + 1,
                              !.moved = IF moves THEN @ \cup {c} ELSE @,
                              !.other = @ \/ (moves /\ (c = crm.main \/ read))]
    /\ UNCHANGED <<platform, user, sync, owner, refused, loginVars, call, form, accessVars>>

\* A manager gives the lead another main contact, maybe with the same number.
EditLead(c) ==
    /\ crm.edits < MaxEdits
    /\ c # crm.main
    /\ crm' = [crm EXCEPT !.main = c, !.edits = @ + 1,
                          !.other = @ \/ ~SameNumber(crm.raw[c], crm.raw[crm.main])]
    /\ UNCHANGED <<platform, user, sync, owner, refused, loginVars, call, form, accessVars>>

\* getLead
SyncReadsLead(s) ==
    /\ sync[s].pc = "idle" /\ Room
    /\ sync' = [sync EXCEPT ![s] = [NoSync EXCEPT !.pc = "lead", !.contact = crm.main]]
    /\ UNCHANGED <<platform, user, crm, owner, refused, loginVars, call, form, accessVars>>

\* getContact
SyncReadsContact(s) ==
    /\ sync[s].pc = "lead"
    /\ sync' = [sync EXCEPT ![s].pc = "contact", ![s].raw = crm.raw[sync[s].contact]]
    /\ UNCHANGED <<platform, user, crm, owner, refused, loginVars, call, form, accessVars>>

\* Faulty variant of SyncRow: the row that has the contact, whatever its phone.
SyncRow_ByContact(r, c, ph) ==
    \/ user[r].contact = c
    \/ (\A o \in Rows : user[o].contact # c) /\ RowOf(r, ph)

\* The row that the sync writes.
SyncRow(r, c, ph) == RowOf(r, ph)

\* The name is the contact's if it has one, and the row gets the contact's id, over that
\* of another contact.
SyncedRow(row, c, ph, named) ==
    [row EXCEPT !.phone = ph, !.contact = c, !.made = TRUE, !.name = IF named THEN "own" ELSE @]

\* user.upsert by phone.  The contact's id is unique: a row that holds it under another
\* phone, or none, makes this one fail.
SyncUpserts(s) ==
    /\ sync[s].pc = "contact"
    /\ \E r \in Rows, named \in BOOLEAN :
          LET c  == sync[s].contact
              ph == KeyOf(sync[s].raw)
          IN  /\ SyncRow(r, c, ph)
              /\ IF \E o \in Rows \ {r} : user[o].contact = c
                 THEN /\ sync' = [sync EXCEPT ![s] = NoSync]
                      /\ refused' = refused \cup {c}
                      /\ UNCHANGED user
                 ELSE /\ user' = [user EXCEPT ![r] = SyncedRow(@, c, ph, named)]
                      /\ sync' = [sync EXCEPT ![s] = [NoSync EXCEPT !.pc = "stored", !.row = r]]
                      /\ UNCHANGED refused
    /\ UNCHANGED <<platform, crm, owner, loginVars, call, form, accessVars>>

\* The order gets its owner when it is created and keeps it.
SyncWrites(s) ==
    /\ sync[s].pc = "stored"
    /\ owner' = IF owner = 0 THEN sync[s].row ELSE owner
    /\ sync' = [sync EXCEPT ![s] = NoSync]
    /\ UNCHANGED <<platform, user, crm, refused, loginVars, call, form, accessVars>>

\* No contact or no phone, or a request or a write fails.
SyncFails(s) ==
    /\ "sync_fails" \in Faults
    /\ sync[s].pc # "idle"
    /\ sync' = [sync EXCEPT ![s] = NoSync]
    /\ UNCHANGED <<platform, user, crm, owner, refused, loginVars, call, form, accessVars>>

-----------------------------------------------------------------------------
(* A login and an administrator *)

\* A session that is opened now: one opened while anonymize runs is not among those it
\* revokes.
Opened == IF call["delete"].pc = "erasing" THEN "fresh" ELSE "live"

\* A code that was sent to a registered number is right and consumed.
LoginVerified(ph) ==
    /\ login.pc = "idle" /\ Room /\ Holders(ph) # {}
    /\ login' = [NoLogin EXCEPT !.pc = "verified", !.phone = ph]
    /\ UNCHANGED <<platform, user, syncVars, create, call, form, accessVars>>

\* user.upsert: an account deleted meanwhile is made anew, without the contact.
LoginUpserts ==
    \E r \in Rows :
        /\ login.pc = "verified"
        /\ RowOf(r, login.phone)
        /\ user' = [user EXCEPT ![r] = [@ EXCEPT !.phone = login.phone, !.made = TRUE]]
        /\ login' = [login EXCEPT !.pc = "upserted", !.row = r]
        /\ UNCHANGED <<platform, syncVars, create, call, form, accessVars>>

\* session.create, whatever has become of the account.
LoginOpens ==
    /\ login.pc = "upserted"
    /\ session' = IF login.row = 1 THEN [session EXCEPT !["other"] = Opened] ELSE session
    /\ late' = IF login.overtaken THEN late \cup {"session"} ELSE late
    /\ login' = NoLogin
    /\ UNCHANGED <<platform, user, syncVars, create, call, form, refresh, over, excused>>

CreateChecks(ph) ==
    /\ create.pc = "idle" /\ Room /\ Holders(ph) = {}
    /\ create' = [pc |-> "checked", phone |-> ph]
    /\ UNCHANGED <<platform, user, syncVars, login, call, form, accessVars>>

\* Faulty variant of CreateInserts: the phone is not unique.
CreateInserts_Again ==
    \E r \in Rows :
        /\ create.pc = "checked" /\ Free(r)
        /\ user' = [user EXCEPT ![r] = [NoRow EXCEPT !.phone = create.phone, !.made = TRUE]]
        /\ create' = NoCreate
        /\ UNCHANGED <<platform, syncVars, login, call, form, accessVars>>

\* The insert fails when somebody has taken the phone since.
CreateInserts ==
    \E r \in Rows :
        /\ create.pc = "checked" /\ Free(r)
        /\ user' = IF Holders(create.phone) # {} THEN user
                   ELSE [user EXCEPT ![r] = [NoRow EXCEPT !.phone = create.phone, !.made = TRUE]]
        /\ create' = NoCreate
        /\ UNCHANGED <<platform, syncVars, login, call, form, accessVars>>

-----------------------------------------------------------------------------
(* The sessions of the account *)

\* The iOS application asks for /users/me, which the API does not have.
NoRoute == platform = "ios"

\* A call of the device has been answered with 401.
Unauthorized == over /\ ~NoRoute /\ \E k \in Kinds : call[k].pc = "sent"

\* Faulty variant of MayRefresh: any session does, revoked or not.
MayRefresh_Any(d) == TRUE

\* The session is neither revoked nor over.
MayRefresh(d) == session[d] # "ended"

\* AuthService.refresh finds the session alive.  The device's calls share one.
RefreshChecks(d) ==
    /\ refresh[d] = "idle" /\ MayRefresh(d)
    /\ IF d = "mine" THEN Unauthorized ELSE Room
    /\ refresh' = [refresh EXCEPT ![d] = "checked"]
    /\ UNCHANGED <<platform, user, syncVars, loginVars, call, form, session, over, late, excused>>

LateRefresh(d) == IF refresh[d] = "overtaken" THEN late \cup {"session"} ELSE late

\* It revokes the session and opens another, whatever has become of it meanwhile; the
\* device's calls are sent again with the new token.
RefreshRotates(d) ==
    /\ refresh[d] # "idle"
    /\ session' = [session EXCEPT ![d] = Opened]
    /\ refresh' = [refresh EXCEPT ![d] = "idle"]
    /\ late' = LateRefresh(d)
    /\ over' = (over /\ d # "mine")
    /\ UNCHANGED <<platform, user, syncVars, loginVars, call, form, excused>>

\* The device's refresh fails on its way there or back: the device gives its tokens up,
\* and the account keeps a session.
RefreshLost ==
    /\ "call_lost" \in Faults
    /\ Unauthorized
    /\ refresh["mine"] # "idle" \/ session["mine"] # "ended"
    /\ session' = [mine  |-> "ended",
                   other |-> IF refresh["mine"] # "idle" THEN Opened
                             ELSE IF session["other"] = "ended" THEN session["mine"] ELSE session["other"]]
    /\ refresh' = [refresh EXCEPT !["mine"] = "idle"]
    /\ late' = LateRefresh("mine")
    /\ excused' = TRUE
    /\ UNCHANGED <<platform, user, syncVars, loginVars, call, form, over>>

\* A session is over, or is revoked otherwise than by the deletion.
EndSession(d) ==
    /\ "session_ends" \in Faults
    /\ session[d] # "ended"
    /\ session' = [session EXCEPT ![d] = "ended"]
    /\ excused' = (excused \/ d = "mine")
    /\ UNCHANGED <<platform, user, syncVars, loginVars, call, form, refresh, over, late>>

-----------------------------------------------------------------------------
(* GET, PATCH and DELETE /me for the device's access token *)

\* Only the expiry of the token counts; the refresh is refused then.
Denied == over /\ session["mine"] = "ended" /\ refresh["mine"] = "idle"

Refused(k) ==
    /\ call[k].pc = "sent"
    /\ NoRoute \/ Denied
    /\ call' = [call EXCEPT ![k] = [NoCall EXCEPT !.pc = IF NoRoute THEN "failed" ELSE "denied"]]
    /\ UNCHANGED <<platform, user, syncVars, loginVars, form, accessVars>>

Served(k) == call[k].pc = "sent" /\ ~NoRoute /\ ~over

Me ==
    /\ Served("load")
    /\ call' = [call EXCEPT !["load"] = [NoCall EXCEPT !.pc = "ok"]]
    /\ UNCHANGED <<platform, user, syncVars, loginVars, form, accessVars>>

\* The row is updated by id, the account deleted or not; no name means no change.
UpdateMe ==
    /\ Served("save")
    /\ user' = [user EXCEPT ![1].name = IF call["save"].named THEN "own" ELSE @]
    /\ call' = [call EXCEPT !["save"].pc = "ok"]
    /\ late' = IF user[1].gone THEN late \cup {"save"} ELSE late
    /\ UNCHANGED <<platform, syncVars, loginVars, form, session, refresh, over, excused>>

\* anonymize: the sessions there are now are revoked when the transaction commits.
EraseStarts ==
    /\ Served("delete")
    /\ call' = [call EXCEPT !["delete"].pc = "erasing"]
    /\ UNCHANGED <<platform, user, syncVars, loginVars, form, accessVars>>

\* The phone and the names go, and the sessions but one that was opened while the
\* transaction ran; the contact's id stays in the row.
EraseCommits ==
    /\ call["delete"].pc = "erasing"
    /\ user' = [user EXCEPT ![1] = [@ EXCEPT !.phone = "none", !.name = "gone", !.gone = TRUE]]
    /\ session' = [d \in Devices |-> IF session[d] = "fresh" THEN "live" ELSE "ended"]
    /\ late' = IF \E d \in Devices : session[d] = "fresh" THEN late \cup {"session"} ELSE late
    /\ refresh' = [d \in Devices |-> IF refresh[d] = "idle" THEN "idle" ELSE "overtaken"]
    /\ login' = [login EXCEPT !.overtaken = @ \/ login.row = 1]
    /\ call' = [call EXCEPT !["delete"] = [NoCall EXCEPT !.pc = "ok"]]
    /\ UNCHANGED <<platform, syncVars, create, form, over, excused>>

\* The transaction is rolled back.
EraseFails ==
    /\ "erase_fails" \in Faults
    /\ call["delete"].pc = "erasing"
    /\ session' = [d \in Devices |-> IF session[d] = "fresh" THEN "live" ELSE session[d]]
    /\ call' = [call EXCEPT !["delete"] = [NoCall EXCEPT !.pc = "failed"]]
    /\ excused' = TRUE
    /\ UNCHANGED <<platform, user, syncVars, loginVars, form, refresh, over, late>>

TokenOver ==
    /\ ~over
    /\ over' = TRUE
    /\ UNCHANGED <<platform, user, syncVars, loginVars, call, form, session, refresh, late, excused>>

-----------------------------------------------------------------------------
(* The profile screen *)

Here   == form.screen = "in"
Usable == Here /\ form.shown

\* The web and iOS send no name for an empty field, Android sends the empty one.
Named(typed) == typed = "name" \/ platform = "android"

\* The screen loads when it appears, Android again when asked to, the web also when the
\* network comes back.
Load ==
    /\ Here /\ call["load"].pc = "idle" /\ Room
    /\ platform = "web" \/ ~form.shown
    /\ call' = [call EXCEPT !["load"].pc = "sent"]
    /\ UNCHANGED <<platform, user, syncVars, loginVars, form, accessVars>>

TypeName(n) ==
    /\ Usable
    /\ form' = [form EXCEPT !.typed = n]
    /\ UNCHANGED <<platform, user, syncVars, loginVars, call, accessVars>>

\* The button is disabled while a save is under way, on iOS also while a deletion is.
Save ==
    /\ Usable /\ call["save"].pc = "idle" /\ Room /\ form.typed \in Typed
    /\ platform = "ios" => call["delete"].pc = "idle"
    /\ call' = [call EXCEPT !["save"] = [NoCall EXCEPT !.pc = "sent", !.named = Named(form.typed)]]
    /\ UNCHANGED <<platform, user, syncVars, loginVars, form, accessVars>>

\* Faulty variant of DeleteAccount: the user is signed out at once.
DeleteAccount_Leaves ==
    /\ Usable /\ platform # "web" /\ call["delete"].pc = "idle" /\ Room
    /\ call' = [call EXCEPT !["delete"].pc = "sent"]
    /\ form' = [form EXCEPT !.asked = TRUE, !.screen = "out"]
    /\ UNCHANGED <<platform, user, syncVars, loginVars, accessVars>>

\* The alert was confirmed, a save under way or not.  The web has no such button.
DeleteAccount ==
    /\ Usable /\ platform # "web" /\ call["delete"].pc = "idle" /\ Room
    /\ call' = [call EXCEPT !["delete"].pc = "sent"]
    /\ form' = [form EXCEPT !.asked = TRUE]
    /\ UNCHANGED <<platform, user, syncVars, loginVars, accessVars>>

Answer(k, pc) == Here /\ call[k].pc = pc

Loaded ==
    /\ Answer("load", "ok")
    /\ form' = [form EXCEPT !.typed = "none", !.shown = TRUE]
    /\ call' = [call EXCEPT !["load"] = NoCall]
    /\ UNCHANGED <<platform, user, syncVars, loginVars, accessVars>>

\* The screen says that the name is saved; the web then loads it again, the phones take
\* it from the answer.
Saved ==
    /\ Answer("save", "ok")
    /\ call' = [call EXCEPT !["save"] = NoCall,
                             !["load"] = IF platform = "web" THEN [NoCall EXCEPT !.pc = "sent"] ELSE @]
    /\ form' = IF platform = "web" THEN form ELSE [form EXCEPT !.typed = "none"]
    /\ UNCHANGED <<platform, user, syncVars, loginVars, accessVars>>

\* The account is deleted: the device signs out.
Deleted ==
    /\ Answer("delete", "ok")
    /\ form' = [form EXCEPT !.screen = "out"]
    /\ call' = [call EXCEPT !["delete"] = NoCall]
    /\ UNCHANGED <<platform, user, syncVars, loginVars, accessVars>>

\* A failure is shown, on iOS over an empty form; a failed deletion signs Android out.
Fails(k) ==
    /\ Answer(k, "failed")
    /\ form' = [form EXCEPT !.screen = IF k = "delete" /\ platform = "android" THEN "out" ELSE @,
                             !.shown = @ \/ (k = "load" /\ platform = "ios")]
    /\ call' = [call EXCEPT ![k] = NoCall]
    /\ UNCHANGED <<platform, user, syncVars, loginVars, accessVars>>

\* The client has tried to refresh the tokens in vain: the web shows the login page,
\* Android stays where it is, except after a deletion.
SignedOut(k) ==
    /\ Answer(k, "denied")
    /\ form' = [form EXCEPT !.screen = IF platform = "web" \/ k = "delete" THEN "out" ELSE @]
    /\ call' = [call EXCEPT ![k] = NoCall]
    /\ UNCHANGED <<platform, user, syncVars, loginVars, accessVars>>

\* The network fails before the request arrives, or after it was served.
CallLost(k) ==
    /\ "call_lost" \in Faults
    /\ call[k].pc \in {"sent", "ok"}
    /\ call' = [call EXCEPT ![k] = [NoCall EXCEPT !.pc = "failed"]]
    /\ excused' = TRUE
    /\ UNCHANGED <<platform, user, syncVars, loginVars, form, session, refresh, over, late>>

-----------------------------------------------------------------------------
SyncStep ==
    \/ \E c \in Contacts : EditLead(c) \/ \E raw \in Raw : EditContact(c, raw)
    \/ \E s \in Syncers : SyncReadsLead(s) \/ SyncReadsContact(s) \/ SyncUpserts(s) \/ SyncWrites(s) \/ SyncFails(s)

LoginStep   == (\E ph \in Phones : LoginVerified(ph)) \/ LoginUpserts \/ LoginOpens
CreateStep  == (\E ph \in Phones : CreateChecks(ph)) \/ CreateInserts
SessionStep == RefreshLost \/ TokenOver \/ \E d \in Devices : RefreshChecks(d) \/ RefreshRotates(d) \/ EndSession(d)
EraseStep   == EraseStarts \/ EraseCommits \/ EraseFails
ServerStep  == Me \/ UpdateMe \/ \E k \in Kinds : Refused(k)
UserStep    == Load \/ (\E n \in Typed : TypeName(n)) \/ Save \/ DeleteAccount
AnswerStep  == Loaded \/ Saved \/ Deleted \/ \E k \in Kinds : Fails(k) \/ SignedOut(k)

Next ==
    \/ SyncStep
    \/ LoginStep
    \/ CreateStep
    \/ SessionStep
    \/ EraseStep
    \/ ServerStep
    \/ UserStep
    \/ AnswerStep
    \/ \E k \in Kinds : CallLost(k)

Spec == Init /\ [][Next]_vars

-----------------------------------------------------------------------------
(* Properties *)

RowState  == [phone : Keys \cup {"none"}, name : Names, contact : Contacts \cup {"none"}, made : BOOLEAN,
              gone : BOOLEAN]
CrmState  == [main : Contacts, raw : [Contacts -> Raw], edits : 0 .. MaxEdits, moved : SUBSET Contacts,
              other : BOOLEAN]
SyncState == [pc : {"idle", "lead", "contact", "stored"}, contact : Contacts \cup {"none"}, raw : Raw,
              row : Rows \cup {0}]
CallState == [pc : {"idle", "sent", "erasing", "ok", "failed", "denied"}, named : BOOLEAN]
FormState == [screen : {"in", "out"}, shown : BOOLEAN, typed : Typed \cup {"none"}, asked : BOOLEAN]

UniqueColumns ==
    \A r, o \in Rows : r # o => /\ user[r].phone = "none" \/ user[r].phone # user[o].phone
                                /\ user[r].contact = "none" \/ user[r].contact # user[o].contact

\* The types of the variables; a phone belongs to one account at most, and so does a
\* contact, however the inserts and upserts of the three writers interleave.
TypeOK ==
    /\ platform \in {"web", "android", "ios"}
    /\ user \in [Rows -> RowState]
    /\ session \in [Devices -> {"ended", "live", "fresh"}]
    /\ refresh \in [Devices -> {"idle", "checked", "overtaken"}]
    /\ crm \in CrmState
    /\ sync \in [Syncers -> SyncState]
    /\ owner \in Rows \cup {0}
    /\ login \in [pc : {"idle", "verified", "upserted"}, phone : Phones, row : Rows \cup {0}, overtaken : BOOLEAN]
    /\ create \in [pc : {"idle", "checked"}, phone : Phones]
    /\ call \in [Kinds -> CallState]
    /\ form \in FormState
    /\ over \in BOOLEAN /\ refused \subseteq Contacts /\ excused \in BOOLEAN
    /\ late \subseteq {"save", "session"}
    /\ UniqueColumns

\* What DELETE /me removed stays removed: the number never returns to the row, whatever
\* sync, login or insert was under way; the name returns only with a save; and a session
\* is there only if a login that had its row, or a refresh that had checked its session,
\* before the deletion committed has opened one since the deletion began.
DeletedStaysDeleted ==
    user[1].gone => /\ user[1].phone = "none"
                    /\ user[1].name = "gone" \/ "save" \in late
                    /\ (\A d \in Devices : session[d] = "ended") \/ "session" \in late

\* The sync of a contact is refused by the unique amocrm_contact_id only after a manager
\* has given that contact another number or the client has deleted their account: never
\* because of the way a Russian number is typed, of a number that two contacts share, of
\* another main contact, a login, or an administrator's insert.  A number that has no
\* canonical form is another one when it is typed in another way.
SyncRefusedOnlyIf == \A c \in refused : c \in crm.moved \/ user[1].gone

\* Who logs in with the number of the lead's main contact finds the order: it belongs to
\* the account with that number and to no other, unless the main contact's number has
\* changed or the owner deleted their account.
ClientFindsOrder ==
    owner # 0 /\ ~user[owner].gone /\ ~crm.other => Holders(KeyOf(crm.raw[crm.main])) = {owner}

\* A user whom the application signs out after they confirmed the deletion has no account
\* any more, unless a request or an answer was lost on the way, the deletion failed, or
\* the device's session had ended otherwise.
GoneWhenSignedOut == form.asked /\ form.screen = "out" => user[1].gone \/ excused
=============================================================================
