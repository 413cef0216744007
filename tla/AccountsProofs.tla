---------------------------- MODULE AccountsProofs ----------------------------
(***************************************************************************)
(* The properties of Accounts for any contacts, and any number of rows,    *)
(* syncs, edits in amoCRM and calls under way.                             *)
(***************************************************************************)
EXTENDS Accounts, TLAPS

\* The phone that a sync of the lead reads now.
MainKey == KeyOf(crm.raw[crm.main])

\* The client's row was made; it alone may be deleted, and has no phone then; only a row
\* that was made holds a contact.
FirstRow ==
    /\ user[1].made
    /\ \A r \in Rows : /\ user[r].gone => r = 1 /\ user[r].phone = "none"
                       /\ user[r].contact # "none" => user[r].made

\* A row that is the order's owner, or that a sync was given for it.
Owns(r) == user[r].made /\ (~user[r].gone /\ ~crm.other => user[r].phone = MainKey)

OwnerInv == owner # 0 => Owns(owner)

\* While the main contact's number is the same, every sync goes on with that number.
SyncInv ==
    \A s \in Syncers :
        /\ sync[s].pc = "lead" =>
              /\ sync[s].contact \in Contacts
              /\ ~crm.other => KeyOf(crm.raw[sync[s].contact]) = MainKey
        /\ sync[s].pc = "contact" =>
              /\ sync[s].contact \in Contacts
              /\ sync[s].contact \notin crm.moved => KeyOf(sync[s].raw) = KeyOf(crm.raw[sync[s].contact])
              /\ ~crm.other => KeyOf(sync[s].raw) = MainKey
        /\ sync[s].pc = "stored" => sync[s].row \in Rows /\ Owns(sync[s].row)

\* A row that holds a contact has its number, until the number moves or the row is deleted.
HeldKeys ==
    \A r \in Rows : user[r].contact \in Contacts \ crm.moved /\ ~user[r].gone =>
                        user[r].phone = KeyOf(crm.raw[user[r].contact])

RowsInv == FirstRow /\ OwnerInv /\ SyncInv /\ HeldKeys /\ SyncRefusedOnlyIf

\* Whoever may still open a session of a deleted account was under way before.
SessionInv ==
    /\ DeletedStaysDeleted
    /\ \A d \in Devices : user[1].gone /\ refresh[d] = "checked" => "session" \in late
    /\ user[1].gone /\ login.pc = "upserted" /\ login.row = 1 => login.overtaken

\* What the device's session and an answer under way tell.
AnswersInv ==
    /\ form.screen = "in" /\ session["mine"] = "ended" => user[1].gone \/ excused
    /\ \A k \in Kinds : /\ form.screen = "in" /\ call[k].pc = "denied" => user[1].gone \/ excused
                        /\ call[k].pc = "failed" /\ platform # "ios" => excused
    /\ call["delete"].pc = "ok" => user[1].gone
    /\ platform = "web" => ~form.asked
    /\ GoneWhenSignedOut

Inv == TypeOK /\ RowsInv /\ SessionInv /\ AnswersInv

-----------------------------------------------------------------------------
(* Numbers and the initial states *)

LEMMA FirstIsRow == 1 \in Rows /\ 0 \notin Rows
BY ConstantsAssumption DEF ConstantsAssumption, Rows

LEMMA NumberKeys ==
    ASSUME NEW a \in Raw
    PROVE  /\ KeyOf(a) \in Keys /\ KeyOf(a) # "none"
           /\ \A b \in Raw : SameNumber(a, b) => KeyOf(a) = KeyOf(b)
<1>1. KeyOf(a) \in Keys /\ KeyOf(a) # "none"
  BY DEF KeyOf, normalizePhone, Raw, Keys
<1>2. ASSUME NEW b \in Raw, SameNumber(a, b) PROVE KeyOf(a) = KeyOf(b)
  <2>1. a = b \/ (a \in {"p", "p8"} /\ b \in {"p", "p8"})
    BY <1>2 DEF SameNumber
  <2> QED BY <2>1 DEF KeyOf, normalizePhone
<1> QED BY <1>1, <1>2

LEMMA RecordTypes ==
    /\ NoRow \in RowState /\ NoSync \in SyncState /\ NoCall \in CallState
    /\ NoLogin \in [pc : {"idle", "verified", "upserted"}, phone : Phones, row : Rows \cup {0}, overtaken : BOOLEAN]
    /\ NoCreate \in [pc : {"idle", "checked"}, phone : Phones]
BY DEF NoRow, NoSync, NoCall, NoLogin, NoCreate, RowState, SyncState, CallState, Phones, Names, Keys, Raw

LEMMA MainKeyIsKey == TypeOK => MainKey \in Keys /\ MainKey # "none"
BY NumberKeys DEF TypeOK, CrmState, MainKey

LEMMA InitInv == Init => Inv
<1> SUFFICES ASSUME Init PROVE Inv
  OBVIOUS
<1>1. PICK start \in CrmStarts :
        LET raw == start.raw[start.main]
            in  == normalizePhone(raw) # "none"
        IN  /\ crm = [main |-> start.main, raw |-> start.raw, edits |-> 0, moved |-> {}, other |-> FALSE]
            /\ \E contact \in {start.main, "none"} :
                  /\ user = [r \in Rows |->
                               IF r = 1 THEN [NoRow EXCEPT !.phone = KeyOf(raw), !.contact = contact,
                                                           !.made = TRUE]
                               ELSE NoRow]
                  /\ owner \in IF contact = "none" THEN {0} ELSE {0, 1}
            /\ session = [d \in Devices |-> IF d = "mine" /\ in THEN "live" ELSE "ended"]
            /\ form = [screen |-> IF in THEN "in" ELSE "out", shown |-> FALSE, typed |-> "none",
                       asked |-> FALSE]
  BY DEF Init
<1> DEFINE raw == start.raw[start.main]
<1>2. start.main \in Contacts /\ start.raw \in [Contacts -> Raw] /\ raw \in Raw /\ "none" \notin Contacts
  BY ConstantsAssumption DEF ConstantsAssumption
<1>3. PICK contact \in {start.main, "none"} :
        /\ user = [r \in Rows |->
                     IF r = 1 THEN [NoRow EXCEPT !.phone = KeyOf(raw), !.contact = contact, !.made = TRUE]
                     ELSE NoRow]
        /\ owner \in IF contact = "none" THEN {0} ELSE {0, 1}
  BY <1>1
<1>4. KeyOf(raw) \in Keys /\ KeyOf(raw) # "none"
  BY <1>2, NumberKeys
<1> DEFINE first == [NoRow EXCEPT !.phone = KeyOf(raw), !.contact = contact, !.made = TRUE]
<1>5. /\ first \in RowState /\ first.phone = KeyOf(raw) /\ first.contact = contact /\ first.made /\ ~first.gone
      /\ NoRow.phone = "none" /\ NoRow.contact = "none" /\ ~NoRow.gone
  BY <1>2, <1>4 DEF NoRow, RowState, Names
<1>6. user[1] = first /\ (\A r \in Rows \ {1} : user[r] = NoRow) /\ user \in [Rows -> RowState]
  BY <1>3, <1>5, FirstIsRow, RecordTypes
<1>7. MainKey = KeyOf(raw) /\ crm.main = start.main /\ crm.raw = start.raw
  BY <1>1 DEF MainKey
<1> HIDE DEF first, raw
<1>8. TypeOK
  <2>1. platform \in {"web", "android", "ios"}
    BY ConstantsAssumption DEF Init, ConstantsAssumption
  <2>2. crm \in CrmState
    BY <1>1, <1>2, ConstantsAssumption DEF ConstantsAssumption, CrmState
  <2>3. /\ sync \in [Syncers -> SyncState] /\ call \in [Kinds -> CallState]
        /\ login \in [pc : {"idle", "verified", "upserted"}, phone : Phones, row : Rows \cup {0}, overtaken : BOOLEAN]
        /\ create \in [pc : {"idle", "checked"}, phone : Phones]
    BY RecordTypes DEF Init
  <2>4. owner \in Rows \cup {0}
    BY <1>3, FirstIsRow
  <2>5. form \in FormState /\ session \in [Devices -> {"ended", "live", "fresh"}]
    BY <1>1 DEF FormState, Typed
  <2>6. UniqueColumns
    BY <1>5, <1>6 DEF UniqueColumns
  <2>7. /\ refresh \in [Devices -> {"idle", "checked", "overtaken"}]
        /\ over \in BOOLEAN /\ refused \subseteq Contacts /\ excused \in BOOLEAN
        /\ late \subseteq {"save", "session"}
    BY DEF Init
  <2> QED BY <1>6, <2>1, <2>2, <2>3, <2>4, <2>5, <2>6, <2>7 DEF TypeOK
<1>9. RowsInv
  <2>1. FirstRow
    BY <1>5, <1>6, FirstIsRow DEF FirstRow
  <2>2. OwnerInv
    <3>1. owner \in {0, 1}
      BY <1>3
    <3> QED BY <1>5, <1>6, <1>7, <3>1 DEF OwnerInv, Owns
  <2>3. SyncInv /\ SyncRefusedOnlyIf
    BY DEF Init, NoSync, SyncInv, SyncRefusedOnlyIf
  <2>4. HeldKeys
    <3>1. ASSUME NEW r \in Rows, user[r].contact \in Contacts PROVE r = 1 /\ user[r].contact = start.main
      BY <1>2, <1>5, <1>6, <3>1
    <3> QED BY <1>5, <1>6, <1>7, <3>1 DEF HeldKeys, MainKey
  <2> QED BY <2>1, <2>2, <2>3, <2>4 DEF RowsInv
<1>10. SessionInv /\ AnswersInv
  <2>1. ~user[1].gone
    BY <1>5, <1>6
  <2>2. /\ ~form.asked /\ \A k \in Kinds : call[k].pc = "idle"
        /\ form.screen = "in" => session["mine"] # "ended"
    BY <1>1 DEF Init, NoCall, Devices
  <2> QED BY <2>1, <2>2 DEF SessionInv, AnswersInv, DeletedStaysDeleted, GoneWhenSignedOut, Kinds
<1> QED BY <1>8, <1>9, <1>10 DEF Inv

-----------------------------------------------------------------------------
(* The writes of a row *)

\* A write keeps the columns unique if nobody else has the phone, or the contact, it writes.
LEMMA RowPut ==
    ASSUME TypeOK, NEW r \in Rows, NEW row \in RowState,
           user' = [user EXCEPT ![r] = row],
           row.phone \notin {user[r].phone, "none"} => \A o \in Rows \ {r} : user[o].phone # row.phone,
           row.contact \notin {user[r].contact, "none"} => \A o \in Rows \ {r} : user[o].contact # row.contact
    PROVE  /\ user' \in [Rows -> RowState] /\ UniqueColumns'
           /\ user'[r] = row /\ \A o \in Rows \ {r} : user'[o] = user[o]
<1>1. user'[r] = row /\ (\A o \in Rows \ {r} : user'[o] = user[o]) /\ user' \in [Rows -> RowState]
  BY DEF TypeOK
<1>2. ASSUME NEW a \in Rows, NEW o \in Rows, a # o
      PROVE  /\ user'[a].phone = "none" \/ user'[a].phone # user'[o].phone
             /\ user'[a].contact = "none" \/ user'[a].contact # user'[o].contact
  <2>1. /\ user[a].phone = "none" \/ user[a].phone # user[o].phone
        /\ user[o].phone = "none" \/ user[o].phone # user[a].phone
        /\ user[a].contact = "none" \/ user[a].contact # user[o].contact
        /\ user[o].contact = "none" \/ user[o].contact # user[a].contact
    BY <1>2 DEF TypeOK, UniqueColumns
  <2>2. CASE a = r
    BY <1>1, <1>2, <2>1, <2>2
  <2>3. CASE o = r
    BY <1>1, <1>2, <2>1, <2>3
  <2>4. CASE a # r /\ o # r
    BY <1>1, <2>1, <2>4
  <2> QED BY <2>2, <2>3, <2>4
<1> QED BY <1>1, <1>2 DEF UniqueColumns

\* The row of an upsert has the phone already, or nobody has it and the row is new.
LEMMA UpsertedRow ==
    ASSUME TypeOK, NEW ph, ph # "none", NEW r \in Rows, RowOf(r, ph)
    PROVE  /\ \A o \in Rows \ {r} : user[o].phone # ph
           /\ user[r].phone = ph \/ ~user[r].made
BY DEF TypeOK, UniqueColumns, RowOf, Holders, Free

\* What a step that writes no contact and leaves the syncs alone keeps.
LEMMA RowsKept ==
    ASSUME Inv, UNCHANGED <<crm, sync, owner, refused>>,
           \A r \in Rows : /\ user[r].made => user'[r].made
                           /\ user'[r].contact = user[r].contact
                           /\ user'[r].gone => r = 1 /\ user'[r].phone = "none"
                           /\ user[r].gone => user'[r].gone
                           /\ user[r].made /\ ~user'[r].gone => user'[r].phone = user[r].phone
    PROVE  RowsInv'
<1>1. FirstRow'
  BY FirstIsRow DEF Inv, RowsInv, FirstRow
<1>2. ASSUME NEW r \in Rows, Owns(r) PROVE Owns(r)'
  BY <1>2 DEF Owns, MainKey
<1>3. OwnerInv'
  BY <1>2 DEF Inv, TypeOK, RowsInv, OwnerInv
<1>5. SyncInv'
  BY <1>2 DEF Inv, RowsInv, SyncInv, Owns, MainKey
<1>6. HeldKeys'
  BY ConstantsAssumption DEF Inv, RowsInv, FirstRow, HeldKeys, ConstantsAssumption
<1>7. SyncRefusedOnlyIf'
  BY FirstIsRow DEF Inv, RowsInv, SyncRefusedOnlyIf
<1> QED BY <1>1, <1>3, <1>5, <1>6, <1>7 DEF RowsInv

\* What a step that opens no session keeps.
LEMMA SessionKept ==
    ASSUME Inv, UNCHANGED <<session, refresh, login, late>>,
           user'[1].gone = user[1].gone,
           user[1].gone => user'[1].phone = user[1].phone /\ user'[1].name = user[1].name
    PROVE  SessionInv'
BY DEF Inv, SessionInv, DeletedStaysDeleted

\* What a step that ends no session, and neither answers the device nor is its screen's, keeps.
LEMMA AnswersKept ==
    ASSUME Inv, UNCHANGED <<platform, call, form>>,
           user[1].gone => user'[1].gone, excused => excused',
           session'["mine"] = "ended" => session["mine"] = "ended" \/ user'[1].gone \/ excused'
    PROVE  AnswersInv'
BY DEF Inv, AnswersInv, GoneWhenSignedOut

-----------------------------------------------------------------------------
(* The contacts and the syncs *)

LEMMA EditContactInv == ASSUME Inv, NEW c \in Contacts, NEW raw \in Raw, EditContact(c, raw) PROVE Inv'
<1> DEFINE moves == ~SameNumber(raw, crm.raw[c])
           read  == \E s \in Syncers : sync[s].pc = "lead" /\ sync[s].contact = c
<1>1. /\ crm.edits < MaxEdits
      /\ crm' = [crm EXCEPT !.raw[c] = raw, !.edits = @ + 1,
                            !.moved = IF moves THEN @ \cup {c} ELSE @,
                            !.other = @ \/ (moves /\ (c = crm.main \/ read))]
      /\ UNCHANGED <<platform, user, sync, owner, refused, login, create, call, form, session, refresh,
                     over, late, excused>>
  BY DEF EditContact, loginVars, accessVars
<1>2. crm \in CrmState /\ crm.raw \in [Contacts -> Raw] /\ crm.main \in Contacts /\ crm.edits \in 0 .. MaxEdits
  BY DEF Inv, TypeOK, CrmState
<1>3. /\ crm'.main = crm.main
      /\ crm'.raw \in [Contacts -> Raw]
      /\ crm'.raw[c] = raw /\ \A d \in Contacts \ {c} : crm'.raw[d] = crm.raw[d]
      /\ crm'.moved = IF moves THEN crm.moved \cup {c} ELSE crm.moved
      /\ crm'.edits = crm.edits + 1
  BY <1>1, <1>2 DEF CrmState
<1>4. /\ crm'.other \in BOOLEAN
      /\ ~crm'.other => ~crm.other /\ (moves => c # crm.main /\ ~read)
  BY <1>1, <1>2 DEF CrmState
<1>5. crm' \in CrmState
  <2>1. crm'.edits \in 0 .. MaxEdits
    BY <1>1, <1>2, <1>3, ConstantsAssumption DEF ConstantsAssumption
  <2>2. crm'.moved \subseteq Contacts
    BY <1>2, <1>3 DEF CrmState
  <2> QED BY <1>1, <1>2, <1>3, <1>4, <2>1, <2>2 DEF CrmState
<1>6. TypeOK'
  BY <1>1, <1>5 DEF Inv, TypeOK, UniqueColumns
<1>7. ~moves => KeyOf(raw) = KeyOf(crm.raw[c])
  BY <1>2, NumberKeys
<1>8. \A d \in Contacts : d # c \/ ~moves => KeyOf(crm'.raw[d]) = KeyOf(crm.raw[d])
  BY <1>3, <1>7
<1>9. ~crm'.other => MainKey' = MainKey
  BY <1>2, <1>3, <1>4, <1>8 DEF MainKey
<1>10. \A d \in Contacts : d \notin crm'.moved => d \notin crm.moved /\ KeyOf(crm'.raw[d]) = KeyOf(crm.raw[d])
  BY <1>3, <1>8
<1>11. \A s \in Syncers : sync[s].pc = "lead" /\ ~crm'.other /\ sync[s].contact \in Contacts =>
           KeyOf(crm'.raw[sync[s].contact]) = KeyOf(crm.raw[sync[s].contact])
  BY <1>4, <1>8
<1> HIDE DEF moves, read
<1>12. FirstRow' /\ SyncRefusedOnlyIf'
  <2>1. crm.moved \subseteq crm'.moved
    BY <1>3
  <2> QED BY <1>1, <2>1 DEF Inv, RowsInv, FirstRow, SyncRefusedOnlyIf
<1>13. OwnerInv'
  BY <1>1, <1>4, <1>9 DEF Inv, RowsInv, OwnerInv, Owns
<1>14. SyncInv'
  BY <1>1, <1>4, <1>9, <1>10, <1>11 DEF Inv, RowsInv, SyncInv, Owns
<1>15. HeldKeys'
  BY <1>1, <1>10 DEF Inv, RowsInv, HeldKeys
<1>16. SessionInv' /\ AnswersInv'
  BY <1>1, SessionKept, AnswersKept
<1> QED BY <1>6, <1>12, <1>13, <1>14, <1>15, <1>16 DEF Inv, RowsInv

LEMMA EditLeadInv == ASSUME Inv, NEW c \in Contacts, EditLead(c) PROVE Inv'
<1>1. /\ crm.edits < MaxEdits
      /\ crm' = [crm EXCEPT !.main = c, !.edits = @ + 1,
                            !.other = @ \/ ~SameNumber(crm.raw[c], crm.raw[crm.main])]
      /\ UNCHANGED <<platform, user, sync, owner, refused, login, create, call, form, session, refresh,
                     over, late, excused>>
  BY DEF EditLead, loginVars, accessVars
<1>2. /\ crm \in CrmState /\ crm.raw \in [Contacts -> Raw] /\ crm.main \in Contacts
      /\ crm.edits \in 0 .. MaxEdits
  BY DEF Inv, TypeOK, CrmState
<1>3. /\ crm'.main = c /\ crm'.raw = crm.raw /\ crm'.moved = crm.moved /\ crm'.edits = crm.edits + 1
      /\ crm'.other \in BOOLEAN
      /\ ~crm'.other => ~crm.other /\ SameNumber(crm.raw[c], crm.raw[crm.main])
  BY <1>1, <1>2 DEF CrmState
<1>4. crm' \in CrmState
  <2>1. crm'.edits \in 0 .. MaxEdits
    BY <1>1, <1>2, <1>3, ConstantsAssumption DEF ConstantsAssumption
  <2> QED BY <1>1, <1>2, <1>3, <2>1 DEF CrmState
<1>5. TypeOK'
  BY <1>1, <1>4 DEF Inv, TypeOK, UniqueColumns
<1>6. ~crm'.other => MainKey' = MainKey
  BY <1>2, <1>3, NumberKeys DEF MainKey
<1>7. FirstRow' /\ HeldKeys' /\ SyncRefusedOnlyIf'
  BY <1>1, <1>3 DEF Inv, RowsInv, FirstRow, HeldKeys, SyncRefusedOnlyIf
<1>8. OwnerInv' /\ SyncInv'
  BY <1>1, <1>3, <1>6 DEF Inv, RowsInv, OwnerInv, SyncInv, Owns
<1>9. SessionInv' /\ AnswersInv'
  BY <1>1, SessionKept, AnswersKept
<1> QED BY <1>5, <1>7, <1>8, <1>9 DEF Inv, RowsInv

\* A sync that reads, writes the order or fails.
LEMMA SyncElseInv ==
    ASSUME Inv, NEW s \in Syncers, SyncReadsLead(s) \/ SyncReadsContact(s) \/ SyncWrites(s) \/ SyncFails(s)
    PROVE  Inv'
<1>1. UNCHANGED <<platform, user, crm, refused, login, create, call, form, session, refresh, over, late,
                  excused>>
  BY DEF SyncReadsLead, SyncReadsContact, SyncWrites, SyncFails, loginVars, accessVars
<1>2. sync \in [Syncers -> SyncState] /\ sync[s] \in SyncState /\ crm \in CrmState
  BY DEF Inv, TypeOK
<1>3. PICK new \in SyncState :
        /\ sync' = [sync EXCEPT ![s] = new]
        /\ \/ new = NoSync
           \/ new.pc = "lead" /\ new.contact = crm.main
           \/ /\ new.pc = "contact" /\ sync[s].pc = "lead" /\ new.contact = sync[s].contact
              /\ new.raw = crm.raw[sync[s].contact]
  <2>1. CASE SyncReadsLead(s)
    <3> DEFINE new == [NoSync EXCEPT !.pc = "lead", !.contact = crm.main]
    <3>1. new \in SyncState /\ new.pc = "lead" /\ new.contact = crm.main
      BY <1>2, RecordTypes DEF SyncState, CrmState
    <3>2. sync' = [sync EXCEPT ![s] = new]
      BY <2>1 DEF SyncReadsLead
    <3> HIDE DEF new
    <3> QED BY <3>1, <3>2
  <2>2. CASE SyncReadsContact(s)
    <3> DEFINE new == [sync[s] EXCEPT !.pc = "contact", !.raw = crm.raw[sync[s].contact]]
    <3>1. sync[s].pc = "lead" /\ sync[s].contact \in Contacts
      BY <2>2 DEF SyncReadsContact, Inv, RowsInv, SyncInv
    <3>2. /\ new \in SyncState /\ new.pc = "contact" /\ new.contact = sync[s].contact
          /\ new.raw = crm.raw[sync[s].contact]
      BY <1>2, <3>1 DEF SyncState, CrmState
    <3>3. sync' = [sync EXCEPT ![s] = new]
      BY <2>2 DEF SyncReadsContact
    <3> HIDE DEF new
    <3> QED BY <3>1, <3>2, <3>3
  <2>3. CASE SyncWrites(s) \/ SyncFails(s)
    BY <2>3, RecordTypes DEF SyncWrites, SyncFails
  <2> QED BY <2>1, <2>2, <2>3
<1>4. /\ sync' \in [Syncers -> SyncState]
      /\ \A o \in Syncers : sync'[o] = IF o = s THEN new ELSE sync[o]
  BY <1>2, <1>3
<1>5. owner' = owner \/ (owner' \in Rows /\ Owns(owner'))
  BY DEF SyncReadsLead, SyncReadsContact, SyncWrites, SyncFails, Inv, RowsInv, SyncInv
<1>6. TypeOK'
  BY <1>1, <1>4, <1>5 DEF Inv, TypeOK, UniqueColumns
<1>7. FirstRow' /\ HeldKeys' /\ SyncRefusedOnlyIf'
  BY <1>1 DEF Inv, RowsInv, FirstRow, HeldKeys, SyncRefusedOnlyIf
<1>8. OwnerInv'
  BY <1>1, <1>5 DEF Inv, RowsInv, OwnerInv, Owns, MainKey
<1>9. SyncInv'
  <2>1. /\ new.pc = "lead" => new.contact \in Contacts /\ KeyOf(crm.raw[new.contact]) = MainKey
        /\ new.pc = "contact" => /\ new.contact \in Contacts
                                 /\ KeyOf(new.raw) = KeyOf(crm.raw[new.contact])
                                 /\ ~crm.other => KeyOf(new.raw) = MainKey
        /\ new.pc # "stored"
    BY <1>2, <1>3 DEF NoSync, CrmState, MainKey, Inv, RowsInv, SyncInv
  <2> QED BY <1>1, <1>4, <2>1 DEF Inv, RowsInv, SyncInv, Owns, MainKey
<1>10. SessionInv' /\ AnswersInv'
  BY <1>1, SessionKept, AnswersKept
<1> QED BY <1>6, <1>7, <1>8, <1>9, <1>10 DEF Inv, RowsInv

\* Nobody else holds the contact, or the sync is refused: whoever holds it has the phone
\* that was read, and so is the row itself, unless the number has moved or the account is
\* deleted.
LEMMA SyncUpsertsInv == ASSUME Inv, NEW s \in Syncers, SyncUpserts(s) PROVE Inv'
<1> DEFINE c  == sync[s].contact
           ph == KeyOf(sync[s].raw)
<1>1. PICK r \in Rows, named \in BOOLEAN :
        /\ SyncRow(r, c, ph)
        /\ IF \E o \in Rows \ {r} : user[o].contact = c
           THEN /\ sync' = [sync EXCEPT ![s] = NoSync]
                /\ refused' = refused \cup {c}
                /\ UNCHANGED user
           ELSE /\ user' = [user EXCEPT ![r] = SyncedRow(@, c, ph, named)]
                /\ sync' = [sync EXCEPT ![s] = [NoSync EXCEPT !.pc = "stored", !.row = r]]
                /\ UNCHANGED refused
  BY DEF SyncUpserts
<1>2. UNCHANGED <<platform, crm, owner, login, create, call, form, session, refresh, over, late, excused>>
  BY DEF SyncUpserts, loginVars, accessVars
<1>3. sync[s] \in SyncState /\ sync[s].raw \in Raw /\ user[r] \in RowState
  BY DEF Inv, TypeOK, SyncState
<1>4. /\ c \in Contacts
      /\ c \notin crm.moved => ph = KeyOf(crm.raw[c])
      /\ ~crm.other => ph = MainKey
  BY DEF SyncUpserts, Inv, RowsInv, SyncInv
<1>5. ph \in Keys /\ ph # "none" /\ c # "none"
  BY <1>3, <1>4, NumberKeys, ConstantsAssumption DEF ConstantsAssumption
<1> HIDE DEF c, ph
<1>6. /\ \A o \in Rows \ {r} : user[o].phone # ph
      /\ user[r].phone = ph \/ ~user[r].made
  BY <1>1, <1>5, UpsertedRow DEF SyncRow, Inv
<1>7. CASE \E o \in Rows \ {r} : user[o].contact = c
  <2>1. user' = user /\ sync' = [sync EXCEPT ![s] = NoSync] /\ refused' = refused \cup {c}
    BY <1>1, <1>7
  <2>2. /\ sync' \in [Syncers -> SyncState]
        /\ \A o \in Syncers : sync'[o] = IF o = s THEN NoSync ELSE sync[o]
    BY <2>1, RecordTypes DEF Inv, TypeOK
  <2>3. TypeOK'
    BY <1>2, <1>4, <2>1, <2>2 DEF Inv, TypeOK, UniqueColumns
  <2>4. SyncRefusedOnlyIf'
    <3>1. c \in crm.moved \/ user[1].gone
      <4>1. PICK o \in Rows \ {r} : user[o].contact = c
        BY <1>7
      <4>2. SUFFICES ASSUME c \notin crm.moved, ~user[1].gone PROVE FALSE
        OBVIOUS
      <4>3. ~user[o].gone
        BY <4>1, <4>2 DEF Inv, RowsInv, FirstRow
      <4>4. user[o].phone = ph
        BY <1>4, <4>1, <4>2, <4>3 DEF Inv, RowsInv, HeldKeys
      <4> QED BY <1>6, <4>1, <4>4
    <3> QED BY <1>2, <2>1, <3>1 DEF Inv, RowsInv, SyncRefusedOnlyIf
  <2>5. SyncInv'
    BY <1>2, <2>1, <2>2 DEF Inv, RowsInv, SyncInv, NoSync, Owns, MainKey
  <2>6. FirstRow' /\ OwnerInv' /\ HeldKeys'
    BY <1>2, <2>1 DEF Inv, RowsInv, FirstRow, OwnerInv, HeldKeys, Owns, MainKey
  <2>7. SessionInv' /\ AnswersInv'
    BY <1>2, <2>1, SessionKept, AnswersKept
  <2> QED BY <2>3, <2>4, <2>5, <2>6, <2>7 DEF Inv, RowsInv
<1>8. CASE \A o \in Rows \ {r} : user[o].contact # c
  <2> DEFINE row == SyncedRow(user[r], c, ph, named)
             new == [NoSync EXCEPT !.pc = "stored", !.row = r]
  <2>1. user' = [user EXCEPT ![r] = row] /\ sync' = [sync EXCEPT ![s] = new] /\ refused' = refused
    <3>1. ~\E o \in Rows \ {r} : user[o].contact = c
      BY <1>8
    <3> QED BY <1>1, <3>1
  <2>2. /\ row \in RowState /\ row.phone = ph /\ row.contact = c /\ row.made /\ row.gone = user[r].gone
        /\ new \in SyncState /\ new.pc = "stored" /\ new.row = r
    BY <1>3, <1>4, <1>5, RecordTypes DEF SyncedRow, RowState, SyncState, Names, NoSync
  <2> HIDE DEF row, new
  <2>3. /\ user' \in [Rows -> RowState] /\ UniqueColumns'
        /\ user'[r] = row /\ \A o \in Rows \ {r} : user'[o] = user[o]
    BY <1>6, <1>8, <2>1, <2>2, RowPut DEF Inv
  <2>4. /\ sync' \in [Syncers -> SyncState]
        /\ \A o \in Syncers : sync'[o] = IF o = s THEN new ELSE sync[o]
    BY <2>1, <2>2 DEF Inv, TypeOK
  <2>5. TypeOK'
    BY <1>2, <2>1, <2>3, <2>4 DEF Inv, TypeOK
  <2>6. ~user[r].gone /\ \A o \in Rows : user[o].made => user'[o].phone = user[o].phone
    BY <1>5, <1>6, <2>2, <2>3 DEF Inv, RowsInv, FirstRow
  <2>7. \A o \in Rows : user'[o].gone = user[o].gone /\ (user[o].made => user'[o].made)
    BY <2>2, <2>3
  <2>8. ASSUME NEW o \in Rows, Owns(o) PROVE Owns(o)'
    BY <1>2, <2>6, <2>7, <2>8 DEF Owns, MainKey
  <2>9. Owns(r)'
    BY <1>2, <1>4, <2>2, <2>3 DEF Owns, MainKey
  <2>10. FirstRow'
    BY <2>2, <2>3, <2>6, <2>7, FirstIsRow DEF Inv, RowsInv, FirstRow
  <2>11. OwnerInv'
    BY <1>2, <2>8 DEF Inv, TypeOK, RowsInv, OwnerInv
  <2>12. SyncInv'
    BY <1>2, <2>2, <2>4, <2>8, <2>9 DEF Inv, RowsInv, SyncInv, MainKey
  <2>13. HeldKeys'
    BY <1>2, <1>4, <2>2, <2>3 DEF Inv, RowsInv, HeldKeys
  <2>14. SyncRefusedOnlyIf'
    BY <1>2, <2>1, <2>7, FirstIsRow DEF Inv, RowsInv, SyncRefusedOnlyIf
  <2>15. SessionInv' /\ AnswersInv'
    <3>1. user'[1].gone = user[1].gone /\ (user[1].gone => user'[1] = user[1])
      BY <2>3, <2>6, <2>7, FirstIsRow
    <3> QED BY <1>2, <3>1, SessionKept, AnswersKept
  <2> QED BY <2>5, <2>10, <2>11, <2>12, <2>13, <2>14, <2>15 DEF Inv, RowsInv
<1> QED BY <1>7, <1>8

-----------------------------------------------------------------------------
(* A login and an administrator *)

LEMMA LoginUpsertsInv == ASSUME Inv, LoginUpserts PROVE Inv'
<1>1. PICK r \in Rows :
        /\ login.pc = "verified"
        /\ RowOf(r, login.phone)
        /\ user' = [user EXCEPT ![r] = [@ EXCEPT !.phone = login.phone, !.made = TRUE]]
        /\ login' = [login EXCEPT !.pc = "upserted", !.row = r]
        /\ UNCHANGED <<platform, crm, sync, owner, refused, create, call, form, session, refresh, over,
                       late, excused>>
  BY DEF LoginUpserts, syncVars, accessVars
<1>2. /\ login \in [pc : {"idle", "verified", "upserted"}, phone : Phones, row : Rows \cup {0},
                    overtaken : BOOLEAN]
      /\ login.phone \in Keys /\ login.phone # "none" /\ user[r] \in RowState
  BY DEF Inv, TypeOK, Phones, Keys
<1>3. /\ \A o \in Rows \ {r} : user[o].phone # login.phone
      /\ user[r].phone = login.phone \/ ~user[r].made
  BY <1>1, <1>2, UpsertedRow DEF Inv
<1> DEFINE row == [user[r] EXCEPT !.phone = login.phone, !.made = TRUE]
<1>4. user' = [user EXCEPT ![r] = row]
  BY <1>1
<1>5. /\ row \in RowState /\ row.phone = login.phone /\ row.contact = user[r].contact /\ row.made
      /\ row.gone = user[r].gone /\ row.name = user[r].name
  BY <1>2 DEF RowState
<1> HIDE DEF row
<1>6. /\ user' \in [Rows -> RowState] /\ UniqueColumns'
      /\ user'[r] = row /\ \A o \in Rows \ {r} : user'[o] = user[o]
  BY <1>3, <1>4, <1>5, RowPut DEF Inv
<1>7. login' \in [pc : {"idle", "verified", "upserted"}, phone : Phones, row : Rows \cup {0},
                  overtaken : BOOLEAN]
  BY <1>1, <1>2
<1>8. TypeOK'
  BY <1>1, <1>6, <1>7 DEF Inv, TypeOK
<1>9. ~user[r].gone /\ (user[r].made => user[r].phone = login.phone)
  BY <1>2, <1>3 DEF Inv, RowsInv, FirstRow
<1>10. RowsInv'
  BY <1>1, <1>5, <1>6, <1>9, RowsKept DEF Inv, RowsInv, FirstRow
<1>11. /\ user'[1].gone = user[1].gone
       /\ user[1].gone => user'[1] = user[1] /\ r # 1
  BY <1>5, <1>6, <1>9, FirstIsRow
<1>12. SessionInv'
  <2>1. user[1].gone => login'.row # 1
    BY <1>1, <1>2, <1>11
  <2> QED BY <1>1, <1>11, <2>1 DEF Inv, SessionInv, DeletedStaysDeleted
<1>13. AnswersInv'
  BY <1>1, <1>11, AnswersKept
<1> QED BY <1>8, <1>10, <1>12, <1>13 DEF Inv

\* A login that had the row of an account before the account was deleted was overtaken.
LEMMA LoginOpensInv == ASSUME Inv, LoginOpens PROVE Inv'
<1>1. /\ login.pc = "upserted"
      /\ session' = IF login.row = 1 THEN [session EXCEPT !["other"] = Opened] ELSE session
      /\ late' = IF login.overtaken THEN late \cup {"session"} ELSE late
      /\ login' = NoLogin
      /\ UNCHANGED <<platform, user, crm, sync, owner, refused, create, call, form, refresh, over, excused>>
  BY DEF LoginOpens, syncVars
<1>2. session' \in [Devices -> {"ended", "live", "fresh"}] /\ session'["mine"] = session["mine"]
  BY <1>1 DEF Inv, TypeOK, Opened, Devices
<1>3. late' \subseteq {"save", "session"} /\ late \subseteq late'
  BY <1>1 DEF Inv, TypeOK
<1>4. TypeOK'
  BY <1>1, <1>2, <1>3, RecordTypes DEF Inv, TypeOK, UniqueColumns
<1>5. RowsInv'
  BY <1>1, RowsKept DEF Inv, RowsInv, FirstRow
<1>6. SessionInv'
  <2>1. user[1].gone => "session" \in late' \/ session' = session
    BY <1>1 DEF Inv, SessionInv
  <2> QED BY <1>1, <1>3, <2>1 DEF Inv, SessionInv, DeletedStaysDeleted, NoLogin
<1>7. AnswersInv'
  BY <1>1, <1>2, AnswersKept
<1> QED BY <1>4, <1>5, <1>6, <1>7 DEF Inv

LEMMA CreateInsertsInv == ASSUME Inv, CreateInserts PROVE Inv'
<1>1. PICK r \in Rows :
        /\ Free(r)
        /\ user' = IF Holders(create.phone) # {} THEN user
                   ELSE [user EXCEPT ![r] = [NoRow EXCEPT !.phone = create.phone, !.made = TRUE]]
        /\ create' = NoCreate
        /\ UNCHANGED <<platform, crm, sync, owner, refused, login, call, form, session, refresh, over,
                       late, excused>>
  BY DEF CreateInserts, syncVars, accessVars
<1>2. create.phone \in Keys
  BY DEF Inv, TypeOK, Phones, Keys
<1>3. /\ user' \in [Rows -> RowState] /\ UniqueColumns'
      /\ \A o \in Rows : user[o].made => user'[o] = user[o]
      /\ \A o \in Rows : user'[o].contact = user[o].contact /\ user'[o].gone = user[o].gone
  <2>1. CASE Holders(create.phone) # {}
    BY <1>1, <2>1 DEF Inv, TypeOK, UniqueColumns
  <2>2. CASE Holders(create.phone) = {}
    <3> DEFINE row == [NoRow EXCEPT !.phone = create.phone, !.made = TRUE]
    <3>1. user' = [user EXCEPT ![r] = row]
      BY <1>1, <2>2
    <3>2. row \in RowState /\ row.phone = create.phone /\ row.contact = "none" /\ ~row.gone
      BY <1>2, RecordTypes DEF RowState, NoRow
    <3>3. \A o \in Rows : user[o].phone # create.phone
      BY <2>2 DEF Holders
    <3> HIDE DEF row
    <3>4. /\ user' \in [Rows -> RowState] /\ UniqueColumns'
          /\ user'[r] = row /\ \A o \in Rows \ {r} : user'[o] = user[o]
      BY <3>1, <3>2, <3>3, RowPut DEF Inv
    <3>5. ~user[r].made /\ user[r].contact = "none" /\ ~user[r].gone
      BY <1>1, FirstIsRow DEF Free, Inv, TypeOK, RowState, RowsInv, FirstRow
    <3> QED BY <3>2, <3>4, <3>5 DEF Inv, TypeOK, RowState
  <2> QED BY <2>1, <2>2
<1>4. TypeOK'
  BY <1>1, <1>3, RecordTypes DEF Inv, TypeOK
<1>5. user'[1] = user[1]
  BY <1>3, FirstIsRow DEF Inv, RowsInv, FirstRow
<1>6. RowsInv'
  <2>1. \A o \in Rows : user[o].gone => o = 1 /\ user'[o] = user[o] /\ user[o].phone = "none"
    BY <1>5 DEF Inv, RowsInv, FirstRow
  <2>2. \A o \in Rows : user[o].made => user'[o].made /\ user'[o].phone = user[o].phone
    BY <1>3
  <2> QED BY <1>1, <1>3, <2>1, <2>2, RowsKept
<1>7. SessionInv' /\ AnswersInv'
  BY <1>1, <1>5, SessionKept, AnswersKept
<1> QED BY <1>4, <1>6, <1>7 DEF Inv

\* The code that is right and the check that finds the phone free.
LEMMA ChecksInv ==
    ASSUME Inv, NEW ph \in Phones, LoginVerified(ph) \/ CreateChecks(ph) PROVE Inv'
<1>1. UNCHANGED <<platform, user, crm, sync, owner, refused, call, form, session, refresh, over, late, excused>>
  BY DEF LoginVerified, CreateChecks, syncVars, loginVars, accessVars
<1>2. /\ login' \in [pc : {"idle", "verified", "upserted"}, phone : Phones, row : Rows \cup {0},
                     overtaken : BOOLEAN]
      /\ login' = login \/ login'.pc = "verified"
      /\ create' \in [pc : {"idle", "checked"}, phone : Phones]
  <2>1. CASE LoginVerified(ph)
    <3> DEFINE new == [NoLogin EXCEPT !.pc = "verified", !.phone = ph]
    <3>1. /\ new.pc = "verified"
          /\ new \in [pc : {"idle", "verified", "upserted"}, phone : Phones, row : Rows \cup {0},
                      overtaken : BOOLEAN]
      BY DEF NoLogin
    <3>2. login' = new /\ create' = create
      BY <2>1 DEF LoginVerified
    <3> HIDE DEF new
    <3> QED BY <3>1, <3>2 DEF Inv, TypeOK
  <2>2. CASE CreateChecks(ph)
    <3>1. create' = [pc |-> "checked", phone |-> ph] /\ login' = login
      BY <2>2 DEF CreateChecks, loginVars
    <3> QED BY <3>1 DEF Inv, TypeOK
  <2> QED BY <2>1, <2>2
<1>3. TypeOK'
  BY <1>1, <1>2 DEF Inv, TypeOK, UniqueColumns
<1>4. RowsInv'
  BY <1>1, RowsKept DEF Inv, RowsInv, FirstRow
<1>5. SessionInv'
  BY <1>1, <1>2 DEF Inv, SessionInv, DeletedStaysDeleted
<1>6. AnswersInv'
  BY <1>1, AnswersKept
<1> QED BY <1>3, <1>4, <1>5, <1>6 DEF Inv

-----------------------------------------------------------------------------
(* The sessions *)

\* A session that comes or goes without an answer to the device: whatever opens one for a
\* deleted account has told so, or another was open.
LEMMA SessionStepInv == ASSUME Inv, SessionStep PROVE Inv'
<1>1. UNCHANGED <<platform, user, crm, sync, owner, refused, login, create, call, form>>
  BY DEF SessionStep, RefreshLost, TokenOver, RefreshChecks, RefreshRotates, EndSession, syncVars, loginVars
<1>2. session \in [Devices -> {"ended", "live", "fresh"}] /\ Opened \in {"live", "fresh"}
  BY DEF Inv, TypeOK, Opened
<1>3. /\ session' \in [Devices -> {"ended", "live", "fresh"}]
      /\ refresh' \in [Devices -> {"idle", "checked", "overtaken"}]
      /\ over' \in BOOLEAN /\ excused' \in BOOLEAN
      /\ late' \subseteq {"save", "session"} /\ late \subseteq late' /\ (excused => excused')
      /\ user[1].gone => "session" \in late' \/ \A d \in Devices : session'[d] = "ended"
      /\ \A d \in Devices : user[1].gone /\ refresh'[d] = "checked" => "session" \in late'
      /\ session'["mine"] = "ended" => session["mine"] = "ended" \/ excused'
  <2>0. /\ over \in BOOLEAN /\ excused \in BOOLEAN /\ late \subseteq {"save", "session"}
        /\ refresh \in [Devices -> {"idle", "checked", "overtaken"}]
        /\ user[1].gone => "session" \in late \/ \A d \in Devices : session[d] = "ended"
        /\ \A d \in Devices : user[1].gone /\ refresh[d] = "checked" => "session" \in late
    BY DEF Inv, TypeOK, SessionInv, DeletedStaysDeleted
  <2>1. CASE TokenOver
    BY <1>2, <2>0, <2>1 DEF TokenOver
  <2>2. CASE RefreshLost
    <3>1. /\ session' = [mine  |-> "ended",
                         other |-> IF refresh["mine"] # "idle" THEN Opened
                                   ELSE IF session["other"] = "ended" THEN session["mine"] ELSE session["other"]]
          /\ refresh' = [refresh EXCEPT !["mine"] = "idle"]
          /\ late' = LateRefresh("mine") /\ excused' = TRUE /\ over' = over
      BY <2>2 DEF RefreshLost
    <3>2. session' \in [Devices -> {"ended", "live", "fresh"}]
      <4>1. session["mine"] \in {"ended", "live", "fresh"} /\ session["other"] \in {"ended", "live", "fresh"}
        BY <1>2 DEF Devices
      <4> QED BY <1>2, <3>1, <4>1 DEF Devices
    <3>3. user[1].gone => "session" \in late' \/ \A d \in Devices : session'[d] = "ended"
      <4>1. CASE refresh["mine"] # "idle"
        BY <2>0, <3>1, <4>1 DEF LateRefresh, Devices
      <4>2. CASE refresh["mine"] = "idle"
        BY <2>0, <3>1, <4>2 DEF LateRefresh, Devices
      <4> QED BY <4>1, <4>2
    <3> QED BY <2>0, <3>1, <3>2, <3>3 DEF LateRefresh
  <2>3. ASSUME NEW d \in Devices, RefreshChecks(d)
        PROVE  /\ UNCHANGED <<session, over, late, excused>>
               /\ refresh' = [refresh EXCEPT ![d] = "checked"] /\ session[d] # "ended"
    BY <2>3 DEF RefreshChecks, MayRefresh
  <2>4. ASSUME NEW d \in Devices, RefreshRotates(d)
        PROVE  /\ session' = [session EXCEPT ![d] = Opened] /\ refresh' = [refresh EXCEPT ![d] = "idle"]
               /\ over' \in BOOLEAN /\ UNCHANGED excused
               /\ late' = LateRefresh(d) /\ (user[1].gone => "session" \in late')
    <3>1. refresh[d] \in {"checked", "overtaken"}
      BY <2>0, <2>4 DEF RefreshRotates
    <3>2. /\ session' = [session EXCEPT ![d] = Opened] /\ refresh' = [refresh EXCEPT ![d] = "idle"]
          /\ over' \in BOOLEAN /\ UNCHANGED excused /\ late' = LateRefresh(d)
      BY <2>4 DEF RefreshRotates
    <3> QED BY <2>0, <3>1, <3>2 DEF LateRefresh
  <2>5. ASSUME NEW d \in Devices, EndSession(d)
        PROVE  /\ session' = [session EXCEPT ![d] = "ended"] /\ UNCHANGED <<refresh, over, late>>
               /\ excused' = (excused \/ d = "mine")
    BY <2>5 DEF EndSession
  <2>6. CASE \E d \in Devices : RefreshChecks(d)
    BY <1>2, <2>0, <2>3, <2>6
  <2>7. CASE \E d \in Devices : RefreshRotates(d)
    <3>1. PICK d \in Devices : RefreshRotates(d)
      BY <2>7
    <3>2. /\ session' = [session EXCEPT ![d] = Opened] /\ refresh' = [refresh EXCEPT ![d] = "idle"]
          /\ over' \in BOOLEAN /\ excused' = excused
          /\ late' = LateRefresh(d) /\ (user[1].gone => "session" \in late')
      BY <2>4, <3>1, Zenon
    <3>3. \A e \in Devices : session'[e] = "ended" => session[e] = "ended"
      BY <1>2, <3>2
    <3>4. /\ session' \in [Devices -> {"ended", "live", "fresh"}]
          /\ refresh' \in [Devices -> {"idle", "checked", "overtaken"}]
      BY <1>2, <2>0, <3>2
    <3>5. late' \subseteq {"save", "session"} /\ late \subseteq late'
      BY <2>0, <3>2 DEF LateRefresh
    <3>6. \A e \in Devices : user[1].gone /\ refresh'[e] = "checked" => "session" \in late'
      BY <3>2
    <3>7. session'["mine"] = "ended" => session["mine"] = "ended"
      BY <3>3 DEF Devices
    <3> QED BY <2>0, <3>2, <3>4, <3>5, <3>6, <3>7
  <2>8. CASE \E d \in Devices : EndSession(d)
    <3>1. PICK d \in Devices : EndSession(d)
      BY <2>8
    <3>2. /\ session' = [session EXCEPT ![d] = "ended"] /\ refresh' = refresh /\ over' = over /\ late' = late
          /\ excused' = (excused \/ d = "mine")
      BY <2>5, <3>1, Zenon
    <3>3. \A e \in Devices : session'[e] = IF e = d THEN "ended" ELSE session[e]
      BY <1>2, <3>2
    <3>4. session' \in [Devices -> {"ended", "live", "fresh"}]
      BY <1>2, <3>2
    <3>5. excused' \in BOOLEAN /\ (excused => excused') /\ (d = "mine" => excused')
      BY <2>0, <3>2, Zenon
    <3>6. session'["mine"] = "ended" => session["mine"] = "ended" \/ excused'
      BY <3>3, <3>5 DEF Devices
    <3> QED BY <2>0, <3>2, <3>3, <3>4, <3>5, <3>6
  <2> QED BY <2>1, <2>2, <2>6, <2>7, <2>8 DEF SessionStep
<1>4. TypeOK'
  BY <1>1, <1>3 DEF Inv, TypeOK, UniqueColumns
<1>5. RowsInv'
  BY <1>1, RowsKept DEF Inv, RowsInv, FirstRow
<1>6. SessionInv'
  BY <1>1, <1>3 DEF Inv, SessionInv, DeletedStaysDeleted
<1>7. AnswersInv'
  BY <1>1, <1>3, AnswersKept
<1> QED BY <1>4, <1>5, <1>6, <1>7 DEF Inv

-----------------------------------------------------------------------------
(* The device's calls *)

\* A step of the device keeps what is said of the tables and the sessions.
LEMMA DeviceStep ==
    ASSUME Inv, UNCHANGED <<platform, user, crm, sync, owner, refused, login, create, session, refresh,
                            over, late>>,
           call' \in [Kinds -> CallState], form' \in FormState, excused' \in BOOLEAN, AnswersInv'
    PROVE  Inv'
<1>1. TypeOK'
  BY DEF Inv, TypeOK, UniqueColumns
<1>2. RowsInv'
  BY RowsKept DEF Inv, RowsInv, FirstRow
<1>3. SessionInv'
  BY SessionKept
<1> QED BY <1>1, <1>2, <1>3 DEF Inv

\* A step of one call: an answer that closes the screen has to be true.
LEMMA CallStep ==
    ASSUME Inv, NEW k \in Kinds, NEW new \in CallState, call' = [call EXCEPT ![k] = new],
           UNCHANGED <<platform, user, crm, sync, owner, refused, login, create, session, refresh,
                       over, late, form>>,
           excused' \in BOOLEAN, excused => excused',
           new.pc = "denied" /\ form.screen = "in" => user[1].gone \/ excused',
           new.pc = "failed" /\ platform # "ios" => excused',
           new.pc = "ok" /\ k = "delete" => user[1].gone
    PROVE  Inv'
<1>1. /\ call' \in [Kinds -> CallState]
      /\ \A j \in Kinds : call'[j] = IF j = k THEN new ELSE call[j]
  BY DEF Inv, TypeOK
<1>2. AnswersInv'
  BY <1>1 DEF Inv, AnswersInv, GoneWhenSignedOut, Kinds
<1>3. form' \in FormState
  BY DEF Inv, TypeOK
<1> QED BY <1>1, <1>2, <1>3, DeviceStep

LEMMA ServesInv == ASSUME Inv, Me \/ EraseStarts \/ \E k \in Kinds : Refused(k) PROVE Inv'
<1>1. UNCHANGED <<platform, user, crm, sync, owner, refused, login, create, session, refresh, over, late,
                  form, excused>>
  BY DEF Me, EraseStarts, Refused, syncVars, loginVars, accessVars
<1>2. excused' \in BOOLEAN
  BY <1>1 DEF Inv, TypeOK
<1>3. CASE Me
  <2> DEFINE new == [NoCall EXCEPT !.pc = "ok"]
  <2>1. new \in CallState /\ new.pc = "ok"
    BY DEF NoCall, CallState
  <2>2. call' = [call EXCEPT !["load"] = new] /\ "load" \in Kinds
    BY <1>3 DEF Me, Kinds
  <2> HIDE DEF new
  <2> QED BY <1>1, <1>2, <2>1, <2>2, CallStep
<1>4. CASE EraseStarts
  <2> DEFINE new == [call["delete"] EXCEPT !.pc = "erasing"]
  <2>1. new \in CallState /\ new.pc = "erasing"
    BY DEF Inv, TypeOK, CallState, Kinds
  <2>2. call' = [call EXCEPT !["delete"] = new] /\ "delete" \in Kinds
    BY <1>4 DEF EraseStarts, Kinds
  <2> HIDE DEF new
  <2> QED BY <1>1, <1>2, <2>1, <2>2, CallStep
<1>5. ASSUME NEW k \in Kinds, Refused(k) PROVE Inv'
  <2> DEFINE new == [NoCall EXCEPT !.pc = IF NoRoute THEN "failed" ELSE "denied"]
  <2>1. /\ new \in CallState /\ new.pc \in {"failed", "denied"}
        /\ new.pc = "failed" => platform = "ios"
        /\ new.pc = "denied" => session["mine"] = "ended"
    BY <1>5 DEF NoCall, CallState, NoRoute, Refused, Denied
  <2>2. call' = [call EXCEPT ![k] = new]
    BY <1>5 DEF Refused
  <2> HIDE DEF new
  <2>3. new.pc = "denied" /\ form.screen = "in" => user[1].gone \/ excused'
    BY <1>1, <2>1 DEF Inv, AnswersInv
  <2> QED BY <1>1, <1>2, <2>1, <2>2, <2>3, CallStep
<1> QED BY <1>3, <1>4, <1>5

LEMMA CallLostInv == ASSUME Inv, NEW k \in Kinds, CallLost(k) PROVE Inv'
<1> DEFINE new == [NoCall EXCEPT !.pc = "failed"]
<1>1. new \in CallState /\ new.pc = "failed"
  BY DEF NoCall, CallState
<1>2. call' = [call EXCEPT ![k] = new] /\ excused' = TRUE
  BY DEF CallLost
<1>3. UNCHANGED <<platform, user, crm, sync, owner, refused, login, create, session, refresh, over, late, form>>
  BY DEF CallLost, syncVars, loginVars
<1> HIDE DEF new
<1> QED BY <1>1, <1>2, <1>3, CallStep

\* A save brings the name of a deleted account back, and says so.
LEMMA UpdateMeInv == ASSUME Inv, UpdateMe PROVE Inv'
<1> DEFINE row == [user[1] EXCEPT !.name = IF call["save"].named THEN "own" ELSE @]
           new == [call["save"] EXCEPT !.pc = "ok"]
<1>1. /\ user' = [user EXCEPT ![1] = row]
      /\ call' = [call EXCEPT !["save"] = new]
      /\ late' = IF user[1].gone THEN late \cup {"save"} ELSE late
      /\ UNCHANGED <<platform, crm, sync, owner, refused, login, create, form, session, refresh, over, excused>>
  BY DEF UpdateMe, syncVars, loginVars
<1>2. call["save"] \in CallState /\ user[1] \in RowState
  BY FirstIsRow DEF Inv, TypeOK, Kinds
<1>3. /\ row \in RowState /\ row.phone = user[1].phone /\ row.contact = user[1].contact
      /\ row.gone = user[1].gone /\ row.made = user[1].made
      /\ new \in CallState /\ new.pc = "ok"
  BY <1>2 DEF RowState, CallState, Names
<1> HIDE DEF row, new
<1>4. /\ user' \in [Rows -> RowState] /\ UniqueColumns'
      /\ user'[1] = row /\ \A o \in Rows \ {1} : user'[o] = user[o]
  BY <1>1, <1>3, RowPut, FirstIsRow DEF Inv
<1>5. /\ call' \in [Kinds -> CallState]
      /\ \A k \in Kinds : call'[k] = IF k = "save" THEN new ELSE call[k]
  BY <1>1, <1>3 DEF Inv, TypeOK
<1>6. late' \subseteq {"save", "session"} /\ late \subseteq late' /\ (user[1].gone => "save" \in late')
  BY <1>1 DEF Inv, TypeOK
<1>7. TypeOK'
  BY <1>1, <1>4, <1>5, <1>6 DEF Inv, TypeOK
<1>8. RowsInv'
  BY <1>1, <1>3, <1>4, RowsKept DEF Inv, RowsInv, FirstRow
<1>9. SessionInv'
  BY <1>1, <1>3, <1>4, <1>6 DEF Inv, SessionInv, DeletedStaysDeleted
<1>10. AnswersInv'
  BY <1>1, <1>3, <1>4, <1>5 DEF Inv, AnswersInv, GoneWhenSignedOut, Kinds
<1> QED BY <1>7, <1>8, <1>9, <1>10 DEF Inv

\* The sessions that outlive the deletion were opened while it ran; a refresh or a login
\* that is under way now was overtaken.
LEMMA EraseCommitsInv == ASSUME Inv, EraseCommits PROVE Inv'
<1> DEFINE row == [user[1] EXCEPT !.phone = "none", !.name = "gone", !.gone = TRUE]
           new == [NoCall EXCEPT !.pc = "ok"]
<1>1. /\ user' = [user EXCEPT ![1] = row]
      /\ call' = [call EXCEPT !["delete"] = new]
      /\ session' = [d \in Devices |-> IF session[d] = "fresh" THEN "live" ELSE "ended"]
      /\ late' = IF \E d \in Devices : session[d] = "fresh" THEN late \cup {"session"} ELSE late
      /\ refresh' = [d \in Devices |-> IF refresh[d] = "idle" THEN "idle" ELSE "overtaken"]
      /\ login' = [login EXCEPT !.overtaken = @ \/ login.row = 1]
      /\ UNCHANGED <<platform, crm, sync, owner, refused, create, form, over, excused>>
  BY DEF EraseCommits, syncVars
<1>2. user[1] \in RowState
  BY FirstIsRow DEF Inv, TypeOK
<1>3. /\ row \in RowState /\ row.phone = "none" /\ row.contact = user[1].contact
      /\ row.gone /\ row.made = user[1].made /\ row.name = "gone"
      /\ new \in CallState /\ new.pc = "ok"
  BY <1>2, RecordTypes DEF RowState, CallState, NoCall, Names
<1> HIDE DEF row, new
<1>4. /\ user' \in [Rows -> RowState] /\ UniqueColumns'
      /\ user'[1] = row /\ \A o \in Rows \ {1} : user'[o] = user[o]
  BY <1>1, <1>3, RowPut, FirstIsRow DEF Inv
<1>5. /\ call' \in [Kinds -> CallState]
      /\ \A k \in Kinds : call'[k] = IF k = "delete" THEN new ELSE call[k]
  BY <1>1, <1>3 DEF Inv, TypeOK
<1>6. /\ login' \in [pc : {"idle", "verified", "upserted"}, phone : Phones, row : Rows \cup {0},
                     overtaken : BOOLEAN]
      /\ login'.row = 1 => login'.overtaken
  BY <1>1 DEF Inv, TypeOK
<1>7. /\ late' \subseteq {"save", "session"}
      /\ (\A d \in Devices : session'[d] = "ended") \/ "session" \in late'
  BY <1>1 DEF Inv, TypeOK
<1>8. TypeOK'
  <2>1. /\ session' \in [Devices -> {"ended", "live", "fresh"}]
        /\ refresh' \in [Devices -> {"idle", "checked", "overtaken"}]
    BY <1>1
  <2> QED BY <1>1, <1>4, <1>5, <1>6, <1>7, <2>1 DEF Inv, TypeOK
<1>9. RowsInv'
  BY <1>1, <1>3, <1>4, RowsKept, FirstIsRow DEF Inv, RowsInv, FirstRow
<1>10. SessionInv'
  BY <1>1, <1>3, <1>4, <1>6, <1>7 DEF SessionInv, DeletedStaysDeleted
<1>11. AnswersInv'
  BY <1>1, <1>3, <1>4, <1>5 DEF Inv, AnswersInv, GoneWhenSignedOut, Kinds
<1> QED BY <1>8, <1>9, <1>10, <1>11 DEF Inv

LEMMA EraseFailsInv == ASSUME Inv, EraseFails PROVE Inv'
<1> DEFINE new == [NoCall EXCEPT !.pc = "failed"]
<1>1. /\ session' = [d \in Devices |-> IF session[d] = "fresh" THEN "live" ELSE session[d]]
      /\ call' = [call EXCEPT !["delete"] = new]
      /\ excused' = TRUE
      /\ UNCHANGED <<platform, user, crm, sync, owner, refused, login, create, form, refresh, over, late>>
  BY DEF EraseFails, syncVars, loginVars
<1>2. new \in CallState /\ new.pc = "failed"
  BY DEF NoCall, CallState
<1> HIDE DEF new
<1>3. /\ call' \in [Kinds -> CallState]
      /\ \A k \in Kinds : call'[k] = IF k = "delete" THEN new ELSE call[k]
  BY <1>1, <1>2 DEF Inv, TypeOK
<1>4. /\ session' \in [Devices -> {"ended", "live", "fresh"}]
      /\ \A d \in Devices : session'[d] = "ended" <=> session[d] = "ended"
  BY <1>1 DEF Inv, TypeOK
<1>5. TypeOK'
  BY <1>1, <1>3, <1>4 DEF Inv, TypeOK, UniqueColumns
<1>6. RowsInv'
  BY <1>1, RowsKept DEF Inv, RowsInv, FirstRow
<1>7. SessionInv'
  BY <1>1, <1>4 DEF Inv, SessionInv, DeletedStaysDeleted
<1>8. AnswersInv'
  BY <1>1, <1>2, <1>3 DEF Inv, AnswersInv, GoneWhenSignedOut, Kinds
<1> QED BY <1>5, <1>6, <1>7, <1>8 DEF Inv

-----------------------------------------------------------------------------
(* The profile screen *)

\* The calls that the screen makes; the web has no button to delete the account.
LEMMA UserInv == ASSUME Inv, UserStep PROVE Inv'
<1>1. UNCHANGED <<platform, user, crm, sync, owner, refused, login, create, session, refresh, over, late,
                  excused>>
  BY DEF UserStep, Load, TypeName, Save, DeleteAccount, syncVars, loginVars, accessVars
<1>2. excused' \in BOOLEAN
  BY <1>1 DEF Inv, TypeOK
<1>3. CASE Load
  <2> DEFINE new == [call["load"] EXCEPT !.pc = "sent"]
  <2>1. new \in CallState /\ new.pc = "sent"
    BY DEF Inv, TypeOK, CallState, Kinds
  <2>2. call' = [call EXCEPT !["load"] = new] /\ form' = form /\ "load" \in Kinds
    BY <1>3 DEF Load, Kinds
  <2> HIDE DEF new
  <2> QED BY <1>1, <1>2, <2>1, <2>2, CallStep
<1>4. CASE Save
  <2> DEFINE new == [NoCall EXCEPT !.pc = "sent", !.named = Named(form.typed)]
  <2>1. new \in CallState /\ new.pc = "sent"
    <3>1. Named(form.typed) \in BOOLEAN
      BY DEF Named
    <3> QED BY <3>1 DEF CallState, NoCall
  <2>2. call' = [call EXCEPT !["save"] = new] /\ form' = form /\ "save" \in Kinds
    BY <1>4 DEF Save, Kinds
  <2> HIDE DEF new
  <2> QED BY <1>1, <1>2, <2>1, <2>2, CallStep
<1>5. ASSUME NEW n \in Typed, TypeName(n) PROVE Inv'
  <2>1. /\ call' = call /\ form' \in FormState
        /\ form'.asked = form.asked /\ form'.screen = form.screen
    BY <1>5 DEF TypeName, Inv, TypeOK, FormState
  <2>2. AnswersInv'
    BY <1>1, <2>1 DEF Inv, AnswersInv, GoneWhenSignedOut
  <2>3. call' \in [Kinds -> CallState]
    BY <2>1 DEF Inv, TypeOK
  <2> QED BY <1>1, <1>2, <2>1, <2>2, <2>3, DeviceStep
<1>6. CASE DeleteAccount
  <2> DEFINE new == [call["delete"] EXCEPT !.pc = "sent"]
  <2>1. new \in CallState /\ new.pc = "sent"
    BY DEF Inv, TypeOK, CallState, Kinds
  <2>2. call' = [call EXCEPT !["delete"] = new]
    BY <1>6 DEF DeleteAccount
  <2> HIDE DEF new
  <2>3. /\ call' \in [Kinds -> CallState]
        /\ \A k \in Kinds : call'[k] = IF k = "delete" THEN new ELSE call[k]
    BY <2>1, <2>2 DEF Inv, TypeOK
  <2>4. form' \in FormState /\ form'.screen = "in" /\ form.screen = "in" /\ platform # "web"
    BY <1>6 DEF DeleteAccount, Usable, Here, Inv, TypeOK, FormState
  <2>5. AnswersInv'
    BY <1>1, <2>1, <2>3, <2>4 DEF Inv, AnswersInv, GoneWhenSignedOut, Kinds
  <2> QED BY <1>1, <1>2, <2>3, <2>4, <2>5, DeviceStep
<1> QED BY <1>3, <1>4, <1>5, <1>6 DEF UserStep

\* The answers: a screen that confirmed a deletion closes only on one that tells of it, of
\* a failure, or of a session that has ended.
LEMMA AnswerInv == ASSUME Inv, AnswerStep PROVE Inv'
<1>1. UNCHANGED <<platform, user, crm, sync, owner, refused, login, create, session, refresh, over, late,
                  excused>>
  BY DEF AnswerStep, Loaded, Saved, Deleted, Fails, SignedOut, syncVars, loginVars, accessVars
<1>2. PICK k \in Kinds, load \in CallState :
        /\ call' = [j \in Kinds |-> IF j = k THEN NoCall ELSE IF j = "load" THEN load ELSE call[j]]
        /\ load = call["load"] \/ load.pc = "sent"
  <2> DEFINE again == [NoCall EXCEPT !.pc = "sent"]
  <2>1. again \in CallState /\ again.pc = "sent"
    BY RecordTypes DEF NoCall, CallState
  <2>2. call["load"] \in CallState /\ call \in [Kinds -> CallState]
    BY DEF Inv, TypeOK, Kinds
  <2>3. CASE \E k \in Kinds : call' = [call EXCEPT ![k] = NoCall]
    BY <2>2, <2>3
  <2>4. CASE call' = [call EXCEPT !["save"] = NoCall, !["load"] = again]
    <3> HIDE DEF again
    <3>1. call' = [j \in Kinds |-> IF j = "save" THEN NoCall ELSE IF j = "load" THEN again ELSE call[j]]
      BY <2>2, <2>4 DEF Kinds
    <3> QED BY <2>1, <3>1 DEF Kinds
  <2>5. CASE call' = [call EXCEPT !["save"] = NoCall, !["load"] = @]
    <3>1. call' = [j \in Kinds |-> IF j = "save" THEN NoCall ELSE IF j = "load" THEN call["load"] ELSE call[j]]
      BY <2>2, <2>5 DEF Kinds
    <3> QED BY <2>2, <3>1 DEF Kinds
  <2> QED BY <2>3, <2>4, <2>5 DEF AnswerStep, Loaded, Saved, Deleted, Fails, SignedOut, Kinds
<1>3. /\ call' \in [Kinds -> CallState] /\ NoCall.pc = "idle"
      /\ \A j \in Kinds : call'[j] = IF j = k THEN NoCall ELSE IF j = "load" THEN load ELSE call[j]
  BY <1>2, RecordTypes DEF Inv, TypeOK, NoCall
<1>4. /\ form' \in FormState /\ form'.asked = form.asked
      /\ form'.screen = "in" => form.screen = "in"
      /\ form.asked /\ form'.screen = "out" => form.screen = "out" \/ user[1].gone \/ excused
  <2> DEFINE Fine == /\ form' \in FormState /\ form'.asked = form.asked
                     /\ form'.screen = "in" => form.screen = "in"
                     /\ form.asked /\ form'.screen = "out" => form.screen = "out" \/ user[1].gone \/ excused
  <2>1. form \in FormState
    BY DEF Inv, TypeOK
  <2>2. CASE Loaded
    BY <2>1, <2>2 DEF Loaded, FormState
  <2>3. CASE Saved
    BY <2>1, <2>3 DEF Saved, FormState
  <2>4. CASE Deleted
    <3>1. user[1].gone /\ form.screen = "in"
      BY <2>4 DEF Deleted, Answer, Here, Inv, AnswersInv
    <3> QED BY <2>1, <2>4, <3>1 DEF Deleted, FormState
  <2>5. ASSUME NEW j \in Kinds, Fails(j) PROVE Fine
    <3>1. (platform # "ios" => excused) /\ form.screen = "in"
      BY <2>5 DEF Fails, Answer, Here, Inv, AnswersInv
    <3> QED BY <2>1, <2>5, <3>1 DEF Fails, FormState
  <2>6. ASSUME NEW j \in Kinds, SignedOut(j) PROVE Fine
    <3>1. (user[1].gone \/ excused) /\ form.screen = "in"
      BY <2>6 DEF SignedOut, Answer, Here, Inv, AnswersInv
    <3> QED BY <2>1, <2>6, <3>1 DEF SignedOut, FormState
  <2> QED BY <2>2, <2>3, <2>4, <2>5, <2>6 DEF AnswerStep
<1>5. AnswersInv'
  BY <1>1, <1>2, <1>3, <1>4 DEF Inv, AnswersInv, GoneWhenSignedOut, Kinds
<1>6. excused' \in BOOLEAN
  BY <1>1 DEF Inv, TypeOK
<1> QED BY <1>1, <1>3, <1>4, <1>5, <1>6, DeviceStep

-----------------------------------------------------------------------------
(* Theorems *)

LEMMA StepInv == Inv /\ [Next]_vars => Inv'
<1> SUFFICES ASSUME Inv, [Next]_vars PROVE Inv'
  OBVIOUS
<1>1. CASE SyncStep
  BY <1>1, EditContactInv, EditLeadInv, SyncElseInv, SyncUpsertsInv DEF SyncStep
<1>2. CASE LoginStep
  BY <1>2, ChecksInv, LoginUpsertsInv, LoginOpensInv DEF LoginStep
<1>3. CASE CreateStep
  BY <1>3, ChecksInv, CreateInsertsInv DEF CreateStep
<1>4. CASE SessionStep
  BY <1>4, SessionStepInv
<1>5. CASE EraseStep
  BY <1>5, ServesInv, EraseCommitsInv, EraseFailsInv DEF EraseStep
<1>6. CASE ServerStep
  BY <1>6, ServesInv, UpdateMeInv DEF ServerStep
<1>7. CASE UserStep
  BY <1>7, UserInv
<1>8. CASE AnswerStep
  BY <1>8, AnswerInv
<1>9. CASE \E k \in Kinds : CallLost(k)
  BY <1>9, CallLostInv
<1>10. CASE UNCHANGED vars
  <2>1. TypeOK'
    BY <1>10 DEF vars, Inv, TypeOK, UniqueColumns
  <2>2. RowsInv'
    BY <1>10, RowsKept DEF vars, Inv, RowsInv, FirstRow
  <2>3. SessionInv' /\ AnswersInv'
    BY <1>10, SessionKept, AnswersKept DEF vars
  <2> QED BY <2>1, <2>2, <2>3 DEF Inv
<1> QED BY <1>1, <1>2, <1>3, <1>4, <1>5, <1>6, <1>7, <1>8, <1>9, <1>10 DEF Next

\* Inv is an invariant.
LEMMA InvHolds == Spec => []Inv
<1>1. Init => Inv
  BY InitInv
<1>2. Inv /\ [Next]_vars => Inv'
  BY StepInv
<1> QED BY <1>1, <1>2, PTL DEF Spec

\* Every variable stays in its type, and neither a phone nor a contact is ever in two rows,
\* however the upserts and inserts of any number of syncs, a login and an administrator
\* interleave.
THEOREM RowsUnique == Spec => []TypeOK
<1>1. Inv => TypeOK
  BY DEF Inv
<1> QED BY <1>1, InvHolds, PTL

\* What DELETE /me removed returns only by a save, or a session that a login or a refresh
\* which was under way before has opened.
THEOREM Erasure == Spec => []DeletedStaysDeleted
<1>1. Inv => DeletedStaysDeleted
  BY DEF Inv, SessionInv
<1> QED BY <1>1, InvHolds, PTL

\* A sync is refused only after its contact's number moved or the account was deleted.
THEOREM SyncRefusals == Spec => []SyncRefusedOnlyIf
<1>1. Inv => SyncRefusedOnlyIf
  BY DEF Inv, RowsInv
<1> QED BY <1>1, InvHolds, PTL

\* Who logs in with the main contact's number finds the order, unless that number has
\* changed since or the owner deleted their account.
THEOREM OrderIsFound == Spec => []ClientFindsOrder
<1>1. Inv => ClientFindsOrder
  <2> SUFFICES ASSUME Inv, owner # 0, ~user[owner].gone, ~crm.other PROVE Holders(MainKey) = {owner}
    BY DEF ClientFindsOrder, MainKey
  <2>1. owner \in Rows /\ user[owner].phone = MainKey
    BY DEF Inv, TypeOK, RowsInv, OwnerInv, Owns
  <2>2. MainKey # "none"
    BY MainKeyIsKey DEF Inv
  <2>3. \A r \in Rows : user[r].phone = MainKey => r = owner
    BY <2>1, <2>2 DEF Inv, TypeOK, UniqueColumns
  <2> QED BY <2>1, <2>3 DEF Holders
<1> QED BY <1>1, InvHolds, PTL

\* Who is signed out after confirming the deletion has no account any more, but for a call
\* that was lost, a deletion that failed, or a session that had ended otherwise.
THEOREM SignedOutMeansGone == Spec => []GoneWhenSignedOut
<1>1. Inv => GoneWhenSignedOut
  BY DEF Inv, AnswersInv
<1> QED BY <1>1, InvHolds, PTL
=============================================================================
