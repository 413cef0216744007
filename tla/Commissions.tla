----------------------------- MODULE Commissions -----------------------------
(***************************************************************************)
(* The commissions of partners and the pages of the administrators that    *)
(* list, create and pay them: several pages with rows of different ages, a *)
(* filter, buttons that stay enabled while their request is under way, and *)
(* the form in a modal window, which the page of partners has too.         *)
(*                                                                         *)
(* What a page shows is a function from rows to statuses.  A behaviour has *)
(* either forms, filled by one administrator at a time, or clicks in the   *)
(* list: only the list itself connects the two.                            *)
(***************************************************************************)
EXTENDS Naturals, FiniteSets

CONSTANTS
    Admins,     \* the open pages
    NoAdmin,    \* nobody's page
    Clicks,     \* status requests that may be under way at once
    Posts,      \* requests of a form that may be under way at once
    Filters,    \* the filters in use
    Faults,     \* which of FaultKinds may happen
    MaxRows,    \* bound: commissions ever made
    MaxFills    \* bound: forms ever filled

FaultKinds == {"fetch_fails", "answer_lost"}

ASSUME ConstantsAssumption ==
    /\ NoAdmin \notin Admins
    /\ "all" \in Filters /\ Filters \subseteq {"all", "pending", "approved", "paid"}
    /\ Faults \subseteq FaultKinds
    /\ MaxRows \in Nat \ {0}
    /\ MaxFills \in Nat

VARIABLES
    kind,       \* what the forms create, or "status" without forms
    com,        \* partner_commissions.payout_status
    page,       \* the page of each administrator
    fetch,      \* the list request of each page
    click,      \* the status requests
    form,       \* the modal window
    post,       \* the requests of the form
    made,       \* rows made of each form
    unsure      \* history: forms whose request succeeded and whose answer was lost

vars == <<kind, com, page, fetch, click, form, post, made, unsure>>

formVars == <<form, post, made, unsure>>

Rows     == 1 .. MaxRows
Fills    == 1 .. MaxFills
Statuses == {"pending", "approved", "paid"}
Nothing  == [r \in Rows |-> "absent"]

IdleFetch == [pc |-> "idle", rows |-> Nothing, covers |-> FALSE]
SentFetch == [IdleFetch EXCEPT !.pc = "sent"]
IdlePost  == [pc |-> "idle", who |-> NoAdmin, fill |-> 0]

IdleClick == [pc |-> "idle", who |-> NoAdmin, row |-> 1, to |-> "approved", behind |-> FALSE]

Init ==
    /\ kind \in {"status", "commission", "partner"}
    /\ com = [r \in Rows |-> IF r = 1 /\ kind = "status" THEN "pending" ELSE "absent"]
    /\ page = [a \in Admins |-> [filter |-> "all", shown |-> Nothing, own |-> FALSE]]
    /\ fetch = [a \in Admins |-> SentFetch]
    /\ click = [k \in Clicks |-> IdleClick]
    /\ form = [who |-> NoAdmin, open |-> FALSE, fill |-> 0]
    /\ post = [q \in Posts |-> IdlePost]
    /\ made = [n \in Fills |-> 0]
    /\ unsure = {}

-----------------------------------------------------------------------------
(* The list *)

\* GET /admin/commissions with the filter of the page.
listAdmin(f) == [r \in Rows |-> IF f = "all" \/ com[r] = f THEN com[r] ELSE "absent"]

Lists(a) ==
    /\ fetch[a].pc = "sent"
    /\ fetch' = [fetch EXCEPT ![a] = [pc |-> "read", rows |-> listAdmin(page[a].filter), covers |-> page[a].own]]
    /\ UNCHANGED <<kind, com, page, click, formVars>>

Lands(a) ==
    /\ fetch[a].pc = "read"
    /\ page' = [page EXCEPT ![a].shown = fetch[a].rows, ![a].own = @ /\ ~fetch[a].covers]
    /\ fetch' = [fetch EXCEPT ![a] = IdleFetch]
    /\ UNCHANGED <<kind, com, click, formVars>>

\* No retry; the rows that are there stay beside the error.
FetchFails(a) ==
    /\ "fetch_fails" \in Faults
    /\ fetch[a].pc = "sent"
    /\ fetch' = [fetch EXCEPT ![a] = IdleFetch]
    /\ page' = [page EXCEPT ![a].own = FALSE]
    /\ UNCHANGED <<kind, com, click, formVars>>

\* The rows of the filter before stay until the answer comes.  The rows the page had for
\* this filter the last time, which it may show instead, are left out.
\* Bound: not while a list is loading.
ChangeFilter(a, f) ==
    /\ fetch[a].pc = "idle" /\ page[a].filter # f
    /\ page' = [page EXCEPT ![a].filter = f]
    /\ fetch' = [fetch EXCEPT ![a] = SentFetch]
    /\ UNCHANGED <<kind, com, click, formVars>>

-----------------------------------------------------------------------------
(* The status *)

\* Faulty variant of Step: a payout that is under way, or was made, can be approved.
Step_Reapproves(status) == IF status = "approved" THEN {"approved", "paid"} ELSE {"approved"}

\* The statuses that the buttons of a row offer.
Step(status) ==
    CASE status = "pending" -> {"approved"}
      [] status = "approved" -> {"paid"}
      [] OTHER -> {}

\* The button is not disabled while the same request is under way.
Click(a, k, r) ==
    /\ click[k].pc = "idle" /\ kind = "status"
    /\ \E to \in Step(page[a].shown[r]) :
          click' = [click EXCEPT ![k] = [pc |-> "sent", who |-> a, row |-> r, to |-> to,
                                         behind |-> page[a].shown[r] # com[r]]]
    /\ UNCHANGED <<kind, com, page, fetch, formVars>>

\* The row is found and written whatever its status is; paid_at goes with it.
updateStatus(k) ==
    /\ click[k].pc = "sent"
    /\ com' = [com EXCEPT ![click[k].row] = click[k].to]
    /\ click' = [j \in Clicks |-> IF j = k THEN [click[j] EXCEPT !.pc = "ok"]
                                  ELSE [click[j] EXCEPT !.behind = @ \/ (click[j].pc = "sent" /\ click[j].row = click[k].row)]]
    /\ UNCHANGED <<kind, page, fetch, formVars>>

\* Faulty variant of Invalidates: a list that is loading is taken for the new one.
Invalidates_Joins(a) == fetch' = [fetch EXCEPT ![a] = IF @.pc = "idle" THEN SentFetch ELSE @]

\* The list is loaded again; a request under way is given up.
Invalidates(a) == fetch' = [fetch EXCEPT ![a] = SentFetch]

StatusChanged(k) ==
    /\ click[k].pc = "ok"
    /\ click' = [click EXCEPT ![k] = IdleClick]
    /\ page' = [page EXCEPT ![click[k].who].own = TRUE]
    /\ Invalidates(click[k].who)
    /\ UNCHANGED <<kind, com, formVars>>

\* An error is shown, and the list stays as it is.
StatusLost(k) ==
    /\ "answer_lost" \in Faults
    /\ click[k].pc \in {"sent", "ok"}
    /\ click' = [click EXCEPT ![k] = IdleClick]
    /\ UNCHANGED <<kind, com, page, fetch, formVars>>

-----------------------------------------------------------------------------
(* The form *)

OpenForm(a) ==
    /\ ~form.open /\ form.fill < MaxFills /\ kind # "status"
    /\ form' = [who |-> a, open |-> TRUE, fill |-> form.fill + 1]
    /\ UNCHANGED <<kind, com, page, fetch, click, post, made, unsure>>

\* Faulty variant of Submit: the button works while the request is under way.
Submit_Again(q) ==
    /\ form.open /\ post[q].pc = "idle"
    /\ post' = [post EXCEPT ![q] = [pc |-> "sent", who |-> form.who, fill |-> form.fill]]
    /\ UNCHANGED <<kind, com, page, fetch, click, form, made, unsure>>

\* The button is inert while a request of the page is under way.
Submit(q) ==
    /\ form.open /\ post[q].pc = "idle"
    /\ \A p \in Posts : post[p].who # form.who
    /\ post' = [post EXCEPT ![q] = [pc |-> "sent", who |-> form.who, fill |-> form.fill]]
    /\ UNCHANGED <<kind, com, page, fetch, click, form, made, unsure>>

\* The window can be closed while its request is under way.
CloseForm ==
    /\ form.open
    /\ form' = [form EXCEPT !.open = FALSE]
    /\ UNCHANGED <<kind, com, page, fetch, click, post, made, unsure>>

CreateCommission(q) ==
    /\ post[q].pc = "sent" /\ kind = "commission"
    /\ \E r \in Rows :
          /\ com[r] = "absent" /\ \A o \in Rows : o < r => com[o] # "absent"
          /\ com' = [com EXCEPT ![r] = "pending"]
    /\ made' = [made EXCEPT ![post[q].fill] = @ + 1]
    /\ post' = [post EXCEPT ![q].pc = "ok"]
    /\ UNCHANGED <<kind, page, fetch, click, form, unsure>>

\* The phone number is unique: a second request for it is refused.
CreatePartner(q) ==
    /\ post[q].pc = "sent" /\ kind = "partner"
    /\ LET known == made[post[q].fill] > 0
       IN  /\ post' = [post EXCEPT ![q].pc = IF known THEN "failed" ELSE "ok"]
           /\ made' = [made EXCEPT ![post[q].fill] = 1]
    /\ UNCHANGED <<kind, com, page, fetch, click, form, unsure>>

\* The page closes its window and empties it, whichever form it holds by now.
Created(q) ==
    /\ post[q].pc = "ok"
    /\ post' = [post EXCEPT ![q] = IdlePost]
    /\ form' = [form EXCEPT !.open = @ /\ form.who # post[q].who]
    /\ IF kind = "commission" THEN Invalidates(post[q].who) ELSE UNCHANGED fetch
    /\ UNCHANGED <<kind, com, page, click, made, unsure>>

\* The form stays as it is, to be sent again.
NotCreated(q) ==
    /\ post[q].pc = "failed"
    /\ post' = [post EXCEPT ![q] = IdlePost]
    /\ UNCHANGED <<kind, com, page, fetch, click, form, made, unsure>>

PostLost(q) ==
    /\ "answer_lost" \in Faults
    /\ post[q].pc \in {"sent", "ok"}
    /\ post' = [post EXCEPT ![q].pc = "failed"]
    /\ unsure' = IF post[q].pc = "ok" THEN unsure \cup {post[q].fill} ELSE unsure
    /\ UNCHANGED <<kind, com, page, fetch, click, form, made>>

-----------------------------------------------------------------------------
ListStep(a)   == Lists(a) \/ Lands(a) \/ FetchFails(a) \/ \E f \in Filters : ChangeFilter(a, f)
StatusStep(k) == updateStatus(k) \/ StatusChanged(k) \/ StatusLost(k) \/ \E a \in Admins, r \in Rows : Click(a, k, r)
PostStep(q)   == Submit(q) \/ CreateCommission(q) \/ CreatePartner(q) \/ Created(q) \/ NotCreated(q) \/ PostLost(q)

Next ==
    \/ \E a \in Admins : ListStep(a) \/ OpenForm(a)
    \/ \E k \in Clicks : StatusStep(k)
    \/ \E q \in Posts : PostStep(q)
    \/ CloseForm

Spec == Init /\ [][Next]_vars

-----------------------------------------------------------------------------
(* Properties *)

Shown      == [Rows -> Statuses \cup {"absent"}]
PageState  == [filter : Filters, shown : Shown, own : BOOLEAN]
FetchState == [pc : {"idle", "sent", "read"}, rows : Shown, covers : BOOLEAN]
ClickState == [pc : {"idle", "sent", "ok"}, who : Admins \cup {NoAdmin}, row : Rows, to : {"approved", "paid"}, behind : BOOLEAN]
FormState  == [who : Admins \cup {NoAdmin}, open : BOOLEAN, fill : 0 .. MaxFills]
PostState  == [pc : {"idle", "sent", "ok", "failed"}, who : Admins \cup {NoAdmin}, fill : 0 .. MaxFills]

\* The types of the variables; what a page shows exists, and forms make the rows there are.
TypeOK ==
    /\ kind \in {"status", "commission", "partner"}
    /\ com \in Shown
    /\ page \in [Admins -> PageState]
    /\ fetch \in [Admins -> FetchState]
    /\ click \in [Clicks -> ClickState]
    /\ form \in FormState
    /\ post \in [Posts -> PostState]
    /\ made \in [Fills -> Nat]
    /\ unsure \subseteq Fills
    /\ \A a \in Admins, r \in Rows : page[a].shown[r] # "absent" => com[r] # "absent"

\* A payout that was made is taken back, its date with it, only by a click behind the
\* times: on a row that was not what the page showed, or that another request changed
\* before this one arrived.  updateStatus itself checks nothing.
PaidStaysPaid ==
    [][\A r \in Rows : com[r] = "paid" /\ com'[r] # "paid" =>
          \E k \in Clicks : click[k].row = r /\ click[k].behind /\ click[k].pc = "sent" /\ click'[k].pc = "ok"]_vars

\* A page that is not loading shows the changes that were confirmed to it, however many
\* requests were under way when the confirmations came, or an error.
ShowsOwnChanges == \A a \in Admins : fetch[a].pc = "idle" => ~page[a].own

\* One form makes one row, closed and opened windows, double clicks and failures
\* notwithstanding, unless it was sent again because the answer was lost; a partner is
\* made once even then.
OneRowPerForm == \A n \in Fills : made[n] <= 1 \/ (kind = "commission" /\ n \in unsure)
=============================================================================
