-------------------------- MODULE CommissionsProofs --------------------------
(***************************************************************************)
(* Theorems about Commissions, for every number of pages, rows, clicks and *)
(* forms.                                                                  *)
(***************************************************************************)
EXTENDS Commissions, TLAPS

\* What a list request brings exists, as what a page shows does.
RowsExist == \A a \in Admins, r \in Rows : fetch[a].rows[r] # "absent" => com[r] # "absent"

TypeInv == TypeOK /\ RowsExist

LEMMA IdleTypes ==
    /\ Nothing \in Shown
    /\ IdleFetch \in FetchState /\ SentFetch \in FetchState
    /\ SentFetch.rows = Nothing /\ SentFetch.pc = "sent" /\ IdleFetch.rows = Nothing
    /\ IdlePost \in PostState /\ IdleClick \in ClickState
<1>1. 1 \in Rows
  BY ConstantsAssumption DEF ConstantsAssumption, Rows
<1>2. 0 \in 0 .. MaxFills
  BY ConstantsAssumption DEF ConstantsAssumption
<1> QED
  BY <1>1, <1>2 DEF Nothing, Shown, Statuses, IdleFetch, SentFetch, FetchState, IdlePost, PostState,
                    IdleClick, ClickState

LEMMA InitType == Init => TypeInv
<1> SUFFICES ASSUME Init PROVE TypeInv
  OBVIOUS
<1>1. com \in Shown
  BY DEF Init, Shown, Statuses
<1>2. page \in [Admins -> PageState]
  BY IdleTypes, ConstantsAssumption DEF Init, PageState, ConstantsAssumption
<1>3. fetch \in [Admins -> FetchState] /\ click \in [Clicks -> ClickState] /\ post \in [Posts -> PostState]
  BY IdleTypes DEF Init
<1>4. form \in FormState
  BY ConstantsAssumption DEF Init, FormState, ConstantsAssumption
<1>5. \A a \in Admins, r \in Rows : page[a].shown[r] = "absent" /\ fetch[a].rows[r] = "absent"
  BY IdleTypes DEF Init, Nothing
<1> QED BY <1>1, <1>2, <1>3, <1>4, <1>5 DEF Init, TypeInv, TypeOK, RowsExist

\* The requests that change no row, click or form.
LEMMA ListType ==
    ASSUME TypeInv, NEW a \in Admins, ListStep(a) PROVE TypeInv'
<1>0. /\ page[a] \in PageState /\ fetch[a] \in FetchState
      /\ kind' = kind /\ com' = com /\ click' = click /\ form' = form /\ post' = post
      /\ made' = made /\ unsure' = unsure
  BY DEF TypeInv, TypeOK, ListStep, Lists, Lands, FetchFails, ChangeFilter, formVars
<1>1. CASE Lists(a)
  <2> DEFINE rows == listAdmin(page[a].filter)
             new  == [pc |-> "read", rows |-> rows, covers |-> page[a].own]
  <2>1. rows \in Shown /\ \A r \in Rows : rows[r] # "absent" => com[r] # "absent"
    BY DEF listAdmin, Shown, TypeInv, TypeOK
  <2>2. new \in FetchState /\ new.rows = rows
    BY <1>0, <2>1 DEF FetchState, PageState
  <2>3. fetch' = [fetch EXCEPT ![a] = new] /\ page' = page
    BY <1>1 DEF Lists
  <2> HIDE DEF new, rows
  <2> QED BY <1>0, <2>1, <2>2, <2>3 DEF TypeInv, TypeOK, RowsExist
<1>2. CASE Lands(a)
  <2> DEFINE new == [page[a] EXCEPT !.shown = fetch[a].rows, !.own = @ /\ ~fetch[a].covers]
  <2>1. new \in PageState /\ new.shown = fetch[a].rows
    BY <1>0 DEF PageState, FetchState
  <2>2. page' = [page EXCEPT ![a] = new] /\ fetch' = [fetch EXCEPT ![a] = IdleFetch]
    BY <1>2 DEF Lands
  <2>3. \A r \in Rows : IdleFetch.rows[r] = "absent"
    BY IdleTypes DEF Nothing
  <2> HIDE DEF new
  <2> QED BY <1>0, <2>1, <2>2, <2>3, IdleTypes DEF TypeInv, TypeOK, RowsExist
<1>3. CASE FetchFails(a)
  <2> DEFINE new == [page[a] EXCEPT !.own = FALSE]
  <2>1. new \in PageState /\ new.shown = page[a].shown
    BY <1>0 DEF PageState
  <2>2. page' = [page EXCEPT ![a] = new] /\ fetch' = [fetch EXCEPT ![a] = IdleFetch]
    BY <1>3 DEF FetchFails
  <2>3. \A r \in Rows : IdleFetch.rows[r] = "absent"
    BY IdleTypes DEF Nothing
  <2> HIDE DEF new
  <2> QED BY <1>0, <2>1, <2>2, <2>3, IdleTypes DEF TypeInv, TypeOK, RowsExist
<1>4. ASSUME NEW f \in Filters, ChangeFilter(a, f) PROVE TypeInv'
  <2> DEFINE new == [page[a] EXCEPT !.filter = f]
  <2>1. new \in PageState /\ new.shown = page[a].shown
    BY <1>0 DEF PageState
  <2>2. page' = [page EXCEPT ![a] = new] /\ fetch' = [fetch EXCEPT ![a] = SentFetch]
    BY <1>4 DEF ChangeFilter
  <2>3. \A r \in Rows : SentFetch.rows[r] = "absent"
    BY IdleTypes DEF Nothing
  <2> HIDE DEF new
  <2> QED BY <1>0, <2>1, <2>2, <2>3, IdleTypes DEF TypeInv, TypeOK, RowsExist
<1> QED BY <1>1, <1>2, <1>3, <1>4 DEF ListStep

\* A list that is loaded again shows nothing that does not exist.
LEMMA InvalidatesType ==
    ASSUME TypeInv, NEW a, Invalidates(a)
    PROVE  /\ fetch' \in [Admins -> FetchState]
           /\ \A b \in Admins, r \in Rows :
                 fetch'[b].rows[r] # "absent" => fetch[b].rows[r] # "absent"
<1>1. \A r \in Rows : SentFetch.rows[r] = "absent"
  BY IdleTypes DEF Nothing
<1> QED BY <1>1, IdleTypes DEF TypeInv, TypeOK, Invalidates

LEMMA ClickType ==
    ASSUME TypeInv, NEW k \in Clicks, StatusStep(k) PROVE TypeInv'
<1>0. /\ kind' = kind /\ form' = form /\ post' = post /\ made' = made /\ unsure' = unsure
      /\ click[k] \in ClickState
  BY DEF TypeInv, TypeOK, StatusStep, Click, updateStatus, StatusChanged, StatusLost, formVars
<1>1. ASSUME NEW a \in Admins, NEW r \in Rows, Click(a, k, r) PROVE TypeInv'
  <2>1. PICK to \in Step(page[a].shown[r]) :
           click' = [click EXCEPT ![k] = [pc |-> "sent", who |-> a, row |-> r, to |-> to,
                                          behind |-> page[a].shown[r] # com[r]]]
    BY <1>1 DEF Click
  <2>2. to \in {"approved", "paid"}
    BY DEF Step
  <2> DEFINE new == [pc |-> "sent", who |-> a, row |-> r, to |-> to, behind |-> page[a].shown[r] # com[r]]
  <2>3. new \in ClickState
    BY <2>2 DEF ClickState
  <2>4. click' \in [Clicks -> ClickState]
    BY <2>1, <2>3 DEF TypeInv, TypeOK
  <2> QED BY <1>0, <1>1, <2>4 DEF TypeInv, TypeOK, RowsExist, Click
<1>2. CASE updateStatus(k)
  <2>1. click[k].to \in Statuses /\ click[k].to # "absent" /\ click[k].row \in Rows
    BY <1>0 DEF ClickState, Statuses
  <2>2. com' \in Shown /\ \A r \in Rows : com[r] # "absent" => com'[r] # "absent"
    BY <1>2, <2>1 DEF updateStatus, TypeInv, TypeOK, Shown
  <2>3. ASSUME NEW j \in Clicks PROVE click'[j] \in ClickState
    <3>1. click[j] \in ClickState
      BY DEF TypeInv, TypeOK
    <3>2. [click[j] EXCEPT !.pc = "ok"] \in ClickState
      BY <3>1 DEF ClickState
    <3>3. \A b \in BOOLEAN : [click[j] EXCEPT !.behind = b] \in ClickState
      BY <3>1 DEF ClickState
    <3>4. (click[j].behind \/ (click[j].pc = "sent" /\ click[j].row = click[k].row)) \in BOOLEAN
      OBVIOUS
    <3> QED BY <1>2, <3>2, <3>3, <3>4 DEF updateStatus
  <2>4. click' \in [Clicks -> ClickState]
    <3>1. DOMAIN click' = Clicks /\ click' = [j \in Clicks |-> click'[j]]
      BY <1>2 DEF updateStatus
    <3> QED BY <2>3, <3>1
  <2> QED BY <1>0, <1>2, <2>2, <2>4 DEF TypeInv, TypeOK, RowsExist, updateStatus
<1>3. CASE StatusChanged(k)
  <2>1. click' \in [Clicks -> ClickState]
    BY <1>3, IdleTypes DEF StatusChanged, TypeInv, TypeOK
  <2>2. /\ page' \in [Admins -> PageState]
        /\ \A b \in Admins : page'[b].shown = page[b].shown
    BY <1>3 DEF StatusChanged, TypeInv, TypeOK, PageState
  <2>3. Invalidates(click[k].who) /\ com' = com
    BY <1>3 DEF StatusChanged
  <2> QED BY <1>0, <2>1, <2>2, <2>3, InvalidatesType DEF TypeInv, TypeOK, RowsExist
<1>4. CASE StatusLost(k)
  <2>1. click' \in [Clicks -> ClickState]
    BY <1>4, IdleTypes DEF StatusLost, TypeInv, TypeOK
  <2> QED BY <1>0, <1>4, <2>1 DEF StatusLost, TypeInv, TypeOK, RowsExist
<1> QED BY <1>1, <1>2, <1>3, <1>4 DEF StatusStep

LEMMA FormType ==
    ASSUME TypeInv, CloseForm \/ \E a \in Admins : OpenForm(a) PROVE TypeInv'
<1>1. form \in FormState /\ MaxFills \in Nat
  BY ConstantsAssumption DEF TypeInv, TypeOK, ConstantsAssumption
<1>2. CASE CloseForm
  BY <1>1, <1>2 DEF CloseForm, FormState, TypeInv, TypeOK, RowsExist
<1>3. ASSUME NEW a \in Admins, OpenForm(a) PROVE TypeInv'
  <2>1. form.fill + 1 \in 0 .. MaxFills
    BY <1>1, <1>3 DEF OpenForm, FormState
  <2>2. form' \in FormState
    BY <1>3, <2>1 DEF OpenForm, FormState
  <2> QED BY <1>3, <2>2 DEF OpenForm, TypeInv, TypeOK, RowsExist
<1> QED BY <1>2, <1>3

LEMMA PostType ==
    ASSUME TypeInv, NEW q \in Posts, PostStep(q), post[q].pc # "idle" => post[q].fill \in Fills
    PROVE  TypeInv'
<1>0. /\ post[q] \in PostState /\ form \in FormState
      /\ kind' = kind /\ page' = page /\ click' = click
  BY DEF TypeInv, TypeOK, PostStep, Submit, CreateCommission, CreatePartner, Created, NotCreated, PostLost
<1>1. CASE Submit(q)
  <2>1. [pc |-> "sent", who |-> form.who, fill |-> form.fill] \in PostState
    BY <1>0 DEF PostState, FormState
  <2> QED BY <1>1, <2>1 DEF Submit, TypeInv, TypeOK, RowsExist
<1>2. CASE CreateCommission(q)
  <2>1. [post[q] EXCEPT !.pc = "ok"] \in PostState
    BY <1>0 DEF PostState
  <2>2. com' \in Shown /\ \A r \in Rows : com[r] # "absent" => com'[r] # "absent"
    BY <1>2 DEF CreateCommission, TypeInv, TypeOK, Shown, Statuses
  <2>3. made' \in [Fills -> Nat]
    BY <1>2 DEF CreateCommission, TypeInv, TypeOK
  <2>4. post' \in [Posts -> PostState]
    BY <1>2, <2>1 DEF CreateCommission, TypeInv, TypeOK
  <2> QED BY <1>0, <1>2, <2>2, <2>3, <2>4 DEF CreateCommission, TypeInv, TypeOK, RowsExist
<1>3. CASE CreatePartner(q)
  <2>1. \A pc \in {"ok", "failed"} : [post[q] EXCEPT !.pc = pc] \in PostState
    BY <1>0 DEF PostState
  <2>2. post' \in [Posts -> PostState]
    BY <1>3, <2>1 DEF CreatePartner, TypeInv, TypeOK
  <2> QED BY <1>0, <1>3, <2>2 DEF CreatePartner, TypeInv, TypeOK, RowsExist
<1>4. CASE Created(q)
  <2>1. form' \in FormState
    BY <1>0, <1>4 DEF Created, FormState
  <2>2. post' \in [Posts -> PostState]
    BY <1>4, IdleTypes DEF Created, TypeInv, TypeOK
  <2>3. Invalidates(post[q].who) \/ fetch' = fetch
    BY <1>4 DEF Created
  <2> QED BY <1>0, <1>4, <2>1, <2>2, <2>3, InvalidatesType DEF Created, TypeInv, TypeOK, RowsExist
<1>5. CASE NotCreated(q)
  BY <1>0, <1>5, IdleTypes DEF NotCreated, TypeInv, TypeOK, RowsExist
<1>6. CASE PostLost(q)
  <2>1. [post[q] EXCEPT !.pc = "failed"] \in PostState
    BY <1>0 DEF PostState
  <2>2. post' \in [Posts -> PostState] /\ unsure' \subseteq Fills
    BY <1>6, <2>1 DEF PostLost, TypeInv, TypeOK
  <2> QED BY <1>0, <1>6, <2>2 DEF PostLost, TypeInv, TypeOK, RowsExist
<1> QED BY <1>1, <1>2, <1>3, <1>4, <1>5, <1>6 DEF PostStep

-----------------------------------------------------------------------------
(* Forms: a fill has one request at a time, and none after it was answered *)

Busy(q) == post[q].pc # "idle"

PostsTied ==
    /\ \A q \in Posts : Busy(q) => /\ post[q].fill \in Fills /\ post[q].fill <= form.fill
                                   /\ post[q].who \in Admins
                                   /\ post[q].fill = form.fill => post[q].who = form.who
    /\ form.open => form.who \in Admins /\ form.fill \in Fills

OnePost == \A p, q \in Posts : p # q /\ Busy(p) /\ Busy(q) => post[p].fill # post[q].fill

NotYetFilled == \A n \in Fills : n > form.fill => made[n] = 0

\* The row of fill n is made and nothing of the fill can make another.
Over(n) ==
    /\ made[n] = 1
    /\ \/ \E q \in Posts : post[q].pc = "ok" /\ post[q].fill = n
       \/ /\ \A q \in Posts : Busy(q) => post[q].fill # n
          /\ ~(form.open /\ form.fill = n)

Once(n) ==
    IF kind = "commission" THEN made[n] = 0 \/ n \in unsure \/ Over(n)
    ELSE made[n] <= 1

FormInv == PostsTied /\ OnePost /\ NotYetFilled /\ \A n \in Fills : Once(n)

LEMMA InitForm == Init => FormInv
BY ConstantsAssumption
DEF Init, FormInv, PostsTied, OnePost, NotYetFilled, Once, Over, Busy, IdlePost, ConstantsAssumption, Fills

\* The steps of lists and clicks leave the forms alone.
LEMMA FormFrame ==
    ASSUME FormInv, UNCHANGED <<kind, formVars>> PROVE FormInv'
BY DEF FormInv, PostsTied, OnePost, NotYetFilled, Once, Over, Busy, formVars

LEMMA FormKept ==
    ASSUME TypeInv, FormInv, CloseForm \/ \E a \in Admins : OpenForm(a) PROVE FormInv'
<1>0. /\ form \in FormState /\ MaxFills \in Nat /\ kind' = kind /\ post' = post
      /\ made' = made /\ unsure' = unsure
  BY ConstantsAssumption DEF TypeInv, TypeOK, ConstantsAssumption, CloseForm, OpenForm
<1>1. CASE CloseForm
  BY <1>0, <1>1 DEF CloseForm, FormInv, PostsTied, OnePost, NotYetFilled, Once, Over, Busy, FormState
<1>2. ASSUME NEW a \in Admins, OpenForm(a) PROVE FormInv'
  <2>1. /\ form' = [who |-> a, open |-> TRUE, fill |-> form.fill + 1]
        /\ form.fill \in Nat /\ form.fill + 1 \in Fills
    BY <1>0, <1>2 DEF OpenForm, FormState, Fills
  <2>2. PostsTied'
    BY <1>0, <2>1 DEF FormInv, PostsTied, Busy, Fills
  <2>3. OnePost'
    BY <1>0 DEF FormInv, OnePost, Busy
  <2>4. NotYetFilled'
    BY <1>0, <2>1 DEF FormInv, NotYetFilled, Fills
  <2>5. ASSUME NEW n \in Fills PROVE Once(n)'
    <3>1. n = form.fill + 1 => made[n] = 0
      BY <2>1 DEF FormInv, NotYetFilled
    <3> QED BY <1>0, <2>1, <3>1 DEF FormInv, Once, Over, Busy
  <2> QED BY <2>2, <2>3, <2>4, <2>5 DEF FormInv
<1> QED BY <1>1, <1>2

LEMMA SubmitForm ==
    ASSUME TypeInv, FormInv, NEW q \in Posts, Submit(q) PROVE FormInv'
<1> DEFINE new == [pc |-> "sent", who |-> form.who, fill |-> form.fill]
<1>0. /\ post' = [post EXCEPT ![q] = new]
      /\ form' = form /\ made' = made /\ kind' = kind /\ unsure' = unsure
      /\ form.open /\ form.who \in Admins /\ form.fill \in Fills
      /\ post \in [Posts -> PostState]
  BY DEF Submit, FormInv, PostsTied, TypeInv, TypeOK
<1>1. new.pc = "sent" /\ new.who = form.who /\ new.fill = form.fill
  OBVIOUS
<1> HIDE DEF new
<1>2. post'[q] = new /\ \A p \in Posts \ {q} : post'[p] = post[p]
  BY <1>0
<1>3. \A p \in Posts : Busy(p) => post[p].fill # form.fill
  BY DEF Submit, FormInv, PostsTied
<1>4. form.fill <= form.fill
  BY <1>0 DEF Fills
<1>5. PostsTied'
  BY <1>0, <1>1, <1>2, <1>4 DEF FormInv, PostsTied, Busy
<1>6. OnePost'
  BY <1>1, <1>2, <1>3 DEF FormInv, OnePost, Busy
<1>7. NotYetFilled'
  BY <1>0 DEF FormInv, NotYetFilled
<1>8. ASSUME NEW n \in Fills PROVE Once(n)'
  <2>1. Once(n)
    BY DEF FormInv
  <2>2. Over(n) => Over(n)'
    <3>1. ASSUME NEW p \in Posts, post[p].pc = "ok" PROVE post'[p] = post[p]
      BY <1>2, <3>1 DEF Submit
    <3> QED BY <1>0, <1>1, <1>2, <3>1 DEF Over, Busy
  <2> QED BY <1>0, <2>1, <2>2 DEF Once
<1> QED BY <1>5, <1>6, <1>7, <1>8 DEF FormInv

\* What an answer changes in a request keeps it tied to its fill.
LEMMA AnswerTied ==
    ASSUME FormInv, NEW q \in Posts, post \in [Posts -> PostState], NEW new,
           post' = [post EXCEPT ![q] = new], Busy(q),
           new.pc = "idle" \/ (new.fill = post[q].fill /\ new.who = post[q].who),
           form'.fill = form.fill, form'.who = form.who, form'.open => form.open
    PROVE  PostsTied' /\ OnePost'
<1>1. post'[q] = new /\ \A p \in Posts \ {q} : post'[p] = post[p]
  OBVIOUS
<1>2. PostsTied'
  BY <1>1 DEF FormInv, PostsTied, Busy
<1>3. OnePost'
  BY <1>1 DEF FormInv, OnePost, Busy
<1> QED BY <1>2, <1>3

LEMMA CreateForm ==
    ASSUME TypeInv, FormInv, NEW q \in Posts, CreateCommission(q) \/ CreatePartner(q) PROVE FormInv'
<1> DEFINE n == post[q].fill
<1>0. /\ post \in [Posts -> PostState] /\ post[q].pc = "sent" /\ Busy(q)
      /\ form' = form /\ kind' = kind /\ unsure' = unsure
      /\ made \in [Fills -> Nat] /\ n \in Fills /\ n <= form.fill /\ form.fill \in Nat
  BY DEF CreateCommission, CreatePartner, TypeInv, TypeOK, Busy, FormInv, PostsTied, FormState
<1>1. PICK pc \in {"ok", "failed"} :
        /\ post' = [post EXCEPT ![q].pc = pc]
        /\ kind = "commission" => pc = "ok"
  BY DEF CreateCommission, CreatePartner
<1> DEFINE new == [post[q] EXCEPT !.pc = pc]
<1>2. new.pc = pc /\ new.fill = n /\ new.who = post[q].who /\ post' = [post EXCEPT ![q] = new]
  BY <1>0, <1>1 DEF PostState
<1> HIDE DEF new
<1>3. PostsTied' /\ OnePost'
  BY <1>0, <1>2, AnswerTied
<1>4. \A m \in Fills : m # n => made'[m] = made[m]
  BY <1>0 DEF CreateCommission, CreatePartner
<1>5. NotYetFilled'
  BY <1>0, <1>4 DEF FormInv, NotYetFilled, Fills
<1>6. post'[q] = new /\ \A p \in Posts \ {q} : post'[p] = post[p]
  BY <1>0, <1>2
<1>7. ASSUME NEW m \in Fills PROVE Once(m)'
  <2>0. Once(m)
    BY DEF FormInv
  <2>1. CASE m # n
    <3>1. made'[m] = made[m]
      BY <1>4, <2>1
    <3>2. Over(m) => Over(m)'
      BY <1>0, <1>2, <1>6, <2>1, <3>1 DEF Over, Busy
    <3> QED BY <1>0, <2>0, <3>1, <3>2 DEF Once
  <2>2. CASE m = n /\ kind = "commission"
    <3>1. made[m] = 0 \/ m \in unsure
      BY <1>0, <2>0, <2>2 DEF Once, Over, Busy, FormInv, OnePost
    <3>2. made'[m] = made[m] + 1
      BY <1>0, <2>2 DEF CreateCommission, CreatePartner
    <3>3. made[m] = 0 => Over(m)'
      BY <1>1, <1>2, <1>6, <2>2, <3>2 DEF Over
    <3> QED BY <1>0, <2>2, <3>1, <3>3 DEF Once
  <2>3. CASE m = n /\ kind # "commission"
    <3>1. made'[m] = 1
      BY <1>0, <2>3 DEF CreateCommission, CreatePartner
    <3> QED BY <1>0, <2>3, <3>1 DEF Once
  <2> QED BY <2>1, <2>2, <2>3
<1> QED BY <1>3, <1>5, <1>7 DEF FormInv

LEMMA AnswerForm ==
    ASSUME TypeInv, FormInv, NEW q \in Posts, Created(q) \/ NotCreated(q) \/ PostLost(q) PROVE FormInv'
<1>0. /\ post \in [Posts -> PostState] /\ Busy(q) /\ kind' = kind /\ made' = made
      /\ form \in FormState
      /\ form' = form \/ (post[q].pc = "ok" /\ form' = [form EXCEPT !.open = @ /\ form.who # post[q].who])
      /\ unsure \subseteq unsure'
  BY DEF Created, NotCreated, PostLost, TypeInv, TypeOK, Busy
<1>1. form'.fill = form.fill /\ form'.who = form.who /\ (form'.open => form.open)
  BY <1>0 DEF FormState
<1>2. PICK new : /\ post' = [post EXCEPT ![q] = new]
                 /\ \/ new.pc = "idle"
                    \/ new.pc = "failed" /\ new.fill = post[q].fill /\ new.who = post[q].who
  <2>1. CASE PostLost(q)
    <3>1. post' = [post EXCEPT ![q].pc = "failed"] /\ post[q] \in PostState
      BY <1>0, <2>1 DEF PostLost
    <3> DEFINE new == [post[q] EXCEPT !.pc = "failed"]
    <3>2. new.pc = "failed" /\ new.fill = post[q].fill /\ new.who = post[q].who
      BY <3>1 DEF PostState
    <3>3. post' = [post EXCEPT ![q] = new]
      BY <3>1
    <3> HIDE DEF new
    <3> QED BY <3>2, <3>3
  <2>2. CASE ~PostLost(q)
    BY <2>2 DEF Created, NotCreated, IdlePost
  <2> QED BY <2>1, <2>2
<1>3. PostsTied' /\ OnePost'
  BY <1>0, <1>1, <1>2, AnswerTied
<1>4. NotYetFilled'
  BY <1>0, <1>1 DEF FormInv, NotYetFilled
<1>5. post'[q] = new /\ \A p \in Posts \ {q} : post'[p] = post[p]
  BY <1>0, <1>2
<1>6. ASSUME NEW n \in Fills PROVE Once(n)'
  <2>0. Once(n)
    BY DEF FormInv
  <2>1. CASE n # post[q].fill
    <3>1. Over(n) => Over(n)'
      BY <1>0, <1>1, <1>2, <1>5, <2>1 DEF Over, Busy
    <3> QED BY <1>0, <2>0, <3>1 DEF Once
  <2>2. CASE n = post[q].fill /\ Over(n) /\ PostLost(q)
    <3>1. post[q].pc = "ok"
      BY <1>0, <2>2 DEF Over, Busy, FormInv, OnePost
    <3>2. n \in unsure'
      BY <2>2, <3>1 DEF PostLost
    <3>3. made'[n] <= 1
      BY <1>0, <2>2 DEF Over
    <3> QED BY <3>2, <3>3 DEF Once
  <2>3. CASE n = post[q].fill /\ Over(n) /\ ~PostLost(q)
    <3>1. post[q].pc = "ok"
      BY <1>0, <2>3 DEF Over, Busy, FormInv, OnePost
    <3>2. Created(q)
      BY <2>3, <3>1 DEF NotCreated
    <3>3. post' = [post EXCEPT ![q] = IdlePost] /\ form' = [form EXCEPT !.open = @ /\ form.who # post[q].who]
      BY <3>2 DEF Created
    <3>4. ~(form'.open /\ form'.fill = n)
      BY <1>0, <1>1, <2>3, <3>3 DEF FormInv, PostsTied, FormState
    <3>5. \A p \in Posts : Busy(p)' => post'[p].fill # n
      BY <1>0, <2>3, <3>3 DEF FormInv, OnePost, Busy, IdlePost
    <3>6. Over(n)'
      BY <1>0, <2>3, <3>4, <3>5 DEF Over
    <3> QED BY <1>0, <2>0, <3>6 DEF Once
  <2>4. CASE ~Over(n)
    BY <1>0, <2>0, <2>4 DEF Once
  <2> QED BY <2>1, <2>2, <2>3, <2>4
<1> QED BY <1>3, <1>4, <1>6 DEF FormInv

-----------------------------------------------------------------------------
(* Clicks and lists *)

\* A request that is not behind the times makes the next step of its row.
InStep ==
    \A k \in Clicks : click[k].pc = "sent" /\ ~click[k].behind => click[k].to \in Step(com[click[k].row])

\* Whatever a page was told is in its list or will be in an answer under way.
Told ==
    \A a \in Admins : \/ fetch[a].pc = "sent"
                      \/ fetch[a].pc = "read" /\ fetch[a].covers
                      \/ ~page[a].own

ListInv == InStep /\ Told

LEMMA InitList == Init => ListInv
BY IdleTypes DEF Init, ListInv, InStep, Told, IdleClick

LEMMA ListKept ==
    ASSUME TypeInv, ListInv, NEW a \in Admins, ListStep(a) PROVE ListInv'
<1>0. /\ click' = click /\ com' = com /\ page \in [Admins -> PageState] /\ fetch \in [Admins -> FetchState]
  BY DEF TypeInv, TypeOK, ListStep, Lists, Lands, FetchFails, ChangeFilter
<1>1. InStep'
  BY <1>0 DEF ListInv, InStep
<1>2. ASSUME NEW b \in Admins, b # a PROVE page'[b] = page[b] /\ fetch'[b] = fetch[b]
  BY <1>0, <1>2 DEF ListStep, Lists, Lands, FetchFails, ChangeFilter
<1>3. \/ fetch'[a].pc = "sent"
      \/ fetch'[a].pc = "read" /\ fetch'[a].covers
      \/ ~page'[a].own
  <2>1. CASE Lists(a)
    BY <1>0, <2>1 DEF Lists
  <2>2. CASE Lands(a)
    BY <1>0, <2>2 DEF Lands, ListInv, Told, PageState, FetchState
  <2>3. CASE FetchFails(a)
    BY <1>0, <2>3 DEF FetchFails, PageState
  <2>4. CASE \E f \in Filters : ChangeFilter(a, f)
    BY <1>0, <2>4, IdleTypes DEF ChangeFilter
  <2> QED BY <2>1, <2>2, <2>3, <2>4 DEF ListStep
<1> QED BY <1>1, <1>2, <1>3 DEF ListInv, Told

\* A list that is loaded again leaves no page behind.
LEMMA InvalidatesTold ==
    ASSUME TypeInv, Told, NEW w, Invalidates(w),
           \A b \in Admins : b # w => page'[b].own = page[b].own
    PROVE  Told'
<1>1. fetch \in [Admins -> FetchState] /\ fetch' = [fetch EXCEPT ![w] = SentFetch]
  BY DEF TypeInv, TypeOK, Invalidates
<1>2. ASSUME NEW b \in Admins, b = w PROVE fetch'[b].pc = "sent"
  BY <1>1, <1>2, IdleTypes
<1>3. ASSUME NEW b \in Admins, b # w PROVE fetch'[b] = fetch[b] /\ page'[b].own = page[b].own
  BY <1>1, <1>3
<1> QED BY <1>2, <1>3 DEF Told

LEMMA ClickKept ==
    ASSUME TypeInv, ListInv, NEW k \in Clicks, StatusStep(k) PROVE ListInv'
<1>0. click \in [Clicks -> ClickState] /\ com \in Shown /\ page \in [Admins -> PageState]
  BY DEF TypeInv, TypeOK
<1>1. ASSUME NEW a \in Admins, NEW r \in Rows, Click(a, k, r) PROVE ListInv'
  <2>1. PICK to \in Step(page[a].shown[r]) :
           click' = [click EXCEPT ![k] = [pc |-> "sent", who |-> a, row |-> r, to |-> to,
                                          behind |-> page[a].shown[r] # com[r]]]
    BY <1>1 DEF Click
  <2>2. com' = com /\ page' = page /\ fetch' = fetch
    BY <1>1 DEF Click
  <2>3. /\ click'[k].row = r /\ click'[k].to = to /\ click'[k].behind = (page[a].shown[r] # com[r])
        /\ \A j \in Clicks \ {k} : click'[j] = click[j]
    BY <1>0, <2>1
  <2>4. ~click'[k].behind => to \in Step(com[r])
    BY <2>3
  <2>5. InStep'
    BY <2>2, <2>3, <2>4 DEF ListInv, InStep
  <2> QED BY <2>2, <2>5 DEF ListInv, Told
<1>2. CASE updateStatus(k)
  <2>1. com' = [com EXCEPT ![click[k].row] = click[k].to] /\ page' = page /\ fetch' = fetch
    BY <1>2 DEF updateStatus
  <2>2. ASSUME NEW j \in Clicks, click'[j].pc = "sent", ~click'[j].behind
        PROVE  click'[j].to \in Step(com'[click'[j].row])
    <3>1. click[j] \in ClickState
      BY <1>0
    <3>2. j # k
      BY <1>0, <1>2, <2>2, <3>1 DEF updateStatus, ClickState
    <3>3. click'[j] = [click[j] EXCEPT !.behind = @ \/ (click[j].pc = "sent" /\ click[j].row = click[k].row)]
      BY <1>2, <3>2 DEF updateStatus
    <3>4. /\ click'[j].pc = click[j].pc /\ click'[j].to = click[j].to /\ click'[j].row = click[j].row
          /\ ~click[j].behind /\ click[j].row # click[k].row
      BY <2>2, <3>1, <3>3 DEF ClickState
    <3>5. click[j].to \in Step(com[click[j].row])
      BY <2>2, <3>4 DEF ListInv, InStep
    <3>6. com'[click[j].row] = com[click[j].row]
      BY <1>0, <2>1, <3>1, <3>4 DEF ClickState, Shown
    <3> QED BY <3>4, <3>5, <3>6
  <2> QED BY <2>1, <2>2 DEF ListInv, InStep, Told
<1>3. CASE StatusChanged(k)
  <2>1. InStep'
    BY <1>0, <1>3, IdleTypes DEF StatusChanged, ListInv, InStep, IdleClick
  <2>2. \A b \in Admins : b # click[k].who => page'[b].own = page[b].own
    BY <1>0, <1>3 DEF StatusChanged
  <2> QED BY <1>3, <2>1, <2>2, InvalidatesTold DEF StatusChanged, ListInv
<1>4. CASE StatusLost(k)
  BY <1>0, <1>4 DEF StatusLost, ListInv, InStep, Told, IdleClick
<1> QED BY <1>1, <1>2, <1>3, <1>4 DEF StatusStep

LEMMA PostKept ==
    ASSUME TypeInv, ListInv, NEW q \in Posts, PostStep(q) PROVE ListInv'
<1>0. click' = click /\ page' = page
  BY DEF PostStep, Submit, CreateCommission, CreatePartner, Created, NotCreated, PostLost
<1>1. com' = com \/ \E r \in Rows : com[r] = "absent" /\ com' = [com EXCEPT ![r] = "pending"]
  BY DEF PostStep, Submit, CreateCommission, CreatePartner, Created, NotCreated, PostLost
<1>2. InStep'
  <2>1. ASSUME NEW r \in Rows, com[r] = "absent", com' = [com EXCEPT ![r] = "pending"] PROVE InStep'
    <3>1. ASSUME NEW k \in Clicks, click[k].pc = "sent", ~click[k].behind
          PROVE  click[k].to \in Step(com'[click[k].row])
      <4>1. click[k].to \in Step(com[click[k].row]) /\ com[click[k].row] # "absent"
        BY <3>1 DEF ListInv, InStep, Step
      <4>2. com'[click[k].row] = com[click[k].row]
        BY <2>1, <4>1
      <4> QED BY <4>1, <4>2
    <3> QED BY <1>0, <3>1 DEF InStep
  <2>2. CASE com' = com
    BY <1>0, <2>2 DEF ListInv, InStep
  <2> QED BY <1>1, <2>1, <2>2
<1>3. Told'
  <2>1. CASE Created(q) /\ kind = "commission"
    BY <1>0, <2>1, InvalidatesTold DEF Created, ListInv
  <2>2. CASE ~(Created(q) /\ kind = "commission")
    <3>1. fetch' = fetch
      BY <2>2 DEF PostStep, Submit, CreateCommission, CreatePartner, Created, NotCreated, PostLost
    <3> QED BY <1>0, <3>1 DEF ListInv, Told
  <2> QED BY <2>1, <2>2
<1> QED BY <1>2, <1>3 DEF ListInv

-----------------------------------------------------------------------------
(* Theorems *)

CommissionsInv == TypeInv /\ FormInv /\ ListInv

LEMMA Preserved == CommissionsInv /\ [Next]_vars => CommissionsInv'
<1> SUFFICES ASSUME CommissionsInv, [Next]_vars PROVE CommissionsInv'
  OBVIOUS
<1>0. TypeInv /\ FormInv /\ ListInv
  BY DEF CommissionsInv
<1>1. ASSUME NEW a \in Admins, ListStep(a) PROVE CommissionsInv'
  <2>1. UNCHANGED <<kind, formVars>>
    BY <1>1 DEF ListStep, Lists, Lands, FetchFails, ChangeFilter
  <2> QED BY <1>0, <1>1, <2>1, ListType, ListKept, FormFrame DEF CommissionsInv
<1>2. ASSUME NEW k \in Clicks, StatusStep(k) PROVE CommissionsInv'
  <2>1. UNCHANGED <<kind, formVars>>
    BY <1>2 DEF StatusStep, Click, updateStatus, StatusChanged, StatusLost
  <2> QED BY <1>0, <1>2, <2>1, ClickType, ClickKept, FormFrame DEF CommissionsInv
<1>3. ASSUME NEW q \in Posts, PostStep(q) PROVE CommissionsInv'
  <2>1. post[q].pc # "idle" => post[q].fill \in Fills
    BY <1>0 DEF FormInv, PostsTied, Busy
  <2>2. FormInv'
    BY <1>0, <1>3, SubmitForm, CreateForm, AnswerForm DEF PostStep
  <2> QED BY <1>0, <1>3, <2>1, <2>2, PostType, PostKept DEF CommissionsInv
<1>4. CASE CloseForm \/ \E a \in Admins : OpenForm(a)
  <2>1. UNCHANGED <<com, page, fetch, click>>
    BY <1>4 DEF CloseForm, OpenForm
  <2>2. ListInv'
    BY <1>0, <2>1 DEF ListInv, InStep, Told
  <2> QED BY <1>0, <1>4, <2>2, FormType, FormKept DEF CommissionsInv
<1>5. CASE UNCHANGED vars
  BY <1>0, <1>5 DEF vars, formVars, CommissionsInv, TypeInv, TypeOK, RowsExist, FormInv, PostsTied, OnePost,
                    NotYetFilled, Once, Over, Busy, ListInv, InStep, Told
<1> QED BY <1>1, <1>2, <1>3, <1>4, <1>5 DEF Next

LEMMA Invariance == Spec => []CommissionsInv
<1>1. Init => CommissionsInv
  BY InitType, InitForm, InitList DEF CommissionsInv
<1> QED BY <1>1, Preserved, PTL DEF Spec

\* The variables keep their types, and a page shows commissions that exist.
THEOREM TypeCorrect == Spec => []TypeOK
<1>1. CommissionsInv => TypeOK
  BY DEF CommissionsInv, TypeInv
<1> QED BY <1>1, Invariance, PTL

\* A confirmed change is on the page that asked for it once the page is not loading,
\* for any number of pages, requests and filters.
THEOREM OwnChangesShown == Spec => []ShowsOwnChanges
<1>1. CommissionsInv => ShowsOwnChanges
  BY DEF CommissionsInv, ListInv, Told, ShowsOwnChanges
<1> QED BY <1>1, Invariance, PTL

\* A form makes one row, unless it was sent again after an answer was lost.
THEOREM FormsMakeOneRow == Spec => []OneRowPerForm
<1>1. CommissionsInv => OneRowPerForm
  <2> SUFFICES ASSUME CommissionsInv, NEW n \in Fills
               PROVE  made[n] <= 1 \/ (kind = "commission" /\ n \in unsure)
    BY DEF OneRowPerForm
  <2> QED BY DEF CommissionsInv, FormInv, Once, Over
<1> QED BY <1>1, Invariance, PTL

\* A payout is taken back only by a click behind the times: the status that a request on
\* the row it saw writes is the next one.
THEOREM PaidIsKept == Spec => PaidStaysPaid
<1> DEFINE Kept ==
      \A r \in Rows : com[r] = "paid" /\ com'[r] # "paid" =>
         \E k \in Clicks : click[k].row = r /\ click[k].behind /\ click[k].pc = "sent" /\ click'[k].pc = "ok"
<1>1. CommissionsInv /\ [Next]_vars => Kept
  <2> SUFFICES ASSUME CommissionsInv, [Next]_vars, NEW r \in Rows, com[r] = "paid", com'[r] # "paid"
               PROVE  \E k \in Clicks : /\ click[k].row = r /\ click[k].behind
                                        /\ click[k].pc = "sent" /\ click'[k].pc = "ok"
    OBVIOUS
  <2>0. com \in Shown /\ click \in [Clicks -> ClickState]
    BY DEF CommissionsInv, TypeInv, TypeOK
  <2>1. PICK k \in Clicks : updateStatus(k)
    <3>1. ASSUME NEW q \in Posts, CreateCommission(q) PROVE FALSE
      BY <2>0, <3>1 DEF CreateCommission, Shown
    <3>2. com' # com
      OBVIOUS
    <3> QED BY <3>1, <3>2 DEF Next, ListStep, StatusStep, PostStep, Lists, Lands, FetchFails, ChangeFilter,
                              Click, StatusChanged, StatusLost, OpenForm, CloseForm, Submit, CreatePartner,
                              Created, NotCreated, PostLost, vars
  <2>2. com' = [com EXCEPT ![click[k].row] = click[k].to] /\ click[k].pc = "sent"
    BY <2>1 DEF updateStatus
  <2>3. click[k].row = r /\ click[k].to # "paid"
    BY <2>0, <2>2 DEF Shown, ClickState
  <2>4. click'[k].pc = "ok"
    <3>1. click'[k] = [click[k] EXCEPT !.pc = "ok"] /\ click[k] \in ClickState
      BY <2>0, <2>1 DEF updateStatus
    <3> QED BY <3>1 DEF ClickState
  <2>5. click[k].behind
    <3>1. click[k].to \notin Step(com[r])
      BY DEF Step
    <3> QED BY <2>2, <2>3, <3>1 DEF CommissionsInv, ListInv, InStep
  <2> QED BY <2>2, <2>3, <2>4, <2>5
<1>2. [][Kept]_vars => PaidStaysPaid
  BY PTL DEF PaidStaysPaid
<1> QED BY <1>1, <1>2, Invariance, PTL DEF Spec
=============================================================================
