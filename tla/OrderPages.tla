------------------------------ MODULE OrderPages ------------------------------
(***************************************************************************)
(* OrderProgress with the pages of one administrator's tab in front of it: *)
(* the page of the order, with the form that sends updateProgress, and the *)
(* list of orders.  A behaviour has one of them: the order's page, which   *)
(* is left and opened again, or the list; only a click leads from the list *)
(* to the order.  A request of OrderProgress is a save of this tab, or     *)
(* comes from elsewhere with any input.                                    *)
(*                                                                         *)
(* React Query keeps the order and fetches it anew in the background; an   *)
(* effect of the page puts every answer that differs from the kept one     *)
(* into the form.  Two answers differ exactly when the row was written     *)
(* between them: updated_at tells.  What was read counts as stale from the *)
(* next write on.                                                          *)
(*                                                                         *)
(* Of the list, the answers kept for other filters and pages are left out: *)
(* each is fetched anew when it is shown again.  The other orders stay in  *)
(* the first stage.                                                        *)
(***************************************************************************)
EXTENDS OrderProgress, FiniteSetsExt

CONSTANTS
    Others,     \* the number of the other orders
    PageSize,   \* PAGE_SIZE of the list
    PageFaults  \* which of PageFaultKinds may happen

PageFaultKinds == {"fetch_fails", "answer_lost"}

None == "none"

ASSUME PagesAssumption ==
    /\ Others \in Nat
    /\ PageSize \in Nat \ {0}
    /\ PageFaults \subseteq PageFaultKinds
    /\ None \notin Requests /\ Absent \notin Rows
    /\ 0 \in Percents
    /\ \A l \in ManagerLeads : l.progress = Absent \/ Clamp(l.progress) \in Percents

VARIABLES
    view,       \* the page shown: the list, the order, or another one
    kept,       \* the query ['order', id]
    load,       \* its request
    form,       \* stage and percent of the form
    touched,    \* history: the fields typed into since the effect last filled the form
    saving,     \* the request this page waits for, None without one
    saves,      \* the PATCH requests of this tab
    list,       \* filter and page of the list, and the answer shown
    listLoad    \* the request of the list

formVars == <<form, touched, saving>>
listVars == <<list, listLoad>>
pageVars == <<view, kept, load, formVars, saves, listVars>>
allVars  == <<vars, pageVars>>

Fields   == {"stage", "progress"}
Forms    == [stage : Stages \cup {Absent}, progress : 0 .. 100]
NoOrder  == [row |-> Absent, stale |-> FALSE, failed |-> FALSE]
IdleLoad == [pc |-> "idle", row |-> Absent, stale |-> FALSE, differs |-> FALSE]
SentLoad == [IdleLoad EXCEPT !.pc = "sent"]
NewForm  == [stage |-> Absent, progress |-> 0]
NoSave   == [pc |-> "none", input |-> NewForm, untouched |-> {}, stale |-> FALSE]

\* The stage filter, Absent for all, and the page number; `from` and `guess` are history:
\* the total the page was chosen from, and whether that was another filter's.
FirstPage(stage) == [stage |-> stage, page |-> 1, from |-> 0, guess |-> FALSE]

\* What GET /admin/orders answers, and for what; `split` is history: an order entered or
\* left the filter between the answer's rows and its total.
NoAnswer == [stage |-> Absent, page |-> 0, total |-> 0, items |-> 0, split |-> FALSE]

NewList  == [query |-> FirstPage(Absent), shown |-> NoAnswer]
IdleList == [pc |-> "idle", answer |-> NoAnswer]
SentList == [IdleList EXCEPT !.pc = "sent"]

PagesInit ==
    /\ Init
    /\ view \in {"list", "away"}
    /\ kept = NoOrder
    /\ load = IdleLoad
    /\ form = NewForm
    /\ touched = {}
    /\ saving = None
    /\ saves = [r \in Requests |-> NoSave]
    /\ list = NewList
    /\ listLoad = IF view = "list" THEN SentList ELSE IdleList

-----------------------------------------------------------------------------
(* The list *)

\* OrdersService.listAll: the orders that match the filter, and a page of them.
Matching(stage) ==
    (IF stage \in {Absent, FirstStage} THEN Others ELSE 0)
    + (IF stage \in {Absent, order.stage} THEN 1 ELSE 0)

Rowed(q) == Max({0, Min({PageSize, Matching(q.stage) - (q.page - 1) * PageSize})})

\* findMany and count are two statements, each with a snapshot of its own.
ServeRows ==
    LET q == list.query
    IN  /\ listLoad.pc = "sent"
        /\ listLoad' = [pc |-> "counting",
                        answer |-> [NoAnswer EXCEPT !.stage = q.stage, !.page = q.page,
                                           !.total = Matching(q.stage), !.items = Rowed(q)]]
        /\ UNCHANGED <<vars, view, kept, load, formVars, saves, list>>

ServeCount ==
    LET total == Matching(listLoad.answer.stage)
    IN  /\ listLoad.pc = "counting"
        /\ listLoad' = [pc |-> "answered",
                        answer |-> [listLoad.answer EXCEPT !.total = total, !.split = (listLoad.answer.total # total)]]
        /\ UNCHANGED <<vars, view, kept, load, formVars, saves, list>>

ShowList ==
    /\ listLoad.pc = "answered"
    /\ list' = [list EXCEPT !.shown = listLoad.answer]
    /\ listLoad' = IdleList
    /\ UNCHANGED <<vars, view, kept, load, formVars, saves>>

\* Is the answer shown that of this filter and page, or the one before it?
Own == list.shown.stage = list.query.stage /\ list.shown.page = list.query.page

\* The error is shown beside the query's own answer, or instead of the one before it.
ListFails ==
    /\ "fetch_fails" \in PageFaults
    /\ listLoad.pc \in {"sent", "counting"}
    /\ list' = [list EXCEPT !.shown = IF Own THEN @ ELSE NoAnswer]
    /\ listLoad' = IdleList
    /\ UNCHANGED <<vars, view, kept, load, formVars, saves>>

Query(q) ==
    /\ list' = [list EXCEPT !.query = q]
    /\ listLoad' = SentList

\* Faulty variant of Filtered: the page number stays.
Filtered_Page(stage) == [FirstPage(stage) EXCEPT !.page = list.query.page]

\* A new filter goes to the first page.
Filtered(stage) == FirstPage(stage)

SetFilter(stage) ==
    /\ view = "list"
    /\ stage # list.query.stage
    /\ Query(Filtered(stage))
    /\ UNCHANGED <<vars, view, kept, load, formVars, saves>>

\* As many pages as the answer shown has, be it the one before.
TotalPages == Max({1, (list.shown.total + PageSize - 1) \div PageSize})

SetPage(n) ==
    /\ view = "list"
    /\ n # list.query.page
    /\ Query([list.query EXCEPT !.page = n, !.from = list.shown.total,
                                !.guess = list.shown.stage # list.query.stage])
    /\ UNCHANGED <<vars, view, kept, load, formVars, saves>>

-----------------------------------------------------------------------------
(* The query of the order *)

\* The form is filled with the order as it is kept, and that is fetched again, or the
\* request that is still under way is joined.
OpenOrder ==
    /\ view = "away"
    /\ view' = "order"
    /\ form' = IF kept.row = Absent THEN NewForm ELSE kept.row
    /\ load' = IF load.pc = "idle" THEN SentLoad ELSE load
    /\ UNCHANGED <<vars, kept, touched, saving, saves, listVars>>

LeaveOrder ==
    /\ view = "order"
    /\ view' = "away"
    /\ form' = NewForm /\ touched' = {} /\ saving' = None
    /\ UNCHANGED <<vars, kept, load, saves, listVars>>

\* The connection was lost and is there again.
Refetch ==
    /\ view = "order"
    /\ load.pc = "idle"
    /\ load' = SentLoad
    /\ UNCHANGED <<vars, view, kept, formVars, saves, listVars>>

\* AdminOrdersController.findOne
ServeOrder ==
    /\ load.pc = "sent"
    /\ load' = [pc |-> "answered", row |-> order, stale |-> FALSE,
                differs |-> kept.row = Absent \/ kept.stale]
    /\ UNCHANGED <<vars, view, kept, formVars, saves, listVars>>

\* Faulty variant of FillsForm: the effect runs when the page is opened, and no more.
FillsForm_Once == kept.row = Absent

\* Faulty variant of FillsForm: the effect runs after every answer.
FillsForm_Always == TRUE

\* The effect runs when the order differs from the one that is kept.
FillsForm == load.differs

ShowOrder ==
    /\ load.pc = "answered"
    /\ kept' = [row |-> load.row, stale |-> load.stale, failed |-> FALSE]
    /\ load' = IdleLoad
    /\ IF view = "order" /\ FillsForm
       THEN form' = load.row /\ touched' = {}
       ELSE UNCHANGED <<form, touched>>
    /\ UNCHANGED <<vars, view, saving, saves, listVars>>

\* The page shows the error instead of the form, which keeps what it holds.
OrderFails ==
    /\ "fetch_fails" \in PageFaults
    /\ load.pc = "sent"
    /\ kept' = [kept EXCEPT !.failed = TRUE]
    /\ load' = IdleLoad
    /\ UNCHANGED <<vars, view, formVars, saves, listVars>>

\* Five minutes after the page was left.
Forget ==
    /\ view = "away" /\ load.pc = "idle" /\ kept # NoOrder
    /\ kept' = NoOrder
    /\ UNCHANGED <<vars, view, load, formVars, saves, listVars>>

-----------------------------------------------------------------------------
(* The form *)

FormShown == view = "order" /\ kept.row # Absent /\ ~kept.failed

Type(field, value) ==
    /\ FormShown
    /\ form[field] # value
    /\ form' = [form EXCEPT ![field] = value]
    /\ touched' = touched \cup {field}
    /\ UNCHANGED <<vars, view, kept, load, saving, saves, listVars>>

\* The whole form is sent, but for a stage that was cleared.
Save(r) ==
    /\ FormShown
    /\ saving = None
    /\ req[r].pc = "idle" /\ saves[r] = NoSave
    /\ saving' = r
    /\ saves' = [saves EXCEPT ![r] = [pc |-> "sent", input |-> form, untouched |-> Fields \ touched,
                                      stale |-> kept.stale]]
    /\ UNCHANGED <<vars, view, kept, load, form, touched, listVars>>

\* AdminOrdersController.updateProgress, be it after the page has given up.
ServeSave(r) ==
    /\ saves[r].pc # "none"
    /\ ReadOrder(r)
    /\ req'[r].input = saves[r].input
    /\ UNCHANGED pageVars

\* Somebody else's page, with any input.
ServeElse(r) ==
    /\ saves[r] = NoSave
    /\ ReadOrder(r)
    /\ UNCHANGED pageVars

\* Faulty variant of EndSave: the button stays as it is.
EndSave_Pending(r) == saves' = [saves EXCEPT ![r].pc = "ended"] /\ UNCHANGED saving

\* The page waits no more, when it is still the one that did.
EndSave(r) ==
    /\ saves' = [saves EXCEPT ![r].pc = "ended"]
    /\ saving' = IF saving = r THEN None ELSE saving

\* invalidateQueries: the order is fetched again, a request under way starts anew when
\* there is an order.  Only what is on the screen is.
SaveConfirmed(r) ==
    /\ saves[r].pc = "sent" /\ req[r].pc = "done"
    /\ EndSave(r)
    /\ load' = IF view = "order" /\ (load.pc = "idle" \/ kept.row # Absent) THEN SentLoad ELSE load
    /\ UNCHANGED <<vars, view, kept, form, touched, listVars>>

\* The update threw, or its answer is lost.  Nothing is fetched, the form stays.
SaveFails(r) ==
    /\ saves[r].pc = "sent"
    /\ req[r].pc = "failed" \/ "answer_lost" \in PageFaults
    /\ EndSave(r)
    /\ UNCHANGED <<vars, view, kept, load, form, touched, listVars>>

-----------------------------------------------------------------------------
(* The steps of OrderProgress *)

\* The row is written, by one of these updates or by a sync: what was read before is stale.
\* What a save has sent matters no more once its update commits.
Written(updates) ==
    /\ kept' = [kept EXCEPT !.stale = kept.row # Absent]
    /\ load' = [load EXCEPT !.stale = load.pc = "answered"]
    /\ saves' = [r \in Requests |->
                    IF r \in updates THEN [NoSave EXCEPT !.pc = saves[r].pc]
                    ELSE [saves[r] EXCEPT !.stale = @ \/ saves[r].pc # "none"]]
    /\ UNCHANGED <<view, formVars, listVars>>

BackEnd ==
    \/ \E l \in ManagerLeads : EditLead(l) /\ UNCHANGED pageVars
    \/ \E r \in Requests :
          \/ CommitUpdate(r) /\ Written({r})
          \/ /\ \/ BeginUpdate(r) \/ EnqueuePush(r) \/ DropPush(r) \/ EmitProgress(r)
                \/ UpdateThrows(r) \/ PushStep(r)
             /\ UNCHANGED pageVars
    \/ TakePush /\ UNCHANGED pageVars
    \/ \E s \in Syncers :
          \/ SyncWrites(s) /\ Written({})
          \/ (SyncReads(s) \/ SyncRefuses(s) \/ SyncThrows(s)) /\ UNCHANGED pageVars

ListStep ==
    \/ ServeRows \/ ServeCount \/ ShowList \/ ListFails
    \/ \E stage \in Stages \cup {Absent} : SetFilter(stage)
    \/ \E n \in 1 .. TotalPages : SetPage(n)

OrderStep == OpenOrder \/ LeaveOrder \/ Refetch \/ ServeOrder \/ ShowOrder \/ OrderFails \/ Forget

SaveStep(r) == Save(r) \/ ServeSave(r) \/ ServeElse(r) \/ SaveConfirmed(r) \/ SaveFails(r)

PagesNext ==
    \/ BackEnd
    \/ ListStep
    \/ OrderStep
    \/ \E stage \in Stages \cup {Absent} : Type("stage", stage)
    \/ \E p \in Percents : Type("progress", p)
    \/ \E r \in Requests : SaveStep(r)

PagesSpec == PagesInit /\ [][PagesNext]_allVars

-----------------------------------------------------------------------------
(* Properties *)

Answers == [stage : Stages \cup {Absent}, page : Nat, total : 0 .. Others + 1, items : 0 .. PageSize,
            split : BOOLEAN]

PageType ==
    /\ view \in {"list", "order", "away"}
    /\ kept \in [row : Rows \cup {Absent}, stale : BOOLEAN, failed : BOOLEAN]
    /\ load \in [pc : {"idle", "sent", "answered"}, row : Rows \cup {Absent}, stale : BOOLEAN,
                 differs : BOOLEAN]
    /\ form \in Forms /\ touched \subseteq Fields
    /\ list.query \in [stage : Stages \cup {Absent}, page : Nat \ {0}, from : 0 .. Others + 1, guess : BOOLEAN]
    /\ list.shown \in Answers
    /\ listLoad \in [pc : {"idle", "sent", "counting", "answered"}, answer : Answers]
    /\ saving \in Requests \cup {None}

SaveType ==
    saves \in [Requests -> [pc : {"none", "sent", "ended"}, input : Forms, untouched : SUBSET Fields,
                            stale : BOOLEAN]]

\* Every variable stays in its type; what is kept is the row, unless that was written
\* since; and what is typed or loaded is what the update takes.
PagesTypeOK ==
    /\ TypeOK /\ PageType /\ SaveType
    /\ kept.row # Absent /\ ~kept.stale => kept.row = order
    /\ form.progress \in Percents
    /\ saving # None => saves[saving].pc = "sent"

\* A save sends the whole form.  A field its administrator did not touch changes by it
\* only if somebody else wrote the row after the page had read it: the page never undoes
\* a change it has shown.
UndoesOnlyUnseen ==
    [][\A r \in Requests : req[r].pc = "begun" /\ req'[r].pc = "committed" =>
          \A field \in saves[r].untouched : order'[field] = order[field] \/ saves[r].stale]_allVars

\* What is typed into the open form is overwritten only by a row that was written since
\* the page read it, its own save among the writers: a refetch that brings nothing new,
\* as on the way back from the list, leaves it alone.
TypedIsKept ==
    [][view = "order" /\ view' = "order" /\ ~kept.stale => touched \subseteq touched']_allVars

\* "No orders found" is shown for a filter that has orders for three reasons only: orders
\* have left it since the page number was chosen, the number was chosen from the pages of
\* another filter, or an order entered it between the two queries of the answer.
FoundWhatMatches ==
    Own /\ list.shown.items = 0 /\ list.shown.total > 0 =>
        list.query.guess \/ list.shown.total < list.query.from \/ list.shown.split
=============================================================================
