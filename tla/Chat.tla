--------------------------------- MODULE Chat ---------------------------------
(***************************************************************************)
(* The chat of one order: the API's ChatService, and the conversation the  *)
(* web application shows to administrators and, in the cabinet, to the     *)
(* client, which polls, loads older messages and marks what is unread.     *)
(*                                                                         *)
(* A message is the post that sent it; its text is left out.  What an      *)
(* administrator's message tells the client is Notifications's subject.    *)
(***************************************************************************)
EXTENDS Naturals, FiniteSets, FiniteSetsExt

CONSTANTS
    Client,      \* the order's client
    Admins,      \* the administrators
    NoUser,
    Posts,       \* the messages users set out to send
    NoPost,
    Atts,        \* the files users set out to upload
    PageSize,    \* PAGE of the conversation, the API's default limit
    Faults,      \* which failures may happen
    MaxOpens     \* bound: conversations opened

Users == Admins \cup {Client}

FaultKinds == {"same_ms", "post_failed", "upload_failed", "mark_failed"}

ASSUME ConstantsAssumption ==
    /\ Client \notin Admins
    /\ NoUser \notin Users
    /\ NoPost \notin Posts
    /\ IsFiniteSet(Posts)
    /\ PageSize \in Nat \ {0}
    /\ Faults \subseteq FaultKinds
    /\ MaxOpens \in Nat

VARIABLES
    chat,      \* the chats row exists
    post,      \* per post its request and the messages row; at is created_at, 0: no row
    clock,     \* the latest created_at
    att,       \* per file its upload and the attachments row; link is message_id
    page,      \* per user the conversation in the browser and the answer its query cache holds
    opens,
    seen,      \* per user the messages that have been on the page
    unmarked,  \* a request to mark messages has failed
    late,      \* messages committed after one with a later created_at
    doubtful   \* files two posts had picked at once, or a post lost before it linked them

pageVars == <<page, opens, seen>>
flags == <<unmarked, late>>
vars == <<chat, post, clock, att, pageVars, flags, doubtful>>

\* The rows others see.
Sent == {p \in Posts : post[p].at > 0 /\ post[p].pc # "inserting"}
At(p) == post[p].at

IdlePost == [pc |-> "idle", user |-> NoUser, atts |-> {}, at |-> 0, read |-> FALSE]
NoUpload == [pc |-> "none", owner |-> NoUser, link |-> NoPost]

\* A conversation without anything loaded: fresh, newest and unread are of the answer
\* shown, marking the requests to mark that are under way.
BlankPage(pc, marking) ==
    [pc |-> pc, fresh |-> {}, newest |-> NoPost, unread |-> FALSE, older |-> {},
     noMoreOlder |-> FALSE, lastMarked |-> NoPost, marking |-> marking]

Init ==
    /\ chat = FALSE
    /\ post = [p \in Posts |-> IdlePost]
    /\ clock = 0
    /\ att = [a \in Atts |-> NoUpload]
    /\ page = [u \in Users |-> BlankPage("closed", {})]
    /\ opens = 0
    /\ seen = [u \in Users |-> {}]
    /\ unmarked = FALSE
    /\ late = {}
    /\ doubtful = {}

------------------------------------------------------------------------------
(* Rendering a conversation *)

\* The effect asks to mark once per newest message, whatever becomes of the request; it
\* looks for messages of the client, on the client's own page too.
ToMark_Once(pg) == pg.unread /\ pg.lastMarked = NoPost
ToMark(pg) == pg.unread /\ pg.newest # pg.lastMarked

Rendered(pg) ==
    IF ToMark(pg) THEN [pg EXCEPT !.lastMarked = pg.newest, !.marking = @ \cup {pg.newest}]
    ELSE pg

WithAnswer(pg, ids, newest) ==
    [pg EXCEPT !.fresh = ids, !.newest = newest,
               !.unread = \E i \in ids : post[i].user = Client /\ ~post[i].read]

\* The answer of an earlier visit is shown first, unless five minutes have passed.
Opened(pg) == {BlankPage("open", pg.marking), [pg EXCEPT !.pc = "open"]}

------------------------------------------------------------------------------
(* ChatService.findOrCreateForOrder *)

\* An administrator picks a chat that exists; the cabinet asks for the order's.
OpenChat(u) ==
    /\ opens < MaxOpens
    /\ page[u].pc = "closed"
    /\ \/ chat /\ \E pg \in Opened(page[u]) : page' = [page EXCEPT ![u] = Rendered(pg)]
       \/ ~chat /\ u = Client /\ page' = [page EXCEPT ![u].pc = "creating"]
    /\ opens' = opens + 1
    /\ UNCHANGED <<chat, post, clock, att, seen, flags, doubtful>>

\* order_id is unique: a request that lost the race fails, and the page shows an error.
CreateChat(u) ==
    /\ page[u].pc = "creating"
    /\ chat' = TRUE
    /\ page' = [page EXCEPT ![u].pc = IF chat THEN "closed" ELSE "open"]
    /\ UNCHANGED <<post, clock, att, opens, seen, flags, doubtful>>

\* The client's phone opens the chat as well.
PhoneOpensChat ==
    /\ ~chat
    /\ chat' = TRUE
    /\ UNCHANGED <<post, clock, att, pageVars, flags, doubtful>>

------------------------------------------------------------------------------
(* ChatService.createAttachment *)

PutObject(a, u) ==
    /\ chat
    /\ att[a].pc = "none"
    /\ att' = [att EXCEPT ![a].pc = "put", ![a].owner = u]
    /\ UNCHANGED <<chat, post, clock, pageVars, flags, doubtful>>

InsertAttachment(a) ==
    /\ att[a].pc = "put"
    /\ att' = [att EXCEPT ![a].pc = "row"]
    /\ UNCHANGED <<chat, post, clock, pageVars, flags, doubtful>>

\* The object stays in the bucket without a row.
UploadThrows(a) ==
    /\ "upload_failed" \in Faults
    /\ att[a].pc = "put"
    /\ att' = [att EXCEPT ![a].pc = "failed"]
    /\ UNCHANGED <<chat, post, clock, pageVars, flags, doubtful>>

------------------------------------------------------------------------------
(* ChatService.sendMessage *)

\* The rows findMany finds for a sender.
Pickable_AnyOwner(u) == {a \in Atts : att[a].pc = "row" /\ att[a].link = NoPost}
Pickable_Linked(u) == {a \in Atts : att[a].pc = "row" /\ att[a].owner = u}
Pickable(u) == {a \in Atts : att[a].pc = "row" /\ att[a].owner = u /\ att[a].link = NoPost}

UnderWay == {"checked", "inserting", "created"}
InHand(a) == \E q \in Posts : post[q].pc \in UnderWay /\ a \in post[q].atts

CheckPost(p, u, picked) ==
    /\ chat
    /\ post[p].pc = "idle"
    /\ picked \subseteq Pickable(u)
    /\ post' = [post EXCEPT ![p].pc = "checked", ![p].user = u, ![p].atts = picked]
    /\ doubtful' = doubtful \cup {a \in picked : InHand(a)}
    /\ UNCHANGED <<chat, clock, att, pageVars, flags>>

\* created_at has milliseconds, so two messages may share one.
Instants == {clock + 1} \cup (IF "same_ms" \in Faults /\ clock > 0 THEN {clock} ELSE {})

\* The row gets its time when its insert begins, and is seen when that has committed.
InsertMessage(p, now) ==
    /\ post[p].pc = "checked"
    /\ now \in Instants
    /\ post' = [post EXCEPT ![p].pc = "inserting", ![p].at = now]
    /\ clock' = now
    /\ UNCHANGED <<chat, att, pageVars, flags, doubtful>>

CommitMessage(p) ==
    /\ post[p].pc = "inserting"
    /\ post' = [post EXCEPT ![p].pc = IF post[p].atts = {} THEN "done" ELSE "created"]
    /\ late' = late \cup (IF \E q \in Sent : At(q) > At(p) THEN {p} ELSE {})
    /\ UNCHANGED <<chat, clock, att, pageVars, unmarked, doubtful>>

\* updateMany by id only: a file another post linked meanwhile is taken over.
LinkAttachments(p) ==
    /\ post[p].pc = "created"
    /\ att' = [a \in Atts |-> IF a \in post[p].atts THEN [att[a] EXCEPT !.link = p] ELSE att[a]]
    /\ post' = [post EXCEPT ![p].pc = "done"]
    /\ UNCHANGED <<chat, clock, pageVars, flags, doubtful>>

PostThrows(p) ==
    /\ "post_failed" \in Faults
    /\ post[p].pc \in UnderWay
    /\ post' = [post EXCEPT ![p].pc = "failed", ![p].at = IF p \in Sent THEN @ ELSE 0]
    /\ doubtful' = doubtful \cup (IF post[p].pc = "created" THEN post[p].atts ELSE {})
    /\ UNCHANGED <<chat, clock, att, pageVars, flags>>

------------------------------------------------------------------------------
(* ChatService.listMessages and markRead *)

\* The newest rows of a set, at most a page; ties come in any order.
NewestPages(rows) ==
    {ids \in SUBSET rows :
        /\ Cardinality(ids) = Min({Cardinality(rows), PageSize})
        /\ \A i \in ids, j \in rows \ ids : At(j) <= At(i)}

LatestOf(ids) == {i \in ids : \A j \in ids : At(j) <= At(i)}

\* What markRead(upTo) of a user marks.
MarkedBy_Everything(u, upTo) == {i \in Sent : post[i].user # u}
MarkedBy(u, upTo) == {i \in Sent : At(i) <= At(upTo) /\ post[i].user # u}

------------------------------------------------------------------------------
(* The Conversation of the web application *)

IsOpen(u) == page[u].pc = "open"

\* The poll, or the request after a send, from the API's answer to the effect it has: a
\* request that fails is followed by the next, a second one cancels the first, and what
\* happens while the answer is on its way happens as well before the page marks.
Poll(u) ==
    /\ IsOpen(u)
    /\ \E ids \in NewestPages(Sent) : \E newest \in LatestOf(ids) :
          /\ page[u] # Rendered(WithAnswer(page[u], ids, newest))
          /\ page' = [page EXCEPT ![u] = Rendered(WithAnswer(page[u], ids, newest))]
          /\ seen' = [seen EXCEPT ![u] = @ \cup ids]
    /\ UNCHANGED <<chat, post, clock, att, opens, flags, doubtful>>

Mark(u, upTo) ==
    /\ upTo \in page[u].marking
    /\ post' = [p \in Posts |-> IF p \in MarkedBy(u, upTo) THEN [post[p] EXCEPT !.read = TRUE]
                                                          ELSE post[p]]
    /\ page' = [page EXCEPT ![u].marking = @ \ {upTo}]
    /\ UNCHANGED <<chat, clock, att, opens, seen, flags, doubtful>>

MarkFails(u, upTo) ==
    /\ "mark_failed" \in Faults
    /\ upTo \in page[u].marking
    /\ page' = [page EXCEPT ![u].marking = @ \ {upTo}]
    /\ unmarked' = TRUE
    /\ UNCHANGED <<chat, post, clock, att, opens, seen, late, doubtful>>

\* The first message of the list, from which older ones are asked for.
Oldest(pg) ==
    LET first == IF pg.older = {} THEN pg.fresh ELSE pg.older
    IN  {i \in first : \A j \in first : At(i) <= At(j)}

LoadOlder(u) ==
    /\ IsOpen(u)
    /\ Cardinality(page[u].fresh) = PageSize
    /\ ~page[u].noMoreOlder
    /\ \E cursor \in Oldest(page[u]) :
          \E ids \in NewestPages({i \in Sent : At(i) < At(cursor)}) :
             /\ page' = [page EXCEPT ![u].older = @ \cup ids,
                                     ![u].noMoreOlder = Cardinality(ids) < PageSize]
             /\ seen' = [seen EXCEPT ![u] = @ \cup ids]
    /\ UNCHANGED <<chat, post, clock, att, opens, flags, doubtful>>

\* The user leaves the page or picks another chat.
Close(u) ==
    /\ IsOpen(u)
    /\ page' = [page EXCEPT ![u] = [@ EXCEPT !.pc = "closed", !.older = {},
                                            !.noMoreOlder = FALSE, !.lastMarked = NoPost]]
    /\ UNCHANGED <<chat, post, clock, att, opens, seen, flags, doubtful>>

------------------------------------------------------------------------------

PostStep(p) ==
    \/ \E now \in Instants : InsertMessage(p, now)
    \/ CommitMessage(p) \/ LinkAttachments(p)

Next ==
    \/ PhoneOpensChat
    \/ \E a \in Atts : InsertAttachment(a) \/ UploadThrows(a) \/ \E u \in Users : PutObject(a, u)
    \/ \E p \in Posts :
          \/ PostStep(p) \/ PostThrows(p)
          \/ \E u \in Users, picked \in SUBSET Atts : CheckPost(p, u, picked)
    \/ \E u \in Users :
          \/ OpenChat(u) \/ CreateChat(u) \/ Close(u)
          \/ Poll(u) \/ LoadOlder(u)
          \/ \E p \in Posts : Mark(u, p) \/ MarkFails(u, p)

Spec == Init /\ [][Next]_vars

\* An open page keeps polling, a request it sent is answered, a post goes on.
Fairness ==
    /\ \A p \in Posts : WF_vars(PostStep(p))
    /\ \A u \in Users : WF_vars(Poll(u)) /\ \A p \in Posts : WF_vars(Mark(u, p))

FairSpec == Spec /\ Fairness

------------------------------------------------------------------------------
(* Properties *)

PostType ==
    /\ post \in [Posts -> [pc : {"idle", "checked", "inserting", "created", "done", "failed"},
                           user : Users \cup {NoUser}, atts : SUBSET Atts, at : Nat, read : BOOLEAN]]
    /\ clock \in Nat
    /\ \A p \in Posts : At(p) <= clock
    /\ \A p \in Posts : post[p].pc \in {"idle", "checked"} => At(p) = 0

AttType ==
    /\ att \in [Atts -> [pc : {"none", "put", "row", "failed"},
                         owner : Users \cup {NoUser}, link : Posts \cup {NoPost}]]
    /\ doubtful \subseteq Atts

PageType ==
    /\ page \in [Users -> [pc : {"closed", "creating", "open"}, fresh : SUBSET Posts,
                           newest : Posts \cup {NoPost}, unread : BOOLEAN,
                           older : SUBSET Posts, noMoreOlder : BOOLEAN,
                           lastMarked : Posts \cup {NoPost}, marking : SUBSET Posts]]
    /\ \A u \in Users : /\ page[u].marking \subseteq Sent
                        /\ page[u].unread => page[u].newest \in Sent

\* The types of the rows and the pages; a row is no newer than the clock, only a
\* post that has begun its insert has a time, and only messages that exist are marked up to.
TypeOK ==
    /\ chat \in BOOLEAN
    /\ PostType /\ AttType /\ PageType
    /\ opens \in Nat
    /\ seen \in [Users -> SUBSET Posts]
    /\ unmarked \in BOOLEAN /\ late \subseteq Posts

\* The limits of a cursor that is a time: messages that came late, that share their
\* millisecond with another, or that a page's worth of others follows.
Hidden(i) ==
    LET others == Sent \ {i}
    IN  \/ i \in late
        \/ \E j \in others : At(j) = At(i)
        \/ Cardinality({j \in others : At(j) >= At(i)}) >= PageSize

\* Marking up to the newest message shown (Conversation.tsx:46-56) marks no message that
\* arrived meanwhile: one that counts as read was on the page of somebody else than its
\* sender, but for the named limits of the cursor.
ReadWasSeen ==
    \A i \in Sent : post[i].read =>
        Hidden(i) \/ \E u \in Users \ {post[i].user} : i \in seen[u]

\* The JSON of a message and the attachments table (chat.service.ts:145-172) add up: a
\* message carries files of its sender, and a file is linked to a message that carries it.
AttachmentsAddUp ==
    /\ \A i \in Sent : \A a \in post[i].atts : att[a].pc = "row" /\ att[a].owner = post[i].user
    /\ \A a \in Atts : att[a].link # NoPost =>
          att[a].link \in Sent /\ a \in post[att[a].link].atts

\* A file is in one message (chat.service.ts:147-151), unless two posts had it at once or
\* one of them was lost before it linked the file.
AttachedOnce ==
    \A a \in Atts \ doubtful : \A i, j \in Sent :
        a \in post[i].atts /\ a \in post[j].atts => i = j

\* A client's message stops being unread while an administrator has the chat open
\* (Conversation.tsx:46-56), but for the cursor's limits and a request that failed, which
\* is not sent again.
UnreadClears ==
    \A p \in Posts :
        (p \in Sent /\ post[p].user = Client /\ ~post[p].read) ~>
            \/ post[p].read \/ Hidden(p) \/ unmarked
            \/ \A u \in Admins : ~IsOpen(u)

================================================================================
