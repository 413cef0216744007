------------------------------ MODULE ChatProofs ------------------------------
(***************************************************************************)
(* Type correctness of Chat, that messages and attachments add up, and     *)
(* that a message counts as read only after it was on somebody's page, for *)
(* any number of administrators, messages and files.                       *)
(***************************************************************************)
EXTENDS Chat, FiniteSetTheorems, TLAPS

PostRecords == [pc : {"idle", "checked", "inserting", "created", "done", "failed"},
                user : Users \cup {NoUser}, atts : SUBSET Atts, at : Nat, read : BOOLEAN]
AttRecords  == [pc : {"none", "put", "row", "failed"},
                owner : Users \cup {NoUser}, link : Posts \cup {NoPost}]
PageRecords == [pc : {"closed", "creating", "open"}, fresh : SUBSET Posts,
                newest : Posts \cup {NoPost}, unread : BOOLEAN,
                older : SUBSET Posts, noMoreOlder : BOOLEAN,
                lastMarked : Posts \cup {NoPost}, marking : SUBSET Posts]

\* The messages up to which a page has asked to mark, or may ask without a new answer.
Cursors(pg) == pg.marking \cup (IF pg.unread THEN {pg.newest} ELSE {})

-----------------------------------------------------------------------------
(* The records the actions build *)

LEMMA BlankTypes ==
    /\ IdlePost \in PostRecords /\ NoUpload \in AttRecords
    /\ \A pc \in {"closed", "creating", "open"}, marking \in SUBSET Posts :
          BlankPage(pc, marking) \in PageRecords /\ Cursors(BlankPage(pc, marking)) = marking
BY DEF IdlePost, PostRecords, NoUpload, AttRecords, BlankPage, PageRecords, Cursors

LEMMA RenderedType ==
    ASSUME NEW pg \in PageRecords, Cursors(pg) \subseteq Posts
    PROVE  Rendered(pg) \in PageRecords /\ Cursors(Rendered(pg)) \subseteq Cursors(pg)
<1>1. CASE ToMark(pg)
  <2> DEFINE new == [pg EXCEPT !.lastMarked = pg.newest, !.marking = @ \cup {pg.newest}]
  <2>1. pg.unread /\ pg.newest \in Posts
    BY <1>1 DEF ToMark, Cursors
  <2>2. new \in PageRecords
    BY <2>1 DEF PageRecords
  <2>3. new.marking = pg.marking \cup {pg.newest} /\ new.newest = pg.newest
    BY DEF PageRecords
  <2>4. Rendered(pg) = new
    BY <1>1 DEF Rendered
  <2> HIDE DEF new
  <2> QED BY <2>1, <2>2, <2>3, <2>4 DEF Cursors
<1>2. CASE ~ToMark(pg)
  BY <1>2 DEF Rendered
<1> QED BY <1>1, <1>2

LEMMA WithAnswerType ==
    ASSUME NEW pg \in PageRecords, NEW ids \in SUBSET Posts, NEW newest \in Posts
    PROVE  /\ WithAnswer(pg, ids, newest) \in PageRecords
           /\ Cursors(WithAnswer(pg, ids, newest)) \subseteq Cursors(pg) \cup {newest}
<1> DEFINE unread == \E i \in ids : post[i].user = Client /\ ~post[i].read
           new == [pg EXCEPT !.fresh = ids, !.newest = newest, !.unread = unread]
<1>1. unread \in BOOLEAN
  OBVIOUS
<1>2. WithAnswer(pg, ids, newest) = new
  BY DEF WithAnswer
<1> HIDE DEF unread
<1>3. new \in PageRecords /\ new.marking = pg.marking /\ new.newest = newest
  BY <1>1 DEF PageRecords
<1> HIDE DEF new
<1> QED BY <1>2, <1>3 DEF Cursors

LEMMA OpenedType ==
    ASSUME NEW pg \in PageRecords, Cursors(pg) \subseteq Posts, NEW new \in Opened(pg)
    PROVE  Rendered(new) \in PageRecords /\ Cursors(Rendered(new)) \subseteq Cursors(pg)
<1>1. new \in PageRecords /\ Cursors(new) \subseteq Cursors(pg)
  <2>1. CASE new = BlankPage("open", pg.marking)
    BY <2>1, BlankTypes DEF Cursors
  <2>2. CASE new = [pg EXCEPT !.pc = "open"]
    BY <2>2 DEF PageRecords, Cursors
  <2> QED BY <2>1, <2>2 DEF Opened
<1> QED BY <1>1, RenderedType

HIDE DEF PostRecords, AttRecords, PageRecords

-----------------------------------------------------------------------------
(* Type correctness *)

NotBegun(p) == post[p].pc \in {"idle", "checked"} => post[p].at = 0

LEMMA CursorsIn ==
    ASSUME NEW S, NEW pg
    PROVE  Cursors(pg) \subseteq S <=> /\ pg.marking \subseteq S
                                       /\ pg.unread => pg.newest \in S
BY DEF Cursors

LEMMA TypeParts ==
    TypeOK <=> /\ chat \in BOOLEAN
               /\ post \in [Posts -> PostRecords] /\ clock \in Nat
               /\ \A p \in Posts : post[p].at <= clock /\ NotBegun(p)
               /\ att \in [Atts -> AttRecords] /\ doubtful \subseteq Atts
               /\ page \in [Users -> PageRecords]
               /\ \A u \in Users : Cursors(page[u]) \subseteq Sent
               /\ opens \in Nat
               /\ seen \in [Users -> SUBSET Posts]
               /\ unmarked \in BOOLEAN /\ late \subseteq Posts
<1>1. (\A u \in Users : Cursors(page[u]) \subseteq Sent) <=>
         \A u \in Users : /\ page[u].marking \subseteq Sent
                          /\ page[u].unread => page[u].newest \in Sent
  BY CursorsIn
<1>2. PageType <=> /\ page \in [Users -> PageRecords]
                   /\ \A u \in Users : Cursors(page[u]) \subseteq Sent
  BY <1>1, Zenon DEF PageType, PageRecords
<1> QED BY <1>2, Zenon DEF TypeOK, PostType, AttType, PostRecords, AttRecords, At, NotBegun

LEMMA TypePartsNext ==
    TypeOK' <=> /\ chat' \in BOOLEAN
                /\ post' \in [Posts -> PostRecords] /\ clock' \in Nat
                /\ \A p \in Posts : post'[p].at <= clock' /\ NotBegun(p)'
                /\ att' \in [Atts -> AttRecords] /\ doubtful' \subseteq Atts
                /\ page' \in [Users -> PageRecords]
                /\ \A u \in Users : Cursors(page'[u]) \subseteq Sent'
                /\ opens' \in Nat
                /\ seen' \in [Users -> SUBSET Posts]
                /\ unmarked' \in BOOLEAN /\ late' \subseteq Posts
<1>1. (\A u \in Users : Cursors(page'[u]) \subseteq Sent') <=>
         \A u \in Users : /\ page'[u].marking \subseteq Sent'
                          /\ page'[u].unread => page'[u].newest \in Sent'
  BY CursorsIn
<1>2. PageType' <=> /\ page' \in [Users -> PageRecords]
                    /\ \A u \in Users : Cursors(page'[u]) \subseteq Sent'
  BY <1>1, Zenon DEF PageType, PageRecords
<1> QED BY <1>2, Zenon DEF TypeOK, PostType, AttType, PostRecords, AttRecords, At, NotBegun

LEMMA InitType == Init => TypeOK
<1> SUFFICES ASSUME Init PROVE TypeOK
  OBVIOUS
<1>1. \A p \in Posts : post[p].at = 0 /\ post[p] \in PostRecords /\ NotBegun(p)
  BY BlankTypes DEF Init, IdlePost, NotBegun
<1>2. \A u \in Users : Cursors(page[u]) = {} /\ page[u] \in PageRecords
  BY BlankTypes DEF Init
<1>3. /\ post \in [Posts -> PostRecords] /\ att \in [Atts -> AttRecords]
      /\ page \in [Users -> PageRecords] /\ seen \in [Users -> SUBSET Posts]
  BY <1>1, <1>2, BlankTypes DEF Init
<1>4. chat \in BOOLEAN /\ unmarked \in BOOLEAN /\ late = {} /\ clock = 0 /\ opens = 0 /\ doubtful = {}
  BY DEF Init
<1> QED BY <1>1, <1>2, <1>3, <1>4, TypeParts

\* Opening the chat.
LEMMA OpenPages ==
    ASSUME TypeOK, NEW u \in Users, OpenChat(u) \/ CreateChat(u) \/ PhoneOpensChat
    PROVE  /\ page' \in [Users -> PageRecords]
           /\ \A v \in Users : Cursors(page'[v]) \subseteq Cursors(page[v])
<1>1. page \in [Users -> PageRecords] /\ page[u] \in PageRecords /\ Cursors(page[u]) \subseteq Posts
  BY TypeParts DEF Sent
<1>2. CASE \E pg \in Opened(page[u]) : page' = [page EXCEPT ![u] = Rendered(pg)]
  BY <1>1, <1>2, OpenedType
<1>3. CASE \E pc \in {"creating", "closed", "open"} : page' = [page EXCEPT ![u].pc = pc]
  <2>1. PICK pc \in {"creating", "closed", "open"} : page' = [page EXCEPT ![u].pc = pc]
    BY <1>3
  <2>2. [page[u] EXCEPT !.pc = pc] \in PageRecords /\ Cursors([page[u] EXCEPT !.pc = pc]) = Cursors(page[u])
    BY <1>1 DEF PageRecords, Cursors
  <2> QED BY <1>1, <2>1, <2>2
<1>4. CASE page' = page
  BY <1>1, <1>4
<1> QED BY <1>2, <1>3, <1>4 DEF OpenChat, CreateChat, PhoneOpensChat, pageVars

LEMMA OpenType ==
    ASSUME TypeOK, NEW u \in Users, OpenChat(u) \/ CreateChat(u) \/ PhoneOpensChat
    PROVE  TypeOK'
<1>1. /\ UNCHANGED <<post, clock, att, seen, flags, doubtful>>
      /\ chat' \in BOOLEAN /\ opens' \in Nat
  <2>1. chat \in BOOLEAN /\ opens \in Nat
    BY TypeParts
  <2>2. CASE OpenChat(u)
    BY <2>1, <2>2 DEF OpenChat
  <2>3. CASE CreateChat(u)
    BY <2>1, <2>3 DEF CreateChat
  <2>4. CASE PhoneOpensChat
    BY <2>1, <2>4 DEF PhoneOpensChat, pageVars
  <2> QED BY <2>2, <2>3, <2>4
<1>2. /\ page' \in [Users -> PageRecords]
      /\ \A v \in Users : Cursors(page'[v]) \subseteq Cursors(page[v])
  BY OpenPages
<1>3. Sent' = Sent /\ \A p \in Posts : NotBegun(p)' <=> NotBegun(p)
  BY <1>1 DEF Sent, NotBegun
<1> QED BY <1>1, <1>2, <1>3, TypeParts, TypePartsNext DEF flags

\* Uploading a file.
LEMMA UploadType ==
    ASSUME TypeOK, NEW a \in Atts,
           InsertAttachment(a) \/ UploadThrows(a) \/ \E u \in Users : PutObject(a, u)
    PROVE  TypeOK'
<1>1. att' \in [Atts -> AttRecords]
  BY TypeParts DEF InsertAttachment, UploadThrows, PutObject, AttRecords
<1>2. /\ UNCHANGED <<chat, post, clock, pageVars, flags, doubtful>>
      /\ Sent' = Sent /\ \A p \in Posts : NotBegun(p)' <=> NotBegun(p)
  BY DEF InsertAttachment, UploadThrows, PutObject, Sent, NotBegun
<1> QED BY <1>1, <1>2, TypeParts, TypePartsNext DEF pageVars, flags

\* Sending a message.
LEMMA CheckPostSteps ==
    ASSUME TypeOK, NEW p \in Posts, NEW u \in Users, NEW picked \in SUBSET Atts, CheckPost(p, u, picked)
    PROVE  /\ post' \in [Posts -> PostRecords]
           /\ post'[p].pc = "checked" /\ post'[p].user = u /\ post'[p].atts = picked
           /\ post'[p].at = post[p].at /\ post'[p].read = post[p].read
           /\ \A q \in Posts \ {p} : post'[q] = post[q]
           /\ post[p].at = 0 /\ Sent' = Sent
<1> DEFINE new == [post[p] EXCEPT !.pc = "checked", !.user = u, !.atts = picked]
<1>1. post \in [Posts -> PostRecords] /\ post[p] \in PostRecords
  BY TypeParts
<1>2. /\ new \in PostRecords
      /\ new.pc = "checked" /\ new.user = u /\ new.atts = picked
      /\ new.at = post[p].at /\ new.read = post[p].read
      /\ post' = [post EXCEPT ![p] = new]
  BY <1>1 DEF PostRecords, CheckPost
<1> HIDE DEF new
<1>3. /\ post' \in [Posts -> PostRecords] /\ post'[p] = new
      /\ \A q \in Posts \ {p} : post'[q] = post[q]
  BY <1>1, <1>2
<1>4. post[p].at = 0
  BY TypeParts DEF CheckPost, NotBegun
<1>5. Sent' = Sent
  BY <1>2, <1>3, <1>4 DEF Sent
<1> QED BY <1>2, <1>3, <1>4, <1>5

LEMMA CheckPostType ==
    ASSUME TypeOK, NEW p \in Posts, NEW u \in Users, NEW picked \in SUBSET Atts, CheckPost(p, u, picked)
    PROVE  TypeOK'
<1>1. UNCHANGED <<chat, clock, att, pageVars, flags>> /\ doubtful' \subseteq Atts
  BY TypeParts DEF CheckPost
<1>2. \A q \in Posts : post'[q].at <= clock' /\ NotBegun(q)'
  BY <1>1, CheckPostSteps, TypeParts DEF NotBegun
<1> QED BY <1>1, <1>2, CheckPostSteps, TypeParts, TypePartsNext DEF pageVars, flags

LEMMA InsertMessageSteps ==
    ASSUME TypeOK, NEW p \in Posts, NEW now \in Instants, InsertMessage(p, now)
    PROVE  /\ now \in Nat \ {0} /\ clock <= now /\ clock' = now
           /\ post' \in [Posts -> PostRecords]
           /\ post'[p].pc = "inserting" /\ post'[p].at = now /\ post'[p].user = post[p].user
           /\ post'[p].atts = post[p].atts /\ post'[p].read = post[p].read
           /\ \A q \in Posts \ {p} : post'[q] = post[q]
           /\ p \notin Sent' /\ Sent \ {p} = Sent'
<1> DEFINE new == [post[p] EXCEPT !.pc = "inserting", !.at = now]
<1>1. now \in Nat \ {0} /\ clock <= now
  BY TypeParts DEF Instants
<1>2. clock' = now /\ post' = [post EXCEPT ![p] = new]
  BY TypeParts DEF InsertMessage
<1>3. post \in [Posts -> PostRecords] /\ post[p] \in PostRecords
  BY TypeParts
<1>4. /\ new \in PostRecords
      /\ new.pc = "inserting" /\ new.at = now /\ new.user = post[p].user
      /\ new.atts = post[p].atts /\ new.read = post[p].read
  BY <1>1, <1>3 DEF PostRecords
<1> HIDE DEF new
<1>5. /\ post' \in [Posts -> PostRecords] /\ post'[p] = new
      /\ \A q \in Posts \ {p} : post'[q] = post[q]
  BY <1>2, <1>3, <1>4
<1>6. p \notin Sent' /\ Sent \ {p} = Sent'
  BY <1>4, <1>5 DEF Sent
<1> QED BY <1>1, <1>2, <1>4, <1>5, <1>6

LEMMA InsertMessageType ==
    ASSUME TypeOK, NEW p \in Posts, NEW now \in Instants, InsertMessage(p, now)
    PROVE  TypeOK' /\ Sent' = Sent
<1>1. UNCHANGED <<chat, att, pageVars, flags, doubtful>>
  BY DEF InsertMessage
<1>2. \A q \in Posts : post[q].at \in Nat /\ post[q].at <= clock
  BY TypeParts DEF PostRecords
<1>3. /\ now \in Nat \ {0} /\ clock <= now /\ clock' = now /\ clock \in Nat
      /\ post'[p].at = now /\ \A q \in Posts \ {p} : post'[q] = post[q]
  BY TypeParts, InsertMessageSteps
<1>4. \A q \in Posts : post'[q].at <= clock' /\ NotBegun(q)'
  BY <1>2, <1>3, InsertMessageSteps, TypeParts DEF NotBegun
<1>5. Sent' = Sent
  <2>1. p \notin Sent
    BY TypeParts DEF InsertMessage, NotBegun, Sent
  <2> QED BY <2>1, InsertMessageSteps
<1> QED BY <1>1, <1>3, <1>4, <1>5, InsertMessageSteps, TypeParts, TypePartsNext DEF pageVars, flags

LEMMA CommitMessageSteps ==
    ASSUME TypeOK, NEW p \in Posts, CommitMessage(p)
    PROVE  /\ post' \in [Posts -> PostRecords]
           /\ post'[p].pc \in {"created", "done"} /\ (post'[p].pc = "done" => post[p].atts = {})
           /\ \A q \in Posts : /\ post'[q].at = post[q].at /\ post'[q].user = post[q].user
                               /\ post'[q].atts = post[q].atts /\ post'[q].read = post[q].read
                               /\ q # p => post'[q].pc = post[q].pc
           /\ Sent \subseteq Sent' /\ Sent' \subseteq Sent \cup {p}
<1>1. PICK pc \in {"created", "done"} :
          /\ post' = [post EXCEPT ![p] = [post[p] EXCEPT !.pc = pc]]
          /\ pc = "done" => post[p].atts = {}
  BY TypeParts DEF CommitMessage
<1> DEFINE new == [post[p] EXCEPT !.pc = pc]
<1>2. post \in [Posts -> PostRecords] /\ post[p] \in PostRecords
  BY TypeParts
<1>3. /\ new \in PostRecords
      /\ new.pc = pc /\ new.at = post[p].at /\ new.user = post[p].user
      /\ new.atts = post[p].atts /\ new.read = post[p].read
  BY <1>2 DEF PostRecords
<1>4. post' = [post EXCEPT ![p] = new]
  BY <1>1
<1> HIDE DEF new
<1>5. /\ post' \in [Posts -> PostRecords] /\ post'[p] = new
      /\ \A q \in Posts \ {p} : post'[q] = post[q]
  BY <1>2, <1>3, <1>4
<1>6. Sent \subseteq Sent' /\ Sent' \subseteq Sent \cup {p}
  BY <1>3, <1>5 DEF Sent
<1>7. \A q \in Posts : /\ post'[q].at = post[q].at /\ post'[q].user = post[q].user
                       /\ post'[q].atts = post[q].atts /\ post'[q].read = post[q].read
                       /\ q # p => post'[q].pc = post[q].pc
  BY <1>3, <1>5
<1>8. post'[p].pc \in {"created", "done"} /\ (post'[p].pc = "done" => post[p].atts = {})
  BY <1>1, <1>3, <1>5
<1> QED BY <1>5, <1>6, <1>7, <1>8

LEMMA CommitMessageType ==
    ASSUME TypeOK, NEW p \in Posts, CommitMessage(p) PROVE TypeOK'
<1>1. UNCHANGED <<chat, clock, att, pageVars, unmarked, doubtful>>
  BY DEF CommitMessage
<1>2. late' \subseteq Posts
  BY TypeParts DEF CommitMessage
<1>3. \A q \in Posts : post'[q].at <= clock' /\ NotBegun(q)'
  BY <1>1, CommitMessageSteps, TypeParts DEF NotBegun
<1>4. p \in Posts /\ \A v \in Users : Cursors(page'[v]) \subseteq Sent'
  BY <1>1, CommitMessageSteps, TypeParts DEF pageVars
<1> QED BY <1>1, <1>2, <1>3, <1>4, CommitMessageSteps, TypeParts, TypePartsNext DEF pageVars

LEMMA LinkAttachmentsType ==
    ASSUME TypeOK, NEW p \in Posts, LinkAttachments(p) PROVE TypeOK'
<1>1. /\ post' \in [Posts -> PostRecords]
      /\ \A q \in Posts : /\ post'[q].at = post[q].at
                          /\ \/ post'[q].pc = post[q].pc
                             \/ post'[q].pc = "done" /\ post[q].pc = "created"
  BY TypeParts DEF LinkAttachments, PostRecords
<1>2. att' \in [Atts -> AttRecords]
  BY TypeParts DEF LinkAttachments, AttRecords
<1>3. UNCHANGED <<chat, clock, pageVars, flags, doubtful>>
  BY DEF LinkAttachments
<1>4. Sent' = Sent /\ \A q \in Posts : NotBegun(q)'
  BY <1>1, TypeParts DEF Sent, NotBegun
<1> QED BY <1>1, <1>2, <1>3, <1>4, TypeParts, TypePartsNext DEF pageVars, flags

LEMMA PostThrowsSteps ==
    ASSUME TypeOK, NEW p \in Posts, PostThrows(p)
    PROVE  /\ post' \in [Posts -> PostRecords]
           /\ post'[p].pc = "failed" /\ post'[p].at = IF p \in Sent THEN post[p].at ELSE 0
           /\ \A q \in Posts : /\ post'[q].user = post[q].user /\ post'[q].atts = post[q].atts
                               /\ post'[q].read = post[q].read
                               /\ q # p => post'[q].pc = post[q].pc /\ post'[q].at = post[q].at
           /\ Sent' = Sent
<1>1. PICK at \in Nat : /\ post' = [post EXCEPT ![p].pc = "failed", ![p].at = at]
                        /\ at = IF p \in Sent THEN post[p].at ELSE 0
  BY TypeParts DEF PostThrows, PostRecords
<1>2. post \in [Posts -> PostRecords] /\ post[p] \in PostRecords
  BY TypeParts
<1>3. post' \in [Posts -> PostRecords]
  BY <1>1, <1>2 DEF PostRecords
<1>4. /\ post'[p].pc = "failed" /\ post'[p].at = at
      /\ \A q \in Posts : /\ post'[q].user = post[q].user /\ post'[q].atts = post[q].atts
                          /\ post'[q].read = post[q].read
                          /\ q # p => post'[q].pc = post[q].pc /\ post'[q].at = post[q].at
  BY <1>1, <1>2 DEF PostRecords
<1>5. p \in Sent' <=> p \in Sent
  BY <1>1, <1>4 DEF Sent
<1>6. \A q \in Posts \ {p} : q \in Sent' <=> q \in Sent
  BY <1>4 DEF Sent
<1>7. Sent' = Sent
  BY <1>5, <1>6 DEF Sent
<1> QED BY <1>1, <1>3, <1>4, <1>7

LEMMA PostThrowsType ==
    ASSUME TypeOK, NEW p \in Posts, PostThrows(p) PROVE TypeOK'
<1>1. \A q \in Posts : post'[q].at <= clock /\ NotBegun(q)'
  BY PostThrowsSteps, TypeParts DEF PostRecords, NotBegun
<1>2. UNCHANGED <<chat, clock, att, pageVars, flags>>
  BY DEF PostThrows
<1>3. post[p].atts \subseteq Atts
  BY TypeParts DEF PostRecords
<1>4. doubtful' \subseteq Atts
  BY <1>3, TypeParts DEF PostThrows
<1> QED BY <1>1, <1>2, <1>4, PostThrowsSteps, TypeParts, TypePartsNext DEF pageVars, flags

\* The conversation.
LEMMA PollType ==
    ASSUME TypeOK, NEW u \in Users, Poll(u) PROVE TypeOK'
<1>0. PICK ids \in NewestPages(Sent) : \E newest \in LatestOf(ids) :
          /\ page' = [page EXCEPT ![u] = Rendered(WithAnswer(page[u], ids, newest))]
          /\ seen' = [seen EXCEPT ![u] = @ \cup ids]
  BY DEF Poll
<1>1. PICK newest \in LatestOf(ids) :
          /\ page' = [page EXCEPT ![u] = Rendered(WithAnswer(page[u], ids, newest))]
          /\ seen' = [seen EXCEPT ![u] = @ \cup ids]
  BY <1>0
<1>2. ids \subseteq Sent /\ newest \in Sent /\ Sent \subseteq Posts
  BY DEF NewestPages, LatestOf, Sent
<1>3. page[u] \in PageRecords /\ Cursors(page[u]) \subseteq Sent
  BY TypeParts
<1>4. /\ Rendered(WithAnswer(page[u], ids, newest)) \in PageRecords
      /\ Cursors(Rendered(WithAnswer(page[u], ids, newest))) \subseteq Sent
  <2>1. /\ WithAnswer(page[u], ids, newest) \in PageRecords
        /\ Cursors(WithAnswer(page[u], ids, newest)) \subseteq Sent
    <3>1. ids \in SUBSET Posts /\ newest \in Posts
      BY <1>2
    <3>2. /\ WithAnswer(page[u], ids, newest) \in PageRecords
          /\ Cursors(WithAnswer(page[u], ids, newest)) \subseteq Cursors(page[u]) \cup {newest}
      BY <1>3, <3>1, WithAnswerType
    <3> QED BY <1>2, <1>3, <3>2
  <2> QED BY <1>2, <2>1, RenderedType
<1>5. UNCHANGED <<chat, post, clock, att, opens, flags, doubtful>>
  BY DEF Poll
<1>6. Sent' = Sent /\ \A q \in Posts : NotBegun(q)' <=> NotBegun(q)
  BY <1>5 DEF Sent, NotBegun
<1>7. /\ page' \in [Users -> PageRecords] /\ seen' \in [Users -> SUBSET Posts]
      /\ \A v \in Users : Cursors(page'[v]) \subseteq Sent
  BY <1>1, <1>2, <1>4, TypeParts
<1> QED BY <1>5, <1>6, <1>7, TypeParts, TypePartsNext DEF flags

LEMMA LoadOlderType ==
    ASSUME TypeOK, NEW u \in Users, LoadOlder(u)
    PROVE  TypeOK' /\ \A v \in Users : Cursors(page'[v]) = Cursors(page[v])
<1>1. PICK cursor \in Oldest(page[u]) : \E ids \in NewestPages({i \in Sent : At(i) < At(cursor)}) :
          /\ page' = [page EXCEPT ![u].older = @ \cup ids,
                                  ![u].noMoreOlder = Cardinality(ids) < PageSize]
          /\ seen' = [seen EXCEPT ![u] = @ \cup ids]
  BY DEF LoadOlder
<1>2. PICK ids \in SUBSET Posts :
          /\ page' = [page EXCEPT ![u].older = @ \cup ids,
                                  ![u].noMoreOlder = Cardinality(ids) < PageSize]
          /\ seen' = [seen EXCEPT ![u] = @ \cup ids]
  BY <1>1 DEF NewestPages, Sent
<1>3. (Cardinality(ids) < PageSize) \in BOOLEAN
  OBVIOUS
<1>4. UNCHANGED <<chat, post, clock, att, opens, flags, doubtful>>
  BY DEF LoadOlder
<1>5. Sent' = Sent /\ \A q \in Posts : NotBegun(q)' <=> NotBegun(q)
  BY <1>4 DEF Sent, NotBegun
<1>6. seen' \in [Users -> SUBSET Posts]
  BY <1>2, TypeParts
<1>7. page[u] \in PageRecords
  BY TypeParts
<1>8. PICK new \in PageRecords : Cursors(new) = Cursors(page[u]) /\ page' = [page EXCEPT ![u] = new]
  <2> DEFINE new == [page[u] EXCEPT !.older = @ \cup ids, !.noMoreOlder = Cardinality(ids) < PageSize]
  <2>1. new \in PageRecords
    BY <1>3, <1>7 DEF PageRecords
  <2>2. new.marking = page[u].marking /\ new.unread = page[u].unread /\ new.newest = page[u].newest
    BY <1>7 DEF PageRecords
  <2>3. page' = [page EXCEPT ![u] = new]
    BY <1>2, TypeParts
  <2> HIDE DEF new
  <2> QED BY <2>1, <2>2, <2>3 DEF Cursors
<1>9. page' \in [Users -> PageRecords] /\ \A v \in Users : Cursors(page'[v]) = Cursors(page[v])
  BY <1>8, TypeParts
<1> QED BY <1>4, <1>5, <1>6, <1>9, TypeParts, TypePartsNext DEF flags

LEMMA CloseType ==
    ASSUME TypeOK, NEW u \in Users, Close(u)
    PROVE  TypeOK' /\ \A v \in Users : Cursors(page'[v]) = Cursors(page[v])
<1> DEFINE new == [page[u] EXCEPT !.pc = "closed", !.older = {}, !.noMoreOlder = FALSE,
                                  !.lastMarked = NoPost]
<1>1. page[u] \in PageRecords
  BY TypeParts
<1>2. /\ new \in PageRecords
      /\ new.marking = page[u].marking /\ new.unread = page[u].unread /\ new.newest = page[u].newest
  BY <1>1 DEF PageRecords
<1>3. page' = [page EXCEPT ![u] = new]
  BY DEF Close
<1> HIDE DEF new
<1>4. UNCHANGED <<chat, post, clock, att, opens, seen, flags, doubtful>>
  BY DEF Close
<1>5. Sent' = Sent /\ \A q \in Posts : NotBegun(q)' <=> NotBegun(q)
  BY <1>4 DEF Sent, NotBegun
<1>6. page' \in [Users -> PageRecords] /\ \A v \in Users : Cursors(page'[v]) = Cursors(page[v])
  BY <1>2, <1>3, TypeParts DEF Cursors
<1> QED BY <1>4, <1>5, <1>6, TypeParts, TypePartsNext DEF flags

LEMMA MarkSteps ==
    ASSUME TypeOK, NEW u \in Users, NEW n \in Posts, Mark(u, n) \/ MarkFails(u, n)
    PROVE  /\ post' \in [Posts -> PostRecords]
           /\ \A p \in Posts : /\ post'[p].pc = post[p].pc /\ post'[p].at = post[p].at
                               /\ post'[p].user = post[p].user /\ post'[p].atts = post[p].atts
           /\ page' \in [Users -> PageRecords]
           /\ \A v \in Users : Cursors(page'[v]) \subseteq Cursors(page[v])
           /\ UNCHANGED <<chat, clock, att, opens, seen, late, doubtful>>
           /\ unmarked' \in BOOLEAN
           /\ Sent' = Sent
<1>0. \A p \in Posts : post[p] \in PostRecords /\ [post[p] EXCEPT !.read = TRUE] \in PostRecords
  BY TypeParts DEF PostRecords
<1>1. post' \in [Posts -> PostRecords]
  BY <1>0, TypeParts DEF Mark, MarkFails
<1>2. \A p \in Posts : /\ post'[p].pc = post[p].pc /\ post'[p].at = post[p].at
                       /\ post'[p].user = post[p].user /\ post'[p].atts = post[p].atts
  BY TypeParts DEF Mark, MarkFails, PostRecords
<1>3. /\ page' \in [Users -> PageRecords]
      /\ \A v \in Users : Cursors(page'[v]) \subseteq Cursors(page[v])
  <2> DEFINE new == [page[u] EXCEPT !.marking = @ \ {n}]
  <2>1. page[u] \in PageRecords
    BY TypeParts
  <2>2. /\ new \in PageRecords /\ new.marking \subseteq page[u].marking
        /\ new.unread = page[u].unread /\ new.newest = page[u].newest
    BY <2>1 DEF PageRecords
  <2>3. page' = [page EXCEPT ![u] = new]
    BY DEF Mark, MarkFails
  <2> HIDE DEF new
  <2> QED BY <2>2, <2>3, TypeParts DEF Cursors
<1>4. UNCHANGED <<chat, clock, att, opens, seen, late, doubtful>> /\ unmarked' \in BOOLEAN
  BY TypeParts DEF Mark, MarkFails, flags
<1>5. Sent' = Sent
  BY <1>2 DEF Sent
<1> QED BY <1>1, <1>2, <1>3, <1>4, <1>5

LEMMA MarkType ==
    ASSUME TypeOK, NEW u \in Users, NEW n \in Posts, Mark(u, n) \/ MarkFails(u, n) PROVE TypeOK'
<1>1. \A p \in Posts : post'[p].at <= clock' /\ NotBegun(p)'
  BY MarkSteps, TypeParts DEF NotBegun
<1> QED BY <1>1, MarkSteps, TypeParts, TypePartsNext DEF flags

LEMMA NextType == TypeOK /\ [Next]_vars => TypeOK'
<1> SUFFICES ASSUME TypeOK, [Next]_vars PROVE TypeOK'
  OBVIOUS
<1>1. CASE UNCHANGED vars
  BY <1>1 DEF vars, pageVars, flags, TypeOK, PostType, AttType, PageType, At, Sent
<1>2. CASE \E a \in Atts : InsertAttachment(a) \/ UploadThrows(a) \/ \E u \in Users : PutObject(a, u)
  BY <1>2, UploadType
<1>3. CASE \E p \in Posts :
              \/ PostStep(p) \/ PostThrows(p)
              \/ \E u \in Users, picked \in SUBSET Atts : CheckPost(p, u, picked)
  BY <1>3, CheckPostType, InsertMessageType, CommitMessageType, LinkAttachmentsType, PostThrowsType
     DEF PostStep
<1>4. CASE PhoneOpensChat \/ \E u \in Users : OpenChat(u) \/ CreateChat(u)
  BY <1>4, OpenType DEF Users
<1>5. CASE \E u \in Users : Close(u) \/ Poll(u) \/ LoadOlder(u)
  BY <1>5, CloseType, PollType, LoadOlderType
<1>6. CASE \E u \in Users : \E p \in Posts : Mark(u, p) \/ MarkFails(u, p)
  BY <1>6, MarkType
<1> QED BY <1>1, <1>2, <1>3, <1>4, <1>5, <1>6 DEF Next

\* Every variable stays in its type, no row is newer than the clock, and pages mark up to
\* messages that exist.
THEOREM TypeCorrect == Spec => []TypeOK
<1> QED BY InitType, NextType, PTL DEF Spec

-----------------------------------------------------------------------------
(* Messages and attachments *)

Has(p, a) == a \in post[p].atts

\* A post holds uploaded files of its sender, and the row follows its program.
Holds ==
    \A p \in Posts :
        /\ \A a \in post[p].atts : att[a].pc = "row" /\ att[a].owner = post[p].user
        /\ post[p].pc = "idle" => post[p].atts = {}
        /\ post[p].pc \in {"idle", "checked"} => post[p].at = 0
        /\ post[p].pc \in {"inserting", "created", "done"} => post[p].at > 0

Linked ==
    \A a \in Atts : att[a].link # NoPost =>
        att[a].link \in Sent /\ Has(att[a].link, a)

\* What becomes of a file that is in no doubt: a message that carries it links it, and
\* of two posts that had it one was lost before it made a message.
LinkAhead ==
    \A a \in Atts \ doubtful : \A p \in Posts :
        Has(p, a) /\ post[p].at > 0 =>
            post[p].pc \in {"inserting", "created"} \/ att[a].link # NoPost

Lost(p) == post[p].pc = "failed" /\ post[p].at = 0

OneHolder ==
    \A a \in Atts \ doubtful : \A p, q \in Posts :
        Has(p, a) /\ Has(q, a) /\ p # q => Lost(p) \/ Lost(q)

FileInv == TypeOK /\ Holds /\ Linked /\ LinkAhead /\ OneHolder

LEMMA InitFile == Init => FileInv
<1> SUFFICES ASSUME Init PROVE FileInv
  OBVIOUS
<1>1. \A p \in Posts : post[p].pc = "idle" /\ post[p].atts = {} /\ post[p].at = 0
  BY DEF Init, IdlePost
<1>2. \A a \in Atts : att[a].link = NoPost
  BY DEF Init, NoUpload
<1> QED BY <1>1, <1>2, InitType DEF FileInv, Holds, Linked, LinkAhead, OneHolder, Has

\* Nothing of this changes with the pages and the read marks.
LEMMA FrameFile ==
    ASSUME FileInv, TypeOK', UNCHANGED <<att, doubtful>>,
           \A p \in Posts : /\ post'[p].pc = post[p].pc /\ post'[p].at = post[p].at
                            /\ post'[p].user = post[p].user /\ post'[p].atts = post[p].atts
    PROVE  FileInv'
<1>1. Holds'
  BY DEF FileInv, Holds
<1>2. Linked' /\ LinkAhead' /\ OneHolder'
  BY DEF FileInv, Linked, LinkAhead, OneHolder, Has, Lost, Sent
<1> QED BY <1>1, <1>2 DEF FileInv

LEMMA UploadFile ==
    ASSUME FileInv, TypeOK', NEW a \in Atts,
           InsertAttachment(a) \/ UploadThrows(a) \/ \E u \in Users : PutObject(a, u)
    PROVE  FileInv'
<1>1. post' = post /\ doubtful' = doubtful /\ att[a].pc # "row"
  BY DEF InsertAttachment, UploadThrows, PutObject
<1>2. att \in [Atts -> AttRecords]
  BY TypeParts DEF FileInv
<1>3. \A b \in Atts : att'[b].link = att[b].link /\ (b # a => att'[b] = att[b])
  BY <1>2 DEF InsertAttachment, UploadThrows, PutObject, AttRecords
<1>4. \A p \in Posts : post[p].atts \subseteq Atts
  BY TypeParts DEF FileInv, PostRecords
<1>5. Holds'
  BY <1>1, <1>3, <1>4 DEF FileInv, Holds
<1>6. Linked' /\ LinkAhead' /\ OneHolder'
  BY <1>1, <1>3 DEF FileInv, Linked, LinkAhead, OneHolder, Has, Lost, Sent
<1> QED BY <1>5, <1>6 DEF FileInv

LEMMA CheckPostFile ==
    ASSUME FileInv, TypeOK', NEW p \in Posts, NEW u \in Users, NEW picked \in SUBSET Atts,
           CheckPost(p, u, picked)
    PROVE  FileInv'
<1>1. /\ post'[p].pc = "checked" /\ post'[p].atts = picked /\ post'[p].user = u
      /\ post'[p].at = post[p].at /\ post[p].at = 0
      /\ \A q \in Posts \ {p} : post'[q] = post[q]
      /\ Sent' = Sent
  BY CheckPostSteps DEF FileInv
<1>2. post[p].atts = {} /\ att' = att
  BY DEF CheckPost, FileInv, Holds
<1>3. \A a \in picked : att[a].pc = "row" /\ att[a].owner = u /\ att[a].link = NoPost
  BY DEF CheckPost, Pickable
<1>4. doubtful \subseteq doubtful' /\ \A a \in picked \ doubtful' : ~InHand(a)
  BY DEF CheckPost
<1>5. Holds'
  BY <1>1, <1>2, <1>3 DEF FileInv, Holds
<1>6. Linked' /\ LinkAhead'
  BY <1>1, <1>2, <1>4 DEF FileInv, Linked, LinkAhead, Has, Sent
<1>7. ASSUME NEW a \in picked \ doubtful', NEW q \in Posts \ {p}, Has(q, a)
      PROVE  Lost(q)
  <2>1. post[q].pc \notin UnderWay /\ a \in Atts \ doubtful
    BY <1>4, <1>7 DEF InHand, Has
  <2>2. post[q].pc # "idle" /\ post[q].at = 0
    BY <1>3, <1>7, <2>1, TypeParts DEF FileInv, Holds, LinkAhead, Has, PostRecords, UnderWay
  <2>3. post[q].pc \in {"idle", "checked", "inserting", "created", "done", "failed"}
    BY TypeParts DEF FileInv, PostRecords
  <2> QED BY <2>1, <2>2, <2>3 DEF FileInv, Holds, Lost, UnderWay
<1>8. OneHolder'
  <2> SUFFICES ASSUME NEW a \in Atts \ doubtful', NEW q \in Posts, NEW r \in Posts,
                      Has(q, a)', Has(r, a)', q # r
               PROVE  Lost(q)' \/ Lost(r)'
    BY DEF OneHolder
  <2>1. CASE q = p
    BY <1>1, <1>7, <2>1 DEF Has, Lost
  <2>2. CASE r = p
    BY <1>1, <1>7, <2>2 DEF Has, Lost
  <2>3. CASE q # p /\ r # p
    BY <1>1, <1>4, <2>3 DEF Has, Lost, FileInv, OneHolder
  <2> QED BY <2>1, <2>2, <2>3
<1> QED BY <1>5, <1>6, <1>8 DEF FileInv

LEMMA InsertMessageFile ==
    ASSUME FileInv, TypeOK', NEW p \in Posts, NEW now \in Instants, InsertMessage(p, now)
    PROVE  FileInv'
<1>1. TypeOK
  BY DEF FileInv
<1>2. /\ post'[p].pc = "inserting" /\ post'[p].at > 0 /\ post'[p].user = post[p].user
      /\ post'[p].atts = post[p].atts /\ \A q \in Posts \ {p} : post'[q] = post[q]
      /\ Sent' = Sent
  BY <1>1, InsertMessageSteps, InsertMessageType
<1>3. att' = att /\ doubtful' = doubtful /\ post[p].pc = "checked" /\ ~Lost(p)
  BY DEF InsertMessage, Lost
<1>4. Holds'
  BY <1>2, <1>3 DEF FileInv, Holds
<1>5. Linked' /\ LinkAhead'
  BY <1>2, <1>3 DEF FileInv, Linked, LinkAhead, Has, Sent
<1>6. OneHolder'
  BY <1>2, <1>3 DEF FileInv, OneHolder, Has, Lost
<1> QED BY <1>4, <1>5, <1>6 DEF FileInv

LEMMA CommitMessageFile ==
    ASSUME FileInv, TypeOK', NEW p \in Posts, CommitMessage(p) PROVE FileInv'
<1>1. TypeOK
  BY DEF FileInv
<1>2. /\ post'[p].pc \in {"created", "done"} /\ (post'[p].pc = "done" => post[p].atts = {})
      /\ \A q \in Posts : /\ post'[q].at = post[q].at /\ post'[q].user = post[q].user
                          /\ post'[q].atts = post[q].atts
                          /\ q # p => post'[q].pc = post[q].pc
      /\ Sent \subseteq Sent'
  BY <1>1, CommitMessageSteps
<1>3. att' = att /\ doubtful' = doubtful /\ post[p].pc = "inserting"
  BY DEF CommitMessage
<1>4. Holds'
  BY <1>2, <1>3 DEF FileInv, Holds
<1>5. Linked' /\ LinkAhead'
  BY <1>2, <1>3 DEF FileInv, Linked, LinkAhead, Has, Sent
<1>6. OneHolder'
  BY <1>2, <1>3 DEF FileInv, OneHolder, Has, Lost
<1> QED BY <1>4, <1>5, <1>6 DEF FileInv

LEMMA LinkAttachmentsFile ==
    ASSUME FileInv, TypeOK', NEW p \in Posts, LinkAttachments(p) PROVE FileInv'
<1>1. /\ post'[p].pc = "done" /\ post[p].pc = "created"
      /\ \A q \in Posts : /\ post'[q].at = post[q].at /\ post'[q].user = post[q].user
                          /\ post'[q].atts = post[q].atts
                          /\ q # p => post'[q].pc = post[q].pc
      /\ doubtful' = doubtful
  BY TypeParts DEF FileInv, LinkAttachments, PostRecords
<1>2. \A a \in Atts : /\ att'[a].pc = att[a].pc /\ att'[a].owner = att[a].owner
                      /\ att'[a].link = IF Has(p, a) THEN p ELSE att[a].link
  BY TypeParts DEF FileInv, LinkAttachments, AttRecords, Has
<1>3. p # NoPost /\ p \in Sent' /\ Sent \subseteq Sent' /\ \A q \in Posts : post[q].atts \subseteq Atts
  BY <1>1, TypeParts, ConstantsAssumption DEF FileInv, Holds, PostRecords, ConstantsAssumption, Sent
<1>4. Holds'
  BY <1>1, <1>2, <1>3 DEF FileInv, Holds
<1>5. Linked'
  <2>1. Sent \subseteq Posts
    BY DEF Sent
  <2> QED BY <1>1, <1>2, <1>3, <2>1 DEF FileInv, Linked, Has
<1>6. LinkAhead'
  BY <1>1, <1>2, <1>3 DEF FileInv, LinkAhead, Has
<1>7. OneHolder'
  BY <1>1 DEF FileInv, OneHolder, Has, Lost
<1> QED BY <1>4, <1>5, <1>6, <1>7 DEF FileInv

LEMMA PostThrowsFile ==
    ASSUME FileInv, TypeOK', NEW p \in Posts, PostThrows(p) PROVE FileInv'
<1>1. TypeOK
  BY DEF FileInv
<1>2. /\ post'[p].pc = "failed" /\ post'[p].at = IF p \in Sent THEN post[p].at ELSE 0
      /\ \A q \in Posts : /\ post'[q].user = post[q].user /\ post'[q].atts = post[q].atts
                          /\ q # p => post'[q].pc = post[q].pc /\ post'[q].at = post[q].at
      /\ Sent' = Sent
  BY <1>1, PostThrowsSteps
<1>3. /\ att' = att /\ doubtful \subseteq doubtful' /\ post[p].pc \in {"checked", "inserting", "created"}
      /\ post[p].pc = "created" => post[p].atts \subseteq doubtful'
  BY DEF PostThrows, UnderWay
<1>4. p \in Sent <=> post[p].pc = "created"
  BY <1>3 DEF FileInv, Holds, Sent
<1>5. Holds'
  BY <1>2, <1>3 DEF FileInv, Holds
<1>6. Linked'
  <2>1. Sent \subseteq Posts
    BY DEF Sent
  <2> QED BY <1>2, <1>3, <2>1 DEF FileInv, Linked, Has
<1>7. LinkAhead'
  BY <1>2, <1>3, <1>4 DEF FileInv, LinkAhead, Has
<1>8. OneHolder'
  <2>1. \A q \in Posts : Lost(q) => Lost(q)'
    BY <1>2, <1>3 DEF Lost
  <2> QED BY <1>2, <1>3, <2>1 DEF FileInv, OneHolder, Has
<1> QED BY <1>5, <1>6, <1>7, <1>8 DEF FileInv

LEMMA NextFile == FileInv /\ [Next]_vars => FileInv'
<1> SUFFICES ASSUME FileInv, [Next]_vars PROVE FileInv'
  OBVIOUS
<1>1. TypeOK /\ TypeOK'
  BY NextType DEF FileInv
<1>2. CASE \/ UNCHANGED vars \/ PhoneOpensChat
           \/ \E u \in Users : \/ OpenChat(u) \/ CreateChat(u) \/ Close(u)
                               \/ Poll(u) \/ LoadOlder(u)
  <2>1. UNCHANGED <<post, att, doubtful>>
    BY <1>2 DEF vars, PhoneOpensChat, OpenChat, CreateChat, Close, Poll, LoadOlder
  <2> QED BY <1>1, <2>1, FrameFile
<1>3. CASE \E u \in Users : \E p \in Posts : Mark(u, p) \/ MarkFails(u, p)
  BY <1>1, <1>3, MarkSteps, FrameFile
<1>4. CASE \E a \in Atts : InsertAttachment(a) \/ UploadThrows(a) \/ \E u \in Users : PutObject(a, u)
  BY <1>1, <1>4, UploadFile
<1>5. CASE \E p \in Posts :
              \/ PostStep(p) \/ PostThrows(p)
              \/ \E u \in Users, picked \in SUBSET Atts : CheckPost(p, u, picked)
  BY <1>1, <1>5, CheckPostFile, InsertMessageFile, CommitMessageFile, LinkAttachmentsFile,
     PostThrowsFile DEF PostStep
<1> QED BY <1>2, <1>3, <1>4, <1>5 DEF Next

\* A message carries uploaded files of its sender, and a linked file is in the message it
\* is linked to, whatever posts and uploads overlap and fail.
THEOREM FilesAddUp == Spec => []AttachmentsAddUp
<1>1. FileInv => AttachmentsAddUp
  BY DEF FileInv, Holds, Linked, AttachmentsAddUp, Has, Sent
<1> QED BY <1>1, InitFile, NextFile, PTL DEF Spec

\* A file is in one message unless two posts had it at once or one was lost before it
\* linked the file.
THEOREM FilesOnce == Spec => []AttachedOnce
<1>1. FileInv => AttachedOnce
  BY DEF FileInv, OneHolder, Lost, AttachedOnce, Has, Sent
<1> QED BY <1>1, InitFile, NextFile, PTL DEF Spec

-----------------------------------------------------------------------------
(* Read marks *)

\* What a page marks up to a message was on the page, or is beyond the cursor's limits.
MarkCovers ==
    \A u \in Users : \A n \in Cursors(page[u]) : \A i \in Sent :
        At(i) <= At(n) => Hidden(i) \/ i \in seen[u]

OnlySentRead == \A p \in Posts : post[p].read => p \in Sent

ReadInv == FileInv /\ MarkCovers /\ OnlySentRead /\ ReadWasSeen

LEMMA MinOfTwo ==
    ASSUME NEW m \in Nat, NEW n \in Nat PROVE Min({m, n}) \in {m, n} /\ Min({m, n}) <= m
BY DEF Min

LEMMA SentFinite == IsFiniteSet(Sent)
BY FS_Subset, ConstantsAssumption DEF ConstantsAssumption, Sent

\* A row of the newest page's time or earlier is on that page or hidden behind it.
LEMMA PageCovers ==
    ASSUME TypeOK, NEW ids \in NewestPages(Sent), NEW i \in Sent \ ids
    PROVE  Hidden(i)
<1> DEFINE behind == {j \in Sent \ {i} : At(j) >= At(i)}
<1>1. ids \subseteq Sent /\ \A j \in ids : At(i) <= At(j)
  BY DEF NewestPages
<1>2. \A j \in Sent : At(j) \in Nat
  BY TypeParts DEF Sent, At, PostRecords
<1>3. ids \subseteq behind
  BY <1>1, <1>2
<1>4. IsFiniteSet(behind) /\ Cardinality(ids) <= Cardinality(behind)
  <2>1. IsFiniteSet(behind)
    BY SentFinite, FS_Subset
  <2> QED BY <1>3, <2>1, FS_Subset
<1>5. Cardinality(ids) \in Nat /\ Cardinality(ids) < Cardinality(Sent) /\ Cardinality(Sent) \in Nat
  BY <1>1, SentFinite, FS_Subset, FS_CardinalityType
<1>6. Cardinality(ids) = Min({Cardinality(Sent), PageSize}) /\ PageSize \in Nat
  BY ConstantsAssumption DEF NewestPages, ConstantsAssumption
<1>7. Cardinality(ids) = PageSize
  BY <1>5, <1>6, MinOfTwo
<1>8. Cardinality(behind) \in Nat
  BY <1>4, FS_CardinalityType
<1>9. Cardinality(behind) >= PageSize
  BY <1>4, <1>6, <1>7, <1>8
<1> QED BY <1>9 DEF Hidden

\* Messages stay, keep their times, and stay late.
Kept ==
    /\ Sent \subseteq Sent' /\ late \subseteq late'
    /\ \A q \in Sent : post'[q].at = post[q].at

LEMMA HiddenStays ==
    ASSUME TypeOK, TypeOK', Kept, NEW i \in Sent, Hidden(i) PROVE Hidden(i)'
<1>1. CASE \E j \in Sent \ {i} : At(j) = At(i)
  <2>1. PICK j \in Sent \ {i} : At(j) = At(i)
    BY <1>1
  <2>2. j \in Sent' \ {i} /\ At(j)' = At(i)'
    BY <2>1 DEF Kept, At
  <2> QED BY <2>2 DEF Hidden
<1>2. CASE Cardinality({j \in Sent \ {i} : At(j) >= At(i)}) >= PageSize
  <2> DEFINE before == {j \in Sent \ {i} : At(j) >= At(i)}
             after  == {j \in Sent' \ {i} : At(j)' >= At(i)'}
  <2>1. before \subseteq after
    BY DEF Kept, At
  <2>2. IsFiniteSet(after)
    <3>1. after \subseteq Posts
      BY DEF Sent
    <3> QED BY <3>1, FS_Subset, ConstantsAssumption DEF ConstantsAssumption
  <2>3. /\ Cardinality(before) <= Cardinality(after)
        /\ Cardinality(before) \in Nat /\ Cardinality(after) \in Nat
    BY <2>1, <2>2, FS_Subset, FS_CardinalityType
  <2>4. PageSize \in Nat /\ Cardinality(before) >= PageSize
    BY <1>2, ConstantsAssumption DEF ConstantsAssumption
  <2>5. Cardinality(after) >= PageSize
    BY <2>3, <2>4
  <2> QED BY <2>5 DEF Hidden
<1>3. CASE i \in late
  BY <1>3 DEF Kept, Hidden
<1> QED BY <1>1, <1>2, <1>3 DEF Hidden

LEMMA InitRead == Init => ReadInv
<1> SUFFICES ASSUME Init PROVE ReadInv
  OBVIOUS
<1>1. Sent = {} /\ (\A p \in Posts : ~post[p].read) /\ \A u \in Users : Cursors(page[u]) = {}
  BY BlankTypes DEF Init, IdlePost, Sent
<1> QED BY <1>1, InitFile DEF ReadInv, MarkCovers, OnlySentRead, ReadWasSeen

\* A step that neither marks nor asks to, and takes no message away.
LEMMA FrameRead ==
    ASSUME ReadInv, FileInv', Kept, UNCHANGED Sent,
           \A p \in Posts : post'[p].read = post[p].read,
           \A i \in Sent : post'[i].user = post[i].user,
           \A u \in Users : /\ Cursors(page'[u]) \subseteq Cursors(page[u])
                            /\ seen[u] \subseteq seen'[u]
    PROVE  ReadInv'
<1>1. \A i \in Sent : Hidden(i) => Hidden(i)'
  BY HiddenStays DEF ReadInv, FileInv
<1>2. \A u \in Users : Cursors(page[u]) \subseteq Sent
  BY TypeParts DEF ReadInv, FileInv
<1>3. MarkCovers'
  BY <1>1, <1>2 DEF ReadInv, MarkCovers, Kept, At
<1>4. OnlySentRead' /\ ReadWasSeen'
  BY <1>1 DEF ReadInv, OnlySentRead, ReadWasSeen, Sent
<1> QED BY <1>3, <1>4 DEF ReadInv

LEMMA PollRead ==
    ASSUME ReadInv, FileInv', NEW u \in Users, Poll(u) PROVE ReadInv'
<1>0. TypeOK /\ TypeOK'
  BY DEF ReadInv, FileInv
<1>1. PICK ids \in NewestPages(Sent) : \E newest \in LatestOf(ids) :
          /\ page' = [page EXCEPT ![u] = Rendered(WithAnswer(page[u], ids, newest))]
          /\ seen' = [seen EXCEPT ![u] = @ \cup ids]
  BY DEF Poll
<1>2. PICK newest \in LatestOf(ids) :
          /\ page' = [page EXCEPT ![u] = Rendered(WithAnswer(page[u], ids, newest))]
          /\ seen' = [seen EXCEPT ![u] = @ \cup ids]
  BY <1>1
<1>3. post' = post /\ Sent' = Sent /\ Kept
  BY DEF Poll, Sent, Kept, flags
<1>4. \A i \in Sent : (Hidden(i) <=> Hidden(i)') /\ At(i)' = At(i)
  BY <1>3 DEF Hidden, At, Poll, flags
<1>5. \A i \in Sent : Hidden(i) \/ i \in seen'[u]
  BY <1>0, <1>2, PageCovers, TypeParts
<1>6. \A v \in Users : seen[v] \subseteq seen'[v] /\ (v # u => page'[v] = page[v])
  BY <1>0, <1>2, TypeParts
<1>7. \A v \in Users : Cursors(page[v]) \subseteq Sent /\ Cursors(page'[v]) \subseteq Sent'
  BY <1>0, TypeParts, TypePartsNext DEF flags
<1>8. MarkCovers'
  <2> SUFFICES ASSUME NEW v \in Users, NEW n \in Cursors(page'[v]), NEW i \in Sent, At(i) <= At(n)
               PROVE  Hidden(i) \/ i \in seen'[v]
    BY <1>3, <1>4, <1>7 DEF MarkCovers
  <2>1. CASE v = u
    BY <1>5, <2>1
  <2>2. CASE v # u
    BY <1>6, <2>2 DEF ReadInv, MarkCovers
  <2> QED BY <2>1, <2>2
<1>9. OnlySentRead' /\ ReadWasSeen'
  BY <1>3, <1>4, <1>6 DEF ReadInv, OnlySentRead, ReadWasSeen
<1> QED BY <1>8, <1>9 DEF ReadInv

LEMMA CommitMessageRead ==
    ASSUME ReadInv, FileInv', NEW p \in Posts, CommitMessage(p) PROVE ReadInv'
<1>0. TypeOK /\ TypeOK'
  BY DEF ReadInv, FileInv
<1>1. /\ \A q \in Posts : /\ post'[q].at = post[q].at /\ post'[q].user = post[q].user
                          /\ post'[q].read = post[q].read
      /\ Sent \subseteq Sent' /\ Sent' \subseteq Sent \cup {p}
  BY <1>0, CommitMessageSteps
<1>2. p \notin Sent
  BY DEF CommitMessage, Sent
<1>3. /\ page' = page /\ seen' = seen /\ late \subseteq late'
      /\ (\E q \in Sent : At(q) > At(p)) => p \in late'
  BY DEF CommitMessage, pageVars
<1>4. \A i \in Sent : Hidden(i) => Hidden(i)'
  <2>1. Kept
    BY <1>1, <1>3 DEF Kept, Sent
  <2> QED BY <1>0, <2>1, HiddenStays
<1>5. \A v \in Users : Cursors(page[v]) \subseteq Sent
  BY <1>0, TypeParts
<1>6. \A q \in Posts : At(q)' = At(q) /\ At(q) \in Nat
  BY <1>0, <1>1, TypeParts DEF At, PostRecords
<1>7. \A n \in Sent : At(p) <= At(n) => Hidden(p)'
  <2> SUFFICES ASSUME NEW n \in Sent, At(p) <= At(n) PROVE Hidden(p)'
    OBVIOUS
  <2>1. At(n) = At(p) \/ At(n) > At(p)
    BY <1>6 DEF Sent
  <2>2. CASE At(n) > At(p)
    BY <1>3, <2>2 DEF Hidden
  <2>3. CASE At(n) = At(p)
    <3>1. n \in Sent' \ {p} /\ At(n)' = At(p)'
      BY <1>1, <1>2, <1>6, <2>3 DEF Sent
    <3> QED BY <3>1 DEF Hidden
  <2> QED BY <2>1, <2>2, <2>3
<1>8. MarkCovers'
  <2> SUFFICES ASSUME NEW v \in Users, NEW n \in Cursors(page[v]), NEW i \in Sent', At(i)' <= At(n)'
               PROVE  Hidden(i)' \/ i \in seen[v]
    BY <1>3 DEF MarkCovers
  <2>1. n \in Sent /\ n \in Posts /\ i \in Posts
    BY <1>5 DEF Sent
  <2>2. CASE i \in Sent
    BY <1>4, <1>6, <2>1, <2>2 DEF ReadInv, MarkCovers
  <2>3. CASE i = p
    BY <1>6, <1>7, <2>1, <2>3
  <2> QED BY <1>1, <2>2, <2>3
<1>9. OnlySentRead'
  BY <1>1 DEF ReadInv, OnlySentRead
<1>10. ReadWasSeen'
  <2> SUFFICES ASSUME NEW i \in Sent', post'[i].read
               PROVE  Hidden(i)' \/ \E v \in Users \ {post'[i].user} : i \in seen[v]
    BY <1>3 DEF ReadWasSeen
  <2>1. i \in Posts /\ i \in Sent /\ post[i].read /\ post'[i].user = post[i].user
    BY <1>1 DEF ReadInv, OnlySentRead, Sent
  <2> QED BY <1>4, <2>1 DEF ReadInv, ReadWasSeen
<1> QED BY <1>8, <1>9, <1>10 DEF ReadInv

LEMMA MarkRead ==
    ASSUME ReadInv, FileInv', NEW u \in Users, NEW n \in Posts, Mark(u, n) PROVE ReadInv'
<1>0. TypeOK
  BY DEF ReadInv, FileInv
<1>1. /\ \A p \in Posts : post'[p].at = post[p].at /\ post'[p].user = post[p].user
      /\ \A v \in Users : Cursors(page'[v]) \subseteq Cursors(page[v])
      /\ seen' = seen /\ Sent' = Sent /\ late' = late
  BY <1>0, MarkSteps
<1>2. n \in Cursors(page[u])
  BY DEF Mark, Cursors
<1>3. \A p \in Posts : post'[p].read => post[p].read \/ p \in MarkedBy(u, n)
  BY <1>0, TypeParts DEF Mark
<1>4. \A i \in MarkedBy(u, n) : i \in Sent /\ post[i].user # u /\ (Hidden(i) \/ i \in seen[u])
  BY <1>2 DEF MarkedBy, ReadInv, MarkCovers
<1>5. \A i \in Sent : (Hidden(i) <=> Hidden(i)') /\ At(i)' = At(i)
  BY <1>1 DEF Hidden, At, Sent
<1>6. \A v \in Users : Cursors(page[v]) \subseteq Sent
  BY <1>0, TypeParts
<1>7. MarkCovers'
  BY <1>1, <1>5, <1>6 DEF ReadInv, MarkCovers
<1>8. OnlySentRead' /\ ReadWasSeen'
  BY <1>1, <1>3, <1>4, <1>5 DEF ReadInv, OnlySentRead, ReadWasSeen, Sent
<1> QED BY <1>7, <1>8 DEF ReadInv

\* Every other step keeps the messages, their times, marks and senders.
LEMMA OtherMessages ==
    ASSUME ReadInv, NEW p \in Posts,
           \/ LinkAttachments(p) \/ PostThrows(p)
           \/ \E now \in Instants : InsertMessage(p, now)
           \/ \E u \in Users, picked \in SUBSET Atts : CheckPost(p, u, picked)
    PROVE  /\ \A q \in Posts : post'[q].read = post[q].read
           /\ \A q \in Sent : post'[q].at = post[q].at /\ post'[q].user = post[q].user
           /\ Sent' = Sent
<1>0. TypeOK
  BY DEF ReadInv, FileInv
<1>1. CASE LinkAttachments(p)
  <2>1. post' = [post EXCEPT ![p].pc = "done"] /\ post[p].pc = "created"
    BY <1>1 DEF LinkAttachments
  <2>2. \A q \in Posts : /\ post'[q].at = post[q].at /\ post'[q].read = post[q].read
                         /\ post'[q].user = post[q].user
                         /\ post'[q].pc = IF q = p THEN "done" ELSE post[q].pc
    BY <1>0, <2>1, TypeParts DEF PostRecords
  <2> QED BY <2>1, <2>2 DEF Sent
<1>2. CASE PostThrows(p)
  BY <1>0, <1>2, PostThrowsSteps DEF Sent
<1>3. CASE \E now \in Instants : InsertMessage(p, now)
  <2>1. PICK now \in Instants : InsertMessage(p, now)
    BY <1>3
  <2>2. p \notin Sent /\ Sent' = Sent
    BY <1>0, <2>1, InsertMessageSteps, InsertMessageType
  <2> QED BY <1>0, <2>1, <2>2, InsertMessageSteps DEF Sent
<1>4. CASE \E u \in Users, picked \in SUBSET Atts : CheckPost(p, u, picked)
  <2>1. PICK u \in Users, picked \in SUBSET Atts : CheckPost(p, u, picked)
    BY <1>4
  <2>2. /\ post'[p].at = post[p].at /\ post'[p].read = post[p].read
        /\ \A q \in Posts \ {p} : post'[q] = post[q]
        /\ post[p].at = 0 /\ Sent' = Sent
    BY <1>0, <2>1, CheckPostSteps
  <2> QED BY <2>2 DEF Sent
<1> QED BY <1>1, <1>2, <1>3, <1>4

LEMMA OtherRead ==
    ASSUME ReadInv, FileInv',
           \/ UNCHANGED vars \/ PhoneOpensChat
           \/ \E a \in Atts : InsertAttachment(a) \/ UploadThrows(a) \/ \E u \in Users : PutObject(a, u)
           \/ \E u \in Users : \/ OpenChat(u) \/ CreateChat(u) \/ Close(u) \/ LoadOlder(u)
                               \/ \E p \in Posts : MarkFails(u, p)
           \/ \E p \in Posts :
                 \/ LinkAttachments(p) \/ PostThrows(p)
                 \/ \E now \in Instants : InsertMessage(p, now)
                 \/ \E u \in Users, picked \in SUBSET Atts : CheckPost(p, u, picked)
    PROVE  ReadInv'
<1>0. TypeOK
  BY DEF ReadInv, FileInv
<1>1. /\ \A q \in Posts : post'[q].read = post[q].read
      /\ \A q \in Sent : post'[q].at = post[q].at /\ post'[q].user = post[q].user
      /\ Sent' = Sent
  <2>1. CASE \E p \in Posts :
                 \/ LinkAttachments(p) \/ PostThrows(p)
                 \/ \E now \in Instants : InsertMessage(p, now)
                 \/ \E u \in Users, picked \in SUBSET Atts : CheckPost(p, u, picked)
    BY <2>1, OtherMessages
  <2>2. CASE post' = post
    BY <2>2 DEF Sent
  <2> QED BY <2>1, <2>2
          DEF vars, PhoneOpensChat, InsertAttachment, UploadThrows, PutObject, OpenChat,
              CreateChat, Close, LoadOlder, MarkFails
<1>2. late' = late
  BY DEF vars, flags, PhoneOpensChat, InsertAttachment, UploadThrows, PutObject, LinkAttachments,
         PostThrows, InsertMessage, CheckPost, OpenChat, CreateChat, Close, LoadOlder, MarkFails
<1>3. \A v \in Users : Cursors(page'[v]) \subseteq Cursors(page[v])
  <2>1. CASE \E u \in Users : Close(u)
    BY <1>0, <2>1, CloseType
  <2>2. CASE \E u \in Users : LoadOlder(u)
    BY <1>0, <2>2, LoadOlderType
  <2>3. CASE \E u \in Users : OpenChat(u) \/ CreateChat(u)
    BY <1>0, <2>3, OpenPages
  <2>4. CASE \E u \in Users, p \in Posts : MarkFails(u, p)
    BY <1>0, <2>4, MarkSteps
  <2> QED BY <2>1, <2>2, <2>3, <2>4
          DEF vars, pageVars, PhoneOpensChat, InsertAttachment, UploadThrows, PutObject,
              LinkAttachments, PostThrows, InsertMessage, CheckPost
<1>4. \A v \in Users : seen[v] \subseteq seen'[v]
  <2>1. CASE \E u \in Users : LoadOlder(u)
    BY <1>0, <2>1, TypeParts DEF LoadOlder
  <2>2. CASE seen' = seen
    BY <2>2
  <2> QED BY <2>1, <2>2
          DEF vars, pageVars, PhoneOpensChat, InsertAttachment, UploadThrows, PutObject,
              LinkAttachments, PostThrows, InsertMessage, CheckPost, OpenChat, CreateChat, Close,
              MarkFails
<1>5. Kept
  BY <1>1, <1>2 DEF Kept
<1> QED BY <1>1, <1>3, <1>4, <1>5, FrameRead

LEMMA NextRead == ReadInv /\ [Next]_vars => ReadInv'
<1> SUFFICES ASSUME ReadInv, [Next]_vars PROVE ReadInv'
  OBVIOUS
<1>1. FileInv'
  BY NextFile DEF ReadInv
<1>2. CASE \E u \in Users : Poll(u)
  BY <1>1, <1>2, PollRead
<1>3. CASE \E p \in Posts : CommitMessage(p)
  BY <1>1, <1>3, CommitMessageRead
<1>4. CASE \E u \in Users : \E p \in Posts : Mark(u, p)
  BY <1>1, <1>4, MarkRead
<1> QED BY <1>1, <1>2, <1>3, <1>4, OtherRead DEF Next, PostStep

\* A message counts as read only after it was on the page of somebody but its sender,
\* unless it came late, shares its millisecond with another or a page of others follows it.
THEOREM ReadSeen == Spec => []ReadWasSeen
<1>1. ReadInv => ReadWasSeen
  BY DEF ReadInv
<1> QED BY <1>1, InitRead, NextRead, PTL DEF Spec

================================================================================
