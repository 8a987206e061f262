----------------------------- MODULE Retrieval -----------------------------
(***************************************************************************)
(* GetPostComments and GetCommentReplies: a client walks a thread page by  *)
(* page, each page is fetched from the provider and stored after another   *)
(* await, while the provider's comments change, other clients walk the     *)
(* same thread and publications add to it or report that a parent is gone. *)
(* Paging is that of the demo gateways; saveMany, savePublishedReply and   *)
(* markDeleted are the atomic steps SqlStore implements.                   *)
(***************************************************************************)
EXTENDS Naturals, SequencesExt

CONSTANTS
    Walks,             \* a client that follows nextCursor, one request at a time
    Publications,      \* replies a client publishes
    Comments,
    Threads,           \* what a request can name: a post, or a comment
    PlatformOf,        \* of the thread; None when the post does not exist
    ParentOf,          \* the comment a thread hangs under; None for a post
    Seeds,             \* what the provider lists from the start
    ReplyOf,           \* the comment a publication creates
    Capabilities,      \* of the registered gateways, and the size of their pages
    ProviderFailures,  \* typed failures of a read
    EarlierRows,       \* the sets of comments that may be stored already
    ForeignCursor,     \* a cursor the gateway cannot decode
    Changing,          \* bound: the comments that change
    MaxChanges,        \* bound: changes at the provider
    None

Platforms == DOMAIN Capabilities

ASSUME ThreadAssumption ==
    /\ ParentOf \in [Threads -> Comments \cup {None}]
    /\ DOMAIN PlatformOf = Threads
    /\ Seeds \in [Threads -> Seq(Comments)]
    /\ ReplyOf \in [Publications -> Comments]    \* a key of its own, and so an id
    /\ \A r, s \in Publications : ReplyOf[r] = ReplyOf[s] => r = s
    /\ \A t \in Threads, r \in Publications : ReplyOf[r] \notin ToSet(Seeds[t])
    /\ \A stored \in EarlierRows, r \in Publications : ReplyOf[r] \notin stored
ASSUME CapabilityAssumption ==
    \A p \in Platforms : /\ Capabilities[p].rootComments \in BOOLEAN
                         /\ Capabilities[p].directReplies \in BOOLEAN
                         /\ Capabilities[p].pageSize \in Nat \ {0}
ASSUME ValueAssumption ==
    /\ MaxChanges \in Nat
    /\ EarlierRows \subseteq SUBSET Comments
    /\ Changing \subseteq Comments
    /\ "complete" \notin ProviderFailures
    /\ Walks \cap Publications = {}
    /\ None \notin Nat \cup {"complete"} /\ ForeignCursor \notin Nat \cup {None}

VARIABLES
    published,   \* replies the demo gateway keeps in memory, in order, by thread
    edition,     \* how often a comment has changed at the provider
    reachable,   \* comments the provider finds when they are named as a parent
    changes,
    rows,        \* the comments table: the edition a row was last observed in, its state
    at,          \* what a request awaits
    query,       \* the thread and the cursor it names
    page,        \* what the provider returned to it
    got,         \* the comments the pages of a walk listed
    result,      \* None while the walk goes on, "complete", or the code of a failure
    began,       \* history: the thread and the editions when the walk began
    floor,       \* history: the editions when the request began
    intact,      \* history: walks the demo process has not restarted under
    quiet        \* history: walks nothing else has happened beside

provider == <<published, edition, reachable, changes>>
history == <<began, floor, intact, quiet>>
vars == <<provider, rows, at, query, page, got, result, history>>

Requests == Walks \cup Publications
Cursors == Nat \cup {None, ForeignCursor}
Item == [comment : Comments, edition : Nat]
Row == [edition : Nat, state : {"active", "deleted"}]
Codes == {"complete", "POST_NOT_FOUND", "COMMENT_NOT_FOUND", "UNSUPPORTED_PLATFORM",
          "PLATFORM_OPERATION_UNSUPPORTED", "PLATFORM_CURSOR_INVALID",
          "PLATFORM_RESOURCE_NOT_FOUND", "lost"} \cup ProviderFailures

TypeOK ==
    /\ published \in [Threads -> Seq(Comments)]
    /\ edition \in [Comments -> Nat]
    /\ reachable \subseteq Comments
    /\ changes \in 0..MaxChanges
    /\ rows \in [Comments -> Row \cup {None}]
    /\ at \in [Requests -> {"idle", "context", "gateway", "save", "store", "mark",
                            "answered", "done"}]
    /\ query \in [Requests -> [thread : Threads, cursor : Cursors] \cup {None}]
    /\ page \in [Requests -> [items : Seq(Item), next : Nat \cup {None}] \cup {None}]
    /\ got \in [Walks -> Seq(Comments)]
    /\ result \in [Walks -> Codes \cup {None}]
    /\ began \in [Walks -> [list : Seq(Comments), edition : [Comments -> Nat]] \cup {None}]
    /\ floor \in [Requests -> [Comments -> Nat] \cup {None}]
    /\ intact \subseteq Walks /\ quiet \subseteq Walks

Init ==
    /\ published = [t \in Threads |-> <<>>]
    /\ edition = [x \in Comments |-> 0]
    /\ reachable = Comments
    /\ changes = 0
    /\ \E stored \in EarlierRows :
         rows = [x \in Comments |->
                   IF x \in stored THEN [edition |-> 0, state |-> "active"] ELSE None]
    /\ at = [c \in Requests |-> "idle"]
    /\ query = [c \in Requests |-> None]
    /\ page = [c \in Requests |-> None]
    /\ got = [w \in Walks |-> <<>>]
    /\ result = [w \in Walks |-> None]
    /\ began = [w \in Walks |-> None]
    /\ floor = [c \in Requests |-> None]
    /\ intact = {} /\ quiet = {}

-----------------------------------------------------------------------------
(* The gateways *)

ListPublishedFirst(t) == published[t] \o Seeds[t]    \* faulty: newest first

List(t) == Seeds[t] \o published[t]

DecodeOffset(cursor) == IF cursor = None THEN 0 ELSE cursor

NextCursorLate(t, next) ==    \* faulty: the last page is not announced
    IF next + 1 < Len(List(t)) THEN next ELSE None

NextCursorForeign(t, next) ==    \* faulty: issues cursors its own decoder rejects
    IF next < Len(List(t)) THEN ForeignCursor ELSE None

NextCursor(t, next) == IF next < Len(List(t)) THEN next ELSE None

ObservedInRows(x) ==    \* faulty: the page is served from the projection
    [comment |-> x, edition |-> IF rows[x] = None THEN edition[x] ELSE rows[x].edition]

Observed(x) == [comment |-> x, edition |-> edition[x]]

(* list.slice(offset, next): the end of the list ends it. *)
Slice(list, offset, next) ==
    SubSeq(list, offset + 1, IF next < Len(list) THEN next ELSE Len(list))

PageOf(t, cursor) ==
    LET offset == DecodeOffset(cursor)
        next == offset + Capabilities[PlatformOf[t]].pageSize
        items == Slice(List(t), offset, next)
    IN  [items |-> [i \in DOMAIN items |-> Observed(items[i])],
         next |-> NextCursor(t, next)]

(* The provider no longer finds the parent, whatever it lists under the post. *)
Gone(t) == ParentOf[t] # None /\ ParentOf[t] \notin reachable

-----------------------------------------------------------------------------
Goto(c, place) == at' = [at EXCEPT ![c] = place]

UnderWay(c) == at[c] \in {"context", "gateway", "save", "store", "mark"}
Alone(c) == \A d \in Requests \ {c} : ~UnderWay(d)

(* Request c begins; it ends the quiet of every other walk. *)
Send(c, t, cursor) ==
    /\ query' = [query EXCEPT ![c] = [thread |-> t, cursor |-> cursor]]
    /\ floor' = [floor EXCEPT ![c] = edition]
    /\ Goto(c, "context")
    /\ UNCHANGED <<provider, rows>>

BeginWalk(w) ==
    /\ at[w] = "idle"
    /\ \E t \in Threads, cursor \in {None, ForeignCursor} :
         /\ Send(w, t, cursor)
         /\ began' = [began EXCEPT ![w] = [list |-> List(t), edition |-> edition]]
    /\ intact' = intact \cup {w}
    /\ quiet' = IF Alone(w) THEN {w} ELSE {}
    /\ UNCHANGED <<page, got, result>>

NextPage(w) ==
    /\ at[w] = "answered"
    /\ Send(w, query[w].thread, page[w].next)
    /\ page' = [page EXCEPT ![w] = None]
    /\ quiet' = quiet \cap {w}
    /\ UNCHANGED <<got, result, began, intact>>

Answer(w, code) ==
    /\ result' = [result EXCEPT ![w] = code]
    /\ page' = [page EXCEPT ![w] = None]
    /\ Goto(w, "done")

Active(x) == rows[x] # None /\ rows[x].state = "active"

(* findContextByPostId, or findByCommentId of an active comment *)
Found(t) == IF ParentOf[t] = None THEN PlatformOf[t] # None ELSE Active(ParentOf[t])

Registered(t) == PlatformOf[t] \in Platforms

Capable(t) ==
    IF ParentOf[t] = None THEN Capabilities[PlatformOf[t]].rootComments
    ELSE Capabilities[PlatformOf[t]].directReplies

FindContext(w) ==
    LET t == query[w].thread IN
    /\ at[w] = "context"
    /\ \/ /\ Found(t) /\ Registered(t) /\ Capable(t)
          /\ Goto(w, "gateway") /\ UNCHANGED <<page, result>>
       \/ /\ ~Found(t)
          /\ Answer(w, IF ParentOf[t] = None THEN "POST_NOT_FOUND" ELSE "COMMENT_NOT_FOUND")
       \/ /\ Found(t) /\ ~Registered(t)
          /\ Answer(w, "UNSUPPORTED_PLATFORM")
       \/ /\ Found(t) /\ Registered(t) /\ ~Capable(t)
          /\ Answer(w, "PLATFORM_OPERATION_UNSUPPORTED")
    /\ UNCHANGED <<provider, rows, query, got, history>>

(* getComments or getReplies *)
Fetch(w) ==
    LET t == query[w].thread
        cursor == query[w].cursor
    IN
    /\ at[w] = "gateway"
    /\ \/ /\ ~Gone(t) /\ cursor # ForeignCursor
          /\ page' = [page EXCEPT ![w] = PageOf(t, cursor)]
          /\ Goto(w, "save") /\ UNCHANGED result
       \/ Gone(t) /\ Answer(w, "PLATFORM_RESOURCE_NOT_FOUND")
       \/ ~Gone(t) /\ cursor = ForeignCursor /\ Answer(w, "PLATFORM_CURSOR_INVALID")
       \/ \E code \in ProviderFailures : Answer(w, code)
    /\ UNCHANGED <<provider, rows, query, got, history>>

UpsertKeepsState(row, seen) ==    \* faulty: a deleted row stays deleted
    [edition |-> seen, state |-> IF row = None THEN "active" ELSE row.state]

Upsert(row, seen) == [edition |-> seen, state |-> "active"]

(* saveMany; the page is answered as it was stored, unless the answer of the
   database is lost after its commit. *)
Save(w) ==
    LET items == page[w].items
        Seen(x) == {item \in ToSet(items) : item.comment = x}
    IN
    /\ at[w] = "save"
    /\ rows' = [x \in Comments |->
         IF Seen(x) = {} THEN rows[x]
         ELSE Upsert(rows[x], (CHOOSE item \in Seen(x) : TRUE).edition)]
    /\ \/ /\ got' = [got EXCEPT ![w] = @ \o [i \in DOMAIN items |-> items[i].comment]]
          /\ \/ page[w].next # None /\ Goto(w, "answered") /\ UNCHANGED <<page, result>>
             \/ page[w].next = None /\ Answer(w, "complete")
       \/ Answer(w, "lost") /\ UNCHANGED got
    /\ UNCHANGED <<provider, query, history>>

-----------------------------------------------------------------------------
(* ReplyToComment, as far as the thread and the parent are concerned *)

BeginReply(r) ==
    /\ at[r] = "idle"
    /\ \E t \in Threads :
         /\ ParentOf[t] # None /\ Found(t) /\ Registered(t)
         /\ query' = [query EXCEPT ![r] = [thread |-> t, cursor |-> None]]
    /\ floor' = [floor EXCEPT ![r] = edition]
    /\ Goto(r, "gateway")
    /\ quiet' = {}
    /\ UNCHANGED <<provider, rows, page, got, result, began, intact>>

(* replyToComment: the reply, or PLATFORM_RESOURCE_NOT_FOUND *)
Publish(r) ==
    LET t == query[r].thread
        Holds(x) == page' = [page EXCEPT ![r] = [items |-> <<Observed(x)>>, next |-> None]]
    IN
    /\ at[r] = "gateway"
    /\ \/ /\ ~Gone(t)
          /\ published' = [published EXCEPT ![t] = Append(@, ReplyOf[r])]
          /\ Holds(ReplyOf[r])
          /\ Goto(r, "store")
       \/ /\ Gone(t)
          /\ Holds(ParentOf[t])
          /\ Goto(r, "mark") /\ UNCHANGED published
    /\ UNCHANGED <<edition, reachable, changes, rows, query, got, result, history>>

(* savePublishedReply: a row that a page has stored before is only revived. *)
SavePublishedReply(r) ==
    LET item == page[r].items[1]
        x == item.comment
    IN
    /\ at[r] = "store"
    /\ rows' = [rows EXCEPT ![x] =
         [edition |-> IF rows[x] = None THEN item.edition ELSE rows[x].edition,
          state |-> "active"]]
    /\ page' = [page EXCEPT ![r] = None]
    /\ Goto(r, "done")
    /\ UNCHANGED <<provider, query, got, result, history>>

(* update .. where projection_state <> 'deleted' *)
MarkDeleted(r) ==
    LET item == page[r].items[1] IN
    /\ at[r] = "mark"
    /\ rows' = IF Active(item.comment)
               THEN [rows EXCEPT ![item.comment] =
                       [edition |-> item.edition, state |-> "deleted"]]
               ELSE rows
    /\ page' = [page EXCEPT ![r] = None]
    /\ Goto(r, "done")
    /\ UNCHANGED <<provider, query, got, result, history>>

(* An awaited call rejects before its effect, and the client is answered 500; a
   publication that rejects after its effect was answered is gone, too. *)
Rejected(c) ==
    /\ UnderWay(c)
    /\ Goto(c, "done")
    /\ page' = [page EXCEPT ![c] = None]
    /\ result' = [w \in Walks |-> IF w = c THEN "lost" ELSE result[w]]
    /\ UNCHANGED <<provider, rows, query, got, history>>

-----------------------------------------------------------------------------
(* The provider, and the process that holds the replies of the demo gateway *)

Change ==
    /\ changes < MaxChanges
    /\ changes' = changes + 1
    /\ quiet' = {}
    /\ UNCHANGED <<query, rows, got, began, floor>>

Edit(x) ==
    /\ Change
    /\ edition' = [edition EXCEPT ![x] = @ + 1]
    /\ UNCHANGED <<published, reachable, at, page, result, intact>>

Withdraw(x) ==
    /\ Change /\ x \in reachable
    /\ edition' = [edition EXCEPT ![x] = @ + 1]
    /\ reachable' = reachable \ {x}
    /\ UNCHANGED <<published, at, page, result, intact>>

Restore(x) ==
    /\ Change /\ x \notin reachable
    /\ edition' = [edition EXCEPT ![x] = @ + 1]
    /\ reachable' = reachable \cup {x}
    /\ UNCHANGED <<published, at, page, result, intact>>

(* Requests under way are lost; clients keep their cursors. *)
Restart ==
    /\ Change
    /\ published' = [t \in Threads |-> <<>>]
    /\ at' = [c \in Requests |-> IF UnderWay(c) THEN "done" ELSE at[c]]
    /\ page' = [c \in Requests |-> IF UnderWay(c) THEN None ELSE page[c]]
    /\ result' = [w \in Walks |-> IF UnderWay(w) THEN "lost" ELSE result[w]]
    /\ intact' = {}
    /\ UNCHANGED <<edition, reachable>>

-----------------------------------------------------------------------------
Walk(w) == BeginWalk(w) \/ NextPage(w) \/ FindContext(w) \/ Fetch(w) \/ Save(w)
Publication(r) ==
    BeginReply(r) \/ Publish(r) \/ SavePublishedReply(r) \/ MarkDeleted(r)

Next ==
    \/ \E w \in Walks : Walk(w)
    \/ \E r \in Publications : Publication(r)
    \/ \E c \in Requests : Rejected(c)
    \/ \E x \in Changing : Edit(x) \/ Withdraw(x) \/ Restore(x)
    \/ Restart

Spec == Init /\ [][Next]_vars

-----------------------------------------------------------------------------
(* Properties *)

(* A walk that came to the last page got the list its thread had when it began,
   in its order, none left out and none twice, and besides nothing but what was
   published since, although replies are published and comments change between
   its pages.  Of a walk the demo process restarted under, which loses the replies
   it holds in memory, this is true of what the provider had from the start: a
   cursor into a list that was longer skips none of that. *)
WalkIsComplete ==
    \A w \in Walks : result[w] = "complete" =>
        /\ IsPrefix(Seeds[query[w].thread], got[w])
        /\ w \in intact => /\ IsPrefix(began[w].list, got[w])
                          /\ IsPrefix(got[w], List(query[w].thread))

(* Whichever request writes a row, page, reply or not-found, it stores what the
   provider showed after that request began.  A newer observation is taken
   back by an older one only while the two requests overlap. *)
NothingTakenBack ==
    [][\A x \in Comments : rows'[x] # rows[x] =>
          \E c \in Requests : /\ at[c] \in {"save", "store", "mark"} /\ at'[c] # at[c]
                              /\ rows'[x].edition >= floor[c][x]]_vars

(* A walk that nothing else happened beside leaves the projection of its
   thread as the provider lists it: everything active and current. *)
QuietWalkConverges ==
    \A w \in quiet : result[w] = "complete" =>
        \A x \in ToSet(List(query[w].thread)) :
            rows[x] = [edition |-> edition[x], state |-> "active"]
=============================================================================
