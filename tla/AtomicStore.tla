---------------------------- MODULE AtomicStore ----------------------------
(***************************************************************************)
(* What the use cases rely on when they await the PostgreSQL repositories: *)
(* a call takes effect in one step, or not at all, and a call that rejects *)
(* leaves its caller in doubt.  ReplyPublication is written against this   *)
(* promise; SqlStore shows that the statements keep it.                    *)
(***************************************************************************)
EXTENDS StoreCalls

VARIABLES
    operations,   \* reply_publication_operations
    comments,     \* the comments table
    asked,        \* what each call was asked to do
    answers,      \* what it did, once it took effect
    returned      \* calls whose promise is settled

vars == <<operations, comments, asked, answers, returned>>
tables == <<operations, comments>>

Init ==
    /\ \E h \in Histories : operations = h.operations /\ comments = h.comments
    /\ asked = [c \in Calls |-> None]
    /\ answers = [c \in Calls |-> None]
    /\ returned = {}

-----------------------------------------------------------------------------
Shown(x, row) == <<[comment |-> x, row |-> row]>>
ShownIf(x) == IF x = None THEN <<>> ELSE Shown(x, comments[x])

StoredUnder(e) ==
    {x \in Comments : /\ AccountOf[x] = e[1]
                      /\ comments[x] # None
                      /\ comments[x].key = e[2]}

Answered(c, answer) == answers' = [answers EXCEPT ![c] = answer]

Begin(c) ==
    LET e == asked[c].entry
        op == operations[e]
    IN
    /\ \/ /\ op = None
          /\ operations' = [operations EXCEPT ![e] =
               [status |-> "pending", claim |-> asked[c].claim, comment |-> None]]
          /\ Answered(c, Reply("started", None, <<>>))
       \/ /\ op # None /\ op.claim # asked[c].claim
          /\ Answered(c, Reply("conflict", None, <<>>))
          /\ UNCHANGED operations
       \/ /\ op # None /\ op.claim = asked[c].claim
          /\ Answered(c, Reply("existing", op, ShownIf(op.comment)))
          /\ UNCHANGED operations
    /\ UNCHANGED comments

FindExisting(c) ==
    LET op == operations[asked[c].entry] IN
    /\ Answered(c, IF op = None THEN Reply("missing", None, <<>>)
                   ELSE Reply("existing", op, ShownIf(op.comment)))
    /\ UNCHANGED tables

(* The row that holds the key answers; else the row that holds the external
   id, inserted, or given the key if it has none. *)
SavePublishedReply(c) ==
    LET x == asked[c].comment
        claimed == StoredUnder(EntryOf(asked[c]))
        new == NewReply(asked[c].key, asked[c].content)
        kept == IF comments[x].key = None THEN Attached(comments[x], asked[c].key)
                ELSE comments[x]
    IN
    /\ \/ /\ \E y \in claimed :
               Answered(c, Reply("existing", None, Shown(y, comments[y])))
          /\ UNCHANGED comments
       \/ /\ claimed = {} /\ comments[x] = None
          /\ comments' = [comments EXCEPT ![x] = new]
          /\ Answered(c, Reply("created", None, Shown(x, new)))
       \/ /\ claimed = {} /\ comments[x] # None
          /\ comments' = [comments EXCEPT ![x] = kept]
          /\ Answered(c, Reply("existing", None, Shown(x, kept)))
    /\ UNCHANGED operations

(* Only an operation that is not published yet changes; one that is published
   with another comment makes the call throw. *)
MarkPublished(c) ==
    LET e == asked[c].entry
        op == operations[e]
        x == asked[c].comment
    IN
    /\ operations' = IF op.status = "published" THEN operations
                     ELSE [operations EXCEPT ![e] = Settled(op, "published", x)]
    /\ Answered(c, Reply(IF op.status = "published" /\ op.comment # x
                         THEN "thrown" ELSE "done", None, <<>>))
    /\ UNCHANGED comments

MarkFailed(c) ==
    LET e == asked[c].entry
        op == operations[e]
    IN
    /\ operations' = IF Replaceable(op.status, asked[c].status)
                     THEN [operations EXCEPT ![e] = Settled(op, asked[c].status, None)]
                     ELSE operations
    /\ Answered(c, Reply("done", None, <<>>))
    /\ UNCHANGED comments

(* The whole page, or nothing of it. *)
SaveMany(c) ==
    LET page == asked[c].page
        row(x) == Upsert(comments[x], ContentIn(page, x))
    IN
    /\ comments' = [x \in Comments |-> IF x \in Listed(page) THEN row(x) ELSE comments[x]]
    /\ Answered(c, Reply("stored", None,
         [i \in DOMAIN page |-> [comment |-> page[i].comment, row |-> row(page[i].comment)]]))
    /\ UNCHANGED operations

MarkDeleted(c) ==
    LET x == asked[c].comment IN
    /\ comments' = [comments EXCEPT ![x] = Deleted(comments[x])]
    /\ Answered(c, Reply("done", None, <<>>))
    /\ UNCHANGED operations

-----------------------------------------------------------------------------
(* markPublished and markFailed get the id of an operation begin returned,
   markPublished and markDeleted a comment that was read before. *)
Askable(w) ==
    /\ w.method \in {"markPublished", "markFailed"} => operations[w.entry] # None
    /\ w.method \in {"markPublished", "markDeleted"} => comments[w.comment] # None

Ask(c) ==
    /\ asked[c] = None
    /\ \E w \in Work : Askable(w) /\ asked' = [asked EXCEPT ![c] = w]
    /\ UNCHANGED <<tables, answers, returned>>

Perform(c) ==
    /\ asked[c] # None /\ answers[c] = None /\ c \notin returned
    /\ \/ asked[c].method = "begin" /\ Begin(c)
       \/ asked[c].method = "findExisting" /\ FindExisting(c)
       \/ asked[c].method = "savePublishedReply" /\ SavePublishedReply(c)
       \/ asked[c].method = "markPublished" /\ MarkPublished(c)
       \/ asked[c].method = "markFailed" /\ MarkFailed(c)
       \/ asked[c].method = "saveMany" /\ SaveMany(c)
       \/ asked[c].method = "markDeleted" /\ MarkDeleted(c)
    /\ UNCHANGED <<asked, returned>>

Return(c) ==
    /\ answers[c] # None /\ c \notin returned
    /\ returned' = returned \cup {c}
    /\ UNCHANGED <<tables, asked, answers>>

(* The promise rejects; the effect may have happened all the same. *)
Reject(c) ==
    /\ asked[c] # None /\ c \notin returned
    /\ Answered(c, Reply("rejected", None, <<>>))
    /\ returned' = returned \cup {c}
    /\ UNCHANGED <<tables, asked>>

Next == \E c \in Calls : Ask(c) \/ Perform(c) \/ Return(c) \/ Reject(c)

Spec == Init /\ [][Next]_vars
=============================================================================
