--------------------------- MODULE SqlStoreProofs ---------------------------
(***************************************************************************)
(* The statements of SqlStore implement the atomic calls of AtomicStore,   *)
(* for all calls, accounts, keys, comments and pages.  Every action is one *)
(* call's, so the invariant is stated call by call (Own), and a step of c  *)
(* keeps what the others know because it may only grow the tables (Grows). *)
(***************************************************************************)
EXTENDS SqlStore, FiniteSetTheorems, TLAPS

Locking == {"begin", "savePublishedReply"}

(* c is between the statement that took its lock and the end of its transaction. *)
Holding(c) ==
    /\ asked[c] # None /\ asked[c].method \in Locking
    /\ at[c] \in {"readOperation", "readComment", "insertOperation", "claimed",
                  "insertReply", "attachKey", "current", "commit"}

(* The statements of a method. *)
Located(c) ==
    /\ (at[c] = "idle") <=> (asked[c] = None)
    /\ at[c] = "lock" => asked[c].method \in Locking
    /\ at[c] \in {"readOperation", "readComment"} =>
          asked[c].method \in {"begin", "findExisting"}
    /\ at[c] = "insertOperation" => asked[c].method = "begin"
    /\ at[c] \in {"claimed", "insertReply", "attachKey", "current"} =>
          asked[c].method = "savePublishedReply"
    /\ at[c] = "upsert" => asked[c].method = "saveMany"
    /\ at[c] = "update" =>
          asked[c].method \in {"markPublished", "markFailed", "markDeleted"}
    /\ at[c] = "check" => asked[c].method \in {"markPublished", "markFailed"}
    /\ at[c] = "commit" => asked[c].method \in Locking \cup {"saveMany"}

Opening(c) == at[c] = "commit" /\ asked[c].method = "begin" /\ outcome[c].kind = "started"

(* What c keeps beside the tables. *)
Kept(c) ==
    /\ lock[c] = IF Holding(c) THEN EntryFor(c) ELSE None
    /\ (outcome[c] # None) <=> (at[c] \in {"commit", "resolved", "done"})
    /\ (seen[c] # None) <=> (at[c] = "readComment")
    /\ at[c] # "upsert" => stored[c] = <<>>
    /\ opened[c] = IF Opening(c)
                   THEN [status |-> "pending", claim |-> asked[c].claim, comment |-> None]
                   ELSE None
    /\ Opening(c) => outcome[c] = Reply("started", None, <<>>)

(* The first n rows of the page are written, on the rows that are committed. *)
PageRow(c, x) == Upsert(comments[x], ContentIn(asked[c].page, x))
PageDrafts(c, n) ==
    \A x \in Comments :
        drafts[c][x] = IF \E i \in 1..n : asked[c].page[i].comment = x
                       THEN PageRow(c, x) ELSE None
PageFound(c, n) ==
    [i \in 1..n |-> [comment |-> asked[c].page[i].comment,
                     row |-> PageRow(c, asked[c].page[i].comment)]]

(* The reply c writes, on a table without its key. *)
ReplyDraft(c, kind, row) ==
    /\ drafts[c] = [NoDrafts EXCEPT ![Target(c)] = row]
    /\ outcome[c] = Reply(kind, None, <<[comment |-> Target(c), row |-> row]>>)

Drafted(c) ==
    /\ drafts[c] # NoDrafts =>
          /\ at[c] \in {"upsert", "commit"}
          /\ asked[c].method \in {"saveMany", "savePublishedReply"}
    /\ at[c] = "upsert" =>
          /\ Len(stored[c]) < Len(asked[c].page) \/ asked[c].page = <<>>
          /\ Len(stored[c]) <= Len(asked[c].page)
          /\ stored[c] = PageFound(c, Len(stored[c]))
          /\ PageDrafts(c, Len(stored[c]))
    /\ at[c] = "commit" /\ asked[c].method = "saveMany" =>
          /\ asked[c].page # <<>>
          /\ outcome[c] = Reply("stored", None, PageFound(c, Len(asked[c].page)))
          /\ PageDrafts(c, Len(asked[c].page))
    /\ at[c] = "commit" /\ asked[c].method = "savePublishedReply" /\ drafts[c] # NoDrafts =>
          /\ StoredUnder(EntryFor(c)) = {}
          /\ \/ /\ comments[Target(c)] = None
                /\ ReplyDraft(c, "created", NewReply(asked[c].key, asked[c].content))
             \/ /\ comments[Target(c)] # None /\ comments[Target(c)].key = None
                /\ ReplyDraft(c, "existing", Attached(comments[Target(c)], asked[c].key))

(* What c has read and still holds when it uses it. *)
Known(c) ==
    /\ seen[c] # None =>
          /\ operations[EntryFor(c)] = seen[c]
          /\ seen[c].status = "published" /\ seen[c].comment # None
    /\ at[c] = "insertOperation" \/ opened[c] # None => operations[EntryFor(c)] = None
    /\ at[c] \in {"update", "check"} /\ asked[c].method \in {"markPublished", "markFailed"}
          => operations[EntryFor(c)] # None
    /\ at[c] \in {"update", "check"} /\ asked[c].method \in {"markPublished", "markDeleted"}
          => comments[Target(c)] # None
    /\ at[c] = "check" /\ asked[c].method = "markPublished"
          => operations[EntryFor(c)].status = "published"
    /\ at[c] = "check" /\ asked[c].method = "markFailed"
          => ~Replaceable(operations[EntryFor(c)].status, asked[c].status)
    /\ at[c] \in {"insertReply", "attachKey", "current"} => StoredUnder(EntryFor(c)) = {}
    /\ at[c] \in {"attachKey", "current"} => comments[Target(c)] # None
    /\ at[c] = "current" => comments[Target(c)].key # None

Own(c) == Located(c) /\ Kept(c) /\ Drafted(c) /\ Known(c)

OperationsOK ==
    \A e \in Entries : operations[e] # None =>
        /\ (operations[e].status = "published") <=> (operations[e].comment # None)
        /\ operations[e].comment # None => comments[operations[e].comment] # None

LocksExclude ==
    \A c, d \in Calls : c # d /\ Holding(c) /\ Holding(d) => EntryFor(c) # EntryFor(d)

DraftsExclude ==
    \A c, d \in Calls, x \in Comments :
        c # d /\ drafts[c][x] # None => drafts[d][x] = None

IInv ==
    /\ TypeOK
    /\ OperationsOK /\ LocksExclude /\ DraftsExclude
    /\ \A c \in Calls : Own(c)

-----------------------------------------------------------------------------
(* The arguments of a call. *)
LEMMA CallTypes ==
    ASSUME NEW w \in Work
    PROVE  /\ w # None
           /\ w.method \in {"begin", "findExisting", "savePublishedReply", "markPublished",
                            "markFailed", "saveMany", "markDeleted"}
           /\ w.method = "begin" => w.entry \in Entries /\ w.claim \in Claims
           /\ w.method \in {"findExisting", "markPublished", "markFailed"} => w.entry \in Entries
           /\ w.method \in {"savePublishedReply", "markPublished", "markDeleted"}
                 => w.comment \in Comments
           /\ w.method = "savePublishedReply" => w.key \in Keys /\ w.content \in Contents
           /\ w.method = "markFailed" => w.status \in FailedStatuses
           /\ w.method = "saveMany" => w.page \in Seq(Item)
           /\ w.method \notin {"saveMany", "markDeleted"} =>
                 EntryOf(w) \in Entries /\ EntryOf(w) # None
<1>1. w \in Call /\ w # None
  BY WorkAssumption, NoneAssumption
<1>2. CASE w \in BeginCall
  BY <1>1, <1>2, NoneAssumption DEF BeginCall, EntryOf
<1>3. CASE w \in FindCall
  BY <1>1, <1>3, NoneAssumption DEF FindCall, EntryOf
<1>4. CASE w \in SaveCall
  <2>1. AccountOf[w.comment] \in Accounts
    BY <1>4, AccountAssumption DEF SaveCall
  <2> QED BY <1>1, <1>4, <2>1, NoneAssumption DEF SaveCall, EntryOf, Entries
<1>5. CASE w \in PublishCall
  BY <1>1, <1>5, NoneAssumption DEF PublishCall, EntryOf
<1>6. CASE w \in FailCall
  BY <1>1, <1>6, NoneAssumption DEF FailCall, EntryOf
<1>7. CASE w \in ImportCall
  BY <1>1, <1>7 DEF ImportCall
<1>8. CASE w \in DeleteCall
  BY <1>1, <1>8 DEF DeleteCall
<1> QED BY <1>1, <1>2, <1>3, <1>4, <1>5, <1>6, <1>7, <1>8 DEF Call

-----------------------------------------------------------------------------
(* Every action is a step of one call: nothing of the others changes. *)
Frame(c) ==
    \A d \in Calls \ {c} :
        /\ asked'[d] = asked[d] /\ at'[d] = at[d] /\ lock'[d] = lock[d]
        /\ opened'[d] = opened[d] /\ drafts'[d] = drafts[d] /\ seen'[d] = seen[d]
        /\ stored'[d] = stored[d] /\ outcome'[d] = outcome[d]

Step(c) == Ask(c) \/ Statement(c) \/ Disconnect(c) \/ DeadlockVictim(c)

LEMMA StepFrame ==
    ASSUME TypeOK, NEW c \in Calls, Step(c)
    PROVE  Frame(c)
<1> USE DEF TypeOK, Frame, Goto, Resolve, Draft, Judge, Finish, EndTransaction, ReleaseLock,
            transaction, memory, tables
<1>1. CASE Ask(c)
  BY <1>1 DEF Ask
<1>2. CASE TakeLock(c)
  BY <1>2 DEF TakeLock
<1>3. CASE ReadOperation(c)
  BY <1>3 DEF ReadOperation
<1>4. CASE ReadComment(c)
  BY <1>4 DEF ReadComment
<1>5. CASE InsertOperation(c)
  BY <1>5 DEF InsertOperation
<1>6. CASE ReadClaimed(c)
  BY <1>6 DEF ReadClaimed
<1>7. CASE InsertReply(c)
  BY <1>7 DEF InsertReply
<1>8. CASE AttachKey(c)
  BY <1>8 DEF AttachKey
<1>9. CASE ReadCurrent(c)
  BY <1>9 DEF ReadCurrent
<1>10. CASE EmptyPage(c)
  BY <1>10 DEF EmptyPage
<1>11. CASE UpsertItem(c)
  BY <1>11 DEF UpsertItem
<1>12. CASE MarkPublished(c)
  BY <1>12 DEF MarkPublished
<1>13. CASE MarkFailed(c)
  BY <1>13 DEF MarkFailed
<1>14. CASE CheckOperation(c)
  BY <1>14 DEF CheckOperation
<1>15. CASE MarkDeleted(c)
  BY <1>15 DEF MarkDeleted
<1>16. CASE Commit(c)
  BY <1>16 DEF Commit
<1>17. CASE Return(c)
  BY <1>17 DEF Return
<1>18. CASE RollBack(c)
  BY <1>18 DEF RollBack
<1> QED
  BY <1>1, <1>2, <1>3, <1>4, <1>5, <1>6, <1>7, <1>8, <1>9, <1>10, <1>11, <1>12, <1>13,
     <1>14, <1>15, <1>16, <1>17, <1>18 DEF Step, Statement, Disconnect, DeadlockVictim

-----------------------------------------------------------------------------
(* What the writes and the answers of a call are. *)
LEMMA WriteTypes ==
    /\ \A op \in Operation, s \in Statuses, x \in Comments \cup {None} :
          Settled(op, s, x) \in Operation
    /\ \A k \in Keys, t \in Contents : NewReply(k, t) \in Row
    /\ \A row \in Row, k \in Keys : Attached(row, k) \in Row
    /\ \A row \in Row \cup {None}, t \in Contents : Upsert(row, t) \in Row
    /\ \A row \in Row : Deleted(row) \in Row
    /\ None \notin Row /\ None \notin Operation /\ None \notin Comments
    /\ None \notin Keys /\ None \notin Answer /\ None \notin Entries
BY NoneAssumption DEF Settled, NewReply, Attached, Upsert, Deleted, Operation, Row

LEMMA ReplyType ==
    \A kind \in {"started", "existing", "conflict", "missing", "created",
                 "stored", "done", "thrown", "rejected"},
       op \in Operation \cup {None}, found \in Seq(Found) :
        Reply(kind, op, found) \in Answer
BY DEF Reply, Answer

LEMMA FoundType ==
    /\ <<>> \in Seq(Found)
    /\ \A x \in Comments, row \in Row :
          /\ [comment |-> x, row |-> row] \in Found
          /\ <<[comment |-> x, row |-> row]>> \in Seq(Found)
<1>1. \A x \in Comments, row \in Row : [comment |-> x, row |-> row] \in Found
  BY DEF Found
<1>2. \A f \in Found : <<f>> \in Seq(Found)
  OBVIOUS
<1> QED BY <1>1, <1>2

LEMMA ItemTypes ==
    ASSUME NEW w \in Work, w.method = "saveMany", NEW i \in 1..Len(w.page)
    PROVE  /\ w.page[i].comment \in Comments /\ w.page[i].content \in Contents
           /\ ContentIn(w.page, w.page[i].comment) = w.page[i].content
<1>1. w.page \in Seq(Item) /\ i \in DOMAIN w.page
  BY CallTypes
<1>2. w.page[i] \in Item
  BY <1>1
<1>3. \A j \in DOMAIN w.page : w.page[i].comment = w.page[j].comment => i = j
  BY <1>1, WorkAssumption
<1> DEFINE items == {w.page[j] : j \in DOMAIN w.page}
<1>4. \A item \in items : item.comment = w.page[i].comment => item = w.page[i]
  BY <1>3
<1>5. w.page[i] \in items
  BY <1>1
<1>6. (CHOOSE item \in items : item.comment = w.page[i].comment) = w.page[i]
  <2> HIDE DEF items
  <2> QED BY <1>4, <1>5
<1> QED BY <1>2, <1>6 DEF Item, ContentIn

LEMMA TypeStep ==
    ASSUME IInv, NEW c \in Calls, Step(c)
    PROVE  TypeOK'
<1> USE DEF Goto, Resolve, Draft, EndTransaction, ReleaseLock, transaction, memory, tables
<1>a. TypeOK /\ Own(c) /\ (asked[c] # None => asked[c] \in Work)
  BY DEF IInv, TypeOK
<1>b. /\ <<>> \in Seq(Found) /\ NoDrafts \in [Comments -> Row \cup {None}]
      /\ \A kind \in {"started", "existing", "conflict", "missing", "created",
                      "stored", "done", "thrown", "rejected"} :
            Reply(kind, None, <<>>) \in Answer
  BY ReplyType, FoundType DEF NoDrafts
<1>c. \A x \in Comments, row \in Row, kind \in {"existing", "created"},
         op \in Operation \cup {None} :
            Reply(kind, op, <<[comment |-> x, row |-> row]>>) \in Answer
  BY ReplyType, FoundType
<1>1. CASE Ask(c)
  <2>1. PICK w \in Work : asked' = [asked EXCEPT ![c] = w] /\ Goto(c, FirstStatement(w))
    BY <1>1 DEF Ask
  <2>2. FirstStatement(w) \in Places
    BY CallTypes DEF FirstStatement, Places
  <2> QED BY <1>1, <1>a, <2>1, <2>2 DEF Ask, TypeOK
<1>2. CASE TakeLock(c)
  <2>1. EntryFor(c) \in Entries
    BY <1>a, <1>2, CallTypes DEF TakeLock, Own, Located, EntryFor, Locking
  <2> QED BY <1>a, <1>2, <2>1 DEF TakeLock, Places, TypeOK
<1>3. CASE ReadOperation(c)
  <2> DEFINE op == operations[EntryFor(c)]
  <2>1. EntryFor(c) \in Entries
    BY <1>a, <1>3, CallTypes DEF ReadOperation, Own, Located, EntryFor
  <2>2. op # None => op \in Operation
    BY <1>a, <2>1 DEF TypeOK
  <2>3. op # None => Reply("existing", op, <<>>) \in Answer
    BY <2>2, <1>b, ReplyType
  <2> HIDE DEF op
  <2>4. outcome' \in [Calls -> Answer \cup {None}]
    BY <1>3, <1>a, <1>b, <2>3 DEF ReadOperation, Judge, TypeOK, op
  <2>5. seen' \in [Calls -> Operation \cup {None}]
    BY <1>3, <1>a, <2>2 DEF ReadOperation, TypeOK, op
  <2>6. at' \in [Calls -> Places]
    BY <1>3, <1>a DEF ReadOperation, TypeOK, Finish, Places
  <2> QED BY <1>a, <1>3, <2>4, <2>5, <2>6 DEF ReadOperation, TypeOK
<1>4. CASE ReadComment(c)
  <2> DEFINE op == seen[c]
             x == seen[c].comment
  <2>1. op \in Operation /\ x \in Comments
    BY <1>a, <1>4 DEF ReadComment, Own, Kept, Known, TypeOK, Operation
  <2>2. EntryFor(c) \in Entries
    BY <1>a, <1>4, CallTypes DEF ReadComment, Own, Located, EntryFor
  <2>3. comments[x] \in Row
    BY <1>a, <1>4, <2>1, <2>2 DEF ReadComment, IInv, Own, Kept, Known, OperationsOK, TypeOK
  <2>4. Reply("existing", op, <<[comment |-> x, row |-> comments[x]]>>) \in Answer
    BY <1>c, <2>1, <2>3
  <2>5. outcome' \in [Calls -> Answer \cup {None}]
    BY <1>4, <1>a, <1>b, <2>4 DEF ReadComment, Judge, TypeOK
  <2> QED BY <1>a, <1>4, <2>5 DEF ReadComment, TypeOK, Finish, Places
<1>5. CASE InsertOperation(c)
  <2>1. [status |-> "pending", claim |-> asked[c].claim, comment |-> None] \in Operation
    BY <1>a, <1>5, CallTypes DEF InsertOperation, Own, Located, Operation, Statuses
  <2> QED BY <1>a, <1>b, <1>5, <2>1 DEF InsertOperation, TypeOK, Places
<1>6. CASE ReadClaimed(c)
  <2>1. outcome' \in [Calls -> Answer \cup {None}]
    <3>1. outcome' = outcome \/ \E x \in StoredUnder(EntryFor(c)) : outcome' =
            [outcome EXCEPT ![c] = Reply("existing", None, <<[comment |-> x, row |-> comments[x]]>>)]
      BY <1>6 DEF ReadClaimed
    <3>2. \A x \in StoredUnder(EntryFor(c)) :
            Reply("existing", None, <<[comment |-> x, row |-> comments[x]]>>) \in Answer
      BY <1>a, <1>c DEF StoredUnder, TypeOK
    <3> QED BY <1>a, <3>1, <3>2 DEF TypeOK
  <2> QED BY <1>a, <1>6, <2>1 DEF ReadClaimed, TypeOK, Places
<1>7. CASE InsertReply(c)
  <2>1. asked[c] \in Work /\ asked[c].method = "savePublishedReply"
    BY <1>a, <1>7 DEF InsertReply, Own, Located
  <2>2. Target(c) \in Comments /\ NewReply(asked[c].key, asked[c].content) \in Row
    BY <2>1, CallTypes, WriteTypes DEF Target
  <2>3. Reply("created", None, <<[comment |-> Target(c),
              row |-> NewReply(asked[c].key, asked[c].content)]>>) \in Answer
    BY <1>c, <2>2
  <2> DEFINE row == NewReply(asked[c].key, asked[c].content)
             answer == Reply("created", None, <<[comment |-> Target(c), row |-> row]>>)
  <2>4. outcome' = outcome \/ outcome' = [outcome EXCEPT ![c] = answer]
    BY <1>7 DEF InsertReply
  <2>5. drafts' = drafts \/ drafts' = [drafts EXCEPT ![c] = [@ EXCEPT ![Target(c)] = row]]
    BY <1>7 DEF InsertReply
  <2> HIDE DEF row, answer
  <2>6. outcome' \in [Calls -> Answer \cup {None}]
    BY <1>a, <2>3, <2>4 DEF TypeOK, answer, row
  <2>7. drafts' \in [Calls -> [Comments -> Row \cup {None}]]
    <3>1. [drafts[c] EXCEPT ![Target(c)] = row] \in [Comments -> Row \cup {None}]
      BY <1>a, <2>2 DEF TypeOK, row
    <3> QED BY <1>a, <2>5, <3>1 DEF TypeOK
  <2> QED BY <1>a, <1>7, <2>6, <2>7 DEF InsertReply, TypeOK, Places
<1>8. CASE AttachKey(c)
  <2>1. asked[c] \in Work /\ asked[c].method = "savePublishedReply"
    BY <1>a, <1>8 DEF AttachKey, Own, Located
  <2>2. Target(c) \in Comments /\ comments[Target(c)] \in Row
    BY <1>a, <1>8, <2>1, CallTypes DEF AttachKey, Own, Known, TypeOK, Target
  <2>3. Attached(comments[Target(c)], asked[c].key) \in Row
    BY <2>1, <2>2, CallTypes, WriteTypes
  <2>4. Reply("existing", None, <<[comment |-> Target(c),
              row |-> Attached(comments[Target(c)], asked[c].key)]>>) \in Answer
    BY <1>c, <2>2, <2>3
  <2> DEFINE row == Attached(comments[Target(c)], asked[c].key)
             answer == Reply("existing", None, <<[comment |-> Target(c), row |-> row]>>)
  <2>5. outcome' = outcome \/ outcome' = [outcome EXCEPT ![c] = answer]
    BY <1>8 DEF AttachKey
  <2>6. drafts' = drafts \/ drafts' = [drafts EXCEPT ![c] = [@ EXCEPT ![Target(c)] = row]]
    BY <1>8 DEF AttachKey
  <2> HIDE DEF row, answer
  <2>7. outcome' \in [Calls -> Answer \cup {None}]
    BY <1>a, <2>4, <2>5 DEF TypeOK, answer, row
  <2>8. drafts' \in [Calls -> [Comments -> Row \cup {None}]]
    <3>1. [drafts[c] EXCEPT ![Target(c)] = row] \in [Comments -> Row \cup {None}]
      BY <1>a, <2>2, <2>3 DEF TypeOK, row
    <3> QED BY <1>a, <2>6, <3>1 DEF TypeOK
  <2> QED BY <1>a, <1>8, <2>7, <2>8 DEF AttachKey, TypeOK, Places
<1>9. CASE ReadCurrent(c)
  <2>1. asked[c] \in Work /\ asked[c].method = "savePublishedReply"
    BY <1>a, <1>9 DEF ReadCurrent, Own, Located
  <2>2. Target(c) \in Comments /\ comments[Target(c)] \in Row
    BY <1>a, <1>9, <2>1, CallTypes DEF ReadCurrent, Own, Known, TypeOK, Target
  <2>3. Reply("existing", None, <<[comment |-> Target(c), row |-> comments[Target(c)]]>>)
          \in Answer
    BY <1>c, <2>2
  <2> QED BY <1>a, <1>9, <2>3 DEF ReadCurrent, TypeOK, Places
<1>10. CASE EmptyPage(c)
  BY <1>10, <1>a, <1>b DEF EmptyPage, TypeOK, Places
<1>11. CASE UpsertItem(c)
  <2> DEFINE x == NextItem(c).comment
             row == Upsert(comments[x], NextItem(c).content)
             found == Append(stored[c], [comment |-> x, row |-> row])
  <2>1. /\ asked[c] \in Work /\ asked[c].method = "saveMany" /\ asked[c].page \in Seq(Item)
        /\ Len(stored[c]) + 1 \in 1..Len(asked[c].page)
    BY <1>a, <1>11, CallTypes DEF UpsertItem, Own, Located, Drafted, TypeOK
  <2>2. x \in Comments /\ row \in Row
    BY <1>a, <2>1, ItemTypes, WriteTypes DEF NextItem, TypeOK
  <2>3. found \in Seq(Found)
    BY <1>a, <2>2, FoundType DEF TypeOK
  <2>4. Reply("stored", None, found) \in Answer
    BY <2>3, ReplyType
  <2> HIDE DEF found, row, x
  <2>5. stored' \in [Calls -> Seq(Found)]
    BY <1>11, <1>a, <1>b, <2>3 DEF UpsertItem, TypeOK, found, row, x
  <2>6. outcome' \in [Calls -> Answer \cup {None}]
    <3>1. outcome' = outcome \/ outcome' = [outcome EXCEPT ![c] = Reply("stored", None, found)]
      BY <1>11 DEF UpsertItem, found, row, x
    <3> QED BY <1>a, <2>4, <3>1 DEF TypeOK
  <2>7. drafts' \in [Calls -> [Comments -> Row \cup {None}]]
    BY <1>11, <1>a, <2>2 DEF UpsertItem, TypeOK, row, x
  <2> QED BY <1>a, <1>11, <2>5, <2>6, <2>7 DEF UpsertItem, TypeOK, Places
<1>12. CASE MarkPublished(c)
  <2>1. asked[c] \in Work /\ asked[c].method = "markPublished"
    BY <1>a, <1>12 DEF MarkPublished, Own, Located
  <2>2. /\ EntryFor(c) \in Entries /\ Target(c) \in Comments
        /\ operations[EntryFor(c)] \in Operation
    BY <1>a, <1>12, <2>1, CallTypes DEF MarkPublished, Own, Known, TypeOK, EntryFor, Target
  <2>3. Settled(operations[EntryFor(c)], "published", Target(c)) \in Operation
    BY <2>2, WriteTypes DEF Statuses
  <2>4. operations' \in [Entries -> Operation \cup {None}]
    BY <1>12, <1>a, <2>3 DEF MarkPublished, TypeOK
  <2>5. outcome' = outcome \/ outcome' = [outcome EXCEPT ![c] = Reply("done", None, <<>>)]
    BY <1>12 DEF MarkPublished
  <2>6. outcome' \in [Calls -> Answer \cup {None}]
    BY <1>a, <1>b, <2>5 DEF TypeOK
  <2>7. at' \in [Calls -> Places]
    BY <1>a, <1>12 DEF MarkPublished, TypeOK, Places
  <2> QED BY <1>a, <1>12, <2>4, <2>6, <2>7 DEF MarkPublished, TypeOK
<1>13. CASE MarkFailed(c)
  <2>1. asked[c] \in Work /\ asked[c].method = "markFailed"
    BY <1>a, <1>13 DEF MarkFailed, Own, Located
  <2>2. /\ EntryFor(c) \in Entries /\ asked[c].status \in Statuses
        /\ operations[EntryFor(c)] \in Operation
    BY <1>a, <1>13, <2>1, CallTypes DEF MarkFailed, Own, Known, TypeOK, EntryFor, FailedStatuses
  <2>3. Settled(operations[EntryFor(c)], asked[c].status, None) \in Operation
    BY <2>2, WriteTypes
  <2>4. operations' \in [Entries -> Operation \cup {None}]
    BY <1>13, <1>a, <2>3 DEF MarkFailed, TypeOK
  <2>5. outcome' = outcome \/ outcome' = [outcome EXCEPT ![c] = Reply("done", None, <<>>)]
    BY <1>13 DEF MarkFailed
  <2>6. outcome' \in [Calls -> Answer \cup {None}]
    BY <1>a, <1>b, <2>5 DEF TypeOK
  <2>7. at' \in [Calls -> Places]
    BY <1>a, <1>13 DEF MarkFailed, TypeOK, Places
  <2> QED BY <1>a, <1>13, <2>4, <2>6, <2>7 DEF MarkFailed, TypeOK
<1>14. CASE CheckOperation(c)
  BY <1>14, <1>a, <1>b DEF CheckOperation, TypeOK, Places
<1>15. CASE MarkDeleted(c)
  <2>1. asked[c] \in Work /\ asked[c].method = "markDeleted"
    BY <1>a, <1>15 DEF MarkDeleted, Own, Located
  <2>2. Target(c) \in Comments /\ comments[Target(c)] \in Row
    BY <1>a, <1>15, <2>1, CallTypes DEF MarkDeleted, Own, Known, TypeOK, Target
  <2>3. comments' \in [Comments -> Row \cup {None}]
    BY <1>a, <1>15, <2>2, WriteTypes DEF MarkDeleted, TypeOK
  <2> QED BY <1>a, <1>b, <1>15, <2>3 DEF MarkDeleted, TypeOK, Places
<1>16. CASE Commit(c)
  <2>1. comments' \in [Comments -> Row \cup {None}]
    BY <1>a, <1>16 DEF Commit, TypeOK
  <2>2. operations' \in [Entries -> Operation \cup {None}]
    BY <1>a, <1>16 DEF Commit, TypeOK
  <2> QED BY <1>16, <1>a, <1>b, <2>1, <2>2 DEF Commit, TypeOK, Places
<1>17. CASE Return(c)
  BY <1>17, <1>a DEF Return, TypeOK, Places
<1>18. CASE RollBack(c)
  BY <1>18, <1>a, <1>b DEF RollBack, TypeOK, Places
<1> QED
  BY <1>1, <1>2, <1>3, <1>4, <1>5, <1>6, <1>7, <1>8, <1>9, <1>10, <1>11, <1>12, <1>13,
     <1>14, <1>15, <1>16, <1>17, <1>18 DEF Step, Statement, Disconnect, DeadlockVictim

-----------------------------------------------------------------------------
(* How a step of c may change the tables.  Operations are opened under the
   lock of their entry only, a published one is final, and markFailed cannot
   become possible.  Rows stay, keep their key, get one under the lock of its
   entry only, and change only while nobody else has drafted them. *)
OperationsGrow(c) ==
    \A e \in Entries :
        /\ operations[e] = None /\ operations'[e] # None => Holding(c) /\ e = EntryFor(c)
        /\ operations[e] # None =>
              /\ operations'[e] # None
              /\ operations[e].status = "published" => operations'[e] = operations[e]
              /\ \A s \in FailedStatuses : ~Replaceable(operations[e].status, s) =>
                                              ~Replaceable(operations'[e].status, s)

RowsGrow(c) ==
    \A x \in Comments :
        /\ comments[x] # None => comments'[x] # None
        /\ comments[x] # None /\ comments[x].key # None => comments'[x].key = comments[x].key
        /\ comments'[x] # None /\ comments'[x].key # None =>
              \/ comments[x] # None /\ comments[x].key = comments'[x].key
              \/ Holding(c) /\ <<AccountOf[x], comments'[x].key>> = EntryFor(c)
        /\ comments'[x] # comments[x] => RowIsFree(c, x)

LEMMA SettledGrows ==
    ASSUME NEW c \in Calls, NEW e \in Entries, TypeOK, operations[e] # None,
           NEW s \in Statuses, NEW x \in Comments \cup {None},
           operations[e].status # "published",
           s = "published" \/ Replaceable(operations[e].status, s),
           operations' = [operations EXCEPT ![e] = Settled(operations[e], s, x)]
    PROVE  OperationsGrow(c)
<1>1. operations \in [Entries -> Operation \cup {None}] /\ operations[e] \in Operation
  BY DEF TypeOK
<1>2. \A f \in Entries \ {e} : operations'[f] = operations[f]
  BY <1>1
<1>3. operations'[e] = Settled(operations[e], s, x) /\ operations'[e] # None
  BY <1>1, WriteTypes
<1>4. operations'[e].status = s /\ operations[e].status \in Statuses
  BY <1>1, <1>3 DEF Settled, Operation
<1>5. \A t \in FailedStatuses : ~Replaceable(operations[e].status, t) => ~Replaceable(s, t)
  BY <1>4 DEF Replaceable, Statuses, FailedStatuses
<1> QED BY <1>2, <1>3, <1>4, <1>5 DEF OperationsGrow

LEMMA StepOperations ==
    ASSUME IInv, NEW c \in Calls, Step(c)
    PROVE  OperationsGrow(c)
<1>a. TypeOK /\ Own(c) /\ (asked[c] # None => asked[c] \in Work)
  BY DEF IInv, TypeOK
<1>1. CASE MarkPublished(c)
  <2>1. asked[c] \in Work /\ asked[c].method = "markPublished"
    BY <1>a, <1>1 DEF MarkPublished, Own, Located
  <2>2. EntryFor(c) \in Entries /\ Target(c) \in Comments /\ operations[EntryFor(c)] # None
    BY <1>a, <1>1, <2>1, CallTypes DEF MarkPublished, Own, Known, EntryFor, Target
  <2>3. CASE operations[EntryFor(c)].status # "published"
    BY <1>a, <1>1, <2>2, <2>3, SettledGrows DEF MarkPublished, Statuses
  <2>4. CASE operations[EntryFor(c)].status = "published"
    BY <1>1, <2>4 DEF MarkPublished, OperationsGrow
  <2> QED BY <2>3, <2>4
<1>2. CASE MarkFailed(c)
  <2>1. asked[c] \in Work /\ asked[c].method = "markFailed"
    BY <1>a, <1>2 DEF MarkFailed, Own, Located
  <2>2. /\ EntryFor(c) \in Entries /\ operations[EntryFor(c)] # None
        /\ asked[c].status \in Statuses
    BY <1>a, <1>2, <2>1, CallTypes DEF MarkFailed, Own, Known, EntryFor, FailedStatuses
  <2>3. CASE Replaceable(operations[EntryFor(c)].status, asked[c].status)
    <3>1. operations[EntryFor(c)].status # "published"
      BY <2>3 DEF Replaceable
    <3> QED BY <1>a, <1>2, <2>2, <2>3, <3>1, SettledGrows DEF MarkFailed
  <2>4. CASE ~Replaceable(operations[EntryFor(c)].status, asked[c].status)
    BY <1>2, <2>4 DEF MarkFailed, OperationsGrow
  <2> QED BY <2>3, <2>4
<1>3. CASE Commit(c)
  <2>1. CASE opened[c] = None
    BY <1>3, <2>1 DEF Commit, OperationsGrow
  <2>2. CASE opened[c] # None
    <3>1. Opening(c) /\ operations[EntryFor(c)] = None
      BY <1>a, <2>2 DEF Own, Kept, Known
    <3>2. Holding(c)
      BY <1>a, <3>1 DEF Opening, Holding, Locking, Own, Located
    <3>3. \A e \in Entries \ {EntryFor(c)} : operations'[e] = operations[e]
      BY <1>a, <1>3, <2>2 DEF Commit, TypeOK
    <3> QED BY <3>1, <3>2, <3>3 DEF OperationsGrow
  <2> QED BY <2>1, <2>2
<1>4. CASE UNCHANGED operations
  BY <1>4 DEF OperationsGrow
<1> QED
  BY <1>1, <1>2, <1>3, <1>4
     DEF Step, Statement, Disconnect, DeadlockVictim, RollBack, Ask, TakeLock, ReadOperation,
         ReadComment, InsertOperation, ReadClaimed, InsertReply, AttachKey, ReadCurrent,
         EmptyPage, UpsertItem, CheckOperation, MarkDeleted, Return, tables

(* What a transaction may have drafted for row x when it commits. *)
LEMMA DraftOnRow ==
    ASSUME IInv, NEW c \in Calls, at[c] = "commit", NEW x \in Comments, drafts[c][x] # None
    PROVE  /\ comments[x] # None /\ comments[x].key # None => drafts[c][x].key = comments[x].key
           /\ drafts[c][x].key # None =>
                 \/ comments[x] # None /\ comments[x].key = drafts[c][x].key
                 \/ Holding(c) /\ <<AccountOf[x], drafts[c][x].key>> = EntryFor(c)
<1>a. TypeOK /\ Own(c) /\ asked[c] # None /\ drafts[c] # NoDrafts
  BY DEF IInv, Own, Located, NoDrafts
<1>1. CASE asked[c].method = "saveMany"
  <2>1. drafts[c][x] = PageRow(c, x)
    BY <1>a, <1>1 DEF Own, Drafted, PageDrafts
  <2> QED BY <2>1 DEF PageRow, Upsert
<1>2. CASE asked[c].method = "savePublishedReply"
  <2>1. Target(c) \in Comments
    BY <1>a, <1>2, CallTypes DEF TypeOK, Target
  <2>2. PICK kind, row :
          /\ ReplyDraft(c, kind, row) /\ row.key = asked[c].key
          /\ comments[Target(c)] = None \/ comments[Target(c)].key = None
    BY <1>a, <1>2 DEF Own, Drafted, NewReply, Attached
  <2>3. drafts[c] = [NoDrafts EXCEPT ![Target(c)] = row]
    BY <2>2 DEF ReplyDraft
  <2>4. x = Target(c) /\ drafts[c][x] = row
    BY <2>1, <2>3 DEF NoDrafts
  <2>5. Holding(c) /\ EntryFor(c) = <<AccountOf[x], row.key>>
    BY <1>a, <1>2, <2>2, <2>4 DEF Holding, Locking, EntryFor, EntryOf, Target
  <2> QED BY <2>2, <2>4, <2>5
<1> QED BY <1>a, <1>1, <1>2 DEF Own, Drafted

LEMMA StepRows ==
    ASSUME IInv, NEW c \in Calls, Step(c)
    PROVE  RowsGrow(c)
<1>a. TypeOK /\ Own(c) /\ (asked[c] # None => asked[c] \in Work)
  BY DEF IInv, TypeOK
<1>1. CASE Commit(c)
  <2> SUFFICES ASSUME NEW x \in Comments
               PROVE  /\ comments[x] # None => comments'[x] # None
                      /\ comments[x] # None /\ comments[x].key # None
                            => comments'[x].key = comments[x].key
                      /\ comments'[x] # None /\ comments'[x].key # None =>
                            \/ comments[x] # None /\ comments[x].key = comments'[x].key
                            \/ Holding(c) /\ <<AccountOf[x], comments'[x].key>> = EntryFor(c)
                      /\ comments'[x] # comments[x] => RowIsFree(c, x)
    BY DEF RowsGrow
  <2>1. CASE drafts[c][x] = None
    <3>1. comments'[x] = comments[x]
      BY <1>1, <2>1 DEF Commit
    <3> QED BY <3>1
  <2>2. CASE drafts[c][x] # None
    <3>1. comments'[x] = drafts[c][x] /\ at[c] = "commit"
      BY <1>1, <2>2 DEF Commit
    <3>2. RowIsFree(c, x)
      BY <2>2 DEF IInv, DraftsExclude, RowIsFree
    <3> QED BY <2>2, <3>1, <3>2, DraftOnRow
  <2> QED BY <2>1, <2>2
<1>2. CASE MarkDeleted(c)
  <2>1. asked[c] \in Work /\ asked[c].method = "markDeleted"
    BY <1>a, <1>2 DEF MarkDeleted, Own, Located
  <2>2. Target(c) \in Comments /\ comments[Target(c)] \in Row
    BY <1>a, <1>2, <2>1, CallTypes DEF MarkDeleted, Own, Known, TypeOK, Target
  <2>3. /\ comments'[Target(c)] = Deleted(comments[Target(c)])
        /\ \A x \in Comments \ {Target(c)} : comments'[x] = comments[x]
    BY <1>a, <1>2, <2>2 DEF MarkDeleted, TypeOK
  <2>4. Deleted(comments[Target(c)]).key = comments[Target(c)].key
    BY DEF Deleted
  <2>5. Deleted(comments[Target(c)]) # None
    BY <2>2, WriteTypes
  <2>6. /\ comments[Target(c)] # None
        /\ comments'[Target(c)] # comments[Target(c)] => RowIsFree(c, Target(c))
    BY <1>2, <2>2, <2>3, WriteTypes DEF MarkDeleted, Deleted
  <2> QED BY <2>3, <2>4, <2>5, <2>6 DEF RowsGrow
<1>3. CASE UNCHANGED comments
  BY <1>3 DEF RowsGrow
<1> QED
  BY <1>1, <1>2, <1>3
     DEF Step, Statement, Disconnect, DeadlockVictim, RollBack, Ask, TakeLock, ReadOperation,
         ReadComment, InsertOperation, ReadClaimed, InsertReply, AttachKey, ReadCurrent,
         EmptyPage, UpsertItem, CheckOperation, MarkPublished, MarkFailed, Return, tables

-----------------------------------------------------------------------------
(* What the other calls know survives a step of c. *)
LEMMA OthersKeep ==
    ASSUME IInv, NEW c \in Calls, Frame(c), OperationsGrow(c), RowsGrow(c),
           NEW d \in Calls \ {c}
    PROVE  Own(d)'
<1>a. /\ TypeOK /\ Own(d) /\ (asked[d] # None => asked[d] \in Work)
      /\ Holding(c) /\ Holding(d) => EntryFor(c) # EntryFor(d)
  BY DEF IInv, TypeOK, LocksExclude
<1>b. /\ asked'[d] = asked[d] /\ at'[d] = at[d] /\ lock'[d] = lock[d]
      /\ opened'[d] = opened[d] /\ drafts'[d] = drafts[d] /\ seen'[d] = seen[d]
      /\ stored'[d] = stored[d] /\ outcome'[d] = outcome[d]
  BY DEF Frame
<1>c. /\ EntryFor(d)' = EntryFor(d) /\ Target(d)' = Target(d)
      /\ Holding(d)' <=> Holding(d)
  BY <1>b DEF EntryFor, Target, Holding
<1>1. Located(d)'
  BY <1>a, <1>b DEF Own, Located
<1>2. Kept(d)'
  BY <1>a, <1>b, <1>c DEF Own, Kept, Opening
<1>3. \A x \in Comments : drafts[d][x] # None => comments'[x] = comments[x]
  BY DEF RowsGrow, RowIsFree
<1>4. Holding(d) /\ EntryFor(d) \in Entries /\ StoredUnder(EntryFor(d)) = {}
        => StoredUnder(EntryFor(d))' = {}
  <2> SUFFICES ASSUME Holding(d), EntryFor(d) \in Entries, StoredUnder(EntryFor(d)) = {},
                      NEW x \in Comments, AccountOf[x] = EntryFor(d)[1],
                      comments'[x] # None, comments'[x].key = EntryFor(d)[2]
               PROVE  FALSE
    BY <1>c DEF StoredUnder
  <2>1. comments'[x].key # None /\ <<AccountOf[x], comments'[x].key>> = EntryFor(d)
    BY WriteTypes DEF Entries
  <2>2. ~(comments[x] # None /\ comments[x].key = comments'[x].key)
    BY DEF StoredUnder
  <2> QED BY <1>a, <2>1, <2>2 DEF RowsGrow
<1>5. ASSUME asked[d] # None, asked[d].method = "saveMany",
             NEW n \in Nat, n <= Len(asked[d].page), PageDrafts(d, n)
      PROVE  PageDrafts(d, n)' /\ PageFound(d, n)' = PageFound(d, n)
  <2>0. asked[d] \in Work /\ Len(asked[d].page) \in Nat
    BY <1>a, <1>5, CallTypes
  <2>1. ASSUME NEW i \in 1..n
        PROVE  PageRow(d, asked[d].page[i].comment)' = PageRow(d, asked[d].page[i].comment)
    <3>1. i \in 1..Len(asked[d].page)
      BY <1>5, <2>0
    <3>2. asked[d].page[i].comment \in Comments
      BY <1>5, <2>0, <3>1, ItemTypes
    <3>3. PageRow(d, asked[d].page[i].comment) \in Row
      BY <1>a, <1>5, <2>0, <3>1, <3>2, ItemTypes, WriteTypes DEF PageRow, TypeOK
    <3>4. drafts[d][asked[d].page[i].comment] # None
      BY <1>5, <3>2, <3>3, WriteTypes DEF PageDrafts
    <3>5. comments'[asked[d].page[i].comment] = comments[asked[d].page[i].comment]
      BY <1>3, <3>2, <3>4
    <3> QED BY <1>b, <3>5 DEF PageRow
  <2>2. PageDrafts(d, n)'
    BY <1>5, <1>b, <2>1 DEF PageDrafts
  <2>3. PageFound(d, n)' = PageFound(d, n)
    BY <1>b, <2>1 DEF PageFound
  <2> QED BY <2>2, <2>3
<1>6. Drafted(d)'
  <2>1. drafts'[d] # NoDrafts =>
          /\ at'[d] \in {"upsert", "commit"}
          /\ asked'[d].method \in {"saveMany", "savePublishedReply"}
    BY <1>a, <1>b DEF Own, Drafted
  <2>2. ASSUME at[d] = "upsert"
        PROVE  /\ Len(stored[d]) < Len(asked[d].page) \/ asked[d].page = <<>>
               /\ Len(stored[d]) <= Len(asked[d].page)
               /\ stored[d] = PageFound(d, Len(stored[d]))'
               /\ PageDrafts(d, Len(stored[d]))'
    <3>1. asked[d] # None /\ asked[d].method = "saveMany" /\ Len(stored[d]) \in Nat
      BY <1>a, <2>2 DEF Own, Located, TypeOK
    <3>2. /\ Len(stored[d]) < Len(asked[d].page) \/ asked[d].page = <<>>
          /\ Len(stored[d]) <= Len(asked[d].page)
          /\ stored[d] = PageFound(d, Len(stored[d]))
          /\ PageDrafts(d, Len(stored[d]))
      BY <1>a, <2>2 DEF Own, Drafted
    <3>3. \A n \in Nat : n = Len(stored[d]) => PageDrafts(d, n)' /\ PageFound(d, n)' = PageFound(d, n)
      BY <1>5, <3>1, <3>2
    <3> QED BY <1>b, <3>1, <3>2, <3>3 DEF PageDrafts, PageFound
  <2>3. ASSUME at[d] = "commit", asked[d].method = "saveMany"
        PROVE  /\ asked[d].page # <<>>
               /\ outcome[d] = Reply("stored", None, PageFound(d, Len(asked[d].page))')
               /\ PageDrafts(d, Len(asked[d].page))'
    <3>1. asked[d] # None /\ Len(asked[d].page) \in Nat
      BY <1>a, <2>3, CallTypes DEF Own, Located
    <3>2. /\ asked[d].page # <<>>
          /\ outcome[d] = Reply("stored", None, PageFound(d, Len(asked[d].page)))
          /\ PageDrafts(d, Len(asked[d].page))
      BY <1>a, <2>3 DEF Own, Drafted
    <3>3. \A n \in Nat : n = Len(asked[d].page)
             => PageDrafts(d, n)' /\ PageFound(d, n)' = PageFound(d, n)
      BY <1>5, <2>3, <3>1, <3>2
    <3>4. PageDrafts(d, Len(asked[d].page))'
      BY <1>b, <3>1, <3>3 DEF PageDrafts
    <3>5. PageFound(d, Len(asked[d].page))' = PageFound(d, Len(asked[d].page))
      BY <1>b, <3>1, <3>3 DEF PageFound
    <3> QED BY <3>2, <3>4, <3>5
  <2>4. ASSUME at[d] = "commit", asked[d].method = "savePublishedReply", drafts[d] # NoDrafts
        PROVE  /\ StoredUnder(EntryFor(d))' = {}
               /\ comments'[Target(d)] = comments[Target(d)]
    <3>1. asked[d] \in Work /\ Holding(d)
      BY <1>a, <2>4 DEF Own, Located, Holding, Locking
    <3>2. EntryFor(d) \in Entries /\ Target(d) \in Comments
      BY <2>4, <3>1, CallTypes DEF EntryFor, Target
    <3>3. StoredUnder(EntryFor(d)) = {}
      BY <1>a, <2>4 DEF Own, Drafted
    <3>4. PICK kind, row : ReplyDraft(d, kind, row)
      BY <1>a, <2>4 DEF Own, Drafted
    <3>5. \A x \in Comments \ {Target(d)} : drafts[d][x] = None
      BY <3>2, <3>4 DEF ReplyDraft, NoDrafts
    <3>6. drafts[d][Target(d)] # None
      BY <1>a, <2>4, <3>5 DEF NoDrafts, TypeOK
    <3> QED BY <1>3, <1>4, <3>1, <3>2, <3>3, <3>6
  <2> QED
    BY <1>a, <1>b, <1>c, <2>1, <2>2, <2>3, <2>4 DEF Own, Drafted, ReplyDraft
<1>7. Known(d)'
  <2>1. EntryFor(d) \in Entries \/ asked[d] = None \/ asked[d].method \in {"saveMany", "markDeleted"}
    BY <1>a, CallTypes DEF EntryFor
  <2>2. ASSUME seen[d] # None
        PROVE  operations'[EntryFor(d)] = seen[d]
    <3>1. EntryFor(d) \in Entries /\ operations[EntryFor(d)] = seen[d]
          /\ seen[d].status = "published"
      BY <1>a, <2>1, <2>2 DEF Own, Kept, Known, Located
    <3> QED BY <2>2, <3>1 DEF OperationsGrow
  <2>3. ASSUME at[d] = "insertOperation" \/ opened[d] # None
        PROVE  operations'[EntryFor(d)] = None
    <3>1. Holding(d) /\ EntryFor(d) \in Entries /\ operations[EntryFor(d)] = None
      BY <1>a, <2>1, <2>3 DEF Own, Kept, Known, Located, Opening, Holding, Locking
    <3> QED BY <1>a, <3>1 DEF OperationsGrow
  <2>4. ASSUME at[d] \in {"update", "check"}, asked[d].method \in {"markPublished", "markFailed"}
        PROVE  /\ operations'[EntryFor(d)] # None
               /\ at[d] = "check" /\ asked[d].method = "markPublished"
                    => operations'[EntryFor(d)].status = "published"
               /\ at[d] = "check" /\ asked[d].method = "markFailed"
                    => ~Replaceable(operations'[EntryFor(d)].status, asked[d].status)
    <3>1. asked[d] \in Work /\ EntryFor(d) \in Entries
      BY <1>a, <2>1, <2>4 DEF Own, Located
    <3>2. asked[d].method = "markFailed" => asked[d].status \in FailedStatuses
      BY <3>1, CallTypes
    <3> QED BY <1>a, <2>4, <3>1, <3>2 DEF Own, Known, OperationsGrow
  <2>5. ASSUME \/ at[d] \in {"update", "check"} /\ asked[d].method \in {"markPublished", "markDeleted"}
               \/ at[d] \in {"attachKey", "current"}
        PROVE  /\ comments'[Target(d)] # None
               /\ at[d] = "current" => comments'[Target(d)].key # None
    <3>1. Target(d) \in Comments
      BY <1>a, <2>5, CallTypes DEF Own, Located, Target
    <3> QED BY <1>a, <2>5, <3>1 DEF Own, Known, RowsGrow
  <2>6. ASSUME at[d] \in {"insertReply", "attachKey", "current"}
        PROVE  StoredUnder(EntryFor(d))' = {}
    <3>1. Holding(d) /\ EntryFor(d) \in Entries /\ StoredUnder(EntryFor(d)) = {}
      BY <1>a, <2>1, <2>6 DEF Own, Known, Located, Holding, Locking
    <3> QED BY <1>4, <3>1
  <2> QED
    BY <1>a, <1>b, <1>c, <2>2, <2>3, <2>4, <2>5, <2>6 DEF Own, Known
<1> QED BY <1>1, <1>2, <1>6, <1>7 DEF Own

-----------------------------------------------------------------------------
(* What c knows after its own step. *)
LEMMA OwnStep ==
    ASSUME IInv, NEW c \in Calls, Step(c)
    PROVE  Own(c)'
<1> USE DEF Goto, Resolve, Draft, EndTransaction, ReleaseLock, transaction, memory, tables,
            EntryFor, Target
<1>a. TypeOK /\ Own(c) /\ (asked[c] # None => asked[c] \in Work)
  BY DEF IInv, TypeOK
<1>b. \A kind, op, found : Reply(kind, op, found).kind = kind
  BY DEF Reply
<1>c. \A kind \in {"started", "existing", "conflict", "missing", "created", "stored",
                   "done", "thrown", "rejected"},
         op \in Operation \cup {None}, found \in Seq(Found) : Reply(kind, op, found) # None
  BY ReplyType, WriteTypes
<1>1. CASE Ask(c)
  <2>1. PICK w \in Work : Askable(w) /\ asked' = [asked EXCEPT ![c] = w]
                          /\ at' = [at EXCEPT ![c] = FirstStatement(w)]
    BY <1>1 DEF Ask
  <2>2. /\ asked'[c] = w /\ at'[c] = FirstStatement(w) /\ at[c] = "idle" /\ w # None
        /\ w.method \in {"begin", "findExisting", "savePublishedReply", "markPublished",
                         "markFailed", "saveMany", "markDeleted"}
    BY <1>a, <1>1, <2>1, CallTypes DEF Ask, TypeOK
  <2>3. Located(c)'
    BY <2>2 DEF FirstStatement, Located, Locking
  <2>7. /\ lock[c] = None /\ opened[c] = None /\ seen[c] = None /\ outcome[c] = None
        /\ stored[c] = <<>>
    BY <1>a, <2>2 DEF Own, Kept, Opening, Holding
  <2>8. FirstStatement(w) \in {"lock", "readOperation", "upsert", "update"}
    BY <2>2 DEF FirstStatement
  <2>9. Holding(c)' => w.method = "begin" /\ FirstStatement(w) = "readOperation"
    BY <2>2, <2>8 DEF Holding, FirstStatement, Locking
  <2>4. Kept(c)'
    BY <1>1, <2>2, <2>7, <2>8, <2>9 DEF Ask, FirstStatement, Kept, Opening
  <2>5. Drafted(c)'
    <3>1. stored'[c] = <<>> /\ drafts'[c] = NoDrafts
      BY <1>a, <1>1, <2>2 DEF Ask, Own, Kept, Drafted
    <3>2. w.method = "saveMany" => Len(w.page) \in Nat /\ (w.page = <<>> \/ 0 < Len(w.page))
      BY CallTypes
    <3>3. PageDrafts(c, 0)' /\ PageFound(c, 0)' = <<>>
      BY <3>1 DEF PageDrafts, PageFound, NoDrafts
    <3> QED BY <2>2, <3>1, <3>2, <3>3 DEF FirstStatement, Drafted
  <2>6. Known(c)'
    <3>1. seen'[c] = None /\ opened'[c] = None /\ operations' = operations /\ comments' = comments
      BY <1>1, <2>7 DEF Ask
    <3> QED BY <2>1, <2>2, <2>8, <3>1 DEF Known, Askable, EntryOf, FirstStatement
  <2> QED BY <2>3, <2>4, <2>5, <2>6 DEF Own
<1>2. CASE TakeLock(c)
  <2>1. /\ at[c] = "lock" /\ asked'[c] = asked[c] /\ lock'[c] = EntryFor(c)
        /\ at'[c] = IF asked[c].method = "begin" THEN "readOperation" ELSE "claimed"
    BY <1>a, <1>2 DEF TakeLock, TypeOK
  <2>2. Located(c)'
    BY <1>a, <2>1 DEF Own, Located, Locking
  <2>3. Kept(c)'
    BY <1>a, <1>2, <2>1 DEF TakeLock, Own, Located, Kept, Opening, Holding
  <2>4. Drafted(c)'
    BY <1>a, <1>2, <2>1 DEF TakeLock, Own, Drafted
  <2>5. Known(c)'
    BY <1>a, <1>2, <2>1 DEF TakeLock, Own, Known, Kept
  <2> QED BY <2>2, <2>3, <2>4, <2>5 DEF Own
<1>3. CASE ReadOperation(c)
  <2> DEFINE op == operations[EntryFor(c)]
  <2>1. /\ at[c] = "readOperation" /\ asked'[c] = asked[c] /\ EntryFor(c) \in Entries
        /\ asked[c] # None /\ asked[c].method \in {"begin", "findExisting"}
    BY <1>a, <1>3, CallTypes DEF ReadOperation, Own, Located
  <2>2. op # None => op \in Operation /\ (op.status = "published" <=> op.comment # None)
    BY <1>a, <2>1 DEF TypeOK, IInv, OperationsOK
  <2>3. \/ /\ op = None /\ asked[c].method = "begin" /\ at'[c] = "insertOperation"
           /\ seen'[c] = seen[c] /\ outcome'[c] = outcome[c]
        \/ /\ at'[c] = IF asked[c].method = "begin" THEN "commit" ELSE "resolved"
           /\ seen'[c] = seen[c] /\ outcome'[c] # None /\ outcome'[c].kind # "started"
        \/ /\ op # None /\ op.comment # None /\ at'[c] = "readComment"
           /\ seen'[c] = op /\ outcome'[c] = outcome[c]
    <3>1. Reply("missing", None, <<>>) # None /\ Reply("conflict", None, <<>>) # None
          /\ (op # None => Reply("existing", op, <<>>) # None)
      BY <1>c, <2>2, FoundType
    <3> QED BY <1>a, <1>b, <1>3, <3>1 DEF ReadOperation, Judge, Finish, TypeOK
  <2>4. Located(c)'
    BY <1>a, <2>1, <2>3 DEF Own, Located, Locking
  <2>5. Kept(c)'
    BY <1>a, <1>3, <2>1, <2>3 DEF ReadOperation, Own, Kept, Opening, Holding, Locking
  <2>6. Drafted(c)'
    BY <1>a, <1>3, <2>1, <2>3 DEF ReadOperation, Own, Drafted
  <2>7. Known(c)'
    BY <1>a, <1>3, <2>1, <2>2, <2>3 DEF ReadOperation, Own, Kept, Known, Opening
  <2> QED BY <2>4, <2>5, <2>6, <2>7 DEF Own
<1>4. CASE ReadComment(c)
  <2> DEFINE op == seen[c]
             x == seen[c].comment
  <2>1. /\ at[c] = "readComment" /\ asked'[c] = asked[c]
        /\ asked[c] # None /\ asked[c].method \in {"begin", "findExisting"}
        /\ at'[c] = IF asked[c].method = "begin" THEN "commit" ELSE "resolved"
        /\ seen'[c] = None
    BY <1>a, <1>4 DEF ReadComment, Finish, Own, Located, TypeOK
  <2>2. op \in Operation /\ x \in Comments /\ EntryFor(c) \in Entries /\ operations[EntryFor(c)] = op
    BY <1>a, <2>1, CallTypes DEF Own, Kept, Known, TypeOK, Operation
  <2>3. comments[x] \in Row
    BY <1>a, <2>2, WriteTypes DEF IInv, OperationsOK, TypeOK
  <2>4. <<[comment |-> x, row |-> comments[x]]>> \in Seq(Found)
    BY <2>2, <2>3, FoundType
  <2>5. outcome'[c] # None /\ outcome'[c].kind # "started"
    <3>1. /\ Reply("existing", op, <<[comment |-> x, row |-> comments[x]]>>) # None
          /\ Reply("conflict", None, <<>>) # None
      BY <1>c, <2>2, <2>4, FoundType
    <3> QED BY <1>a, <1>b, <1>4, <3>1 DEF ReadComment, Judge, TypeOK
  <2>6. Located(c)'
    BY <1>a, <2>1 DEF Own, Located, Locking
  <2>7. Kept(c)'
    BY <1>a, <1>4, <2>1, <2>5 DEF ReadComment, Own, Kept, Opening, Holding, Locking
  <2>8. Drafted(c)'
    BY <1>a, <1>4, <2>1 DEF ReadComment, Own, Drafted
  <2>9. Known(c)'
    BY <1>a, <1>4, <2>1 DEF ReadComment, Own, Kept, Known, Opening
  <2> QED BY <2>6, <2>7, <2>8, <2>9 DEF Own
<1>5. CASE InsertOperation(c)
  <2>1. /\ at[c] = "insertOperation" /\ asked'[c] = asked[c] /\ at'[c] = "commit"
        /\ asked[c] # None /\ asked[c].method = "begin"
        /\ outcome'[c] = Reply("started", None, <<>>) /\ outcome'[c] # None
        /\ opened'[c] = [status |-> "pending", claim |-> asked[c].claim, comment |-> None]
    BY <1>a, <1>c, <1>5, FoundType DEF InsertOperation, Own, Located, TypeOK
  <2>2. Located(c)'
    BY <1>a, <2>1 DEF Own, Located, Locking
  <2>3. Kept(c)'
    BY <1>a, <1>b, <1>5, <2>1 DEF InsertOperation, Own, Kept, Opening, Holding, Locking
  <2>4. Drafted(c)'
    BY <1>a, <1>5, <2>1 DEF InsertOperation, Own, Drafted
  <2>5. Known(c)'
    BY <1>a, <1>5, <2>1 DEF InsertOperation, Own, Kept, Known
  <2> QED BY <2>2, <2>3, <2>4, <2>5 DEF Own
<1>6. CASE ReadClaimed(c)
  <2>1. /\ at[c] = "claimed" /\ asked'[c] = asked[c]
        /\ asked[c] # None /\ asked[c].method = "savePublishedReply"
        /\ drafts[c] = NoDrafts
    BY <1>a, <1>6 DEF ReadClaimed, Own, Located, Drafted
  <2>2. \/ at'[c] = "commit" /\ outcome'[c] # None
        \/ /\ at'[c] = "insertReply" /\ outcome'[c] = outcome[c]
           /\ StoredUnder(EntryFor(c)) = {}
    <3>1. \A x \in StoredUnder(EntryFor(c)) :
            Reply("existing", None, <<[comment |-> x, row |-> comments[x]]>>) # None
      BY <1>a, <1>c, FoundType DEF StoredUnder, TypeOK
    <3> QED BY <1>a, <1>6, <3>1 DEF ReadClaimed, TypeOK
  <2>3. Located(c)'
    BY <1>a, <2>1, <2>2 DEF Own, Located, Locking
  <2>4. Kept(c)'
    BY <1>a, <1>6, <2>1, <2>2 DEF ReadClaimed, Own, Kept, Opening, Holding, Locking
  <2>5. Drafted(c)'
    BY <1>a, <1>6, <2>1, <2>2 DEF ReadClaimed, Drafted
  <2>6. Known(c)'
    BY <1>a, <1>6, <2>1, <2>2 DEF ReadClaimed, Own, Kept, Known, Opening, StoredUnder
  <2> QED BY <2>3, <2>4, <2>5, <2>6 DEF Own
<1>7. CASE InsertReply(c)
  <2> DEFINE x == Target(c)
             row == NewReply(asked[c].key, asked[c].content)
  <2>1. /\ at[c] = "insertReply" /\ asked'[c] = asked[c]
        /\ asked[c] # None /\ asked[c].method = "savePublishedReply"
        /\ drafts[c] = NoDrafts /\ x \in Comments /\ row \in Row
        /\ StoredUnder(EntryFor(c)) = {}
    BY <1>a, <1>7, CallTypes, WriteTypes DEF InsertReply, Own, Located, Drafted, Known
  <2>2. \/ /\ comments[x] # None /\ at'[c] = "attachKey"
           /\ drafts'[c] = drafts[c] /\ outcome'[c] = outcome[c]
        \/ /\ comments[x] = None /\ at'[c] = "commit" /\ outcome'[c] # None
           /\ drafts'[c] = [NoDrafts EXCEPT ![x] = row]
           /\ outcome'[c] = Reply("created", None, <<[comment |-> x, row |-> row]>>)
    <3>1. Reply("created", None, <<[comment |-> x, row |-> row]>>) # None
      BY <1>c, <2>1, FoundType
    <3> QED BY <1>a, <1>7, <2>1, <3>1 DEF InsertReply, TypeOK
  <2>3. Located(c)'
    BY <1>a, <2>1, <2>2 DEF Own, Located, Locking
  <2>4. Kept(c)'
    BY <1>a, <1>7, <2>1, <2>2 DEF InsertReply, Own, Kept, Opening, Holding, Locking
  <2>5. Drafted(c)'
    BY <1>a, <1>7, <2>1, <2>2 DEF InsertReply, Drafted, ReplyDraft, StoredUnder
  <2>6. Known(c)'
    BY <1>a, <1>7, <2>1, <2>2 DEF InsertReply, Own, Kept, Known, Opening, StoredUnder
  <2> QED BY <2>3, <2>4, <2>5, <2>6 DEF Own
<1>8. CASE AttachKey(c)
  <2> DEFINE x == Target(c)
             row == Attached(comments[x], asked[c].key)
  <2>1. /\ at[c] = "attachKey" /\ asked'[c] = asked[c]
        /\ asked[c] # None /\ asked[c].method = "savePublishedReply"
        /\ drafts[c] = NoDrafts /\ x \in Comments /\ comments[x] # None
        /\ StoredUnder(EntryFor(c)) = {}
    BY <1>a, <1>8, CallTypes DEF AttachKey, Own, Located, Drafted, Known
  <2>2. row \in Row
    BY <1>a, <2>1, CallTypes, WriteTypes DEF TypeOK
  <2>3. \/ /\ comments[x].key # None /\ at'[c] = "current"
           /\ drafts'[c] = drafts[c] /\ outcome'[c] = outcome[c]
        \/ /\ comments[x].key = None /\ at'[c] = "commit" /\ outcome'[c] # None
           /\ drafts'[c] = [NoDrafts EXCEPT ![x] = row]
           /\ outcome'[c] = Reply("existing", None, <<[comment |-> x, row |-> row]>>)
    <3>1. Reply("existing", None, <<[comment |-> x, row |-> row]>>) # None
      BY <1>c, <2>1, <2>2, FoundType
    <3> QED BY <1>a, <1>8, <2>1, <3>1 DEF AttachKey, Attachable, TypeOK
  <2>4. Located(c)'
    BY <1>a, <2>1, <2>3 DEF Own, Located, Locking
  <2>5. Kept(c)'
    BY <1>a, <1>8, <2>1, <2>3 DEF AttachKey, Own, Kept, Opening, Holding, Locking
  <2>6. Drafted(c)'
    BY <1>a, <1>8, <2>1, <2>3 DEF AttachKey, Drafted, ReplyDraft, StoredUnder
  <2>7. Known(c)'
    BY <1>a, <1>8, <2>1, <2>3 DEF AttachKey, Own, Kept, Known, Opening, StoredUnder
  <2> QED BY <2>4, <2>5, <2>6, <2>7 DEF Own
<1>9. CASE ReadCurrent(c)
  <2>1. /\ at[c] = "current" /\ asked'[c] = asked[c] /\ at'[c] = "commit"
        /\ asked[c] # None /\ asked[c].method = "savePublishedReply"
        /\ drafts[c] = NoDrafts /\ Target(c) \in Comments /\ comments[Target(c)] \in Row
    BY <1>a, <1>9, CallTypes DEF ReadCurrent, Own, Located, Drafted, Known, TypeOK
  <2>2. outcome'[c] # None
    <3>1. Reply("existing", None, <<[comment |-> Target(c), row |-> comments[Target(c)]]>>) # None
      BY <1>c, <2>1, FoundType
    <3> QED BY <1>a, <1>9, <3>1 DEF ReadCurrent, TypeOK
  <2>3. Located(c)'
    BY <1>a, <2>1 DEF Own, Located, Locking
  <2>4. Kept(c)'
    BY <1>a, <1>9, <2>1, <2>2 DEF ReadCurrent, Own, Kept, Opening, Holding, Locking
  <2>5. Drafted(c)'
    BY <1>9, <2>1 DEF ReadCurrent, Drafted
  <2>6. Known(c)'
    BY <1>a, <1>9, <2>1 DEF ReadCurrent, Own, Kept, Known, Opening
  <2> QED BY <2>3, <2>4, <2>5, <2>6 DEF Own
<1>10. CASE EmptyPage(c)
  <2>1. /\ at[c] = "upsert" /\ asked'[c] = asked[c] /\ at'[c] = "resolved"
        /\ asked[c] # None /\ asked[c].method = "saveMany" /\ asked[c].page = <<>>
        /\ outcome'[c] # None
    BY <1>a, <1>c, <1>10, FoundType DEF EmptyPage, Own, Located, TypeOK
  <2>2. stored[c] = <<>> /\ drafts[c] = NoDrafts
    <3>1. /\ Len(stored[c]) <= 0 /\ PageDrafts(c, Len(stored[c]))
          /\ stored[c] \in Seq(Found)
      BY <1>a, <2>1 DEF Own, Drafted, TypeOK
    <3>2. Len(stored[c]) = 0 /\ stored[c] = <<>>
      BY <3>1
    <3> QED BY <1>a, <3>1, <3>2 DEF PageDrafts, NoDrafts, TypeOK
  <2>3. Located(c)'
    BY <1>a, <2>1 DEF Own, Located
  <2>4. Kept(c)'
    BY <1>a, <1>10, <2>1, <2>2 DEF EmptyPage, Own, Kept, Opening, Holding, Locking
  <2>5. Drafted(c)'
    BY <1>10, <2>1, <2>2 DEF EmptyPage, Drafted
  <2>6. Known(c)'
    BY <1>a, <1>10, <2>1 DEF EmptyPage, Own, Kept, Known, Opening
  <2> QED BY <2>3, <2>4, <2>5, <2>6 DEF Own
<1>11. CASE UpsertItem(c)
  <2> DEFINE x == NextItem(c).comment
             row == Upsert(comments[x], NextItem(c).content)
             found == Append(stored[c], [comment |-> x, row |-> row])
  <2>0. PICK n \in Nat : n = Len(stored[c])
    BY <1>a DEF TypeOK
  <2>1. /\ at[c] = "upsert" /\ asked'[c] = asked[c] /\ asked[c] \in Work /\ asked[c] # None
        /\ asked[c].method = "saveMany" /\ asked[c].page \in Seq(Item)
        /\ asked[c].page # <<>> /\ n \in Nat /\ n + 1 \in 1..Len(asked[c].page)
        /\ stored[c] = PageFound(c, n) /\ PageDrafts(c, n) /\ stored[c] \in Seq(Found)
    BY <1>a, <1>11, <2>0, CallTypes DEF UpsertItem, Own, Located, Drafted, TypeOK
  <2>2. /\ x = asked[c].page[n + 1].comment /\ x \in Comments
        /\ row = PageRow(c, x) /\ row \in Row
    BY <1>a, <2>0, <2>1, ItemTypes, WriteTypes DEF NextItem, PageRow, TypeOK
  <2>3. /\ drafts'[c] = [drafts[c] EXCEPT ![x] = row]
        /\ comments' = comments
    BY <1>a, <1>11 DEF UpsertItem, TypeOK
  <2>4. \A y \in Comments : PageRow(c, y)' = PageRow(c, y)
    BY <2>1, <2>3 DEF PageRow
  <2>5. PageDrafts(c, n + 1)'
    <3> SUFFICES ASSUME NEW y \in Comments
                 PROVE  drafts'[c][y] = IF \E i \in 1..(n + 1) : asked[c].page[i].comment = y
                                        THEN PageRow(c, y) ELSE None
      BY <2>1, <2>4 DEF PageDrafts
    <3>1. CASE y = x
      BY <1>a, <2>1, <2>2, <2>3, <3>1 DEF TypeOK
    <3>2. CASE y # x
      <4>1. drafts'[c][y] = drafts[c][y]
        BY <1>a, <2>3, <3>2 DEF TypeOK
      <4>2. (\E i \in 1..(n + 1) : asked[c].page[i].comment = y)
              <=> \E i \in 1..n : asked[c].page[i].comment = y
        BY <2>1, <2>2, <3>2
      <4> QED BY <2>1, <4>1, <4>2 DEF PageDrafts
    <3> QED BY <3>1, <3>2
  <2>6. found = PageFound(c, n + 1) /\ Len(found) = n + 1
    <3>1. Len(found) = n + 1 /\ found \in Seq(Found)
      BY <2>0, <2>1, <2>2, FoundType
    <3>2. \A i \in 1..(n + 1) : found[i] = [comment |-> asked[c].page[i].comment,
                                            row |-> PageRow(c, asked[c].page[i].comment)]
      BY <2>0, <2>1, <2>2 DEF PageFound
    <3> QED BY <3>1, <3>2 DEF PageFound
  <2>7. PageFound(c, n + 1)' = PageFound(c, n + 1)
    <3>1. \A i \in 1..(n + 1) : asked[c].page[i].comment \in Comments
      BY <2>1, ItemTypes
    <3> QED BY <2>1, <2>4, <3>1 DEF PageFound
  <2>8. \/ /\ n + 1 < Len(asked[c].page) /\ at'[c] = "upsert"
           /\ stored'[c] = PageFound(c, n + 1) /\ outcome'[c] = outcome[c]
        \/ /\ n + 1 = Len(asked[c].page) /\ at'[c] = "commit"
           /\ stored'[c] = <<>> /\ outcome'[c] # None
           /\ outcome'[c] = Reply("stored", None, PageFound(c, n + 1))
    <3>1. found \in Seq(Found)
      BY <2>1, <2>2, FoundType
    <3>3. Reply("stored", None, found) # None
      BY <1>c, <3>1
    <3> HIDE DEF found, x, row
    <3>2. \/ /\ Len(found) < Len(asked[c].page) /\ at' = at
             /\ stored' = [stored EXCEPT ![c] = found] /\ outcome' = outcome
          \/ /\ Len(found) = Len(asked[c].page) /\ at' = [at EXCEPT ![c] = "commit"]
             /\ stored' = [stored EXCEPT ![c] = <<>>]
             /\ outcome' = [outcome EXCEPT ![c] = Reply("stored", None, found)]
      BY <1>11 DEF UpsertItem, found, x, row
    <3> QED BY <1>a, <2>1, <2>6, <3>3, <3>2 DEF TypeOK
  <2> HIDE DEF x, row, found
  <2>9. Located(c)'
    BY <1>a, <2>1, <2>8 DEF Own, Located, Locking
  <2>10. Kept(c)'
    BY <1>a, <1>11, <2>1, <2>8 DEF UpsertItem, Own, Kept, Opening, Holding, Locking
  <2>11. Drafted(c)'
    <3>1. CASE at'[c] = "upsert"
      <4>1. /\ n + 1 < Len(asked[c].page) /\ Len(stored'[c]) = n + 1
            /\ stored'[c] = PageFound(c, n + 1)'
        BY <2>1, <2>6, <2>7, <2>8, <3>1
      <4>2. PageDrafts(c, Len(stored[c]))' /\ stored'[c] = PageFound(c, Len(stored[c]))'
        BY <2>5, <4>1 DEF PageDrafts, PageFound
      <4> QED BY <2>1, <3>1, <4>1, <4>2 DEF Drafted
    <3>2. CASE at'[c] = "commit"
      <4>1. /\ n + 1 = Len(asked[c].page)
            /\ outcome'[c] = Reply("stored", None, PageFound(c, n + 1)')
        BY <2>1, <2>7, <2>8, <3>2
      <4>2. PageDrafts(c, Len(asked[c].page))'
        BY <2>1, <2>5, <4>1 DEF PageDrafts
      <4>3. PageFound(c, Len(asked[c].page))' = PageFound(c, n + 1)'
        BY <2>1, <4>1 DEF PageFound
      <4> QED BY <2>1, <3>2, <4>1, <4>2, <4>3 DEF Drafted
    <3> QED BY <2>8, <3>1, <3>2
  <2>12. Known(c)'
    BY <1>a, <1>11, <2>1, <2>8 DEF UpsertItem, Own, Kept, Known, Opening
  <2> QED BY <2>9, <2>10, <2>11, <2>12 DEF Own
<1>12. CASE MarkPublished(c)
  <2>1. /\ at[c] = "update" /\ asked'[c] = asked[c]
        /\ asked[c] # None /\ asked[c].method = "markPublished"
        /\ drafts[c] = NoDrafts
        /\ operations[EntryFor(c)] # None /\ comments[Target(c)] # None
    BY <1>a, <1>12 DEF MarkPublished, Own, Located, Drafted, Known
  <2>2. \/ at'[c] = "resolved" /\ outcome'[c] # None
        \/ /\ at'[c] = "check" /\ outcome'[c] = outcome[c] /\ operations' = operations
           /\ operations[EntryFor(c)].status = "published"
    <3>1. Reply("done", None, <<>>) # None
      BY <1>c, FoundType
    <3>2. CASE operations[EntryFor(c)].status # "published"
      BY <1>a, <1>12, <3>1, <3>2 DEF MarkPublished, TypeOK
    <3>3. CASE operations[EntryFor(c)].status = "published"
      BY <1>a, <1>12, <3>3 DEF MarkPublished, TypeOK
    <3> QED BY <3>2, <3>3
  <2>3. Located(c)'
    BY <1>a, <2>1, <2>2 DEF Own, Located
  <2>4. Kept(c)'
    BY <1>a, <1>12, <2>1, <2>2 DEF MarkPublished, Own, Kept, Opening, Holding, Locking
  <2>5. Drafted(c)'
    BY <1>12, <2>1, <2>2 DEF MarkPublished, Drafted
  <2>6. Known(c)'
    BY <1>a, <1>12, <2>1, <2>2 DEF MarkPublished, Own, Kept, Known, Opening
  <2> QED BY <2>3, <2>4, <2>5, <2>6 DEF Own
<1>13. CASE MarkFailed(c)
  <2>1. /\ at[c] = "update" /\ asked'[c] = asked[c]
        /\ asked[c] # None /\ asked[c].method = "markFailed"
        /\ drafts[c] = NoDrafts /\ operations[EntryFor(c)] # None
    BY <1>a, <1>13 DEF MarkFailed, Own, Located, Drafted, Known
  <2>2. \/ at'[c] = "resolved" /\ outcome'[c] # None
        \/ /\ at'[c] = "check" /\ outcome'[c] = outcome[c] /\ operations' = operations
           /\ ~Replaceable(operations[EntryFor(c)].status, asked[c].status)
    <3>1. Reply("done", None, <<>>) # None
      BY <1>c, FoundType
    <3>2. CASE Replaceable(operations[EntryFor(c)].status, asked[c].status)
      BY <1>a, <1>13, <3>1, <3>2 DEF MarkFailed, TypeOK
    <3>3. CASE ~Replaceable(operations[EntryFor(c)].status, asked[c].status)
      BY <1>a, <1>13, <3>3 DEF MarkFailed, TypeOK
    <3> QED BY <3>2, <3>3
  <2>3. Located(c)'
    BY <1>a, <2>1, <2>2 DEF Own, Located
  <2>4. Kept(c)'
    BY <1>a, <1>13, <2>1, <2>2 DEF MarkFailed, Own, Kept, Opening, Holding, Locking
  <2>5. Drafted(c)'
    BY <1>13, <2>1, <2>2 DEF MarkFailed, Drafted
  <2>6. Known(c)'
    BY <1>a, <1>13, <2>1, <2>2 DEF MarkFailed, Own, Kept, Known, Opening
  <2> QED BY <2>3, <2>4, <2>5, <2>6 DEF Own
<1>14. CASE CheckOperation(c)
  <2>1. /\ at[c] = "check" /\ asked'[c] = asked[c] /\ at'[c] = "resolved"
        /\ asked[c] # None /\ drafts[c] = NoDrafts /\ outcome'[c] # None
    BY <1>a, <1>c, <1>14, FoundType DEF CheckOperation, Own, Located, Drafted, TypeOK
  <2>2. Located(c)'
    BY <1>a, <2>1 DEF Own, Located
  <2>3. Kept(c)'
    BY <1>a, <1>14, <2>1 DEF CheckOperation, Own, Kept, Opening, Holding
  <2>4. Drafted(c)'
    BY <1>14, <2>1 DEF CheckOperation, Drafted
  <2>5. Known(c)'
    BY <1>a, <1>14, <2>1 DEF CheckOperation, Own, Kept, Known, Opening
  <2> QED BY <2>2, <2>3, <2>4, <2>5 DEF Own
<1>15. CASE MarkDeleted(c)
  <2>1. /\ at[c] = "update" /\ asked'[c] = asked[c] /\ at'[c] = "resolved"
        /\ asked[c] # None /\ drafts[c] = NoDrafts /\ outcome'[c] # None
    BY <1>a, <1>c, <1>15, FoundType DEF MarkDeleted, Own, Located, Drafted, TypeOK
  <2>2. Located(c)'
    BY <1>a, <2>1 DEF Own, Located
  <2>3. Kept(c)'
    BY <1>a, <1>15, <2>1 DEF MarkDeleted, Own, Kept, Opening, Holding
  <2>4. Drafted(c)'
    BY <1>15, <2>1 DEF MarkDeleted, Drafted
  <2>5. Known(c)'
    BY <1>a, <1>15, <2>1 DEF MarkDeleted, Own, Kept, Known, Opening
  <2> QED BY <2>2, <2>3, <2>4, <2>5 DEF Own
<1>16. CASE Commit(c)
  <2>1. /\ at[c] = "commit" /\ asked'[c] = asked[c] /\ at'[c] = "resolved"
        /\ asked[c] # None /\ outcome'[c] = outcome[c]
        /\ lock'[c] = None /\ opened'[c] = None /\ drafts'[c] = NoDrafts
    BY <1>a, <1>16 DEF Commit, Own, Located, TypeOK
  <2>2. Located(c)'
    BY <1>a, <2>1 DEF Own, Located
  <2>3. Kept(c)'
    BY <1>a, <1>16, <2>1 DEF Commit, Own, Kept, Opening, Holding
  <2>4. Drafted(c)'
    BY <2>1 DEF Drafted
  <2>5. Known(c)'
    BY <1>a, <1>16, <2>1 DEF Commit, Own, Kept, Known, Opening
  <2> QED BY <2>2, <2>3, <2>4, <2>5 DEF Own
<1>17. CASE Return(c)
  <2>1. /\ at[c] = "resolved" /\ asked'[c] = asked[c] /\ at'[c] = "done"
        /\ asked[c] # None /\ drafts[c] = NoDrafts
    BY <1>a, <1>17 DEF Return, Own, Located, Drafted, TypeOK
  <2>2. Located(c)'
    BY <1>a, <2>1 DEF Own, Located
  <2>3. Kept(c)'
    BY <1>a, <1>17, <2>1 DEF Return, Own, Kept, Opening, Holding
  <2>4. Drafted(c)'
    BY <1>17, <2>1 DEF Return, Drafted
  <2>5. Known(c)'
    BY <1>a, <1>17, <2>1 DEF Return, Own, Kept, Known, Opening
  <2> QED BY <2>2, <2>3, <2>4, <2>5 DEF Own
<1>18. CASE RollBack(c) /\ at[c] # "idle"
  <2>1. /\ at'[c] = "done" /\ asked'[c] = asked[c] /\ asked[c] # None
        /\ lock'[c] = None /\ opened'[c] = None
        /\ drafts'[c] = NoDrafts /\ seen'[c] = None /\ stored'[c] = <<>>
        /\ outcome'[c] = Reply("rejected", None, <<>>) /\ outcome'[c] # None
    BY <1>a, <1>c, <1>18, FoundType DEF RollBack, TypeOK, Own, Located
  <2>2. Located(c)'
    BY <2>1 DEF Located
  <2>3. Kept(c)'
    BY <2>1 DEF Kept, Opening, Holding
  <2>4. Drafted(c)'
    BY <2>1 DEF Drafted
  <2>5. Known(c)'
    BY <2>1 DEF Known
  <2> QED BY <2>2, <2>3, <2>4, <2>5 DEF Own
<1>19. Deadlocked(c) => at[c] # "idle"
  BY DEF Deadlocked, WaitsFor
<1> QED
  BY <1>1, <1>2, <1>3, <1>4, <1>5, <1>6, <1>7, <1>8, <1>9, <1>10, <1>11, <1>12, <1>13,
     <1>14, <1>15, <1>16, <1>17, <1>18, <1>19
     DEF Step, Statement, Disconnect, DeadlockVictim

-----------------------------------------------------------------------------
(* Locks and drafts exclude each other, and the operations stay well-formed. *)
LEMMA LocksStep ==
    ASSUME IInv, NEW c \in Calls, Step(c), Frame(c)
    PROVE  LocksExclude'
<1>a. TypeOK /\ Own(c)
  BY DEF IInv
<1>1. \A d \in Calls \ {c} : EntryFor(d)' = EntryFor(d) /\ (Holding(d)' <=> Holding(d))
  BY DEF Frame, EntryFor, Holding
<1>2. SUFFICES ASSUME NEW d \in Calls \ {c}, Holding(c)', Holding(d)
               PROVE  EntryFor(c)' # EntryFor(d)
  BY <1>1 DEF IInv, LocksExclude
<1>3. CASE Holding(c) /\ asked'[c] = asked[c]
  BY <1>2, <1>3 DEF IInv, LocksExclude, EntryFor
<1>4. CASE TakeLock(c)
  <2>1. lock[d] = EntryFor(d)
    BY <1>2 DEF IInv, Own, Kept
  <2> QED BY <1>4, <2>1 DEF TakeLock, LockIsFree, EntryFor
<1>5. Holding(c)' => (Holding(c) /\ asked'[c] = asked[c]) \/ TakeLock(c)
  <2> SUFFICES ASSUME ~TakeLock(c), Holding(c)' PROVE Holding(c) /\ asked'[c] = asked[c]
    OBVIOUS
  <2> USE DEF Goto, Finish, TypeOK, Holding, Locking, Located, Own
  <2>1. CASE Ask(c)
    <3>1. PICK w \in Work : asked' = [asked EXCEPT ![c] = w]
                            /\ at' = [at EXCEPT ![c] = FirstStatement(w)]
      BY <2>1 DEF Ask
    <3> QED BY <1>a, <3>1, CallTypes DEF FirstStatement
  <2>2. CASE ReadOperation(c) \/ ReadComment(c) \/ InsertOperation(c)
    BY <1>a, <2>2 DEF ReadOperation, ReadComment, InsertOperation
  <2>3. CASE ReadClaimed(c) \/ InsertReply(c) \/ AttachKey(c) \/ ReadCurrent(c)
    BY <1>a, <2>3 DEF ReadClaimed, InsertReply, AttachKey, ReadCurrent
  <2>4. CASE EmptyPage(c) \/ UpsertItem(c)
    BY <1>a, <2>4 DEF EmptyPage, UpsertItem
  <2>5. CASE MarkPublished(c) \/ MarkFailed(c) \/ CheckOperation(c) \/ MarkDeleted(c)
    BY <1>a, <2>5 DEF MarkPublished, MarkFailed, CheckOperation, MarkDeleted
  <2>6. CASE Commit(c) \/ Return(c) \/ RollBack(c)
    BY <1>a, <2>6 DEF Commit, Return, RollBack
  <2> QED
    BY <2>1, <2>2, <2>3, <2>4, <2>5, <2>6 DEF Step, Statement, Disconnect, DeadlockVictim
<1> QED BY <1>2, <1>3, <1>4, <1>5

LEMMA DraftsStep ==
    ASSUME IInv, NEW c \in Calls, Step(c), Frame(c)
    PROVE  DraftsExclude'
<1>a. TypeOK /\ Own(c)
  BY DEF IInv
<1>1. ASSUME NEW x \in Comments, drafts'[c][x] # None, drafts[c][x] = None
      PROVE  RowIsFree(c, x)
  <2> USE DEF Draft, TypeOK
  <2>1. CASE InsertReply(c)
    <3>1. CASE UNCHANGED drafts
      BY <1>1, <3>1
    <3>2. CASE RowIsFree(c, Target(c))
               /\ Draft(c, Target(c), NewReply(asked[c].key, asked[c].content))
      BY <1>a, <1>1, <3>2
    <3> QED BY <2>1, <3>1, <3>2 DEF InsertReply
  <2>2. CASE AttachKey(c)
    <3>1. CASE UNCHANGED drafts
      BY <1>1, <3>1
    <3>2. CASE Draft(c, Target(c), Attached(comments[Target(c)], asked[c].key))
      BY <1>a, <1>1, <2>2, <3>2 DEF AttachKey
    <3> QED BY <2>2, <3>1, <3>2 DEF AttachKey
  <2>3. CASE UpsertItem(c)
    <3>1. PICK y, row : drafts' = [drafts EXCEPT ![c] = [@ EXCEPT ![y] = row]] /\ RowIsFree(c, y)
      BY <2>3 DEF UpsertItem, UpsertMayWrite
    <3> QED BY <1>a, <1>1, <3>1
  <2>4. CASE EndTransaction(c)
    BY <1>a, <1>1, <2>4 DEF EndTransaction, NoDrafts
  <2>5. CASE UNCHANGED drafts
    BY <1>1, <2>5
  <2> QED
    BY <2>1, <2>2, <2>3, <2>4, <2>5
       DEF Step, Statement, Disconnect, DeadlockVictim, RollBack, Ask, TakeLock, ReadOperation,
           ReadComment, InsertOperation, ReadClaimed, ReadCurrent, EmptyPage, MarkPublished,
           MarkFailed, CheckOperation, MarkDeleted, Commit, Return, transaction
<1> QED BY <1>1 DEF IInv, DraftsExclude, Frame, RowIsFree

LEMMA OperationsStep ==
    ASSUME IInv, NEW c \in Calls, Step(c), RowsGrow(c)
    PROVE  OperationsOK'
<1>a. TypeOK /\ Own(c) /\ OperationsOK /\ (asked[c] # None => asked[c] \in Work)
  BY DEF IInv, TypeOK
<1>0. \A x \in Comments : comments[x] # None => comments'[x] # None
  BY DEF RowsGrow
<1>b. \A e \in Entries : operations[e] # None => operations[e] \in Operation
  BY <1>a DEF TypeOK
<1>1. CASE UNCHANGED operations
  BY <1>a, <1>0, <1>b, <1>1 DEF OperationsOK, Operation
<1>2. CASE MarkPublished(c) /\ ~UNCHANGED operations
  <2>1. /\ asked[c] \in Work /\ asked[c].method = "markPublished"
        /\ comments[Target(c)] # None
    BY <1>a, <1>2 DEF MarkPublished, Own, Located, Known
  <2>2. Target(c) \in Comments /\ Target(c) # None /\ comments'[Target(c)] # None
    BY <1>0, <2>1, CallTypes, WriteTypes DEF Target
  <2>3. operations' = [operations EXCEPT ![EntryFor(c)] =
                         Settled(operations[EntryFor(c)], "published", Target(c))]
    BY <1>2 DEF MarkPublished
  <2> QED BY <1>a, <1>0, <1>b, <2>2, <2>3 DEF OperationsOK, TypeOK, Settled, Operation
<1>3. CASE MarkFailed(c) /\ ~UNCHANGED operations
  <2>1. asked[c].status # "published"
    BY <1>a, <1>3, CallTypes DEF MarkFailed, Own, Located, FailedStatuses
  <2>2. operations' = [operations EXCEPT ![EntryFor(c)] =
                         Settled(operations[EntryFor(c)], asked[c].status, None)]
    BY <1>3 DEF MarkFailed
  <2> QED BY <1>a, <1>0, <1>b, <2>1, <2>2 DEF OperationsOK, TypeOK, Settled, Operation
<1>4. CASE Commit(c) /\ ~UNCHANGED operations
  <2>1. operations' = [operations EXCEPT ![EntryFor(c)] = opened[c]] /\ opened[c] # None
    BY <1>4 DEF Commit
  <2>2. opened[c].status = "pending" /\ opened[c].comment = None
    BY <1>a, <2>1 DEF Own, Kept
  <2> QED BY <1>a, <1>0, <1>b, <2>1, <2>2 DEF OperationsOK, TypeOK, Operation
<1> QED
  BY <1>1, <1>2, <1>3, <1>4
     DEF Step, Statement, Disconnect, DeadlockVictim, RollBack, Ask, TakeLock, ReadOperation,
         ReadComment, InsertOperation, ReadClaimed, InsertReply, AttachKey, ReadCurrent,
         EmptyPage, UpsertItem, CheckOperation, MarkDeleted, Return, tables

-----------------------------------------------------------------------------
LEMMA InitIInv == Init => IInv
<1> SUFFICES ASSUME Init PROVE IInv
  OBVIOUS
<1>1. PICK h \in Histories : operations = h.operations /\ comments = h.comments
  BY DEF Init
<1>2. Legal(operations, comments)
  BY <1>1, HistoryAssumption
<1>3. TypeOK
  BY <1>2, FoundType DEF Init, TypeOK, Legal, NoDrafts, Places
<1>4. OperationsOK
  BY <1>2 DEF Legal, OperationsOK
<1>5. LocksExclude /\ DraftsExclude
  BY DEF Init, LocksExclude, DraftsExclude, Holding, NoDrafts
<1>6. \A c \in Calls : Own(c)
  BY DEF Init, Own, Located, Kept, Drafted, Known, Holding, Opening
<1> QED BY <1>3, <1>4, <1>5, <1>6 DEF IInv

LEMMA NextIInv == IInv /\ [Next]_vars => IInv'
<1> SUFFICES ASSUME IInv, [Next]_vars PROVE IInv'
  OBVIOUS
<1>1. CASE \E c \in Calls : Step(c)
  <2>1. PICK c \in Calls : Step(c)
    BY <1>1
  <2>2. Frame(c) /\ OperationsGrow(c) /\ RowsGrow(c)
    BY <2>1, StepFrame, StepOperations, StepRows DEF IInv
  <2>3. \A d \in Calls : Own(d)'
    BY <2>1, <2>2, OwnStep, OthersKeep
  <2> QED BY <2>1, <2>2, <2>3, TypeStep, LocksStep, DraftsStep, OperationsStep DEF IInv
<1>2. CASE UNCHANGED vars
  BY <1>2 DEF vars, IInv, TypeOK, OperationsOK, LocksExclude, DraftsExclude, Own, Located, Kept,
              Drafted, Known, Holding, Opening, EntryFor, Target, PageDrafts, PageRow, PageFound,
              ReplyDraft, StoredUnder
<1> QED BY <1>1, <1>2 DEF Next, AllDone, Step

(* The inductive invariant: what each call holds, and what it knows. *)
THEOREM Invariance == Spec => []IInv
BY InitIInv, NextIInv, PTL DEF Spec

(* Every call, page and row stays what the repository types say, also in the
   middle of a transaction. *)
THEOREM TypeCorrect == Spec => []TypeOK
BY Invariance, PTL DEF IInv

(* begin never meets the unique constraint of account and key, whatever
   commits between its statements. *)
THEOREM NeverCollides == Spec => []BeginNeverCollides
<1>1. IInv => BeginNeverCollides
  <2> SUFFICES ASSUME IInv, NEW c \in Calls, at[c] = "insertOperation"
               PROVE  /\ operations[EntryFor(c)] = None
                      /\ \A d \in Calls \ {c} : opened[d] # None => EntryFor(d) # EntryFor(c)
    BY DEF BeginNeverCollides
  <2>1. Holding(c) /\ operations[EntryFor(c)] = None
    BY DEF IInv, Own, Located, Known, Holding, Locking
  <2>2. \A d \in Calls : opened[d] # None => Holding(d)
    BY DEF IInv, Own, Located, Kept, Opening, Holding, Locking
  <2> QED BY <2>1, <2>2 DEF IInv, LocksExclude
<1> QED BY <1>1, Invariance, PTL

(* The calls of a publication are never victims of a deadlock: who holds a
   lock waits for a draft at most, and who holds a draft and waits is a page. *)
THEOREM PagesDeadlock == Spec => []OnlyPagesDeadlock
<1>1. IInv => OnlyPagesDeadlock
  <2> SUFFICES ASSUME IInv, NEW c \in Calls, Deadlocked(c), asked[c].method # "saveMany"
               PROVE  FALSE
    BY DEF OnlyPagesDeadlock
  <2>1. PICK D \in SUBSET Calls :
          c \in D /\ \A d \in D : (\E b \in D : WaitsFor(d, b)) /\ (\E b \in D : WaitsFor(b, d))
    BY DEF Deadlocked
  <2>a. \A d \in D : d \in Calls /\ Own(d)
    BY <2>1 DEF IInv
  <2>2. ASSUME NEW d \in D
        PROVE  /\ at[d] \in {"lock", "insertReply", "attachKey", "upsert", "update",
                             "insertOperation"}
               /\ asked[d] # None /\ asked[d] \in Work
    <3>1. PICK b \in D : WaitsFor(d, b)
      BY <2>1
    <3>2. at[d] \in {"lock", "insertReply", "attachKey", "upsert", "update", "insertOperation"}
      BY <3>1 DEF WaitsFor
    <3>3. asked[d] # None
      BY <2>a, <3>2 DEF Own, Located
    <3> QED BY <2>a, <3>2, <3>3 DEF IInv, TypeOK
  <2>3. \A d \in D : opened[d] = None
    BY <2>a, <2>2 DEF Own, Kept, Opening
  <2>4. ASSUME NEW d \in D, NEW x \in Comments, drafts[d][x] # None
        PROVE  at[d] = "upsert"
    <3>1. drafts[d] # NoDrafts
      BY <2>4 DEF NoDrafts
    <3> QED BY <2>a, <2>2, <3>1 DEF Own, Drafted
  <2>5. ASSUME NEW b \in D, NEW d \in D, WaitsFor(b, d)
        PROVE  at[d] = "upsert" \/ (at[b] = "lock" /\ lock[d] = EntryFor(b))
    <3>1. at[b] \in {"insertReply", "attachKey"}
            \/ (at[b] = "update" /\ asked[b].method = "markDeleted") => Target(b) \in Comments
      BY <2>2, <2>a, CallTypes DEF Target, Own, Located
    <3>2. at[b] = "upsert" /\ asked[b].page # <<>> => NextItem(b).comment \in Comments
      <4> SUFFICES ASSUME at[b] = "upsert", asked[b].page # <<>>
                   PROVE  NextItem(b).comment \in Comments
        OBVIOUS
      <4>1. asked[b] \in Work /\ asked[b].method = "saveMany"
        BY <2>2, <2>a DEF Own, Located
      <4>2. Len(stored[b]) < Len(asked[b].page) /\ Len(stored[b]) \in Nat
        <5>1. stored[b] \in Seq(Found)
          BY <2>a DEF IInv, TypeOK
        <5> QED BY <2>a, <5>1 DEF Own, Drafted
      <4>3. Len(stored[b]) + 1 \in 1..Len(asked[b].page)
        BY <4>1, <4>2, CallTypes
      <4> QED BY <4>1, <4>3, ItemTypes DEF NextItem
    <3>3. CASE at[b] = "lock" /\ lock[d] = EntryFor(b)
      BY <3>3
    <3>4. CASE at[b] \in {"insertReply", "attachKey"} /\ drafts[d][Target(b)] # None
      <4>1. Target(b) \in Comments
        BY <3>1, <3>4
      <4> QED BY <2>4, <3>4, <4>1
    <3>5. CASE at[b] = "upsert" /\ asked[b].page # <<>> /\ drafts[d][NextItem(b).comment] # None
      BY <2>4, <3>2, <3>5
    <3>6. CASE /\ at[b] = "update" /\ asked[b].method = "markDeleted"
               /\ drafts[d][Target(b)] # None
      BY <2>4, <3>1, <3>6
    <3>7. CASE at[b] = "insertOperation" /\ opened[d] # None
      BY <2>3, <3>7
    <3>8. \/ at[b] = "lock" /\ lock[d] = EntryFor(b)
          \/ at[b] \in {"insertReply", "attachKey"} /\ drafts[d][Target(b)] # None
          \/ at[b] = "upsert" /\ asked[b].page # <<>> /\ drafts[d][NextItem(b).comment] # None
          \/ at[b] = "update" /\ asked[b].method = "markDeleted" /\ drafts[d][Target(b)] # None
          \/ at[b] = "insertOperation" /\ opened[d] # None
      BY <2>5 DEF WaitsFor
    <3> QED BY <3>3, <3>4, <3>5, <3>6, <3>7, <3>8
  <2>6. at[c] # "upsert"
    BY <2>1 DEF IInv, Own, Located
  <2>7. PICK b \in D : at[b] = "lock" /\ lock[c] = EntryFor(b)
    BY <2>1, <2>5, <2>6
  <2>8. PICK a \in D : at[a] = "lock" /\ lock[b] = EntryFor(a)
    BY <2>1, <2>5, <2>7
  <2>9. lock[b] = None
    BY <2>1, <2>7 DEF IInv, Own, Kept, Holding
  <2>10. EntryFor(a) # None
    BY <2>1, <2>2, <2>8, CallTypes DEF IInv, Own, Located, Locking, EntryFor
  <2> QED BY <2>8, <2>9, <2>10
<1> QED BY <1>1, Invariance, PTL

-----------------------------------------------------------------------------
(* Nobody waits for good.  At any time finitely many calls are under way, and
   who is waited for is one of them; so either one of them waits for nobody, or
   some of them wait in a circle. *)

Busy == {c \in Calls : UnderWay(c)}
FewAreBusy == IsFiniteSet(Busy)

LEMMA BusyStep == IInv /\ FewAreBusy /\ [Next]_vars => FewAreBusy'
<1> SUFFICES ASSUME IInv, IsFiniteSet(Busy), [Next]_vars PROVE IsFiniteSet(Busy')
  BY DEF FewAreBusy
<1>1. CASE \E c \in Calls : Step(c)
  <2>1. PICK c \in Calls : Step(c)
    BY <1>1
  <2>2. Frame(c)
    BY <2>1, StepFrame DEF IInv
  <2>3. Busy' \subseteq Busy \cup {c}
    BY <2>2 DEF Busy, UnderWay, Frame
  <2>4. IsFiniteSet(Busy \cup {c})
    BY FS_AddElement
  <2> QED BY <2>3, <2>4, FS_Subset
<1>2. CASE UNCHANGED vars
  BY <1>2 DEF vars, Busy, UnderWay
<1> QED BY <1>1, <1>2 DEF Next, AllDone, Step

(* A lock, a draft and an opened row are those of a transaction that is open. *)
LEMMA HolderIsBusy ==
    ASSUME IInv, NEW c \in Calls, NEW d \in Calls, WaitsFor(c, d)
    PROVE  d \in Busy
<1>a. Own(c) /\ Own(d) /\ TypeOK
  BY DEF IInv
<1>b. asked[c] \in Work
  <2>1. at[c] \in {"lock", "insertReply", "attachKey", "upsert", "update", "insertOperation"}
    BY DEF WaitsFor
  <2>2. asked[c] # None
    BY <1>a, <2>1 DEF Own, Located
  <2> QED BY <1>a, <2>2 DEF TypeOK
<1>1. CASE at[c] = "lock" /\ lock[d] = EntryFor(c)
  <2>1. EntryFor(c) # None
    BY <1>1, <1>a, <1>b, CallTypes DEF Own, Located, Locking, EntryFor
  <2>2. Holding(d)
    BY <1>1, <1>a, <2>1 DEF Own, Kept
  <2> QED BY <2>2 DEF Holding, Busy, UnderWay
<1>2. ASSUME NEW x \in Comments, drafts[d][x] # None
      PROVE  d \in Busy
  <2>1. drafts[d] # NoDrafts
    BY <1>2 DEF NoDrafts
  <2> QED BY <1>a, <2>1 DEF Own, Drafted, Busy, UnderWay
<1>3. CASE /\ \/ at[c] \in {"insertReply", "attachKey"}
              \/ at[c] = "update" /\ asked[c].method = "markDeleted"
           /\ drafts[d][Target(c)] # None
  <2>1. Target(c) \in Comments
    BY <1>3, <1>a, <1>b, CallTypes DEF Target, Own, Located
  <2> QED BY <1>2, <1>3, <2>1
<1>4. CASE at[c] = "upsert" /\ asked[c].page # <<>> /\ drafts[d][NextItem(c).comment] # None
  <2>1. asked[c].method = "saveMany"
    BY <1>4, <1>a DEF Own, Located
  <2>2. Len(stored[c]) < Len(asked[c].page) /\ Len(stored[c]) \in Nat
    <3>1. stored[c] \in Seq(Found)
      BY <1>a DEF TypeOK
    <3> QED BY <1>4, <1>a, <3>1 DEF Own, Drafted
  <2>3. Len(stored[c]) + 1 \in 1..Len(asked[c].page)
    BY <1>b, <2>1, <2>2, CallTypes
  <2>4. NextItem(c).comment \in Comments
    BY <1>b, <2>1, <2>3, ItemTypes DEF NextItem
  <2> QED BY <1>2, <1>4, <2>4
<1>5. CASE opened[d] # None
  BY <1>5, <1>a DEF Own, Kept, Opening, Busy, UnderWay
<1> QED BY <1>1, <1>3, <1>4, <1>5 DEF WaitsFor

(* A smallest set of calls that wait for each other is a circle: without one
   that nobody waits for, the others would still wait for each other. *)
LEMMA WaitingInCircles ==
    ASSUME NEW S \in SUBSET Calls, IsFiniteSet(S), S # {},
           \A c \in S : \E d \in S : WaitsFor(c, d)
    PROVE  \E c \in S : Deadlocked(c)
<1> DEFINE Closed == {D \in SUBSET S : D # {} /\ \A c \in D : \E d \in D : WaitsFor(c, d)}
<1>1. Closed \subseteq FiniteSubsetsOf(S) /\ Closed # {}
  BY FS_FiniteSubsetsOfFinite
<1>2. PICK D \in Closed : \A E \in Closed : <<E, D>> \notin StrictSubsetOrdering(S)
  <2> HIDE DEF Closed
  <2> QED BY <1>1, FS_StrictSubsetOrderingWellFounded, WFMin
<1>3. ASSUME NEW d \in D, \A b \in D : ~WaitsFor(b, d)
      PROVE  FALSE
  <2>1. PICK e \in D : WaitsFor(d, e)
    OBVIOUS
  <2>2. e # d
    BY <1>3, <2>1
  <2>3. D \ {d} \in Closed
    BY <1>3, <2>1, <2>2
  <2>4. <<D \ {d}, D>> \in StrictSubsetOrdering(S)
    BY DEF StrictSubsetOrdering
  <2> QED BY <1>2, <2>3, <2>4
<1>4. \A d \in D : (\E b \in D : WaitsFor(d, b)) /\ (\E b \in D : WaitsFor(b, d))
  BY <1>3
<1>5. PICK c \in D : TRUE
  OBVIOUS
<1>6. c \in S /\ D \in SUBSET Calls
  OBVIOUS
<1> QED BY <1>4, <1>5, <1>6 DEF Deadlocked

(* While calls are under way one of them can go on, or PostgreSQL ends a circle
   of pages; the number of calls may be infinite. *)
THEOREM NobodyStandsStill == Spec => []NoStandstill
<1>1. Init => FewAreBusy
  <2> SUFFICES ASSUME Init PROVE IsFiniteSet(Busy)
    BY DEF FewAreBusy
  <2>1. Busy = {}
    BY DEF Init, Busy, UnderWay
  <2> QED BY <2>1, FS_EmptySet
<1>2. IInv /\ FewAreBusy /\ OnlyPagesDeadlock => NoStandstill
  <2> SUFFICES ASSUME IInv, IsFiniteSet(Busy), OnlyPagesDeadlock, Busy # {},
                      \A c \in Busy : Blocked(c) /\ ~Deadlocked(c)
               PROVE  FALSE
    BY DEF NoStandstill, Busy, FewAreBusy
  <2>1. Busy \in SUBSET Calls
    BY DEF Busy
  <2>2. \A c \in Busy : \E d \in Busy : WaitsFor(c, d)
    BY <2>1, HolderIsBusy, Zenon DEF Blocked
  <2> QED BY <2>1, <2>2, WaitingInCircles
<1> QED BY <1>1, <1>2, BusyStep, Invariance, PagesDeadlock, PTL DEF Spec

-----------------------------------------------------------------------------
(* The refinement: a call takes effect in the abstract store when its outcome
   is settled, or when the transaction that drafted it commits. *)

Effect(c) == IF Uncommitted(c) THEN None ELSE outcome[c]

LEMMA BarStep ==
    ASSUME TypeOK, NEW c \in Calls, Frame(c)
    PROVE  /\ answersBar' = [answersBar EXCEPT ![c] = Effect(c)']
           /\ (at'[c] = "done" \/ at[c] # "done") =>
                 returnedBar' = returnedBar \cup (IF at'[c] = "done" THEN {c} ELSE {})
<1>1. \A d \in Calls \ {c} : answersBar'[d] = answersBar[d]
  BY DEF Frame, answersBar, Uncommitted
<1>2. answersBar'[c] = Effect(c)'
  BY DEF answersBar, Effect
<1>3. answersBar' = [d \in Calls |-> IF d = c THEN Effect(c)' ELSE answersBar[d]]
  BY <1>1, <1>2 DEF answersBar
<1>4. answersBar = [d \in Calls |-> answersBar[d]]
  BY DEF answersBar
<1>5. answersBar' = [answersBar EXCEPT ![c] = Effect(c)']
  BY <1>3, <1>4
<1>6. (at'[c] = "done" \/ at[c] # "done") =>
         returnedBar' = returnedBar \cup (IF at'[c] = "done" THEN {c} ELSE {})
  BY DEF returnedBar, Frame
<1> QED BY <1>5, <1>6

(* A statement that settles nothing is a stutter. *)
LEMMA Stutter ==
    ASSUME TypeOK, NEW c \in Calls, Frame(c), UNCHANGED <<tables, asked>>,
           Effect(c)' = Effect(c), at[c] # "done", at'[c] # "done"
    PROVE  UNCHANGED Atomic!vars
<1>1. answersBar' = answersBar
  BY BarStep DEF answersBar, Effect
<1>2. returnedBar' = returnedBar
  BY BarStep
<1> QED BY <1>1, <1>2 DEF Atomic!vars, tables

(* The instance shares the operators of StoreCalls. *)
LEMMA SameOperators ==
    /\ \A kind, op, found : Atomic!Reply(kind, op, found) = Reply(kind, op, found)
    /\ \A w : Atomic!EntryOf(w) = EntryOf(w)
    /\ \A old, new : Atomic!Replaceable(old, new) <=> Replaceable(old, new)
    /\ \A op, status, x : Atomic!Settled(op, status, x) = Settled(op, status, x)
    /\ \A key, content : Atomic!NewReply(key, content) = NewReply(key, content)
    /\ \A row, key : Atomic!Attached(row, key) = Attached(row, key)
    /\ \A row, content : Atomic!Upsert(row, content) = Upsert(row, content)
    /\ \A row : Atomic!Deleted(row) = Deleted(row)
    /\ \A page : Atomic!Listed(page) = Listed(page)
    /\ \A page, x : Atomic!ContentIn(page, x) = ContentIn(page, x)
    /\ \A e : Atomic!StoredUnder(e) = StoredUnder(e)
BY DEF Reply, Atomic!Reply, EntryOf, Atomic!EntryOf, Replaceable, Atomic!Replaceable,
       Settled, Atomic!Settled, NewReply, Atomic!NewReply, Attached, Atomic!Attached,
       Upsert, Atomic!Upsert, Deleted, Atomic!Deleted, Listed, Atomic!Listed,
       ContentIn, Atomic!ContentIn, StoredUnder, Atomic!StoredUnder

(* A statement or a commit that settles the outcome performs the method. *)
LEMMA Performs ==
    ASSUME TypeOK, NEW c \in Calls, Frame(c), UNCHANGED asked, asked[c] # None,
           Effect(c) = None, at[c] # "done", at'[c] # "done",
           \/ asked[c].method = "begin" /\ Atomic!Begin(c)
           \/ asked[c].method = "findExisting" /\ Atomic!FindExisting(c)
           \/ asked[c].method = "savePublishedReply" /\ Atomic!SavePublishedReply(c)
           \/ asked[c].method = "markPublished" /\ Atomic!MarkPublished(c)
           \/ asked[c].method = "markFailed" /\ Atomic!MarkFailed(c)
           \/ asked[c].method = "saveMany" /\ Atomic!SaveMany(c)
           \/ asked[c].method = "markDeleted" /\ Atomic!MarkDeleted(c)
    PROVE  Atomic!Next
<1>1. answersBar[c] = None /\ c \notin returnedBar
  BY DEF answersBar, Effect, returnedBar
<1>2. returnedBar' = returnedBar
  BY BarStep
<1>3. Atomic!Perform(c)
  BY <1>1, <1>2 DEF Atomic!Perform
<1> QED BY <1>3 DEF Atomic!Next

LEMMA NothingDrafted ==
    ASSUME IInv, NEW c \in Calls
    PROVE  /\ at[c] \notin {"upsert", "commit"} => ~Uncommitted(c)
           /\ at[c] \notin {"commit", "resolved", "done"} => Effect(c) = None
           /\ (at[c] = "commit" /\ Uncommitted(c)) =>
                 \/ Opening(c) /\ drafts[c] = NoDrafts
                 \/ opened[c] = None /\ drafts[c] # NoDrafts
BY DEF IInv, Own, Kept, Drafted, Uncommitted, Effect, Opening

LEMMA RefineReads ==
    ASSUME IInv, NEW c \in Calls, Frame(c),
           ReadOperation(c) \/ ReadComment(c) \/ ReadClaimed(c) \/ ReadCurrent(c)
    PROVE  Atomic!Next \/ UNCHANGED Atomic!vars
<1> USE DEF Goto, Resolve, transaction, memory, tables, EntryFor, Target
<1>a. TypeOK /\ Own(c) /\ Frame(c)
  BY DEF IInv
<1>b. /\ UNCHANGED <<operations, comments, asked, lock, opened, drafts>>
      /\ asked[c] # None
      /\ at[c] \in {"readOperation", "readComment", "claimed", "current"}
      /\ at'[c] \in {"insertOperation", "readComment", "insertReply", "commit", "resolved"}
  BY <1>a DEF ReadOperation, ReadComment, ReadClaimed, ReadCurrent, Finish, Own, Located, TypeOK
<1>c. Effect(c) = None /\ ~Uncommitted(c) /\ Effect(c)' = outcome'[c]
  BY <1>b, NothingDrafted DEF Effect, Uncommitted
<1>d. answersBar' = [answersBar EXCEPT ![c] = outcome'[c]]
  BY <1>a, <1>c, BarStep
<1>e. outcome[c] = None
  BY <1>a, <1>b DEF Own, Kept
<1>1. CASE UNCHANGED outcome
  BY <1>1, <1>a, <1>b, <1>c, <1>e, Stutter
<1>2. CASE ReadOperation(c) /\ ~UNCHANGED outcome
  <2> DEFINE op == operations[EntryFor(c)]
  <2>1. asked[c].method = "findExisting" => EntryFor(c) = asked[c].entry
    BY DEF EntryOf
  <2>2. asked[c].method = "begin" => EntryFor(c) = asked[c].entry
    BY DEF EntryOf
  <2>3. asked[c].method \in {"begin", "findExisting"}
    BY <1>2, <1>a DEF ReadOperation, Own, Located
  <2>4. CASE op = None
    <3>1. asked[c].method = "findExisting" /\ outcome'[c] = Reply("missing", None, <<>>)
      BY <1>2, <1>a, <2>4 DEF ReadOperation, TypeOK
    <3>2. Atomic!FindExisting(c)
      BY <1>b, <1>d, <2>1, <2>4, <3>1, SameOperators DEF Atomic!FindExisting, Atomic!Answered, Atomic!tables
    <3> QED BY <1>a, <1>b, <1>c, <3>1, <3>2, Performs
  <2>5. CASE op # None
    <3>1. /\ op.comment = None
          /\ outcome'[c] = IF asked[c].method = "begin" /\ op.claim # asked[c].claim
                           THEN Reply("conflict", None, <<>>) ELSE Reply("existing", op, <<>>)
      BY <1>2, <1>a, <2>5 DEF ReadOperation, Judge, TypeOK
    <3>2. CASE asked[c].method = "begin"
      <4>1. Atomic!Begin(c)
        BY <1>b, <1>d, <2>2, <2>5, <3>1, <3>2, SameOperators
           DEF Atomic!Begin, Atomic!Answered, Atomic!ShownIf
      <4> QED BY <1>a, <1>b, <1>c, <3>2, <4>1, Performs
    <3>3. CASE asked[c].method = "findExisting"
      <4>1. Atomic!FindExisting(c)
        BY <1>b, <1>d, <2>1, <2>5, <3>1, <3>3, SameOperators
           DEF Atomic!FindExisting, Atomic!Answered, Atomic!ShownIf, Atomic!tables
      <4> QED BY <1>a, <1>b, <1>c, <3>3, <4>1, Performs
    <3> QED BY <2>3, <3>2, <3>3
  <2> QED BY <2>4, <2>5
<1>3. CASE ReadComment(c)
  <2> DEFINE op == seen[c]
             x == seen[c].comment
  <2>1. asked[c].method \in {"begin", "findExisting"} /\ EntryFor(c) = asked[c].entry
    BY <1>3, <1>a DEF ReadComment, Own, Located, EntryOf
  <2>2. operations[asked[c].entry] = op /\ x # None /\ op # None
    BY <1>3, <1>a, <2>1 DEF ReadComment, Own, Kept, Known
  <2>3. outcome'[c] = IF asked[c].method = "begin" /\ op.claim # asked[c].claim
                      THEN Reply("conflict", None, <<>>)
                      ELSE Reply("existing", op, <<[comment |-> x, row |-> comments[x]]>>)
    BY <1>3, <1>a DEF ReadComment, Judge, TypeOK
  <2>4. CASE asked[c].method = "begin"
    <3>1. Atomic!Begin(c)
      BY <1>b, <1>d, <2>2, <2>3, <2>4, SameOperators
         DEF Atomic!Begin, Atomic!Answered, Atomic!ShownIf, Atomic!Shown
    <3> QED BY <1>a, <1>b, <1>c, <2>4, <3>1, Performs
  <2>5. CASE asked[c].method = "findExisting"
    <3>1. Atomic!FindExisting(c)
      BY <1>b, <1>d, <2>2, <2>3, <2>5, SameOperators
         DEF Atomic!FindExisting, Atomic!Answered, Atomic!ShownIf, Atomic!Shown, Atomic!tables
    <3> QED BY <1>a, <1>b, <1>c, <2>5, <3>1, Performs
  <2> QED BY <2>1, <2>4, <2>5
<1>4. CASE ReadClaimed(c) /\ ~UNCHANGED outcome
  <2>1. asked[c].method = "savePublishedReply"
    BY <1>4, <1>a DEF ReadClaimed, Own, Located
  <2>2. PICK y \in StoredUnder(EntryFor(c)) :
          outcome' = [outcome EXCEPT ![c] =
                        Reply("existing", None, <<[comment |-> y, row |-> comments[y]]>>)]
    BY <1>4 DEF ReadClaimed
  <2>3. outcome'[c] = Reply("existing", None, <<[comment |-> y, row |-> comments[y]]>>)
    BY <1>a, <2>2 DEF TypeOK
  <2>4. y \in Atomic!StoredUnder(EntryOf(asked[c]))
    BY <2>2, SameOperators
  <2>5. Atomic!SavePublishedReply(c)
    BY <1>b, <1>d, <2>3, <2>4, SameOperators DEF Atomic!SavePublishedReply, Atomic!Answered, Atomic!Shown
  <2> QED BY <1>a, <1>b, <1>c, <2>1, <2>5, Performs
<1>5. CASE ReadCurrent(c)
  <2>1. asked[c].method = "savePublishedReply" /\ Target(c) \in Comments
    BY <1>5, <1>a, CallTypes DEF ReadCurrent, Own, Located, TypeOK
  <2>2. /\ StoredUnder(EntryFor(c)) = {} /\ comments[Target(c)] # None
        /\ comments[Target(c)].key # None
    BY <1>5, <1>a DEF ReadCurrent, Own, Known
  <2>3. outcome'[c] = Reply("existing", None,
                            <<[comment |-> Target(c), row |-> comments[Target(c)]]>>)
    BY <1>5, <1>a DEF ReadCurrent, TypeOK
  <2>4. Atomic!StoredUnder(EntryOf(asked[c])) = {}
    BY <2>2, SameOperators
  <2>5. comments' = [comments EXCEPT ![Target(c)] = comments[Target(c)]]
    BY <1>a, <1>b DEF TypeOK
  <2>6. Atomic!SavePublishedReply(c)
    BY <1>b, <1>d, <2>2, <2>3, <2>4, <2>5, SameOperators
       DEF Atomic!SavePublishedReply, Atomic!Answered, Atomic!Shown
  <2> QED BY <1>a, <1>b, <1>c, <2>1, <2>6, Performs
<1> QED BY <1>1, <1>2, <1>3, <1>4, <1>5

LEMMA RefineUpdates ==
    ASSUME IInv, NEW c \in Calls, Frame(c),
           \/ MarkPublished(c) \/ MarkFailed(c) \/ CheckOperation(c) \/ MarkDeleted(c)
           \/ EmptyPage(c)
    PROVE  Atomic!Next \/ UNCHANGED Atomic!vars
<1> USE DEF Goto, Resolve, transaction, memory, tables, Target
<1>a. TypeOK /\ Own(c) /\ Frame(c)
  BY DEF IInv
<1>b. /\ UNCHANGED <<asked, lock, opened, drafts>> /\ asked[c] # None
      /\ asked[c] \in Work
      /\ at[c] \in {"update", "check", "upsert"} /\ at'[c] \in {"check", "resolved"}
      /\ asked[c].method \in {"markPublished", "markFailed", "markDeleted", "saveMany"}
  BY <1>a DEF MarkPublished, MarkFailed, CheckOperation, MarkDeleted, EmptyPage, Own, Located,
              TypeOK
<1>c. drafts[c] = NoDrafts /\ opened[c] = None /\ outcome[c] = None
  <2>1. EmptyPage(c) => drafts[c] = NoDrafts
    <3> SUFFICES ASSUME EmptyPage(c) PROVE drafts[c] = NoDrafts
      OBVIOUS
    <3>1. /\ Len(stored[c]) <= 0 /\ PageDrafts(c, Len(stored[c])) /\ stored[c] \in Seq(Found)
      BY <1>a DEF EmptyPage, Own, Drafted, TypeOK
    <3> QED BY <1>a, <3>1 DEF PageDrafts, NoDrafts, TypeOK
  <2>2. at[c] \in {"update", "check"} => drafts[c] = NoDrafts
    BY <1>a DEF Own, Drafted
  <2>3. at[c] = "upsert" => EmptyPage(c)
    BY DEF MarkPublished, MarkFailed, CheckOperation, MarkDeleted
  <2> QED BY <1>a, <1>b, <2>1, <2>2, <2>3 DEF Own, Kept, Opening
<1>d. Effect(c) = None /\ Effect(c)' = outcome'[c]
  BY <1>b, <1>c DEF Effect, Uncommitted, NoDrafts
<1>e. answersBar' = [answersBar EXCEPT ![c] = outcome'[c]]
  BY <1>a, <1>d, BarStep
<1>f. /\ asked[c].method \in {"markPublished", "markFailed"} => EntryFor(c) = asked[c].entry
      /\ asked[c].method \in {"markPublished", "markDeleted"} => Target(c) \in Comments
  BY <1>b, CallTypes DEF EntryFor, EntryOf
<1>1. CASE UNCHANGED <<operations, comments, outcome>>
  BY <1>1, <1>a, <1>b, <1>c, <1>d, Stutter
<1>2. CASE MarkPublished(c) /\ ~UNCHANGED outcome
  <2>1. /\ asked[c].method = "markPublished" /\ operations[asked[c].entry].status # "published"
        /\ operations' = [operations EXCEPT ![asked[c].entry] =
                            Settled(operations[asked[c].entry], "published", asked[c].comment)]
        /\ outcome'[c] = Reply("done", None, <<>>) /\ UNCHANGED comments
    BY <1>2, <1>a, <1>f DEF MarkPublished, TypeOK
  <2>2. Atomic!MarkPublished(c)
    BY <1>e, <2>1, SameOperators DEF Atomic!MarkPublished, Atomic!Answered
  <2> QED BY <1>a, <1>b, <1>d, <2>1, <2>2, Performs
<1>3. CASE MarkFailed(c) /\ ~UNCHANGED outcome
  <2>1. /\ asked[c].method = "markFailed"
        /\ Replaceable(operations[asked[c].entry].status, asked[c].status)
        /\ operations' = [operations EXCEPT ![asked[c].entry] =
                            Settled(operations[asked[c].entry], asked[c].status, None)]
        /\ outcome'[c] = Reply("done", None, <<>>) /\ UNCHANGED comments
    BY <1>3, <1>a, <1>f DEF MarkFailed, TypeOK
  <2>2. Atomic!MarkFailed(c)
    BY <1>e, <2>1, SameOperators DEF Atomic!MarkFailed, Atomic!Answered
  <2> QED BY <1>a, <1>b, <1>d, <2>1, <2>2, Performs
<1>4. CASE CheckOperation(c)
  <2>1. UNCHANGED <<operations, comments>> /\ asked[c].method \in {"markPublished", "markFailed"}
    BY <1>4, <1>a DEF CheckOperation, Own, Located
  <2>2. CASE asked[c].method = "markPublished"
    <3>1. operations[asked[c].entry].status = "published"
      BY <1>4, <1>a, <1>f, <2>2 DEF CheckOperation, Own, Known
    <3>2. outcome'[c] = Reply(IF operations[asked[c].entry].comment # asked[c].comment
                              THEN "thrown" ELSE "done", None, <<>>)
      BY <1>4, <1>a, <1>f, <2>2, <3>1 DEF CheckOperation, TypeOK
    <3>3. Atomic!MarkPublished(c)
      BY <1>e, <2>1, <3>1, <3>2, SameOperators DEF Atomic!MarkPublished, Atomic!Answered
    <3> QED BY <1>a, <1>b, <1>d, <2>2, <3>3, Performs
  <2>3. CASE asked[c].method = "markFailed"
    <3>1. ~Replaceable(operations[asked[c].entry].status, asked[c].status)
      BY <1>4, <1>a, <1>f, <2>3 DEF CheckOperation, Own, Known
    <3>2. outcome'[c] = Reply("done", None, <<>>)
      BY <1>4, <1>a, <2>3 DEF CheckOperation, TypeOK
    <3>3. Atomic!MarkFailed(c)
      BY <1>e, <2>1, <3>1, <3>2, SameOperators DEF Atomic!MarkFailed, Atomic!Answered
    <3> QED BY <1>a, <1>b, <1>d, <2>3, <3>3, Performs
  <2> QED BY <2>1, <2>2, <2>3
<1>5. CASE MarkDeleted(c)
  <2>1. /\ asked[c].method = "markDeleted"
        /\ comments' = [comments EXCEPT ![asked[c].comment] = Deleted(comments[asked[c].comment])]
        /\ outcome'[c] = Reply("done", None, <<>>) /\ UNCHANGED operations
    BY <1>5, <1>a DEF MarkDeleted, TypeOK
  <2>2. Atomic!MarkDeleted(c)
    BY <1>e, <2>1, SameOperators DEF Atomic!MarkDeleted, Atomic!Answered
  <2> QED BY <1>a, <1>b, <1>d, <2>1, <2>2, Performs
<1>6. CASE EmptyPage(c)
  <2>1. /\ asked[c].method = "saveMany" /\ asked[c].page = <<>>
        /\ outcome'[c] = Reply("stored", None, <<>>) /\ UNCHANGED <<operations, comments>>
    BY <1>6, <1>a DEF EmptyPage, Own, Located, TypeOK
  <2>2. Atomic!Listed(<<>>) = {}
    BY DEF Atomic!Listed
  <2>3. comments' = [x \in Comments |->
          IF x \in Atomic!Listed(<<>>)
          THEN Atomic!Upsert(comments[x], Atomic!ContentIn(<<>>, x)) ELSE comments[x]]
    BY <1>a, <2>1, <2>2 DEF TypeOK
  <2>4. <<>> = [i \in DOMAIN <<>> |->
          [comment |-> <<>>[i].comment,
           row |-> Atomic!Upsert(comments[<<>>[i].comment],
                                 Atomic!ContentIn(<<>>, <<>>[i].comment))]]
    OBVIOUS
  <2>5. Atomic!SaveMany(c)
    BY <1>e, <2>1, <2>3, <2>4, SameOperators DEF Atomic!SaveMany, Atomic!Answered
  <2> QED BY <1>a, <1>b, <1>d, <2>1, <2>5, Performs
<1>7. ASSUME MarkPublished(c) \/ MarkFailed(c), UNCHANGED outcome
      PROVE  UNCHANGED <<operations, comments>>
  <2>1. Reply("done", None, <<>>) # None
    BY ReplyType, FoundType, WriteTypes
  <2>2. outcome' # [outcome EXCEPT ![c] = Reply("done", None, <<>>)]
    BY <1>a, <1>c, <1>7, <2>1 DEF TypeOK
  <2> QED BY <1>7, <2>2 DEF MarkPublished, MarkFailed
<1> QED BY <1>1, <1>2, <1>3, <1>4, <1>5, <1>6, <1>7

LEMMA RefineCommit ==
    ASSUME IInv, NEW c \in Calls, Frame(c), Commit(c)
    PROVE  Atomic!Next \/ UNCHANGED Atomic!vars
<1> USE DEF Goto, EndTransaction, ReleaseLock, memory, tables, Target
<1>a. TypeOK /\ Own(c) /\ Frame(c)
  BY DEF IInv
<1>b. /\ UNCHANGED <<asked, outcome>> /\ asked[c] # None /\ asked[c] \in Work
      /\ at[c] = "commit" /\ at'[c] = "resolved"
      /\ asked[c].method \in {"begin", "savePublishedReply", "saveMany"}
      /\ opened'[c] = None /\ drafts'[c] = NoDrafts
  BY <1>a DEF Commit, Own, Located, Locking, TypeOK
<1>c. Effect(c)' = outcome[c]
  BY <1>b DEF Effect, Uncommitted, NoDrafts
<1>d. answersBar' = [answersBar EXCEPT ![c] = outcome[c]]
  BY <1>a, <1>c, BarStep
<1>e. \A x \in Comments : comments'[x] = IF drafts[c][x] # None THEN drafts[c][x] ELSE comments[x]
  BY DEF Commit
<1>1. CASE ~Uncommitted(c)
  <2>1. opened[c] = None /\ drafts[c] = NoDrafts /\ Effect(c) = outcome[c]
    BY <1>1 DEF Uncommitted, Effect
  <2>2. comments' = [x \in Comments |-> comments[x]] /\ operations' = operations
    BY <2>1 DEF Commit, NoDrafts
  <2>3. comments' = comments
    BY <1>a, <2>2 DEF TypeOK
  <2> QED BY <1>a, <1>b, <1>c, <2>1, <2>2, <2>3, Stutter
<1>2. CASE Uncommitted(c) /\ asked[c].method = "begin"
  <2>1. Opening(c) /\ drafts[c] = NoDrafts /\ Effect(c) = None
    BY <1>2, <1>a, <1>b DEF Own, Kept, Drafted, Uncommitted, Effect
  <2>2. /\ opened[c] = [status |-> "pending", claim |-> asked[c].claim, comment |-> None]
        /\ opened[c] # None /\ outcome[c] = Reply("started", None, <<>>)
        /\ operations[EntryFor(c)] = None /\ EntryFor(c) = asked[c].entry
    <3>1. opened[c] = [status |-> "pending", claim |-> asked[c].claim, comment |-> None]
          /\ outcome[c] = Reply("started", None, <<>>)
      BY <1>a, <2>1 DEF Own, Kept
    <3>2. opened[c] # None
      BY <1>2, <2>1 DEF Uncommitted
    <3> QED BY <1>a, <1>2, <3>1, <3>2 DEF Own, Known, EntryFor, EntryOf
  <2>3. comments' = [x \in Comments |-> comments[x]]
    BY <2>1 DEF Commit, NoDrafts
  <2>4. comments' = comments
    BY <1>a, <2>3 DEF TypeOK
  <2>5. operations' = [operations EXCEPT ![asked[c].entry] =
                         [status |-> "pending", claim |-> asked[c].claim, comment |-> None]]
    BY <2>2 DEF Commit
  <2>6. Atomic!Begin(c)
    BY <1>d, <2>2, <2>4, <2>5, SameOperators DEF Atomic!Begin, Atomic!Answered
  <2> QED BY <1>a, <1>b, <1>2, <2>1, <2>6, Performs
<1>3. CASE Uncommitted(c) /\ asked[c].method = "savePublishedReply"
  <2> DEFINE x == asked[c].comment
             fresh == NewReply(asked[c].key, asked[c].content)
             kept == Attached(comments[x], asked[c].key)
  <2>1. /\ opened[c] = None /\ drafts[c] # NoDrafts /\ Effect(c) = None
        /\ StoredUnder(EntryOf(asked[c])) = {} /\ x \in Comments
    BY <1>3, <1>a, <1>b, CallTypes DEF Own, Kept, Opening, Drafted, Uncommitted, Effect, EntryFor
  <2>2. UNCHANGED operations
    BY <2>1 DEF Commit
  <2>3. \A row \in Row : drafts[c] = [NoDrafts EXCEPT ![x] = row]
                            => comments' = [comments EXCEPT ![x] = row]
    <3> SUFFICES ASSUME NEW row \in Row, drafts[c] = [NoDrafts EXCEPT ![x] = row]
                 PROVE  comments' = [comments EXCEPT ![x] = row]
      OBVIOUS
    <3>1. \A y \in Comments : comments'[y] = IF y = x THEN row ELSE comments[y]
      BY <1>e, <2>1, WriteTypes DEF NoDrafts
    <3>2. comments' = [y \in Comments |-> comments'[y]]
      BY DEF Commit
    <3> QED BY <1>a, <3>1, <3>2 DEF TypeOK
  <2>4. CASE comments[x] = None /\ ReplyDraft(c, "created", fresh)
    <3>1. fresh \in Row
      BY <1>b, <1>3, CallTypes, WriteTypes
    <3>2. comments' = [comments EXCEPT ![x] = fresh]
      BY <2>3, <2>4, <3>1 DEF ReplyDraft
    <3>3. outcome[c] = Reply("created", None, <<[comment |-> x, row |-> fresh]>>)
      BY <2>4 DEF ReplyDraft
    <3>4. Atomic!SavePublishedReply(c)
      BY <1>d, <2>1, <2>2, <2>4, <3>2, <3>3, SameOperators
         DEF Atomic!SavePublishedReply, Atomic!Answered, Atomic!Shown
    <3> QED BY <1>a, <1>b, <1>3, <2>1, <3>4, Performs
  <2>5. CASE comments[x] # None /\ comments[x].key = None /\ ReplyDraft(c, "existing", kept)
    <3>1. kept \in Row
      BY <1>a, <1>b, <1>3, <2>1, <2>5, CallTypes, WriteTypes DEF TypeOK
    <3>2. comments' = [comments EXCEPT ![x] = kept]
      BY <2>3, <2>5, <3>1 DEF ReplyDraft
    <3>3. outcome[c] = Reply("existing", None, <<[comment |-> x, row |-> kept]>>)
      BY <2>5 DEF ReplyDraft
    <3>4. Atomic!SavePublishedReply(c)
      BY <1>d, <2>1, <2>2, <2>5, <3>2, <3>3, SameOperators
         DEF Atomic!SavePublishedReply, Atomic!Answered, Atomic!Shown
    <3> QED BY <1>a, <1>b, <1>3, <2>1, <3>4, Performs
  <2> QED BY <1>a, <1>b, <1>3, <2>1, <2>4, <2>5 DEF Own, Drafted
<1>4. CASE Uncommitted(c) /\ asked[c].method = "saveMany"
  <2> DEFINE page == asked[c].page
  <2>1. /\ opened[c] = None /\ Effect(c) = None /\ page \in Seq(Item)
        /\ outcome[c] = Reply("stored", None, PageFound(c, Len(page)))
        /\ PageDrafts(c, Len(page))
    BY <1>4, <1>a, <1>b, CallTypes DEF Own, Kept, Opening, Drafted, Uncommitted, Effect
  <2>2. UNCHANGED operations
    BY <2>1 DEF Commit
  <2>3. ASSUME NEW x \in Comments
        PROVE  comments'[x] = IF x \in Listed(page) THEN Upsert(comments[x], ContentIn(page, x))
                              ELSE comments[x]
    <3>1. CASE x \in Listed(page)
      <4>1. PICK i \in 1..Len(page) : page[i].comment = x
        BY <2>1, <3>1 DEF Listed
      <4>2. drafts[c][x] = PageRow(c, x)
        BY <2>1, <4>1 DEF PageDrafts
      <4>3. PageRow(c, x) \in Row
        <5>1. page[i].comment \in Comments /\ page[i].content \in Contents
              /\ ContentIn(page, page[i].comment) = page[i].content
          BY <1>b, <1>4, <4>1, ItemTypes
        <5>2. comments[x] \in Row \cup {None} /\ ContentIn(page, x) \in Contents
          BY <1>a, <4>1, <5>1 DEF TypeOK
        <5> QED BY <5>2, WriteTypes DEF PageRow
      <4> QED BY <1>e, <3>1, <4>2, <4>3, WriteTypes DEF PageRow
    <3>2. CASE x \notin Listed(page)
      <4>1. drafts[c][x] = None
        BY <2>1, <3>2 DEF PageDrafts, Listed
      <4> QED BY <1>e, <3>2, <4>1
    <3> QED BY <3>1, <3>2
  <2>4. comments' = [x \in Comments |->
                       IF x \in Listed(page) THEN Upsert(comments[x], ContentIn(page, x))
                       ELSE comments[x]]
    BY <2>3 DEF Commit
  <2>5. PageFound(c, Len(page)) =
          [i \in DOMAIN page |-> [comment |-> page[i].comment,
             row |-> Upsert(comments[page[i].comment], ContentIn(page, page[i].comment))]]
    BY <2>1 DEF PageFound, PageRow
  <2>6. Atomic!SaveMany(c)
    BY <1>d, <2>1, <2>2, <2>4, <2>5, SameOperators DEF Atomic!SaveMany, Atomic!Answered
  <2> QED BY <1>a, <1>b, <1>4, <2>1, <2>6, Performs
<1> QED BY <1>b, <1>1, <1>2, <1>3, <1>4

LEMMA RefineDrafts ==
    ASSUME IInv, NEW c \in Calls, Frame(c),
           \/ TakeLock(c) \/ InsertOperation(c) \/ InsertReply(c) \/ AttachKey(c)
           \/ UpsertItem(c)
    PROVE  Atomic!Next \/ UNCHANGED Atomic!vars
<1> USE DEF Goto, Resolve, transaction, memory, tables
<1>a. TypeOK /\ Own(c) /\ Frame(c)
  BY DEF IInv
<1>b. /\ UNCHANGED <<operations, comments, asked>> /\ asked[c] # None /\ asked[c] \in Work
      /\ at[c] \in {"lock", "insertOperation", "insertReply", "attachKey", "upsert"}
      /\ at'[c] # "done"
  BY <1>a DEF TakeLock, InsertOperation, InsertReply, AttachKey, UpsertItem, Own, Located, TypeOK
<1>c. Effect(c) = None /\ outcome[c] = None
  BY <1>a, <1>b, NothingDrafted DEF Own, Kept
<1>d. outcome'[c] = None \/ Uncommitted(c)'
  <2>1. CASE TakeLock(c)
    BY <2>1, <1>c DEF TakeLock
  <2>2. CASE InsertOperation(c)
    <3>1. [status |-> "pending", claim |-> asked[c].claim, comment |-> None] # None
      BY <1>a, <1>b, <2>2, CallTypes, WriteTypes
         DEF InsertOperation, Own, Located, Operation, Statuses
    <3>2. opened'[c] # None
      BY <1>a, <2>2, <3>1 DEF InsertOperation, TypeOK
    <3> QED BY <3>2 DEF Uncommitted
  <2>3. ASSUME NEW x \in Comments, NEW row \in Row, Draft(c, x, row)
        PROVE  Uncommitted(c)'
    <3>1. drafts'[c][x] = row
      BY <1>a, <2>3 DEF Draft, TypeOK
    <3> QED BY <3>1, WriteTypes DEF Uncommitted, NoDrafts
  <2>4. CASE InsertReply(c)
    <3>1. asked[c].method = "savePublishedReply"
      BY <1>a, <2>4 DEF InsertReply, Own, Located
    <3>2. Target(c) \in Comments /\ NewReply(asked[c].key, asked[c].content) \in Row
      BY <1>b, <3>1, CallTypes, WriteTypes DEF Target
    <3> QED BY <1>c, <2>3, <2>4, <3>2 DEF InsertReply
  <2>5. CASE AttachKey(c)
    <3>1. asked[c].method = "savePublishedReply" /\ comments[Target(c)] # None
      BY <1>a, <2>5 DEF AttachKey, Own, Located, Known
    <3>2. Target(c) \in Comments /\ asked[c].key \in Keys
      BY <1>b, <3>1, CallTypes DEF Target
    <3>3. Attached(comments[Target(c)], asked[c].key) \in Row
      BY <1>a, <3>1, <3>2, WriteTypes DEF TypeOK
    <3> QED BY <1>c, <2>3, <2>5, <3>2, <3>3 DEF AttachKey
  <2>6. CASE UpsertItem(c)
    <3> DEFINE x == NextItem(c).comment
    <3>1. asked[c].method = "saveMany" /\ asked[c].page # <<>> /\ stored[c] \in Seq(Found)
      BY <1>a, <2>6 DEF UpsertItem, Own, Located, TypeOK
    <3>2. Len(stored[c]) + 1 \in 1..Len(asked[c].page)
      BY <1>a, <1>b, <2>6, <3>1, CallTypes DEF UpsertItem, Own, Drafted
    <3>3. x \in Comments /\ NextItem(c).content \in Contents
      BY <1>b, <3>1, <3>2, ItemTypes DEF NextItem
    <3>4. Upsert(comments[x], NextItem(c).content) \in Row
      BY <1>a, <3>3, WriteTypes DEF TypeOK
    <3> QED BY <2>3, <2>6, <3>3, <3>4 DEF UpsertItem
  <2> QED BY <2>1, <2>2, <2>4, <2>5, <2>6
<1>e. Effect(c)' = None
  BY <1>d DEF Effect
<1> QED BY <1>a, <1>b, <1>c, <1>e, Stutter

LEMMA RefineEnds ==
    ASSUME IInv, NEW c \in Calls, Frame(c),
           Ask(c) \/ Return(c) \/ (at[c] \notin {"idle", "done"} /\ RollBack(c))
    PROVE  Atomic!Next \/ UNCHANGED Atomic!vars
<1> USE DEF Goto, Resolve, transaction, memory, tables
<1>a. TypeOK /\ Own(c) /\ Frame(c)
  BY DEF IInv
<1>1. CASE Ask(c)
  <2>1. PICK w \in Work : /\ Askable(w) /\ asked' = [asked EXCEPT ![c] = w]
                          /\ Goto(c, FirstStatement(w))
    BY <1>1 DEF Ask
  <2>2. /\ at[c] = "idle" /\ asked[c] = None /\ UNCHANGED <<operations, comments>>
        /\ UNCHANGED <<opened, drafts, outcome>>
    BY <1>1, <1>a DEF Ask, Own, Located
  <2>3. at'[c] # "done"
    BY <1>a, <2>1, CallTypes DEF FirstStatement, TypeOK
  <2>4. answersBar' = answersBar
    BY <2>2 DEF answersBar, Uncommitted
  <2>5. returnedBar' = returnedBar
    BY <1>a, <2>2, <2>3, BarStep
  <2>6. Atomic!Askable(w)
    BY <2>1 DEF Askable, Atomic!Askable
  <2>7. Atomic!Ask(c)
    BY <2>1, <2>2, <2>4, <2>5, <2>6 DEF Atomic!Ask, Atomic!tables
  <2> QED BY <2>7 DEF Atomic!Next
<1>2. CASE Return(c)
  <2>1. /\ at[c] = "resolved" /\ at'[c] = "done"
        /\ UNCHANGED <<operations, comments, asked, opened, drafts, outcome>>
    BY <1>2, <1>a DEF Return, TypeOK
  <2>2. answersBar' = answersBar
    BY <2>1 DEF answersBar, Uncommitted
  <2>3. returnedBar' = returnedBar \cup {c} /\ c \notin returnedBar
    BY <1>a, <2>1, BarStep DEF returnedBar
  <2>4. answersBar[c] # None
    BY <1>a, <2>1, NothingDrafted DEF answersBar, Own, Kept
  <2>5. Atomic!Return(c)
    BY <2>1, <2>2, <2>3, <2>4 DEF Atomic!Return, Atomic!tables
  <2> QED BY <2>5 DEF Atomic!Next
<1>3. CASE at[c] \notin {"idle", "done"} /\ RollBack(c)
  <2>1. /\ at'[c] = "done" /\ UNCHANGED <<operations, comments, asked>>
        /\ outcome'[c] = Reply("rejected", None, <<>>)
        /\ opened'[c] = None /\ drafts'[c] = NoDrafts /\ asked[c] # None
    BY <1>3, <1>a DEF RollBack, EndTransaction, Own, Located, TypeOK
  <2>2. Effect(c)' = Reply("rejected", None, <<>>)
    BY <2>1 DEF Effect, Uncommitted, NoDrafts
  <2>3. answersBar' = [answersBar EXCEPT ![c] = Atomic!Reply("rejected", None, <<>>)]
    BY <1>a, <2>2, BarStep, SameOperators
  <2>4. returnedBar' = returnedBar \cup {c} /\ c \notin returnedBar
    BY <1>a, <1>3, <2>1, BarStep DEF returnedBar
  <2>5. Atomic!Reject(c)
    BY <2>1, <2>3, <2>4 DEF Atomic!Reject, Atomic!Answered, Atomic!tables
  <2> QED BY <2>5 DEF Atomic!Next
<1> QED BY <1>1, <1>2, <1>3

LEMMA AbstractStep ==
    ASSUME IInv, [Next]_vars
    PROVE  Atomic!Next \/ UNCHANGED Atomic!vars
<1>1. CASE \E c \in Calls : Step(c)
  <2>1. PICK c \in Calls : Step(c)
    BY <1>1
  <2>2. Frame(c)
    BY <2>1, StepFrame DEF IInv
  <2>3. DeadlockVictim(c) => at[c] \notin {"idle", "done"} /\ RollBack(c)
    BY DEF DeadlockVictim, Deadlocked, WaitsFor
  <2>4. Disconnect(c) => at[c] \notin {"idle", "done"} /\ RollBack(c)
    BY DEF Disconnect
  <2> QED
    BY <2>1, <2>2, <2>3, <2>4, RefineReads, RefineUpdates, RefineCommit, RefineDrafts,
       RefineEnds DEF Step, Statement
<1>2. CASE UNCHANGED vars
  BY <1>2 DEF vars, Atomic!vars, answersBar, returnedBar, Uncommitted
<1> QED BY <1>1, <1>2 DEF Next, AllDone, Step

(* The repositories keep what the use cases rely on: each call is one step on
   both tables or none, and answers what that step saw. *)
THEOREM Refinement == Spec => ImplementsAtomicStore
<1>1. Init => Atomic!Init
  <2> SUFFICES ASSUME Init PROVE Atomic!Init
    OBVIOUS
  <2>1. answersBar = [c \in Calls |-> None]
    BY DEF Init, answersBar
  <2>2. returnedBar = {}
    BY DEF Init, returnedBar
  <2> QED BY <2>1, <2>2 DEF Init, Atomic!Init
<1>2. IInv /\ [Next]_vars => [Atomic!Next]_Atomic!vars
  BY AbstractStep
<1> QED BY <1>1, <1>2, Invariance, PTL DEF Spec, ImplementsAtomicStore, Atomic!Spec

-----------------------------------------------------------------------------
(* What answers tell of the rows, seen in the atomic store. *)

Bounded(f) ==
    /\ comments[f.comment] # None
    /\ \/ f.row.version < comments[f.comment].version
       \/ /\ f.row.version = comments[f.comment].version
          /\ f.row.content = comments[f.comment].content

Agree(f, g) ==
    f.comment = g.comment /\ f.row.version = g.row.version => f.row.content = g.row.content

Answers(c) ==
    IF answersBar[c] = None THEN {}
    ELSE {answersBar[c].found[i] : i \in DOMAIN answersBar[c].found}

AnswersBounded == \A c \in Calls : \A f \in Answers(c) : Bounded(f)

AnswersAgree ==
    \A c, d \in Calls : \A f \in Answers(c), g \in Answers(d) : Agree(f, g)

LEMMA AnswerRows ==
    ASSUME TypeOK, NEW c \in Calls, NEW f \in Answers(c)
    PROVE  f \in Found
<1>1. answersBar[c] \in Answer
  BY DEF TypeOK, answersBar, Answers
<1>2. answersBar[c].found \in Seq(Found)
  BY <1>1 DEF Answer
<1>3. PICK i \in DOMAIN answersBar[c].found : f = answersBar[c].found[i]
  BY <1>1, NoneAssumption DEF Answers
<1> QED BY <1>2, <1>3

(* A call answers rows as it leaves them, and leaves no row with an older
   version, or with its version and another content. *)
LEMMA AtomicStep ==
    ASSUME TypeOK, OperationsOK, NEW c \in Calls,
           Atomic!Ask(c) \/ Atomic!Perform(c) \/ Atomic!Return(c) \/ Atomic!Reject(c)
    PROVE  /\ \A x \in Comments : comments[x] # None =>
                 /\ comments'[x] # None
                 /\ \/ comments[x].version < comments'[x].version
                    \/ /\ comments[x].version = comments'[x].version
                       /\ comments[x].content = comments'[x].content
           /\ \A d \in Calls \ {c} : answersBar'[d] = answersBar[d]
           /\ \/ answersBar'[c] = answersBar[c]
              \/ \A i \in DOMAIN answersBar'[c].found :
                    answersBar'[c].found[i].row = comments'[answersBar'[c].found[i].comment]
<1> DEFINE Grown ==
      \A x \in Comments : comments[x] # None =>
        /\ comments'[x] # None
        /\ \/ comments[x].version < comments'[x].version
           \/ /\ comments[x].version = comments'[x].version
              /\ comments[x].content = comments'[x].content
      Shows(answer) == \A i \in DOMAIN answer.found :
                         answer.found[i].row = comments'[answer.found[i].comment]
<1>a. comments \in [Comments -> Row \cup {None}] /\ None \notin Row
      /\ answersBar = [d \in Calls |-> answersBar[d]]
  BY WriteTypes DEF TypeOK, answersBar
<1>b. \A kind, op : Shows(Reply(kind, op, <<>>))
  BY DEF Reply
<1>c. \A kind, op, x : LET row == comments'[x]
                      IN  Shows(Reply(kind, op, <<[comment |-> x, row |-> row]>>))
  BY DEF Reply
<1>d. \A answer : answersBar' = [answersBar EXCEPT ![c] = answer] =>
        /\ \A d \in Calls \ {c} : answersBar'[d] = answersBar[d]
        /\ answersBar'[c] = answer
  BY <1>a
<1>e. UNCHANGED comments => Grown
  OBVIOUS
<1>f. \A row : \A x \in Comments :
        /\ comments' = [comments EXCEPT ![x] = row]
        /\ comments[x] # None =>
              /\ row # None
              /\ \/ comments[x].version < row.version
                 \/ comments[x].version = row.version /\ comments[x].content = row.content
        => Grown /\ comments'[x] = row
  BY <1>a
<1> HIDE DEF Grown, Shows
<1>1. CASE Atomic!Ask(c) \/ Atomic!Return(c)
  BY <1>1, <1>e DEF Atomic!Ask, Atomic!Return, Atomic!tables, Grown
<1>2. CASE Atomic!Reject(c)
  <2>1. UNCHANGED comments
        /\ answersBar' = [answersBar EXCEPT ![c] = Reply("rejected", None, <<>>)]
    BY <1>2, SameOperators DEF Atomic!Reject, Atomic!Answered, Atomic!tables
  <2> QED BY <1>b, <1>d, <1>e, <2>1 DEF Grown, Shows
<1>3. CASE Atomic!Perform(c)
  <2> SUFFICES /\ Grown
               /\ \E answer : Shows(answer) /\ answersBar' = [answersBar EXCEPT ![c] = answer]
    BY <1>d DEF Grown, Shows
  <2>1. asked[c] \in Work
    BY <1>3 DEF Atomic!Perform, TypeOK
  <2>2. CASE Atomic!Begin(c) \/ Atomic!FindExisting(c)
    <3>1. UNCHANGED comments
      BY <2>2 DEF Atomic!Begin, Atomic!FindExisting, Atomic!tables
    <3>2. \A x : Atomic!ShownIf(x) = <<>>
                 \/ Atomic!ShownIf(x) = <<[comment |-> x, row |-> comments'[x]]>>
      BY <3>1 DEF Atomic!ShownIf, Atomic!Shown
    <3>3. \A kind, op, x : Shows(Reply(kind, op, Atomic!ShownIf(x)))
      BY <1>b, <1>c, <3>2
    <3>4. \E kind, op, found :
            /\ found = <<>> \/ \E x : found = Atomic!ShownIf(x)
            /\ answersBar' = [answersBar EXCEPT ![c] = Reply(kind, op, found)]
      BY <2>2, SameOperators DEF Atomic!Begin, Atomic!FindExisting, Atomic!Answered
    <3> QED BY <1>b, <1>e, <3>1, <3>3, <3>4
  <2>3. CASE asked[c].method = "savePublishedReply" /\ Atomic!SavePublishedReply(c)
    <3> DEFINE x == asked[c].comment
               fresh == NewReply(asked[c].key, asked[c].content)
               kept == IF comments[x].key = None THEN Attached(comments[x], asked[c].key)
                       ELSE comments[x]
    <3>1. x \in Comments
      BY <2>1, <2>3, CallTypes
    <3>2. CASE UNCHANGED comments /\ \E y : answersBar' = [answersBar EXCEPT ![c] =
                     Reply("existing", None, <<[comment |-> y, row |-> comments[y]]>>)]
      BY <1>c, <1>e, <3>2
    <3>3. CASE /\ comments[x] = None /\ comments' = [comments EXCEPT ![x] = fresh]
               /\ answersBar' = [answersBar EXCEPT ![c] =
                     Reply("created", None, <<[comment |-> x, row |-> fresh]>>)]
      <4>1. Grown /\ comments'[x] = fresh
        BY <1>f, <3>1, <3>3
      <4> QED BY <1>c, <3>3, <4>1
    <3>4. CASE /\ comments[x] # None /\ comments' = [comments EXCEPT ![x] = kept]
               /\ answersBar' = [answersBar EXCEPT ![c] =
                     Reply("existing", None, <<[comment |-> x, row |-> kept]>>)]
      <4>1. /\ kept # None /\ comments[x].version = kept.version
            /\ comments[x].content = kept.content
        <5>1. comments[x] \in Row
          BY <1>a, <3>1, <3>4
        <5>2. Attached(comments[x], asked[c].key) \in Row
          BY <2>1, <2>3, <5>1, CallTypes, WriteTypes
        <5> QED BY <1>a, <5>1, <5>2 DEF Attached
      <4> HIDE DEF kept
      <4>2. Grown /\ comments'[x] = kept
        BY <1>f, <3>1, <3>4, <4>1
      <4> QED BY <1>c, <3>4, <4>2
    <3> QED BY <2>3, <3>2, <3>3, <3>4, SameOperators
            DEF Atomic!SavePublishedReply, Atomic!Answered, Atomic!Shown
  <2>4. CASE Atomic!MarkPublished(c) \/ Atomic!MarkFailed(c)
    <3>1. UNCHANGED comments /\ \E kind :
            answersBar' = [answersBar EXCEPT ![c] = Reply(kind, None, <<>>)]
      BY <2>4, SameOperators DEF Atomic!MarkPublished, Atomic!MarkFailed, Atomic!Answered
    <3> QED BY <1>b, <1>e, <3>1
  <2>5. CASE asked[c].method = "saveMany" /\ Atomic!SaveMany(c)
    <3> DEFINE page == asked[c].page
               row(x) == Upsert(comments[x], ContentIn(page, x))
               found == [i \in DOMAIN page |->
                           [comment |-> page[i].comment, row |-> row(page[i].comment)]]
    <3>1. /\ comments' = [x \in Comments |-> IF x \in Listed(page) THEN row(x) ELSE comments[x]]
          /\ answersBar' = [answersBar EXCEPT ![c] = Reply("stored", None, found)]
      BY <2>5, SameOperators DEF Atomic!SaveMany, Atomic!Answered
    <3>2. ASSUME NEW x \in Comments, comments[x] # None, x \in Listed(page)
          PROVE  row(x) # None /\ comments[x].version < row(x).version
      <4>1. comments[x] \in Row /\ comments[x].version \in Nat
        BY <1>a, <3>2 DEF Row
      <4>2. PICK i \in 1..Len(page) : page[i].comment = x
        BY <2>1, <2>5, <3>2, CallTypes DEF Listed
      <4>3. ContentIn(page, x) \in Contents
        BY <2>1, <2>5, <4>2, ItemTypes
      <4>4. row(x) \in Row
        BY <4>1, <4>3, WriteTypes
      <4> QED BY <1>a, <4>1, <4>4 DEF Upsert
    <3>3. \A i \in DOMAIN page : page[i].comment \in Comments /\ page[i].comment \in Listed(page)
      BY <2>1, <2>5, CallTypes, ItemTypes DEF Listed
    <3>4. Shows(Reply("stored", None, found))
      BY <3>1, <3>3 DEF Shows, Reply
    <3>5. Grown
      BY <3>1, <3>2 DEF Grown
    <3> QED BY <3>1, <3>4, <3>5
  <2>6. CASE asked[c].method = "markDeleted" /\ Atomic!MarkDeleted(c)
    <3> DEFINE x == asked[c].comment
    <3>1. x \in Comments
      BY <2>1, <2>6, CallTypes
    <3>2. /\ comments' = [comments EXCEPT ![x] = Deleted(comments[x])]
          /\ answersBar' = [answersBar EXCEPT ![c] = Reply("done", None, <<>>)]
      BY <2>6, SameOperators DEF Atomic!MarkDeleted, Atomic!Answered
    <3>3. comments[x] # None =>
            /\ Deleted(comments[x]) # None
            /\ \/ comments[x].version < Deleted(comments[x]).version
               \/ /\ comments[x].version = Deleted(comments[x]).version
                  /\ comments[x].content = Deleted(comments[x]).content
      <4> SUFFICES ASSUME comments[x] # None
                   PROVE  /\ Deleted(comments[x]) # None
                          /\ \/ comments[x].version < Deleted(comments[x]).version
                             \/ /\ comments[x].version = Deleted(comments[x]).version
                                /\ comments[x].content = Deleted(comments[x]).content
        OBVIOUS
      <4>1. comments[x] \in Row /\ comments[x].version \in Nat
        BY <1>a, <3>1 DEF Row
      <4>2. Deleted(comments[x]) \in Row
        BY <4>1, WriteTypes
      <4> QED BY <1>a, <4>1, <4>2 DEF Deleted
    <3>4. Grown
      BY <1>f, <3>1, <3>2, <3>3
    <3> QED BY <1>b, <3>2, <3>4
  <2> QED BY <1>3, <2>2, <2>3, <2>4, <2>5, <2>6 DEF Atomic!Perform
<1> QED BY <1>1, <1>2, <1>3

LEMMA AnswersStep ==
    ASSUME TypeOK, TypeOK', OperationsOK, AnswersBounded, AnswersAgree,
           Atomic!Next \/ UNCHANGED Atomic!vars
    PROVE  AnswersBounded' /\ AnswersAgree'
<1>1. CASE UNCHANGED Atomic!vars
  BY <1>1 DEF Atomic!vars, AnswersBounded, AnswersAgree, Answers, Bounded
<1>2. CASE Atomic!Next
  <2>1. PICK c \in Calls :
          Atomic!Ask(c) \/ Atomic!Perform(c) \/ Atomic!Return(c) \/ Atomic!Reject(c)
    BY <1>2 DEF Atomic!Next
  <2>2. ASSUME NEW x \in Comments, comments[x] # None
        PROVE  /\ comments'[x] # None
               /\ comments[x].version \in Nat /\ comments'[x].version \in Nat
               /\ \/ comments[x].version < comments'[x].version
                  \/ /\ comments[x].version = comments'[x].version
                     /\ comments[x].content = comments'[x].content
    <3>1. /\ comments'[x] # None
          /\ \/ comments[x].version < comments'[x].version
             \/ /\ comments[x].version = comments'[x].version
                /\ comments[x].content = comments'[x].content
      BY <2>1, <2>2, AtomicStep
    <3>2. comments[x] \in Row /\ comments'[x] \in Row
      BY <2>2, <3>1 DEF TypeOK
    <3> QED BY <3>1, <3>2 DEF Row
  <2>3. \A d \in Calls \ {c} : Answers(d)' = Answers(d)
    BY <2>1, AtomicStep DEF Answers
  <2>4. \A f \in Answers(c)' : f \in Answers(c) \/ f.row = comments'[f.comment]
    BY <2>1, AtomicStep DEF Answers
  <2>5. \A d \in Calls : \A f \in Answers(d)' :
          /\ f \in Found
          /\ (\E b \in Calls : f \in Answers(b)) \/ f.row = comments'[f.comment]
    <3>1. ASSUME NEW d \in Calls, NEW f \in Answers(d)'
          PROVE  f \in Found
      <4>1. answersBar'[d] # None
        BY DEF Answers
      <4>2. PICK i \in DOMAIN answersBar'[d].found : f = answersBar'[d].found[i]
        BY <4>1 DEF Answers
      <4>3. answersBar'[d] \in Answer
        BY <4>1 DEF TypeOK, answersBar
      <4>4. answersBar'[d].found \in Seq(Found)
        BY <4>3 DEF Answer
      <4> QED BY <4>2, <4>4
    <3> QED BY <2>3, <2>4, <3>1
  <2>6. ASSUME NEW b \in Calls, NEW f \in Answers(b)
        PROVE  Bounded(f)'
    <3>1. f \in Found
      BY AnswerRows
    <3>2. Bounded(f) /\ f.comment \in Comments /\ f.row.version \in Nat
      BY <3>1 DEF AnswersBounded, Found, Row
    <3> QED BY <2>2, <3>2 DEF Bounded
  <2>7. ASSUME NEW f \in Found, f.row = comments'[f.comment]
        PROVE  Bounded(f)'
    BY <2>7, WriteTypes DEF Bounded, Found
  <2>8. AnswersBounded'
    BY <2>5, <2>6, <2>7 DEF AnswersBounded
  <2>9. ASSUME NEW d \in Calls, NEW b \in Calls, NEW f \in Answers(d)', NEW g \in Answers(b)'
        PROVE  Agree(f, g)
    <3>1. /\ f \in Found /\ g \in Found
          /\ f.comment \in Comments /\ f.row.version \in Nat /\ g.row.version \in Nat
      BY <2>5 DEF Found, Row
    <3>2. CASE (\E a \in Calls : f \in Answers(a)) /\ (\E a \in Calls : g \in Answers(a))
      BY <3>2 DEF AnswersAgree
    <3>3. CASE f.row = comments'[f.comment]
      <4>1. Bounded(g)'
        BY <2>8 DEF AnswersBounded
      <4> QED BY <3>1, <3>3, <4>1 DEF Bounded, Agree
    <3>4. CASE g.row = comments'[g.comment]
      <4>1. Bounded(f)'
        BY <2>8 DEF AnswersBounded
      <4> QED BY <3>1, <3>4, <4>1 DEF Bounded, Agree
    <3> QED BY <2>5, <3>2, <3>3, <3>4
  <2> QED BY <2>8, <2>9 DEF AnswersAgree, Agree
<1> QED BY <1>1, <1>2

(* The version of a row can serve as a compare-and-set token for its content:
   no two answers give one version to two contents. *)
THEOREM VersionsTell == Spec => []VersionTellsContent
<1>1. Init => AnswersBounded /\ AnswersAgree
  BY DEF Init, AnswersBounded, AnswersAgree, Answers, answersBar
<1>2. /\ IInv /\ IInv' /\ [Next]_vars /\ AnswersBounded /\ AnswersAgree
      => AnswersBounded' /\ AnswersAgree'
  <2> SUFFICES ASSUME IInv, IInv', [Next]_vars, AnswersBounded, AnswersAgree
               PROVE  AnswersBounded' /\ AnswersAgree'
    OBVIOUS
  <2>1. Atomic!Next \/ UNCHANGED Atomic!vars
    BY AbstractStep
  <2> QED BY <2>1, AnswersStep DEF IInv
<1>3. IInv /\ AnswersAgree => VersionTellsContent
  <2> SUFFICES ASSUME IInv, AnswersAgree, NEW c \in Calls, NEW d \in Calls,
                      at[c] = "done", at[d] = "done",
                      NEW i \in DOMAIN outcome[c].found, NEW j \in DOMAIN outcome[d].found
               PROVE  Agree(outcome[c].found[i], outcome[d].found[j])
    BY DEF VersionTellsContent, Agree
  <2>1. \A b \in {c, d} : answersBar[b] = outcome[b] /\ outcome[b] # None
    BY NothingDrafted DEF answersBar, IInv, Own, Kept
  <2>2. outcome[c].found[i] \in Answers(c) /\ outcome[d].found[j] \in Answers(d)
    BY <2>1 DEF Answers
  <2> QED BY <2>2 DEF AnswersAgree
<1> QED BY <1>1, <1>2, <1>3, Invariance, PTL DEF Spec
=============================================================================
