------------------------------ MODULE SqlStore ------------------------------
(***************************************************************************)
(* The PostgreSQL repositories statement by statement, as READ COMMITTED   *)
(* runs them: a statement sees what is committed when it starts and what   *)
(* its own transaction wrote, a write waits for the transaction that wrote *)
(* the row before, and the advisory lock is held until the transaction     *)
(* ends.  A call that is not in a transaction commits each statement.      *)
(* A row a transaction has written and not committed is its draft; nobody  *)
(* else can write that row, which is what a row lock comes down to here.   *)
(***************************************************************************)
EXTENDS StoreCalls

VARIABLES
    operations, comments,   \* committed rows
    asked,                  \* what each call was asked to do
    at,                     \* the statement it executes next
    lock,                   \* the entry whose advisory lock it holds
    opened,                 \* the operation it has inserted and not committed
    drafts,                 \* the comment rows it has written and not committed
    seen,                   \* the operation row it has read
    stored,                 \* the rows of its page it has upserted
    outcome                 \* what it resolves with

vars == <<operations, comments, asked, at, lock, opened, drafts, seen, stored, outcome>>
tables == <<operations, comments>>
transaction == <<lock, opened, drafts>>
memory == <<seen, stored>>

NoDrafts == [x \in Comments |-> None]

Places == {"idle", "lock", "readOperation", "readComment", "insertOperation",
           "claimed", "insertReply", "attachKey", "current", "upsert",
           "update", "check", "commit", "resolved", "done"}

TypeOK ==
    /\ operations \in [Entries -> Operation \cup {None}]
    /\ comments \in [Comments -> Row \cup {None}]
    /\ asked \in [Calls -> Work \cup {None}]
    /\ at \in [Calls -> Places]
    /\ lock \in [Calls -> Entries \cup {None}]
    /\ opened \in [Calls -> Operation \cup {None}]
    /\ drafts \in [Calls -> [Comments -> Row \cup {None}]]
    /\ seen \in [Calls -> Operation \cup {None}]
    /\ stored \in [Calls -> Seq(Found)]
    /\ outcome \in [Calls -> Answer \cup {None}]

Init ==
    /\ \E h \in Histories : operations = h.operations /\ comments = h.comments
    /\ asked = [c \in Calls |-> None]
    /\ at = [c \in Calls |-> "idle"]
    /\ lock = [c \in Calls |-> None]
    /\ opened = [c \in Calls |-> None]
    /\ drafts = [c \in Calls |-> NoDrafts]
    /\ seen = [c \in Calls |-> None]
    /\ stored = [c \in Calls |-> <<>>]
    /\ outcome = [c \in Calls |-> None]

-----------------------------------------------------------------------------
Goto(c, place) == at' = [at EXCEPT ![c] = place]

Resolve(c, kind, operation, found) ==
    outcome' = [outcome EXCEPT ![c] = Reply(kind, operation, found)]

EntryFor(c) == EntryOf(asked[c])
Target(c) == asked[c].comment

(* No other open transaction has written row x. *)
RowIsFree(c, x) == \A d \in Calls \ {c} : drafts[d][x] = None

StoredUnder(e) ==
    {x \in Comments : /\ AccountOf[x] = e[1]
                      /\ comments[x] # None
                      /\ comments[x].key = e[2]}

(* markPublished and markFailed get the id of an operation begin returned,
   markPublished and markDeleted a comment that was read before. *)
Askable(w) ==
    /\ w.method \in {"markPublished", "markFailed"} => operations[w.entry] # None
    /\ w.method \in {"markPublished", "markDeleted"} => comments[w.comment] # None

FirstStatement(w) ==
    CASE w.method \in {"begin", "savePublishedReply"} -> "lock"
      [] w.method = "findExisting" -> "readOperation"
      [] w.method = "saveMany" -> "upsert"
      [] w.method \in {"markPublished", "markFailed", "markDeleted"} -> "update"

Ask(c) ==
    /\ at[c] = "idle"
    /\ \E w \in Work :
         /\ Askable(w)
         /\ asked' = [asked EXCEPT ![c] = w]
         /\ Goto(c, FirstStatement(w))
    /\ UNCHANGED <<tables, transaction, memory, outcome>>

LockNotAsked(c) == TRUE    \* faulty: the method takes no advisory lock

LockIsFree(c) == \A d \in Calls : lock[d] # EntryFor(c)

(* select pg_advisory_xact_lock; savePublishedReply has resolved the account
   of the post before, which never changes. *)
TakeLock(c) ==
    /\ at[c] = "lock"
    /\ LockIsFree(c)
    /\ lock' = [lock EXCEPT ![c] = EntryFor(c)]
    /\ Goto(c, IF asked[c].method = "begin" THEN "readOperation" ELSE "claimed")
    /\ UNCHANGED <<tables, asked, opened, drafts, memory, outcome>>

-----------------------------------------------------------------------------
(* begin and findExistingByParent *)

(* The decision of begin on the row it found; findExistingByParent leaves the
   comparison to its caller. *)
Judge(c, op, found) ==
    IF asked[c].method = "begin" /\ op.claim # asked[c].claim
    THEN Resolve(c, "conflict", None, <<>>)
    ELSE Resolve(c, "existing", op, found)

(* begin still has to commit; findExistingByParent runs in no transaction. *)
Finish(c) == Goto(c, IF asked[c].method = "begin" THEN "commit" ELSE "resolved")

ReadOperation(c) ==
    LET op == operations[EntryFor(c)] IN
    /\ at[c] = "readOperation"
    /\ \/ /\ op = None /\ asked[c].method = "begin"
          /\ Goto(c, "insertOperation") /\ UNCHANGED <<seen, outcome>>
       \/ /\ op = None /\ asked[c].method = "findExisting"
          /\ Resolve(c, "missing", None, <<>>)
          /\ Finish(c) /\ UNCHANGED seen
       \/ /\ op # None /\ op.comment = None
          /\ Judge(c, op, <<>>)
          /\ Finish(c) /\ UNCHANGED seen
       \/ /\ op # None /\ op.comment # None
          /\ seen' = [seen EXCEPT ![c] = op]
          /\ Goto(c, "readComment") /\ UNCHANGED outcome
    /\ UNCHANGED <<tables, asked, transaction, stored>>

ReadComment(c) ==
    LET x == seen[c].comment IN
    /\ at[c] = "readComment"
    /\ Judge(c, seen[c], <<[comment |-> x, row |-> comments[x]]>>)
    /\ seen' = [seen EXCEPT ![c] = None]
    /\ Finish(c)
    /\ UNCHANGED <<tables, asked, transaction, stored>>

(* The unique constraint makes an insert wait for another one of the entry.
   That it never rejects one is BeginNeverCollides. *)
InsertOperation(c) ==
    /\ at[c] = "insertOperation"
    /\ operations[EntryFor(c)] = None
    /\ \A d \in Calls \ {c} : opened[d] # None => EntryFor(d) # EntryFor(c)
    /\ opened' = [opened EXCEPT ![c] =
         [status |-> "pending", claim |-> asked[c].claim, comment |-> None]]
    /\ Resolve(c, "started", None, <<>>)
    /\ Goto(c, "commit")
    /\ UNCHANGED <<tables, asked, lock, drafts, memory>>

-----------------------------------------------------------------------------
(* savePublishedReply *)

ReadClaimed(c) ==
    /\ at[c] = "claimed"
    /\ \/ /\ \E x \in StoredUnder(EntryFor(c)) :
               Resolve(c, "existing", None, <<[comment |-> x, row |-> comments[x]]>>)
          /\ Goto(c, "commit")
       \/ /\ StoredUnder(EntryFor(c)) = {}
          /\ Goto(c, "insertReply") /\ UNCHANGED outcome
    /\ UNCHANGED <<tables, asked, transaction, memory>>

Draft(c, x, row) == drafts' = [drafts EXCEPT ![c] = [@ EXCEPT ![x] = row]]

(* insert .. on conflict do nothing: a committed row is a conflict at once,
   an uncommitted insert is waited for. *)
InsertReply(c) ==
    LET x == Target(c)
        row == NewReply(asked[c].key, asked[c].content)
    IN
    /\ at[c] = "insertReply"
    /\ \/ /\ comments[x] # None
          /\ Goto(c, "attachKey") /\ UNCHANGED <<drafts, outcome>>
       \/ /\ comments[x] = None /\ RowIsFree(c, x)
          /\ Draft(c, x, row)
          /\ Resolve(c, "created", None, <<[comment |-> x, row |-> row]>>)
          /\ Goto(c, "commit")
    /\ UNCHANGED <<tables, asked, lock, opened, memory>>

AttachAlways(row) == TRUE    \* faulty: the key of another operation is overwritten

Attachable(row) == row.key = None

(* update .. where idempotency_key is null: a committed row that does not match
   is passed over, whoever is writing it; one that matches is waited for. *)
AttachKey(c) ==
    LET x == Target(c)
        row == Attached(comments[x], asked[c].key)
    IN
    /\ at[c] = "attachKey"
    /\ \/ /\ Attachable(comments[x]) /\ RowIsFree(c, x)
          /\ Draft(c, x, row)
          /\ Resolve(c, "existing", None, <<[comment |-> x, row |-> row]>>)
          /\ Goto(c, "commit")
       \/ /\ ~Attachable(comments[x])
          /\ Goto(c, "current") /\ UNCHANGED <<drafts, outcome>>
    /\ UNCHANGED <<tables, asked, lock, opened, memory>>

ReadCurrent(c) ==
    LET x == Target(c) IN
    /\ at[c] = "current"
    /\ Resolve(c, "existing", None, <<[comment |-> x, row |-> comments[x]]>>)
    /\ Goto(c, "commit")
    /\ UNCHANGED <<tables, asked, transaction, memory>>

-----------------------------------------------------------------------------
(* saveMany *)

(* An empty page is answered without the database. *)
EmptyPage(c) ==
    /\ at[c] = "upsert" /\ asked[c].page = <<>>
    /\ Resolve(c, "stored", None, <<>>)
    /\ Goto(c, "resolved")
    /\ UNCHANGED <<tables, asked, transaction, memory>>

NextItem(c) == asked[c].page[Len(stored[c]) + 1]

UpsertBlindly(c, x) == TRUE    \* faulty: the row is written without its lock

UpsertMayWrite(c, x) == RowIsFree(c, x)

UpsertItem(c) ==
    LET x == NextItem(c).comment
        row == Upsert(comments[x], NextItem(c).content)
        found == Append(stored[c], [comment |-> x, row |-> row])
    IN
    /\ at[c] = "upsert" /\ asked[c].page # <<>>
    /\ UpsertMayWrite(c, x)
    /\ Draft(c, x, row)
    /\ \/ /\ Len(found) < Len(asked[c].page)
          /\ stored' = [stored EXCEPT ![c] = found]
          /\ UNCHANGED <<at, outcome>>
       \/ /\ Len(found) = Len(asked[c].page)
          /\ stored' = [stored EXCEPT ![c] = <<>>]
          /\ Resolve(c, "stored", None, found)
          /\ Goto(c, "commit")
    /\ UNCHANGED <<tables, asked, lock, opened, seen>>

-----------------------------------------------------------------------------
(* The single statements of markPublished, markFailed and markDeleted *)

MarkPublished(c) ==
    LET e == EntryFor(c)
        op == operations[e]
    IN
    /\ at[c] = "update" /\ asked[c].method = "markPublished"
    /\ \/ /\ op.status # "published"
          /\ operations' = [operations EXCEPT ![e] = Settled(op, "published", Target(c))]
          /\ Resolve(c, "done", None, <<>>) /\ Goto(c, "resolved")
       \/ /\ op.status = "published"
          /\ Goto(c, "check") /\ UNCHANGED <<operations, outcome>>
    /\ UNCHANGED <<comments, asked, transaction, memory>>

MarkFailed(c) ==
    LET e == EntryFor(c)
        op == operations[e]
    IN
    /\ at[c] = "update" /\ asked[c].method = "markFailed"
    /\ \/ /\ Replaceable(op.status, asked[c].status)
          /\ operations' = [operations EXCEPT ![e] = Settled(op, asked[c].status, None)]
          /\ Resolve(c, "done", None, <<>>) /\ Goto(c, "resolved")
       \/ /\ ~Replaceable(op.status, asked[c].status)
          /\ Goto(c, "check") /\ UNCHANGED <<operations, outcome>>
    /\ UNCHANGED <<comments, asked, transaction, memory>>

(* The select that tells why the update matched nothing. *)
CheckOperation(c) ==
    LET op == operations[EntryFor(c)] IN
    /\ at[c] = "check"
    /\ Resolve(c, IF asked[c].method = "markPublished"
                     /\ ~(op.status = "published" /\ op.comment = Target(c))
                  THEN "thrown" ELSE "done", None, <<>>)
    /\ Goto(c, "resolved")
    /\ UNCHANGED <<tables, asked, transaction, memory>>

(* update .. where projection_state <> 'deleted': only a row that matches is
   waited for. *)
MarkDeleted(c) ==
    LET x == Target(c) IN
    /\ at[c] = "update" /\ asked[c].method = "markDeleted"
    /\ comments[x].state # "deleted" => RowIsFree(c, x)
    /\ comments' = [comments EXCEPT ![x] = Deleted(comments[x])]
    /\ Resolve(c, "done", None, <<>>) /\ Goto(c, "resolved")
    /\ UNCHANGED <<operations, asked, transaction, memory>>

-----------------------------------------------------------------------------
(* The end of a transaction *)

LockKept(c) == UNCHANGED lock    \* faulty: a lock of the session, not the transaction

ReleaseLock(c) == lock' = [lock EXCEPT ![c] = None]

EndTransaction(c) ==
    /\ ReleaseLock(c)
    /\ opened' = [opened EXCEPT ![c] = None]
    /\ drafts' = [drafts EXCEPT ![c] = NoDrafts]

Commit(c) ==
    /\ at[c] = "commit"
    /\ operations' = IF opened[c] = None THEN operations
                     ELSE [operations EXCEPT ![EntryFor(c)] = opened[c]]
    /\ comments' = [x \in Comments |->
                      IF drafts[c][x] # None THEN drafts[c][x] ELSE comments[x]]
    /\ EndTransaction(c)
    /\ Goto(c, "resolved")
    /\ UNCHANGED <<asked, memory, outcome>>

(* The promise resolves in the caller. *)
Return(c) ==
    /\ at[c] = "resolved"
    /\ Goto(c, "done")
    /\ UNCHANGED <<tables, asked, transaction, memory, outcome>>

(* The call rejects: its transaction, if one is open, is rolled back. *)
RollBack(c) ==
    /\ EndTransaction(c)
    /\ Resolve(c, "rejected", None, <<>>)
    /\ seen' = [seen EXCEPT ![c] = None]
    /\ stored' = [stored EXCEPT ![c] = <<>>]
    /\ Goto(c, "done")
    /\ UNCHANGED <<tables, asked>>

(* The connection is lost, or the process dies, before the answer arrives.  This
   is the moment at which the server is done with the call.  Its client may know
   before, and a statement or commit the server was at may still land in between:
   that is the statement's own action, and for the tables and for those who
   wait the call is under way until here. *)
Disconnect(c) == at[c] \notin {"idle", "done"} /\ RollBack(c)

(* c cannot go on before d's transaction ends. *)
WaitsFor(c, d) ==
    /\ c # d
    /\ \/ at[c] = "lock" /\ lock[d] = EntryFor(c)
       \/ /\ at[c] = "insertReply" /\ comments[Target(c)] = None
          /\ drafts[d][Target(c)] # None
       \/ /\ at[c] = "attachKey" /\ Attachable(comments[Target(c)])
          /\ drafts[d][Target(c)] # None
       \/ at[c] = "upsert" /\ asked[c].page # <<>> /\ drafts[d][NextItem(c).comment] # None
       \/ /\ at[c] = "update" /\ asked[c].method = "markDeleted"
          /\ comments[Target(c)].state # "deleted"
          /\ drafts[d][Target(c)] # None
       \/ /\ at[c] = "insertOperation" /\ opened[d] # None
          /\ EntryFor(d) = EntryFor(c)

(* PostgreSQL aborts a transaction that waits for itself. *)
Deadlocked(c) ==
    \E D \in SUBSET Calls :
        /\ c \in D
        /\ \A d \in D : /\ \E b \in D : WaitsFor(d, b)
                        /\ \E b \in D : WaitsFor(b, d)

DeadlockVictim(c) == Deadlocked(c) /\ RollBack(c)

-----------------------------------------------------------------------------
Statement(c) ==
    \/ TakeLock(c)
    \/ ReadOperation(c) \/ ReadComment(c) \/ InsertOperation(c)
    \/ ReadClaimed(c) \/ InsertReply(c) \/ AttachKey(c) \/ ReadCurrent(c)
    \/ EmptyPage(c) \/ UpsertItem(c)
    \/ MarkPublished(c) \/ MarkFailed(c) \/ CheckOperation(c) \/ MarkDeleted(c)
    \/ Commit(c) \/ Return(c)

AllDone == (\A c \in Calls : at[c] = "done") /\ UNCHANGED vars

Next ==
    \/ \E c \in Calls : Ask(c) \/ Statement(c) \/ Disconnect(c) \/ DeadlockVictim(c)
    \/ AllDone

Spec == Init /\ [][Next]_vars

-----------------------------------------------------------------------------
(* Properties *)

(* A call took effect when the statement that settled its outcome was the
   last to write, or when its transaction committed. *)
Uncommitted(c) == opened[c] # None \/ drafts[c] # NoDrafts

answersBar ==
    [c \in Calls |-> IF Uncommitted(c) THEN None ELSE outcome[c]]

returnedBar == {c \in Calls : at[c] = "done"}

Atomic == INSTANCE AtomicStore WITH answers <- answersBar, returned <- returnedBar

(* Although the repositories take several statements, and markPublished,
   markFailed, markDeleted and saveMany take no lock, every call acts on both
   tables in one step or not at all, and answers what that step saw. *)
ImplementsAtomicStore == Atomic!Spec

(* begin never runs into the unique constraint of account and key: between
   its read and its insert nobody else opens the operation. *)
BeginNeverCollides ==
    \A c \in Calls : at[c] = "insertOperation" =>
        /\ operations[EntryFor(c)] = None
        /\ \A d \in Calls \ {c} : opened[d] # None => EntryFor(d) # EntryFor(c)

(* Only pages are victims of a deadlock.  The calls of a publication take the
   advisory lock before any row, and wait for no second row. *)
OnlyPagesDeadlock ==
    \A c \in Calls : Deadlocked(c) => asked[c].method = "saveMany"

(* The version column is a compare-and-set token (docs/architecture.md): of
   all rows that were ever answered, two of one comment with the same version
   have the same content, although pages that were rolled back used versions,
   too. *)
VersionTellsContent ==
    \A c, d \in Calls : at[c] = "done" /\ at[d] = "done" =>
        \A i \in DOMAIN outcome[c].found, j \in DOMAIN outcome[d].found :
            LET f == outcome[c].found[i]
                g == outcome[d].found[j]
            IN f.comment = g.comment /\ f.row.version = g.row.version
                 => f.row.content = g.row.content

UnderWay(c) == at[c] \notin {"idle", "done"}

Blocked(c) == \E d \in Calls : WaitsFor(c, d)

(* While a call is under way, some call waits for nobody or is a page that is
   the victim of a deadlock: locks are freed with their transaction, whichever
   way it ends, and no chain of waits ends in a call that is over.  A call has
   finitely many statements, so all of them end. *)
NoStandstill ==
    /\ OnlyPagesDeadlock
    /\ (\E c \in Calls : UnderWay(c)) =>
          \E c \in Calls : UnderWay(c) /\ (Blocked(c) => Deadlocked(c))

(* Waiting for another transaction is the only thing that stops a call:
   whatever the others have committed since its last statement, there is a next
   one, or an answer. *)
OnlyWaitsStop ==
    \A c \in Calls : UnderWay(c) => (Blocked(c) <=> ~ENABLED Statement(c))
=============================================================================
