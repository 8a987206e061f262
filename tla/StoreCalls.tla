----------------------------- MODULE StoreCalls -----------------------------
(***************************************************************************)
(* The calls use cases make on the PostgreSQL repositories, the rows the   *)
(* repositories keep, and what a call may do to one row.                   *)
(***************************************************************************)
EXTENDS Naturals, Sequences

CONSTANTS
    Calls,       \* executions of repository methods
    Work,        \* what callers ask for
    Accounts,
    Keys,
    Claims,      \* parent and fingerprint of an operation
    Comments,    \* unique (post_id, external_comment_id)
    Contents,
    AccountOf,   \* the account whose post a comment belongs to
    Histories,   \* tables that earlier calls may have left
    None         \* null

Entries == Accounts \X Keys
Statuses == {"pending", "published", "retryable_failed", "failed", "indeterminate"}
FailedStatuses == Statuses \ {"pending", "published"}

(* A status and its failure code are always written together; the status is kept. *)
Operation == [status : Statuses, claim : Claims, comment : Comments \cup {None}]
Row == [key : Keys \cup {None}, content : Contents,
        state : {"active", "deleted"}, version : Nat \ {0}]
Item == [comment : Comments, content : Contents]
Found == [comment : Comments, row : Row]

Answer == [kind : {"started", "existing", "conflict", "missing", "created",
                   "stored", "done", "thrown", "rejected"},
           operation : Operation \cup {None},
           found : Seq(Found)]

(* Arguments of the repository methods. *)
BeginCall == [method : {"begin"}, entry : Entries, claim : Claims]
FindCall == [method : {"findExisting"}, entry : Entries]
SaveCall == [method : {"savePublishedReply"}, key : Keys, comment : Comments,
             content : Contents]
PublishCall == [method : {"markPublished"}, entry : Entries, comment : Comments]
FailCall == [method : {"markFailed"}, entry : Entries, status : FailedStatuses]
ImportCall == [method : {"saveMany"}, page : Seq(Item)]
DeleteCall == [method : {"markDeleted"}, comment : Comments]

Call == BeginCall \cup FindCall \cup SaveCall \cup PublishCall
            \cup FailCall \cup ImportCall \cup DeleteCall

ASSUME AccountAssumption == AccountOf \in [Comments -> Accounts]
ASSUME WorkAssumption ==
    /\ Work \subseteq Call
    /\ \A w \in Work : w.method = "saveMany" =>    \* a page lists a comment once
         \A i, j \in DOMAIN w.page :
            w.page[i].comment = w.page[j].comment => i = j
ASSUME NoneAssumption ==
    None \notin Keys \cup Comments \cup Operation \cup Row \cup Answer \cup Call
                \cup Entries

-----------------------------------------------------------------------------
Reply(kind, operation, found) ==
    [kind |-> kind, operation |-> operation, found |-> found]

EntryOfComment(call) ==    \* faulty: keys are scoped by post instead of account
    IF call.method = "savePublishedReply"
    THEN <<call.comment, call.key>> ELSE call.entry

EntryOf(call) ==
    IF call.method = "savePublishedReply"
    THEN <<AccountOf[call.comment], call.key>> ELSE call.entry

Replaceable(old, new) ==
    \/ old = "pending"
    \/ old = "retryable_failed" /\ new \in {"failed", "indeterminate"}
    \/ old = "failed" /\ new = "indeterminate"

(* What a write leaves in a row; markFailed clears comment_id, only pages and
   not-founds count the version up. *)
Settled(op, status, comment) ==
    [status |-> status, claim |-> op.claim, comment |-> comment]

NewReply(key, content) ==
    [key |-> key, content |-> content, state |-> "active", version |-> 1]

Attached(row, key) ==
    [key |-> key, content |-> row.content, state |-> "active", version |-> row.version]

Upsert(row, content) ==
    IF row = None
    THEN [key |-> None, content |-> content, state |-> "active", version |-> 1]
    ELSE [key |-> row.key, content |-> content, state |-> "active",
          version |-> row.version + 1]

Deleted(row) ==
    IF row.state = "deleted" THEN row
    ELSE [key |-> row.key, content |-> row.content, state |-> "deleted",
          version |-> row.version + 1]

Listed(page) == {page[i].comment : i \in DOMAIN page}

ContentIn(page, x) ==
    (CHOOSE item \in {page[i] : i \in DOMAIN page} : item.comment = x).content

(* Tables as earlier calls leave them: the check constraints and references of
   migration 0004 hold, and a key is on one row, whose operation exists. *)
Legal(ops, rows) ==
    /\ ops \in [Entries -> Operation \cup {None}]
    /\ rows \in [Comments -> Row \cup {None}]
    /\ \A e \in Entries : ops[e] # None =>
          /\ (ops[e].status = "published") <=> (ops[e].comment # None)
          /\ ops[e].comment # None =>
                /\ AccountOf[ops[e].comment] = e[1]
                /\ rows[ops[e].comment] # None
                /\ rows[ops[e].comment].key = e[2]
    /\ \A x, y \in Comments :
          rows[x] # None /\ rows[x].key # None =>
             /\ ops[<<AccountOf[x], rows[x].key>>] # None
             /\ AccountOf[y] = AccountOf[x] /\ rows[y] # None /\ rows[y].key = rows[x].key
                   => y = x

ASSUME HistoryAssumption ==
    \A h \in Histories : Legal(h.operations, h.comments)
=============================================================================
