-------------------------- MODULE ReplyPublication --------------------------
(***************************************************************************)
(* POST /comments as ThreadBridge runs it: the ReplyToComment use case,    *)
(* the two PostgreSQL repositories it awaits and the provider it calls.    *)
(* A handler is one element of Requests; each action is what the handler   *)
(* does from one await to the next, with the transaction that resolves     *)
(* the await.  Handlers interleave, and any of them may stop at any await. *)
(* The external reply a provider creates is named after the request whose  *)
(* call created it.                                                        *)
(***************************************************************************)
EXTENDS Naturals, FiniteSets

CONSTANTS
    Requests,          \* handler executions
    Keys,              \* Idempotency-Key values clients choose
    Contents,          \* reply bodies
    Parents,           \* stored comments that can be replied to
    Posts,
    Accounts,
    PostOf,            \* the post of a parent
    AccountOf,         \* the connected account of a post
    Publication,       \* account -> what its gateway declares
    ProviderFailures,  \* typed failures the providers of this instance return
    Spellings,         \* how clients spell a parent UUID
    Edits,             \* can a published reply be edited at the provider?
    None               \* null

(* The failure codes of domain/errors.ts, by the status they are stored as. *)
RetryableCodes ==
    {"PLATFORM_RATE_LIMITED", "PLATFORM_TIMEOUT", "PLATFORM_UNAVAILABLE"}
TerminalCodes ==
    {"PLATFORM_AUTHENTICATION_FAILED", "PLATFORM_PERMISSION_DENIED",
     "PLATFORM_RESOURCE_NOT_FOUND", "PLATFORM_VALIDATION_FAILED",
     "PLATFORM_OPERATION_UNSUPPORTED", "PLATFORM_CURSOR_INVALID"}
IndeterminateCodes == {"INDETERMINATE_PLATFORM_RESULT", "IDEMPOTENCY_CONFLICT"}
FailureCodes == RetryableCodes \cup TerminalCodes \cup IndeterminateCodes

(* Codes answered without a durable trace; THROWN is a rejected promise of
   one of the "cannot happen" throw statements, answered as a 500. *)
LocalCodes == {"COMMENT_NOT_FOUND", "UNSUPPORTED_PLATFORM", "THROWN"}
SuccessKinds == {"created", "existing"}

ASSUME TopologyAssumption ==
    /\ PostOf \in [Parents -> Posts]
    /\ AccountOf \in [Posts -> Accounts]
    /\ Publication \in
         [Accounts -> {"native", "none", "unsupported", "unregistered"}]
ASSUME ProviderAssumption ==
    /\ ProviderFailures \subseteq RetryableCodes \cup TerminalCodes
    /\ Edits \in BOOLEAN
ASSUME SpellingAssumption == Spellings \subseteq {"canonical", "uppercase"}

Statuses == {"pending", "published", "retryable_failed", "failed", "indeterminate"}
Query == [parent : Parents, spelling : Spellings, content : Contents, key : Keys]
Fingerprints == Parents \X Spellings \X Contents
CommentIds == Posts \X Requests     \* unique (post_id, external_comment_id)

Operation == [status : Statuses, parent : Parents, fingerprint : Fingerprints,
              comment : CommentIds \cup {None}, code : FailureCodes \cup {None}]
Row == [parent : Parents, content : Contents, key : Keys \cup {None}]
Reply == [account : Accounts, key : Keys, parent : Parents, content : Contents]
Outcome == [code : FailureCodes \cup LocalCodes \cup SuccessKinds,
            comment : CommentIds \cup {None}]
Snapshot == [status : Statuses, code : FailureCodes \cup {None}]
Answer == [reply : Requests, content : Contents]
LedgerRecord == [status : Statuses, claim : Fingerprints,
                 comment : CommentIds \cup {None}]

ASSUME NoneAssumption ==
    None \notin Keys \cup FailureCodes \cup CommentIds \cup Query \cup Operation
               \cup Row \cup Reply \cup Outcome \cup Snapshot \cup Answer
               \cup LedgerRecord

VARIABLES
    operations,   \* reply_publication_operations by <<account, key>>
    comments,     \* reply rows of the comments table, or None
    active,       \* parents whose projection_state is 'active'
    replies,      \* at the provider: request -> the reply its call created
    inflight,     \* calls without an answer that may still take effect
    pc,           \* the await each handler is at
    query,        \* the request it serves
    begun,        \* status and code of the operation begin returned
    answer,       \* the reply the gateway returned
    result        \* what the handler returns, once it knows

tables == <<operations, comments, active>>
provider == <<replies, inflight>>
vars == <<operations, comments, active, replies, inflight,
          pc, query, begun, answer, result>>

Locations == {"idle", "inactive", "context", "recovering", "calling", "saving",
              "publishing", "failing", "deleting", "returning", "done",
              "abandoned"}

TypeOK ==
    /\ operations \in [Accounts \X Keys -> Operation \cup {None}]
    /\ comments \in [CommentIds -> Row \cup {None}]
    /\ active \subseteq Parents
    /\ replies \in [Requests -> Reply \cup {None}]
    /\ inflight \subseteq Requests
    /\ pc \in [Requests -> Locations]
    /\ query \in [Requests -> Query \cup {None}]
    /\ begun \in [Requests -> Snapshot \cup {None}]
    /\ answer \in [Requests -> Answer \cup {None}]
    /\ result \in [Requests -> Outcome \cup {None}]

Init ==
    /\ operations = [e \in Accounts \X Keys |-> None]
    /\ comments = [id \in CommentIds |-> None]
    /\ active = Parents
    /\ replies = [r \in Requests |-> None]
    /\ inflight = {}
    /\ pc = [r \in Requests |-> "idle"]
    /\ query = [r \in Requests |-> None]
    /\ begun = [r \in Requests |-> None]
    /\ answer = [r \in Requests |-> None]
    /\ result = [r \in Requests |-> None]

-----------------------------------------------------------------------------
(* The pure decisions of the use case *)

AccountFor(parent) == AccountOf[PostOf[parent]]
Entry(r) == <<AccountFor(query[r].parent), query[r].key>>
Capability(r) == Publication[AccountFor(query[r].parent)]

StatusOfLateWriteIgnored(code) ==    \* faulty: unknown counts as retryable
    IF code \in TerminalCodes THEN "failed" ELSE "retryable_failed"

StatusOfUnsupportedRetryable(code) ==    \* faulty: one code misclassified
    IF code \in TerminalCodes \ {"PLATFORM_OPERATION_UNSUPPORTED"} THEN "failed"
    ELSE IF code \in IndeterminateCodes THEN "indeterminate"
    ELSE "retryable_failed"

StatusOf(code) ==
    CASE code \in RetryableCodes -> "retryable_failed"
      [] code \in TerminalCodes -> "failed"
      [] OTHER -> "indeterminate"

(* JSON.stringify([parentCommentId, content]) keeps the spelling it was given. *)
FingerprintOfParentOnly(q) == <<q.parent, q.spelling>>    \* faulty

Fingerprint(q) == <<q.parent, q.spelling, q.content>>

(* PostgreSQL returns a UUID in lower case, so a parent id that was spelled
   otherwise equals the stored one in SQL and differs from it in ===. *)
SameParent(stored, q) == stored = q.parent /\ q.spelling = "canonical"

IsReplayOf(row, q) ==
    /\ row.key = q.key
    /\ SameParent(row.parent, q)
    /\ row.content = q.content

MatchesAnyClaim(op, q) == TRUE    \* faulty: the key is enough, as at the provider

MatchesOperation(op, q) ==
    SameParent(op.parent, q) /\ op.fingerprint = Fingerprint(q)

Success(kind, id) == [code |-> kind, comment |-> id]
Failure(code) == [code |-> code, comment |-> None]

ReplayOf(id, q) ==
    IF id = None \/ comments[id] = None THEN Failure("THROWN")
    ELSE IF IsReplayOf(comments[id], q) THEN Success("existing", id)
    ELSE Failure("IDEMPOTENCY_CONFLICT")

(* terminalFailureOf and indeterminateFailureOf *)
RecordedFailure(op) ==
    IF \/ op.status = "failed" /\ op.code \in TerminalCodes
       \/ op.status = "indeterminate" /\ op.code \in IndeterminateCodes
    THEN Failure(op.code)
    ELSE Failure("THROWN")

ReplayWithoutActiveContext(op, q) ==
    CASE op = None -> Failure("COMMENT_NOT_FOUND")
      [] op # None /\ ~MatchesOperation(op, q) -> Failure("IDEMPOTENCY_CONFLICT")
      [] op # None /\ MatchesOperation(op, q) ->
           CASE op.status = "published" -> ReplayOf(op.comment, q)
             [] op.status \in {"failed", "indeterminate"} -> RecordedFailure(op)
             [] op.status \in {"pending", "retryable_failed"} ->
                  Failure("COMMENT_NOT_FOUND")

StoredUnderAnyAccount(account, key) ==    \* faulty: the join is forgotten
    {id \in CommentIds : comments[id] # None /\ comments[id].key = key}

(* The rows findByIdempotencyKey and savePublishedReply look for. *)
StoredUnder(account, key) ==
    {id \in CommentIds : /\ AccountOf[id[1]] = account
                         /\ comments[id] # None
                         /\ comments[id].key = key}

-----------------------------------------------------------------------------
(* The steps of a handler *)

Goto(r, location) == pc' = [pc EXCEPT ![r] = location]

Respond(r, outcome) ==
    Goto(r, "returning") /\ result' = [result EXCEPT ![r] = outcome]

(* The failure is known; the next await records it. *)
Fail(r, code) ==
    Goto(r, "failing") /\ result' = [result EXCEPT ![r] = Failure(code)]

(* A request arrives and its parent's active context and gateway are looked up. *)
FindContext(r) ==
    /\ pc[r] = "idle"
    /\ \E q \in Query :
         /\ query' = [query EXCEPT ![r] = q]
         /\ \/ q.parent \notin active /\ Goto(r, "inactive") /\ UNCHANGED result
            \/ /\ q.parent \in active
               /\ Publication[AccountFor(q.parent)] = "unregistered"
               /\ Respond(r, Failure("UNSUPPORTED_PLATFORM"))
            \/ /\ q.parent \in active
               /\ Publication[AccountFor(q.parent)] # "unregistered"
               /\ Goto(r, "context") /\ UNCHANGED result
    /\ UNCHANGED <<tables, provider, begun, answer>>

ReplayWithoutContext(r) ==
    /\ pc[r] = "inactive"
    /\ Respond(r, ReplayWithoutActiveContext(operations[Entry(r)], query[r]))
    /\ UNCHANGED <<tables, provider, query, begun, answer>>

(* begin inserts the row; a provider that cannot publish is noticed next. *)
StartOperation(r) ==
    /\ pc[r] = "context"
    /\ operations[Entry(r)] = None
    /\ operations' = [operations EXCEPT ![Entry(r)] =
         [status |-> "pending", parent |-> query[r].parent,
          fingerprint |-> Fingerprint(query[r]), comment |-> None, code |-> None]]
    /\ \/ /\ Capability(r) = "unsupported"
          /\ Fail(r, "PLATFORM_OPERATION_UNSUPPORTED")
       \/ /\ Capability(r) # "unsupported"
          /\ Goto(r, "calling") /\ UNCHANGED result
    /\ UNCHANGED <<comments, active, provider, query, begun, answer>>

RejectReuse(r) ==
    /\ pc[r] = "context"
    /\ operations[Entry(r)] # None
    /\ ~MatchesOperation(operations[Entry(r)], query[r])
    /\ Respond(r, Failure("IDEMPOTENCY_CONFLICT"))
    /\ UNCHANGED <<tables, provider, query, begun, answer>>

(* begin returns the existing row, of which the handler keeps a snapshot. *)
LoadOperation(r) ==
    LET op == operations[Entry(r)] IN
    /\ pc[r] = "context"
    /\ op # None
    /\ MatchesOperation(op, query[r])
    /\ \/ /\ op.status = "published"
          /\ Respond(r, ReplayOf(op.comment, query[r]))
          /\ UNCHANGED begun
       \/ /\ op.status # "published"
          /\ begun' = [begun EXCEPT ![r] = [status |-> op.status, code |-> op.code]]
          /\ Goto(r, "recovering") /\ UNCHANGED result
    /\ UNCHANGED <<tables, provider, query, answer>>

(* recoverStoredReply finds a row under the key: finish locally. *)
RecoverStored(r) ==
    /\ pc[r] = "recovering"
    /\ \E id \in StoredUnder(Entry(r)[1], Entry(r)[2]) :
         \/ /\ IsReplayOf(comments[id], query[r])
            /\ Goto(r, "publishing")
            /\ result' = [result EXCEPT ![r] = Success("existing", id)]
         \/ /\ ~IsReplayOf(comments[id], query[r])
            /\ Fail(r, "IDEMPOTENCY_CONFLICT")
    /\ begun' = [begun EXCEPT ![r] = None]
    /\ UNCHANGED <<tables, provider, query, answer>>

UnsafeRepeatAllowed(r) == FALSE    \* faulty: the capability is not consulted

(* Another call for this key may be live, or may have died after it wrote. *)
UnsafeRepeat(r) == begun[r].status = "pending" /\ Capability(r) = "none"

(* recoverStoredReply finds nothing: the snapshot decides. *)
NothingStored(r) ==
    /\ pc[r] = "recovering"
    /\ StoredUnder(Entry(r)[1], Entry(r)[2]) = {}
    /\ \/ /\ begun[r].status \in {"failed", "indeterminate"}
          /\ Respond(r, RecordedFailure(begun[r]))
       \/ /\ begun[r].status \in {"pending", "retryable_failed"}
          /\ Capability(r) = "unsupported"
          /\ Fail(r, "PLATFORM_OPERATION_UNSUPPORTED")
       \/ /\ begun[r].status \in {"pending", "retryable_failed"}
          /\ Capability(r) # "unsupported"
          /\ \/ UnsafeRepeat(r) /\ Fail(r, "INDETERMINATE_PLATFORM_RESULT")
             \/ ~UnsafeRepeat(r) /\ Goto(r, "calling") /\ UNCHANGED result
    /\ begun' = [begun EXCEPT ![r] = None]
    /\ UNCHANGED <<tables, provider, query, answer>>

-----------------------------------------------------------------------------
(* The provider *)

(* What the native gateway returns instead of a second reply: there is one such
   gateway, and it looks for the key alone, in whatever account it was used. *)
AlreadyPublished(r) ==
    {x \in Requests : /\ Capability(r) = "native"
                      /\ replies[x] # None
                      /\ Publication[replies[x].account] = "native"
                      /\ replies[x].key = query[r].key}

(* The external write of r's call: x is the reply it creates or is given. *)
ExternalWrite(r, x) ==
    \/ x \in AlreadyPublished(r) /\ UNCHANGED replies
    \/ /\ AlreadyPublished(r) = {}
       /\ x = r
       /\ replies' = [replies EXCEPT ![r] =
            [account |-> Entry(r)[1], key |-> query[r].key,
             parent |-> query[r].parent, content |-> query[r].content]]

GatewayConfirms(r) ==
    /\ pc[r] = "calling"
    /\ \E x \in Requests :
         /\ ExternalWrite(r, x)
         /\ answer' = [answer EXCEPT ![r] =
              [reply |-> x, content |-> replies'[x].content]]
    /\ Goto(r, "saving")
    /\ UNCHANGED <<tables, inflight, query, begun, result>>

(* A typed failure: by the adapter contract nothing was written. *)
GatewayRejects(r) ==
    /\ pc[r] = "calling"
    /\ \E code \in ProviderFailures : Fail(r, code)
    /\ UNCHANGED <<tables, provider, query, begun, answer>>

(* The adapter cannot tell whether the write happened, or still will. *)
GatewayUnknown(r) ==
    /\ pc[r] = "calling"
    /\ Fail(r, "INDETERMINATE_PLATFORM_RESULT")
    /\ inflight' = inflight \cup {r}
    /\ UNCHANGED <<tables, replies, query, begun, answer>>

(* An unanswered call takes effect at the provider. *)
TakeEffect(r) ==
    /\ r \in inflight
    /\ \E x \in Requests : ExternalWrite(r, x)
    /\ inflight' = inflight \ {r}
    /\ UNCHANGED <<tables, pc, query, begun, answer, result>>

(* A published reply is edited by its author at the provider. *)
EditReply(x, content) ==
    /\ Edits
    /\ replies[x] # None
    /\ replies' = [replies EXCEPT ![x].content = content]
    /\ UNCHANGED <<tables, inflight, pc, query, begun, answer, result>>

-----------------------------------------------------------------------------
(* Recording the outcome *)

NewRow(r) == [parent |-> query[r].parent, content |-> answer[r].content,
              key |-> query[r].key]

AttachKey(row, key) ==
    [row EXCEPT !.key = IF row.key = None THEN key ELSE row.key]

InsertOrKeep(r, id) ==    \* faulty: an imported row is not given the key
    /\ id = <<PostOf[query[r].parent], answer[r].reply>>
    /\ comments' = [comments EXCEPT ![id] =
         IF comments[id] = None THEN NewRow(r) ELSE comments[id]]

(* insert .. on conflict do nothing, else update .. where the key is null. *)
InsertOrAttach(r, id) ==
    /\ id = <<PostOf[query[r].parent], answer[r].reply>>
    /\ comments' = [comments EXCEPT ![id] =
         IF comments[id] = None THEN NewRow(r)
         ELSE AttachKey(comments[id], query[r].key)]

SavedReplyUnclaimed(r, id) == InsertOrAttach(r, id)    \* faulty: no lookup by key

(* The row savePublishedReply answers with: the one that holds the key, else
   the one that holds the external id, inserted or given the key if free. *)
SavedReply(r, id) ==
    LET claimed == StoredUnder(Entry(r)[1], Entry(r)[2])
    IN  \/ id \in claimed /\ UNCHANGED comments
        \/ claimed = {} /\ InsertOrAttach(r, id)

SavedKindCreated(id) == "created"    \* faulty: the conflict branch is ignored

SavedKind(id) == IF comments[id] = None THEN "created" ELSE "existing"

SavePublishedReply(r) ==
    /\ pc[r] = "saving"
    /\ \E id \in CommentIds :
         /\ SavedReply(r, id)
         /\ \/ /\ IsReplayOf(comments'[id], query[r])
               /\ Goto(r, "publishing")
               /\ result' = [result EXCEPT ![r] = Success(SavedKind(id), id)]
            \/ /\ ~IsReplayOf(comments'[id], query[r])
               /\ Fail(r, "IDEMPOTENCY_CONFLICT")
    /\ answer' = [answer EXCEPT ![r] = None]
    /\ UNCHANGED <<operations, active, provider, query, begun>>

PublishableFromPending(op) == op # None /\ op.status = "pending"    \* faulty

(* markPublished's where clause: any recorded failure gives way to a reply. *)
Publishable(op) == op # None /\ op.status # "published"

MarkPublished(r) ==
    LET op == operations[Entry(r)]
        id == result[r].comment
        agrees == op # None /\ op.status = "published" /\ op.comment = id
    IN
    /\ pc[r] = "publishing"
    /\ operations' =
         IF Publishable(op)
         THEN [operations EXCEPT ![Entry(r)] =
                 [op EXCEPT !.status = "published", !.comment = id, !.code = None]]
         ELSE operations
    /\ Respond(r, IF Publishable(op) \/ agrees THEN result[r] ELSE Failure("THROWN"))
    /\ UNCHANGED <<comments, active, provider, query, begun, answer>>

ReplaceableAlways(old, new) == TRUE    \* faulty: no where clause

ReplaceableUnlessPublished(old, new) == old # "published"    \* faulty: no order

(* markFailed's where clause: which recorded failure may replace which. *)
Replaceable(old, new) ==
    \/ old = "pending"
    \/ old = "retryable_failed" /\ new \in {"failed", "indeterminate"}
    \/ old = "failed" /\ new = "indeterminate"

MarkFailed(r) ==
    LET op == operations[Entry(r)]
        code == result[r].code
    IN
    /\ pc[r] = "failing"
    /\ operations' =
         IF op # None /\ Replaceable(op.status, StatusOf(code))
         THEN [operations EXCEPT ![Entry(r)] =
                 [op EXCEPT !.status = StatusOf(code), !.comment = None, !.code = code]]
         ELSE operations
    /\ IF op = None
       THEN Respond(r, Failure("THROWN"))
       ELSE /\ Goto(r, IF code = "PLATFORM_RESOURCE_NOT_FOUND"
                       THEN "deleting" ELSE "returning")
            /\ UNCHANGED result
    /\ UNCHANGED <<comments, active, provider, query, begun, answer>>

MarkDeleted(r) ==
    /\ pc[r] = "deleting"
    /\ active' = active \ {query[r].parent}
    /\ Goto(r, "returning")
    /\ UNCHANGED <<operations, comments, provider, query, begun, answer, result>>

(* The last awaited statement resolves and the response is sent. *)
ReturnResult(r) ==
    /\ pc[r] = "returning"
    /\ Goto(r, "done")
    /\ UNCHANGED <<tables, provider, query, begun, answer, result>>

(* The process dies or an awaited call rejects: nothing after it runs. *)
Abandon(r) ==
    /\ pc[r] \notin {"idle", "done", "abandoned"}
    /\ Goto(r, "abandoned")
    /\ inflight' = IF pc[r] = "calling" THEN inflight \cup {r} ELSE inflight
    /\ begun' = [begun EXCEPT ![r] = None]
    /\ answer' = [answer EXCEPT ![r] = None]
    /\ UNCHANGED <<tables, replies, query, result>>

-----------------------------------------------------------------------------
(* Retrieval, which writes the same tables *)

ImportedKeyDropped(row) == None    \* faulty: the upsert overwrites the key

(* The upsert's update list leaves idempotency_key alone. *)
ImportedKey(row) == IF row = None THEN None ELSE row.key

(* GetCommentReplies stores a reply it sees; an existing row keeps its key. *)
Import(x) ==
    LET id == <<PostOf[replies[x].parent], x>> IN
    /\ replies[x] # None
    /\ comments' = [comments EXCEPT ![id] =
         [parent |-> replies[x].parent, content |-> replies[x].content,
          key |-> ImportedKey(comments[id])]]
    /\ UNCHANGED <<operations, active, provider, pc, query, begun, answer, result>>

(* A page that still contains the parent makes its projection active again. *)
ObserveParent(p) ==
    /\ p \notin active
    /\ active' = active \cup {p}
    /\ UNCHANGED <<operations, comments, provider, pc, query, begun, answer, result>>

-----------------------------------------------------------------------------
Gateway(r) == GatewayConfirms(r) \/ GatewayRejects(r) \/ GatewayUnknown(r)

Begin(r) == StartOperation(r) \/ RejectReuse(r) \/ LoadOperation(r)

(* What a running handler does next. *)
Handler(r) ==
    \/ ReplayWithoutContext(r)
    \/ Begin(r)
    \/ RecoverStored(r) \/ NothingStored(r)
    \/ Gateway(r)
    \/ SavePublishedReply(r) \/ MarkPublished(r)
    \/ MarkFailed(r) \/ MarkDeleted(r)
    \/ ReturnResult(r)

Settled(r) == pc[r] \in {"done", "abandoned"}

(* Every request of this finite instance was served. *)
Quiescent == (\A r \in Requests : Settled(r)) /\ UNCHANGED vars

Next ==
    \/ \E r \in Requests :
         FindContext(r) \/ Handler(r) \/ Abandon(r) \/ TakeEffect(r) \/ Import(r)
    \/ \E x \in Requests, c \in Contents : EditReply(x, c)
    \/ \E p \in Parents : ObserveParent(p)
    \/ Quiescent

Spec == Init /\ [][Next]_vars

(* Node runs every resolved await to the next one, PostgreSQL answers, and an
   adapter owns a deadline after which it answers (docs/architecture.md).
   Arrivals, crashes, edits and retrieval are never owed. *)
Fairness == \A r \in Requests : WF_vars(Handler(r))
FairSpec == Spec /\ Fairness

-----------------------------------------------------------------------------
(* Safety *)

EntryOf(r) == IF query[r] = None THEN None ELSE Entry(r)

(* The check constraints of migrations 0004 and 0006 and the reference to
   comments hold after every statement the repositories execute, so that no
   handler fails on a constraint: the use case classifies each failure the way
   the schema does. *)
SchemaConstraints ==
    \A e \in Accounts \X Keys : operations[e] # None =>
        LET op == operations[e] IN
        /\ (op.status = "published") <=> (op.comment # None)
        /\ op.comment # None => comments[op.comment] # None
        /\ op.status \in {"pending", "published"} <=> op.code = None
        /\ op.status = "retryable_failed" => op.code \in RetryableCodes
        /\ op.status = "failed" => op.code \in TerminalCodes
        /\ op.status = "indeterminate" => op.code \in IndeterminateCodes

(* comments.idempotency_key has no unique constraint since migration 0004:
   that one account stores a key on one row only is up to the order in which
   begin, findByIdempotencyKey and savePublishedReply read and write, for
   concurrent retries, crashes and retrieval alike. *)
OneCommentPerKey ==
    \A a \in Accounts, k \in Keys :
        \A i, j \in StoredUnder(a, k) : i = j

(* A published operation is attached to a row of its own account that carries
   its key and answers its parent, never to a row another operation owns. *)
PublishedOwnsItsRow ==
    \A e \in Accounts \X Keys :
        LET op == operations[e] IN
        op # None /\ op.status = "published" =>
            /\ op.comment \in StoredUnder(e[1], e[2])
            /\ comments[op.comment].parent = op.parent

(* The reply a published operation shows was written at the provider through
   the operation's own account, for its own parent: the gateway returns a reply
   whose input differed, and the application is to notice.  Where two accounts
   use the native gateway it does not. *)
PublishedOnOwnAccount ==
    \A e \in Accounts \X Keys :
        LET op == operations[e] IN
        op # None /\ op.status = "published" =>
            LET reply == replies[op.comment[2]] IN
            /\ reply # None
            /\ reply.account = e[1]
            /\ reply.parent = op.parent

(* A client that was answered 201 or 200 holds a comment the durable operation
   is published with, whatever other handlers of the key recorded since. *)
AnsweredSuccessIsPublished ==
    \A r \in Requests :
        pc[r] = "done" /\ result[r].code \in SuccessKinds =>
            /\ operations[Entry(r)] # None
            /\ operations[Entry(r)].status = "published"
            /\ operations[Entry(r)].comment = result[r].comment

(* Only one request of a key is ever answered 201; its retries get 200. *)
CreatedOnce ==
    \A r, s \in Requests :
        /\ pc[r] = "done" /\ result[r].code = "created"
        /\ pc[s] = "done" /\ result[s].code = "created"
        /\ Entry(r) = Entry(s)
        => r = s

(* None of the throws for states thought impossible is reachable: a published
   operation without its comment, a status with a foreign failure code, a
   second comment for a published operation, a vanished operation row. *)
NoDefensiveThrow ==
    \A r \in Requests : result[r] # None => result[r].code # "THROWN"

(* 409 is answered only to a request whose account-scoped key was also used
   with another body: an identical retry is never called a conflict. *)
ConflictOnlyOnReuse ==
    \A r \in Requests :
        pc[r] = "done" /\ result[r].code = "IDEMPOTENCY_CONFLICT" =>
            \E s \in Requests \ {r} :
                /\ EntryOf(s) = Entry(r)
                /\ \/ query[s].parent # query[r].parent
                   \/ query[s].content # query[r].content

(* A request that fits a published operation is answered with its comment, never
   with a conflict: nothing else is done for it. *)
PublishedIsReplayed ==
    \A r \in Requests :
        LET op == operations[Entry(r)] IN
        pc[r] = "done" /\ result[r].code = "IDEMPOTENCY_CONFLICT" =>
            ~(op # None /\ op.status = "published" /\ MatchesOperation(op, query[r]))

Writes(e) ==
    {x \in Requests : replies[x] # None
                      /\ <<replies[x].account, replies[x].key>> = e}

(* A provider without publication idempotency gets a second write for a key
   only after it had itself answered that a retry was safe: a pending
   operation is never blindly repeated, after a crash or beside a live call. *)
NoBlindRepeat ==
    \A e \in Accounts \X Keys :
        Publication[e[1]] = "none" /\ Cardinality(Writes(e)) > 1 =>
            \E r \in Requests : /\ EntryOf(r) = e
                                /\ result[r] # None
                                /\ result[r].code \in RetryableCodes

(* The promise of README.md and SPECIFICATION.md in full: such a provider
   never holds two replies for one key. *)
NoDuplicateExternalReply ==
    \A e \in Accounts \X Keys :
        Publication[e[1]] = "none" => Cardinality(Writes(e)) <= 1

(* An operation reads as failed although the provider holds its reply only
   while a handler that knows better is still to record it, or after such a
   handler died. *)
ReplyHiddenOnlyByCrash ==
    \A e \in Accounts \X Keys :
        /\ operations[e] # None
        /\ operations[e].status \in {"failed", "retryable_failed"}
        /\ Writes(e) # {}
        => \E r \in Requests :
              /\ EntryOf(r) = e
              /\ pc[r] \in {"saving", "publishing", "failing", "abandoned"}

-----------------------------------------------------------------------------
(* The ledger this protocol implements *)

(* The operation rows, and the successes that were answered, seen as the
   ledger of PublicationLedger. *)
LedgerEntry(op) ==
    IF op = None THEN None
    ELSE [status |-> op.status, claim |-> op.fingerprint, comment |-> op.comment]

ledgerBar == [e \in Accounts \X Keys |-> LedgerEntry(operations[e])]

acknowledgedBar ==
    {<<Entry(r), result[r].comment>> :
        r \in {s \in Requests : pc[s] = "done" /\ result[s].code \in SuccessKinds}}

Ledger == INSTANCE PublicationLedger
    WITH Entries <- Accounts \X Keys, Claims <- Fingerprints,
         Replies <- CommentIds, ledger <- ledgerBar,
         acknowledged <- acknowledgedBar

(* Every interleaving of handlers, crashes and retrieval is a behaviour of the
   ledger: claims never change, statuses only become more decided, published
   is for good, and a success is answered from a published entry only. *)
ImplementsLedger == Ledger!LedgerSpec

-----------------------------------------------------------------------------
(* Liveness *)

(* A reply that is stored but not attached to its operation, because the
   handler died or another one recorded a failure in between, is attached by
   the next identical request, if that one lives and nobody has edited the
   reply at the provider. *)
RetryAttaches(r) ==
    (/\ pc[r] = "context"
     /\ operations[Entry(r)] # None
     /\ MatchesOperation(operations[Entry(r)], query[r])
     /\ StoredUnder(Entry(r)[1], Entry(r)[2]) # {})
    ~> \/ pc[r] = "abandoned"
       \/ /\ pc[r] = "done"
          /\ operations[Entry(r)].status = "published"
       \/ /\ query[r] # None
          /\ \E id \in StoredUnder(Entry(r)[1], Entry(r)[2]) :
               comments[id].content # query[r].content
=============================================================================
