----------------------- MODULE ReplyPublicationProofs -----------------------
(***************************************************************************)
(* Proofs about ReplyPublication, for every set of requests, accounts,     *)
(* keys and parents.  The safety properties are not inductive: what a      *)
(* handler may assume about the tables at each of its awaits, although all *)
(* other handlers ran in between, is HandlerInv; it survives the others'   *)
(* steps because operations and stored keys only grow (Grows).             *)
(***************************************************************************)
EXTENDS ReplyPublication, TLAPS

(* The failure code a status is stored with. *)
CodeFits(op) ==
    /\ op.status \in {"pending", "published"} => op.code = None
    /\ op.status = "retryable_failed" => op.code \in RetryableCodes
    /\ op.status = "failed" => op.code \in TerminalCodes
    /\ op.status = "indeterminate" => op.code \in IndeterminateCodes

PublishedWith(e, id) ==
    /\ operations[e] # None
    /\ operations[e].status = "published"
    /\ operations[e].comment = id

OperationInv(e) ==
    operations[e] # None =>
        /\ CodeFits(operations[e])
        /\ (operations[e].status = "published") <=> (operations[e].comment # None)
        /\ operations[e].status = "published" =>
             operations[e].comment \in StoredUnder(e[1], e[2])

(* What handler r knows at each await. *)
HandlerInv(r) ==
    /\ pc[r] = "idle" => query[r] = None /\ result[r] = None /\ r \notin inflight
    /\ pc[r] # "idle" => query[r] \in Query
    /\ pc[r] \in {"recovering", "calling", "saving", "publishing", "failing"} =>
         operations[Entry(r)] # None
    /\ pc[r] = "recovering" =>
         begun[r] # None /\ begun[r].status # "published" /\ CodeFits(begun[r])
    /\ pc[r] = "saving" => answer[r] # None
    /\ pc[r] = "publishing" =>
         /\ result[r] # None
         /\ result[r].code \in SuccessKinds
         /\ result[r].comment \in StoredUnder(Entry(r)[1], Entry(r)[2])
    /\ pc[r] \in {"failing", "deleting"} =>
         result[r] # None /\ result[r].code \in FailureCodes
    /\ pc[r] \in {"returning", "done"} =>
         /\ result[r] # None
         /\ result[r].code \in SuccessKinds => PublishedWith(Entry(r), result[r].comment)
    /\ result[r] # None =>
         /\ result[r].code # "THROWN"
         /\ result[r].code = "created" => StoredUnder(Entry(r)[1], Entry(r)[2]) # {}

(* At most one handler of an entry inserted the row of its reply. *)
CreatedInv ==
    \A r, s \in Requests :
        /\ result[r] # None /\ result[r].code = "created"
        /\ result[s] # None /\ result[s].code = "created"
        /\ Entry(r) = Entry(s)
        => r = s

IInv ==
    /\ TypeOK
    /\ \A r \in Requests : HandlerInv(r)
    /\ \A e \in Accounts \X Keys : OperationInv(e)
    /\ OneCommentPerKey
    /\ CreatedInv

-----------------------------------------------------------------------------
(* What every step does to the tables: operations are never removed or taken
   back from "published", and a stored key stays on its row. *)
Grows ==
    /\ \A e \in Accounts \X Keys : operations[e] # None =>
         /\ operations'[e] # None
         /\ operations[e].status = "published" =>
              /\ operations'[e].status = "published"
              /\ operations'[e].comment = operations[e].comment
    /\ \A a \in Accounts, k \in Keys : StoredUnder(a, k) \subseteq StoredUnder(a, k)'

(* Handler s does not move in this step. *)
Idles(s) ==
    /\ pc'[s] = pc[s] /\ query'[s] = query[s] /\ begun'[s] = begun[s]
    /\ answer'[s] = answer[s] /\ result'[s] = result[s]
    /\ s \in inflight' => s \in inflight

USE DEF CommentIds

(* The account and key of a typed query. *)
LEMMA EntryType ==
    ASSUME NEW r \in Requests, query[r] \in Query
    PROVE  /\ Entry(r) \in Accounts \X Keys
           /\ Entry(r)[1] \in Accounts
           /\ Entry(r)[2] \in Keys
           /\ AccountOf[PostOf[query[r].parent]] = Entry(r)[1]
           /\ query[r].key = Entry(r)[2]
           /\ query[r].parent \in Parents
           /\ query[r].content \in Contents
           /\ PostOf[query[r].parent] \in Posts
BY TopologyAssumption DEF Entry, AccountFor, Query

(* Failures and successes are outcomes, and none of them is null. *)
LEMMA OutcomeType ==
    /\ \A code \in FailureCodes \cup LocalCodes :
         Failure(code) \in Outcome /\ Failure(code) # None /\ Failure(code).code = code
    /\ \A kind \in SuccessKinds, id \in CommentIds :
         /\ Success(kind, id) \in Outcome /\ Success(kind, id) # None
         /\ Success(kind, id).code = kind /\ Success(kind, id).comment = id
BY NoneAssumption DEF Outcome, Failure, Success

(* A success kind is no failure code, and THROWN is neither. *)
LEMMA CodesApart ==
    /\ SuccessKinds \cap (FailureCodes \cup LocalCodes) = {}
    /\ "THROWN" \notin FailureCodes \cup SuccessKinds
    /\ RetryableCodes \cap TerminalCodes = {}
    /\ IndeterminateCodes \cap (RetryableCodes \cup TerminalCodes) = {}
    /\ RetryableCodes \cup TerminalCodes \cup IndeterminateCodes = FailureCodes
BY DEF SuccessKinds, FailureCodes, LocalCodes, RetryableCodes, TerminalCodes,
       IndeterminateCodes

(* The status a failure is stored with agrees with the schema. *)
LEMMA StatusOfFits ==
    ASSUME NEW code \in FailureCodes
    PROVE  /\ StatusOf(code) \in {"retryable_failed", "failed", "indeterminate"}
           /\ StatusOf(code) = "retryable_failed" => code \in RetryableCodes
           /\ StatusOf(code) = "failed" => code \in TerminalCodes
           /\ StatusOf(code) = "indeterminate" => code \in IndeterminateCodes
BY CodesApart DEF StatusOf

(* A failure recorded with a fitting code is replayed, never thrown. *)
LEMMA RecordedFailureFits ==
    ASSUME NEW op, CodeFits(op), op.status \in {"failed", "indeterminate"}
    PROVE  /\ op.code \in FailureCodes
           /\ RecordedFailure(op) = Failure(op.code)
BY CodesApart DEF CodeFits, RecordedFailure

(* What a handler knows survives every step of the others. *)
LEMMA HandlerFrame ==
    ASSUME NEW s \in Requests, HandlerInv(s), Grows, Idles(s)
    PROVE  HandlerInv(s)'
<1>1. CASE pc[s] = "idle"
    BY <1>1 DEF HandlerInv, Idles
<1>2. CASE pc[s] # "idle"
    <2>1. query[s] \in Query /\ query'[s] = query[s]
        BY <1>2 DEF HandlerInv, Idles
    <2>2. Entry(s) \in Accounts \X Keys /\ Entry(s)[1] \in Accounts /\ Entry(s)[2] \in Keys
        BY <2>1, EntryType
    <2>3. Entry(s)' = Entry(s)
        BY <2>1 DEF Entry
    <2>4. StoredUnder(Entry(s)[1], Entry(s)[2]) \subseteq StoredUnder(Entry(s)[1], Entry(s)[2])'
        BY <2>2, <2>3 DEF Grows
    <2>5. /\ operations[Entry(s)] # None => operations'[Entry(s)'] # None
          /\ \A id : PublishedWith(Entry(s), id) => PublishedWith(Entry(s), id)'
        BY <2>2, <2>3 DEF Grows, PublishedWith
    <2>6. QED
        BY <1>2, <2>1, <2>3, <2>4, <2>5 DEF HandlerInv, Idles, CodeFits, PublishedWith
<1>3. QED
    BY <1>1, <1>2

-----------------------------------------------------------------------------
(* Putting a step together from its parts *)

(* A step that moves only handler r keeps the invariant if it keeps its parts. *)
LEMMA Assemble ==
    ASSUME IInv, NEW r \in Requests,
           TypeOK', Grows,
           \A s \in Requests \ {r} : Idles(s),
           HandlerInv(r)',
           \A e \in Accounts \X Keys : OperationInv(e)',
           OneCommentPerKey', CreatedInv'
    PROVE  IInv'
<1>1. \A s \in Requests : HandlerInv(s)'
    <2>1. SUFFICES ASSUME NEW s \in Requests \ {r} PROVE HandlerInv(s)'
        OBVIOUS
    <2>2. HandlerInv(s) /\ Idles(s)
        BY DEF IInv
    <2>3. QED
        BY <2>2, HandlerFrame
<1>2. QED
    BY <1>1 DEF IInv

(* Operations and rows of comments that nobody writes keep their invariants. *)
LEMMA TablesFrame ==
    ASSUME UNCHANGED <<operations, comments>>
    PROVE  /\ Grows
           /\ \A e : OperationInv(e) => OperationInv(e)'
           /\ OneCommentPerKey => OneCommentPerKey'
BY DEF Grows, OperationInv, OneCommentPerKey, StoredUnder, CodeFits

(* No handler newly claims to have created a row. *)
LEMMA CreatedFrame ==
    ASSUME CreatedInv,
           \A s \in Requests : result'[s] # None /\ result'[s].code = "created" =>
              result'[s] = result[s] /\ query'[s] = query[s]
    PROVE  CreatedInv'
BY DEF CreatedInv, Entry

(* A step of handler r that leaves operations and comments alone. *)
LEMMA LocalStep ==
    ASSUME IInv, TypeOK', NEW r \in Requests,
           UNCHANGED <<operations, comments>>,
           \A s \in Requests \ {r} : Idles(s),
           \/ result'[r] = result[r] /\ query'[r] = query[r]
           \/ result'[r] = None
           \/ result'[r].code # "created",
           HandlerInv(r)'
    PROVE  IInv'
<1>1. /\ Grows
      /\ \A e \in Accounts \X Keys : OperationInv(e)'
      /\ OneCommentPerKey'
    BY TablesFrame DEF IInv
<1>2. CreatedInv'
    <2>1. \A s \in Requests : result'[s] # None /\ result'[s].code = "created" =>
             result'[s] = result[s] /\ query'[s] = query[s]
        BY DEF Idles
    <2>2. QED
        BY <2>1, CreatedFrame DEF IInv
<1>3. QED
    BY <1>1, <1>2, Assemble

(* The local replay of a stored comment is a 200 or a conflict. *)
LEMMA ReplayOfOutcome ==
    ASSUME NEW id \in CommentIds, NEW q, id # None, comments[id] # None
    PROVE  \/ ReplayOf(id, q) = Success("existing", id)
           \/ ReplayOf(id, q) = Failure("IDEMPOTENCY_CONFLICT")
BY DEF ReplayOf

(* A published operation's comment is a row of the operation's own account. *)
LEMMA PublishedRow ==
    ASSUME IInv, NEW e \in Accounts \X Keys,
           operations[e] # None, operations[e].status = "published"
    PROVE  /\ operations[e].comment \in CommentIds
           /\ operations[e].comment # None
           /\ comments[operations[e].comment] # None
           /\ operations[e].comment \in StoredUnder(e[1], e[2])
BY DEF IInv, OperationInv, StoredUnder

-----------------------------------------------------------------------------
(* The steps of a handler that write no table *)

(* The lookup of the parent answers, or moves the handler on with its query. *)
LEMMA FindContextStep ==
    ASSUME IInv, NEW r \in Requests, FindContext(r)
    PROVE  IInv'
<1>1. PICK q \in Query :
        /\ query' = [query EXCEPT ![r] = q]
        /\ \/ Goto(r, "inactive") /\ UNCHANGED result
           \/ Respond(r, Failure("UNSUPPORTED_PLATFORM"))
           \/ Goto(r, "context") /\ UNCHANGED result
    BY DEF FindContext
<1>2. /\ pc[r] = "idle" /\ result[r] = None
      /\ UNCHANGED <<operations, comments, active, replies, inflight, begun, answer>>
      /\ TypeOK
    BY DEF FindContext, tables, provider, IInv, HandlerInv
<1>3. /\ Failure("UNSUPPORTED_PLATFORM") \in Outcome
      /\ Failure("UNSUPPORTED_PLATFORM") # None
      /\ Failure("UNSUPPORTED_PLATFORM").code = "UNSUPPORTED_PLATFORM"
    BY OutcomeType DEF LocalCodes
<1>4. TypeOK'
    BY <1>1, <1>2, <1>3 DEF TypeOK, Goto, Respond, Locations
<1>5. \A s \in Requests \ {r} : Idles(s)
    BY <1>1, <1>2 DEF TypeOK, Goto, Respond, Idles
<1>6. /\ query'[r] = q
      /\ \/ pc'[r] \in {"inactive", "context"} /\ result'[r] = None
         \/ pc'[r] = "returning" /\ result'[r] = Failure("UNSUPPORTED_PLATFORM")
    BY <1>1, <1>2 DEF TypeOK, Goto, Respond
<1>7. HandlerInv(r)'
    BY <1>6, <1>3 DEF HandlerInv, SuccessKinds
<1>8. result'[r] = None \/ result'[r].code # "created"
    BY <1>6, <1>3
<1>9. QED
    BY <1>2, <1>4, <1>5, <1>7, <1>8, LocalStep

(* A response that is a failure, or the stored success of a published entry. *)
LEMMA RespondStep ==
    ASSUME IInv, NEW r \in Requests, NEW outcome,
           Respond(r, outcome),
           outcome \in Outcome, outcome # None, outcome.code # "THROWN",
           outcome.code # "created",
           outcome.code \in SuccessKinds => PublishedWith(Entry(r), outcome.comment),
           pc[r] # "idle",
           UNCHANGED <<tables, provider, query, answer>>,
           begun' \in [Requests -> Snapshot \cup {None}],
           \A s \in Requests \ {r} : begun'[s] = begun[s]
    PROVE  IInv'
<1>1. TypeOK /\ query[r] \in Query
    BY DEF IInv, HandlerInv
<1>2. TypeOK'
    BY <1>1 DEF TypeOK, Respond, Goto, Locations, tables, provider
<1>3. \A s \in Requests \ {r} : Idles(s)
    BY <1>1 DEF TypeOK, Goto, Respond, Idles, provider
<1>4. pc'[r] = "returning" /\ result'[r] = outcome /\ query'[r] = query[r]
    BY <1>1 DEF TypeOK, Goto, Respond
<1>5. HandlerInv(r)'
    <2>1. PublishedWith(Entry(r), outcome.comment) =>
            PublishedWith(Entry(r), outcome.comment)' /\ Entry(r)' = Entry(r)
        BY <1>4 DEF PublishedWith, tables, Entry
    <2>2. QED
        BY <1>1, <1>4, <2>1 DEF HandlerInv
<1>6. QED
    BY <1>2, <1>3, <1>4, <1>5, LocalStep DEF tables

(* A retry without an active parent is answered from the stored operation alone. *)
LEMMA ReplayWithoutContextStep ==
    ASSUME IInv, NEW r \in Requests, ReplayWithoutContext(r)
    PROVE  IInv'
<1> DEFINE op == operations[Entry(r)]
           outcome == ReplayWithoutActiveContext(op, query[r])
<1>1. pc[r] = "inactive" /\ query[r] \in Query /\ TypeOK
    BY DEF ReplayWithoutContext, IInv, HandlerInv
<1>2. Entry(r) \in Accounts \X Keys
    BY <1>1, EntryType
<1>3. op = None \/ op \in Operation
    BY <1>1, <1>2 DEF TypeOK
<1>4. \/ outcome \in {Failure("COMMENT_NOT_FOUND"), Failure("IDEMPOTENCY_CONFLICT")}
      \/ /\ op # None /\ op.status = "published"
         /\ outcome = ReplayOf(op.comment, query[r])
      \/ /\ op # None /\ op.status \in {"failed", "indeterminate"}
         /\ outcome = RecordedFailure(op)
    BY <1>3 DEF ReplayWithoutActiveContext, Operation, Statuses
<1>5. /\ outcome \in Outcome /\ outcome # None
      /\ outcome.code # "THROWN" /\ outcome.code # "created"
      /\ outcome.code \in SuccessKinds => PublishedWith(Entry(r), outcome.comment)
    <2>1. CASE outcome \in {Failure("COMMENT_NOT_FOUND"), Failure("IDEMPOTENCY_CONFLICT")}
        BY <2>1, OutcomeType
           DEF FailureCodes, IndeterminateCodes, LocalCodes, SuccessKinds
    <2>2. CASE /\ op # None /\ op.status = "published"
               /\ outcome = ReplayOf(op.comment, query[r])
        <3>1. op.comment \in CommentIds /\ op.comment # None /\ comments[op.comment] # None
            BY <1>2, <2>2, PublishedRow
        <3>2. \/ outcome = Success("existing", op.comment)
              \/ outcome = Failure("IDEMPOTENCY_CONFLICT")
            BY <2>2, <3>1, ReplayOfOutcome
        <3>3. QED
            BY <2>2, <3>1, <3>2, OutcomeType
               DEF FailureCodes, IndeterminateCodes, SuccessKinds, PublishedWith
    <2>3. CASE /\ op # None /\ op.status \in {"failed", "indeterminate"}
               /\ outcome = RecordedFailure(op)
        <3>1. CodeFits(op)
            BY <1>2, <2>3 DEF IInv, OperationInv
        <3>2. op.code \in FailureCodes /\ outcome = Failure(op.code)
            BY <2>3, <3>1, RecordedFailureFits
        <3>3. QED
            BY <3>2, OutcomeType, CodesApart DEF SuccessKinds
    <2>4. QED
        BY <1>4, <2>1, <2>2, <2>3
<1>6. Respond(r, outcome) /\ UNCHANGED <<tables, provider, query, begun, answer>>
    BY DEF ReplayWithoutContext
<1>7. begun' \in [Requests -> Snapshot \cup {None}] /\ \A s \in Requests : begun'[s] = begun[s]
    BY <1>1, <1>6 DEF TypeOK
<1> HIDE DEF outcome
<1>8. QED
    BY <1>1, <1>5, <1>6, <1>7, RespondStep

(* begin refuses another body under a stored key; nothing is written. *)
LEMMA RejectReuseStep ==
    ASSUME IInv, NEW r \in Requests, RejectReuse(r)
    PROVE  IInv'
<1> DEFINE outcome == Failure("IDEMPOTENCY_CONFLICT")
<1>1. /\ outcome \in Outcome /\ outcome # None
      /\ outcome.code = "IDEMPOTENCY_CONFLICT"
    BY OutcomeType DEF FailureCodes, IndeterminateCodes
<1>2. /\ pc[r] # "idle" /\ Respond(r, outcome)
      /\ UNCHANGED <<tables, provider, query, begun, answer>>
    BY DEF RejectReuse
<1>3. begun' \in [Requests -> Snapshot \cup {None}]
    BY <1>2 DEF IInv, TypeOK
<1> HIDE DEF outcome
<1>4. QED
    BY <1>1, <1>2, <1>3, RespondStep DEF SuccessKinds

(* begin replays a published operation, or hands out a snapshot of another one. *)
LEMMA LoadOperationStep ==
    ASSUME IInv, NEW r \in Requests, LoadOperation(r)
    PROVE  IInv'
<1> DEFINE op == operations[Entry(r)]
<1>1. /\ pc[r] = "context" /\ query[r] \in Query /\ TypeOK /\ op # None
      /\ UNCHANGED <<tables, provider, query, answer>>
    BY DEF LoadOperation, IInv, HandlerInv
<1>2. Entry(r) \in Accounts \X Keys
    BY <1>1, EntryType
<1>3. op \in Operation /\ CodeFits(op)
    BY <1>1, <1>2 DEF TypeOK, IInv, OperationInv
<1>4. CASE op.status = "published"
    <2> DEFINE outcome == ReplayOf(op.comment, query[r])
    <2>1. Respond(r, outcome) /\ UNCHANGED begun
        BY <1>4 DEF LoadOperation
    <2>2. op.comment \in CommentIds /\ op.comment # None /\ comments[op.comment] # None
        BY <1>1, <1>2, <1>4, PublishedRow
    <2>3. \/ outcome = Success("existing", op.comment)
          \/ outcome = Failure("IDEMPOTENCY_CONFLICT")
        BY <2>2, ReplayOfOutcome
    <2>4. /\ outcome \in Outcome /\ outcome # None
          /\ outcome.code # "THROWN" /\ outcome.code # "created"
          /\ outcome.code \in SuccessKinds => PublishedWith(Entry(r), outcome.comment)
        BY <1>1, <1>4, <2>2, <2>3, OutcomeType
           DEF FailureCodes, IndeterminateCodes, SuccessKinds, PublishedWith
    <2>5. begun' \in [Requests -> Snapshot \cup {None}]
        BY <1>1, <2>1 DEF TypeOK
    <2> HIDE DEF outcome
    <2>6. QED
        BY <1>1, <2>1, <2>4, <2>5, RespondStep
<1>5. CASE op.status # "published"
    <2> DEFINE snapshot == [status |-> op.status, code |-> op.code]
    <2>1. /\ begun' = [begun EXCEPT ![r] = snapshot]
          /\ Goto(r, "recovering") /\ UNCHANGED result
        BY <1>5 DEF LoadOperation
    <2>2. snapshot \in Snapshot /\ snapshot # None /\ CodeFits(snapshot)
        BY <1>3, NoneAssumption DEF Operation, Snapshot, CodeFits
    <2>3. snapshot.status # "published"
        BY <1>5
    <2> HIDE DEF snapshot
    <2>4. TypeOK'
        BY <1>1, <2>1, <2>2 DEF TypeOK, Goto, Locations, tables, provider
    <2>5. \A s \in Requests \ {r} : Idles(s)
        BY <1>1, <2>1 DEF TypeOK, Goto, Idles, provider
    <2>6. /\ pc'[r] = "recovering" /\ begun'[r] = snapshot
          /\ query'[r] = query[r] /\ result'[r] = result[r]
          /\ operations' = operations /\ comments' = comments
        BY <1>1, <2>1 DEF TypeOK, Goto, tables
    <2>7. Entry(r)' = Entry(r) /\ \A a, k : StoredUnder(a, k)' = StoredUnder(a, k)
        BY <2>6 DEF Entry, StoredUnder
    <2>8. HandlerInv(r)'
        BY <1>1, <2>2, <2>3, <2>6, <2>7 DEF HandlerInv, IInv, CodeFits
    <2>9. QED
        BY <2>4, <2>5, <2>6, <2>8, LocalStep
<1>6. QED
    BY <1>4, <1>5

(* The failure of a handler whose operation exists; markFailed is next. *)
LEMMA FailStep ==
    ASSUME IInv, NEW r \in Requests, NEW code \in FailureCodes,
           Fail(r, code),
           pc[r] \in {"recovering", "calling"},
           UNCHANGED <<tables, replies, query, answer>>,
           inflight' \in {inflight, inflight \cup {r}},
           begun' \in [Requests -> Snapshot \cup {None}],
           \A s \in Requests \ {r} : begun'[s] = begun[s]
    PROVE  IInv'
<1>1. TypeOK /\ query[r] \in Query /\ operations[Entry(r)] # None
    BY DEF IInv, HandlerInv
<1>2. /\ Failure(code) \in Outcome /\ Failure(code) # None /\ Failure(code).code = code
      /\ code # "THROWN" /\ code # "created" /\ code \notin SuccessKinds
    BY OutcomeType, CodesApart DEF SuccessKinds
<1>3. TypeOK'
    BY <1>1, <1>2 DEF TypeOK, Fail, Goto, Locations, tables
<1>4. \A s \in Requests \ {r} : Idles(s)
    BY <1>1 DEF TypeOK, Goto, Fail, Idles
<1>5. /\ pc'[r] = "failing" /\ result'[r] = Failure(code) /\ query'[r] = query[r]
      /\ operations' = operations /\ comments' = comments
    BY <1>1 DEF TypeOK, Goto, Fail, tables
<1>6. Entry(r)' = Entry(r)
    BY <1>5 DEF Entry
<1>7. HandlerInv(r)'
    BY <1>1, <1>2, <1>5, <1>6 DEF HandlerInv
<1>8. QED
    BY <1>2, <1>3, <1>4, <1>5, <1>7, LocalStep

(* A row under the key is either finished locally or a conflict to record. *)
LEMMA RecoverStoredStep ==
    ASSUME IInv, NEW r \in Requests, RecoverStored(r)
    PROVE  IInv'
<1>1. /\ pc[r] = "recovering" /\ query[r] \in Query /\ TypeOK
      /\ operations[Entry(r)] # None
      /\ begun' = [begun EXCEPT ![r] = None]
      /\ UNCHANGED <<tables, provider, query, answer>>
    BY DEF RecoverStored, IInv, HandlerInv
<1>2. begun' \in [Requests -> Snapshot \cup {None}] /\ \A s \in Requests \ {r} : begun'[s] = begun[s]
    BY <1>1 DEF TypeOK
<1>3. PICK id \in StoredUnder(Entry(r)[1], Entry(r)[2]) :
        \/ /\ Goto(r, "publishing")
           /\ result' = [result EXCEPT ![r] = Success("existing", id)]
        \/ Fail(r, "IDEMPOTENCY_CONFLICT")
    BY DEF RecoverStored
<1>4. CASE Fail(r, "IDEMPOTENCY_CONFLICT")
    BY <1>1, <1>2, <1>4, FailStep DEF FailureCodes, IndeterminateCodes, provider
<1>5. CASE /\ Goto(r, "publishing")
           /\ result' = [result EXCEPT ![r] = Success("existing", id)]
    <2>1. id \in CommentIds
        BY DEF StoredUnder
    <2>2. /\ Success("existing", id) \in Outcome /\ Success("existing", id) # None
          /\ Success("existing", id).code = "existing" /\ Success("existing", id).comment = id
        BY <2>1, OutcomeType DEF SuccessKinds
    <2>3. TypeOK'
        BY <1>1, <1>2, <1>5, <2>2 DEF TypeOK, Goto, Locations, tables, provider
    <2>4. \A s \in Requests \ {r} : Idles(s)
        BY <1>1, <1>2, <1>5 DEF TypeOK, Goto, Idles, provider
    <2>5. /\ pc'[r] = "publishing" /\ result'[r] = Success("existing", id)
          /\ query'[r] = query[r] /\ operations' = operations /\ comments' = comments
        BY <1>1, <1>5 DEF TypeOK, Goto, tables
    <2>6. Entry(r)' = Entry(r) /\ \A a, k : StoredUnder(a, k)' = StoredUnder(a, k)
        BY <2>5 DEF Entry, StoredUnder
    <2>7. HandlerInv(r)'
        BY <1>1, <2>2, <2>5, <2>6 DEF HandlerInv, SuccessKinds
    <2>8. QED
        BY <2>2, <2>3, <2>4, <2>5, <2>7, LocalStep
<1>6. QED
    BY <1>3, <1>4, <1>5

(* The handler goes on to call the provider. *)
LEMMA CallStep ==
    ASSUME IInv, NEW r \in Requests, pc[r] = "recovering",
           Goto(r, "calling"), UNCHANGED result,
           begun' = [begun EXCEPT ![r] = None],
           UNCHANGED <<tables, provider, query, answer>>
    PROVE  IInv'
<1>1. TypeOK /\ query[r] \in Query /\ operations[Entry(r)] # None
    BY DEF IInv, HandlerInv
<1>2. TypeOK'
    BY <1>1 DEF TypeOK, Goto, Locations, tables, provider
<1>3. \A s \in Requests \ {r} : Idles(s)
    BY <1>1 DEF TypeOK, Goto, Idles, provider
<1>4. /\ pc'[r] = "calling" /\ result'[r] = result[r] /\ query'[r] = query[r]
      /\ operations' = operations /\ comments' = comments
    BY <1>1 DEF TypeOK, Goto, tables
<1>5. Entry(r)' = Entry(r) /\ \A a, k : StoredUnder(a, k)' = StoredUnder(a, k)
    BY <1>4 DEF Entry, StoredUnder
<1>6. HandlerInv(r)'
    BY <1>1, <1>4, <1>5 DEF HandlerInv, IInv
<1>7. QED
    BY <1>2, <1>3, <1>4, <1>6, LocalStep

(* With no stored reply the snapshot answers, fails or leads to the provider. *)
LEMMA NothingStoredStep ==
    ASSUME IInv, NEW r \in Requests, NothingStored(r)
    PROVE  IInv'
<1>1. /\ pc[r] = "recovering" /\ TypeOK
      /\ begun[r] # None /\ CodeFits(begun[r])
      /\ begun' = [begun EXCEPT ![r] = None]
      /\ UNCHANGED <<tables, provider, query, answer>>
    BY DEF NothingStored, IInv, HandlerInv
<1>2. begun' \in [Requests -> Snapshot \cup {None}] /\ \A s \in Requests \ {r} : begun'[s] = begun[s]
    BY <1>1 DEF TypeOK
<1>3. CASE /\ begun[r].status \in {"failed", "indeterminate"}
           /\ Respond(r, RecordedFailure(begun[r]))
    <2>1. /\ begun[r].code \in FailureCodes
          /\ RecordedFailure(begun[r]) = Failure(begun[r].code)
        BY <1>1, <1>3, RecordedFailureFits
    <2>2. /\ Failure(begun[r].code) \in Outcome /\ Failure(begun[r].code) # None
          /\ Failure(begun[r].code).code = begun[r].code
        BY <2>1, OutcomeType
    <2>3. /\ begun[r].code # "THROWN" /\ begun[r].code # "created"
          /\ begun[r].code \notin SuccessKinds
        BY <2>1, CodesApart DEF SuccessKinds
    <2>4. Respond(r, Failure(begun[r].code))
        BY <1>3, <2>1
    <2>5. QED
        BY <1>1, <1>2, <2>2, <2>3, <2>4, RespondStep
<1>4. CASE \/ Fail(r, "PLATFORM_OPERATION_UNSUPPORTED")
           \/ Fail(r, "INDETERMINATE_PLATFORM_RESULT")
    BY <1>1, <1>2, <1>4, FailStep
       DEF FailureCodes, IndeterminateCodes, TerminalCodes, provider
<1>5. CASE Goto(r, "calling") /\ UNCHANGED result
    BY <1>1, <1>5, CallStep
<1>6. QED
    BY <1>3, <1>4, <1>5 DEF NothingStored

(* The reply a provider confirms is of the entry's account, key and parent. *)
LEMMA GatewayConfirmsStep ==
    ASSUME IInv, NEW r \in Requests, GatewayConfirms(r)
    PROVE  IInv'
<1>1. /\ pc[r] = "calling" /\ query[r] \in Query /\ TypeOK
      /\ operations[Entry(r)] # None
      /\ Goto(r, "saving")
      /\ UNCHANGED <<tables, inflight, query, begun, result>>
    BY DEF GatewayConfirms, IInv, HandlerInv
<1>2. PICK x \in Requests :
        /\ ExternalWrite(r, x)
        /\ answer' = [answer EXCEPT ![r] = [reply |-> x, content |-> replies'[x].content]]
    BY DEF GatewayConfirms
<1>3. replies' \in [Requests -> Reply \cup {None}] /\ replies'[x] \in Reply
    <2>1. CASE x \in AlreadyPublished(r) /\ UNCHANGED replies
        BY <1>1, <2>1 DEF TypeOK, AlreadyPublished
    <2>2. CASE x = r /\ replies' = [replies EXCEPT ![r] =
                 [account |-> Entry(r)[1], key |-> query[r].key,
                  parent |-> query[r].parent, content |-> query[r].content]]
        BY <1>1, <2>2, EntryType DEF TypeOK, Reply
    <2>3. QED
        BY <1>2, <2>1, <2>2 DEF ExternalWrite
<1> DEFINE given == [reply |-> x, content |-> replies'[x].content]
<1>4. given \in Answer /\ given # None
    BY <1>3, NoneAssumption DEF Answer, Reply
<1>5. answer' = [answer EXCEPT ![r] = given]
    BY <1>2
<1> HIDE DEF given
<1>6. TypeOK'
    BY <1>1, <1>3, <1>4, <1>5 DEF TypeOK, Goto, Locations, tables
<1>7. \A s \in Requests \ {r} : Idles(s)
    BY <1>1, <1>5 DEF TypeOK, Goto, Idles
<1>8. /\ pc'[r] = "saving" /\ answer'[r] = given /\ result'[r] = result[r]
      /\ query'[r] = query[r] /\ operations' = operations /\ comments' = comments
    BY <1>1, <1>5 DEF TypeOK, Goto, tables
<1>9. Entry(r)' = Entry(r) /\ \A a, k : StoredUnder(a, k)' = StoredUnder(a, k)
    BY <1>8 DEF Entry, StoredUnder
<1>10. HandlerInv(r)'
    BY <1>1, <1>4, <1>8, <1>9 DEF HandlerInv, IInv
<1>11. QED
    BY <1>6, <1>7, <1>8, <1>10, LocalStep

(* A typed platform failure is one that markFailed can store. *)
LEMMA GatewayRejectsStep ==
    ASSUME IInv, NEW r \in Requests, GatewayRejects(r)
    PROVE  IInv'
<1>1. PICK code \in ProviderFailures : Fail(r, code)
    BY DEF GatewayRejects
<1>2. code \in FailureCodes
    BY ProviderAssumption DEF FailureCodes
<1>3. /\ pc[r] = "calling" /\ TypeOK
      /\ UNCHANGED <<tables, provider, query, begun, answer>>
    BY DEF GatewayRejects, IInv
<1>4. begun' \in [Requests -> Snapshot \cup {None}] /\ \A s \in Requests : begun'[s] = begun[s]
    BY <1>3 DEF TypeOK
<1>5. QED
    BY <1>1, <1>2, <1>3, <1>4, FailStep DEF provider

(* An unknown outcome moves the handler to markFailed and leaves the tables alone. *)
LEMMA GatewayUnknownStep ==
    ASSUME IInv, NEW r \in Requests, GatewayUnknown(r)
    PROVE  IInv'
<1>1. /\ pc[r] = "calling" /\ TypeOK /\ Fail(r, "INDETERMINATE_PLATFORM_RESULT")
      /\ inflight' = inflight \cup {r}
      /\ UNCHANGED <<tables, replies, query, begun, answer>>
    BY DEF GatewayUnknown, IInv
<1>2. begun' \in [Requests -> Snapshot \cup {None}] /\ \A s \in Requests : begun'[s] = begun[s]
    BY <1>1 DEF TypeOK
<1>3. QED
    BY <1>1, <1>2, FailStep DEF FailureCodes, IndeterminateCodes

(* Hiding the parent changes neither operations nor rows. *)
LEMMA MarkDeletedStep ==
    ASSUME IInv, NEW r \in Requests, MarkDeleted(r)
    PROVE  IInv'
<1>1. /\ pc[r] = "deleting" /\ query[r] \in Query /\ TypeOK
      /\ result[r] # None /\ result[r].code \in FailureCodes
      /\ Goto(r, "returning")
      /\ active' = active \ {query[r].parent}
      /\ UNCHANGED <<operations, comments, provider, query, begun, answer, result>>
    BY DEF MarkDeleted, IInv, HandlerInv
<1>2. TypeOK'
    BY <1>1 DEF TypeOK, Goto, Locations, provider
<1>3. \A s \in Requests \ {r} : Idles(s)
    BY <1>1 DEF TypeOK, Goto, Idles, provider
<1>4. pc'[r] = "returning"
    BY <1>1 DEF TypeOK, Goto
<1>5. Entry(r)' = Entry(r) /\ \A a, k : StoredUnder(a, k)' = StoredUnder(a, k)
    BY <1>1 DEF Entry, StoredUnder
<1>6. HandlerInv(r)'
    BY <1>1, <1>4, <1>5, CodesApart DEF HandlerInv, IInv
<1>7. QED
    BY <1>1, <1>2, <1>3, <1>6, LocalStep

(* Sending the response makes the answer part of what clients know. *)
LEMMA ReturnResultStep ==
    ASSUME IInv, NEW r \in Requests, ReturnResult(r)
    PROVE  IInv'
<1>1. /\ pc[r] = "returning" /\ TypeOK /\ Goto(r, "done")
      /\ UNCHANGED <<tables, provider, query, begun, answer, result>>
    BY DEF ReturnResult, IInv
<1>2. TypeOK'
    BY <1>1 DEF TypeOK, Goto, Locations, tables, provider
<1>3. \A s \in Requests \ {r} : Idles(s)
    BY <1>1 DEF TypeOK, Goto, Idles, provider
<1>4. pc'[r] = "done"
    BY <1>1 DEF TypeOK, Goto
<1>5. /\ Entry(r)' = Entry(r) /\ \A a, k : StoredUnder(a, k)' = StoredUnder(a, k)
      /\ \A e, id : PublishedWith(e, id)' = PublishedWith(e, id)
    BY <1>1 DEF Entry, StoredUnder, PublishedWith, tables
<1>6. HandlerInv(r)'
    BY <1>1, <1>4, <1>5 DEF HandlerInv, IInv
<1>7. QED
    BY <1>1, <1>2, <1>3, <1>6, LocalStep DEF tables

(* A handler that dies takes its local knowledge with it and nothing else. *)
LEMMA AbandonStep ==
    ASSUME IInv, NEW r \in Requests, Abandon(r)
    PROVE  IInv'
<1>1. /\ pc[r] # "idle" /\ TypeOK /\ Goto(r, "abandoned")
      /\ inflight' \in {inflight, inflight \cup {r}}
      /\ begun' = [begun EXCEPT ![r] = None]
      /\ answer' = [answer EXCEPT ![r] = None]
      /\ UNCHANGED <<tables, replies, query, result>>
    BY DEF Abandon, IInv
<1>2. TypeOK'
    BY <1>1 DEF TypeOK, Goto, Locations, tables
<1>3. \A s \in Requests \ {r} : Idles(s)
    BY <1>1 DEF TypeOK, Goto, Idles
<1>4. pc'[r] = "abandoned"
    BY <1>1 DEF TypeOK, Goto
<1>5. Entry(r)' = Entry(r) /\ \A a, k : StoredUnder(a, k)' = StoredUnder(a, k)
    BY <1>1 DEF Entry, StoredUnder, tables
<1>6. HandlerInv(r)'
    BY <1>1, <1>4, <1>5 DEF HandlerInv, IInv
<1>7. QED
    BY <1>1, <1>2, <1>3, <1>6, LocalStep DEF tables

-----------------------------------------------------------------------------
(* The steps that write an operation *)

(* A step of r that writes only its own operation, and keeps what is
   published, stored and created. *)
LEMMA OperationStep ==
    ASSUME IInv, TypeOK', NEW r \in Requests, query[r] \in Query, comments' = comments,
           query' = query,
           \A e \in Accounts \X Keys : e # Entry(r) => operations'[e] = operations[e],
           operations'[Entry(r)] # None,
           operations[Entry(r)] # None /\ operations[Entry(r)].status = "published" =>
              operations'[Entry(r)] = operations[Entry(r)],
           OperationInv(Entry(r))',
           \A s \in Requests \ {r} : Idles(s),
           \/ result'[r] = result[r]
           \/ result'[r] # None /\ result'[r].code # "created",
           HandlerInv(r)'
    PROVE  IInv'
<1>1. Entry(r) \in Accounts \X Keys /\ Entry(r)' = Entry(r)
    BY EntryType DEF Entry
<1>2. \A a, k : StoredUnder(a, k)' = StoredUnder(a, k)
    BY DEF StoredUnder
<1>3. Grows
    BY <1>2 DEF Grows
<1>4. \A e \in Accounts \X Keys : OperationInv(e)'
    <2>1. SUFFICES ASSUME NEW e \in Accounts \X Keys, e # Entry(r) PROVE OperationInv(e)'
        BY <1>1
    <2>2. OperationInv(e) /\ operations'[e] = operations[e]
        BY <2>1 DEF IInv
    <2>3. QED
        BY <2>2, <1>2 DEF OperationInv, CodeFits
<1>5. OneCommentPerKey'
    BY <1>2 DEF IInv, OneCommentPerKey
<1>6. CreatedInv'
    <2>1. \A s \in Requests : result'[s] # None /\ result'[s].code = "created" =>
             result'[s] = result[s] /\ query'[s] = query[s]
        BY DEF Idles
    <2>2. QED
        BY <2>1, CreatedFrame DEF IInv
<1>7. QED
    BY <1>3, <1>4, <1>5, <1>6, Assemble

(* begin inserts a pending row that carries the handler's own claim. *)
LEMMA StartOperationStep ==
    ASSUME IInv, NEW r \in Requests, StartOperation(r)
    PROVE  IInv'
<1> DEFINE op == [status |-> "pending", parent |-> query[r].parent,
                  fingerprint |-> Fingerprint(query[r]), comment |-> None, code |-> None]
<1>1. /\ pc[r] = "context" /\ query[r] \in Query /\ TypeOK
      /\ operations[Entry(r)] = None
      /\ operations' = [operations EXCEPT ![Entry(r)] = op]
      /\ UNCHANGED <<comments, active, provider, query, begun, answer>>
    BY DEF StartOperation, IInv, HandlerInv
<1>2. Entry(r) \in Accounts \X Keys
    BY <1>1, EntryType
<1>3. /\ op \in Operation /\ op # None /\ op.status = "pending"
      /\ op.comment = None /\ op.code = None
    BY <1>1, NoneAssumption DEF Operation, Statuses, Fingerprint, Fingerprints, Query
<1> HIDE DEF op
<1>4. operations' \in [Accounts \X Keys -> Operation \cup {None}]
    BY <1>1, <1>2, <1>3 DEF TypeOK
<1>5. /\ operations'[Entry(r)] = op
      /\ \A e \in Accounts \X Keys : e # Entry(r) => operations'[e] = operations[e]
    BY <1>1, <1>2 DEF TypeOK
<1>6. Entry(r)' = Entry(r) /\ \A a, k : StoredUnder(a, k)' = StoredUnder(a, k)
    BY <1>1 DEF Entry, StoredUnder
<1>7. OperationInv(Entry(r))'
    BY <1>3, <1>5, <1>6 DEF OperationInv, CodeFits
<1>8. CASE Fail(r, "PLATFORM_OPERATION_UNSUPPORTED")
    <2>1. /\ Failure("PLATFORM_OPERATION_UNSUPPORTED") \in Outcome
          /\ Failure("PLATFORM_OPERATION_UNSUPPORTED") # None
          /\ Failure("PLATFORM_OPERATION_UNSUPPORTED").code = "PLATFORM_OPERATION_UNSUPPORTED"
        BY OutcomeType DEF FailureCodes, TerminalCodes
    <2>2. TypeOK'
        BY <1>1, <1>4, <1>8, <2>1 DEF TypeOK, Fail, Goto, Locations, provider
    <2>3. \A s \in Requests \ {r} : Idles(s)
        BY <1>1, <1>8 DEF TypeOK, Fail, Goto, Idles, provider
    <2>4. /\ pc'[r] = "failing" /\ query'[r] = query[r]
          /\ result'[r] = Failure("PLATFORM_OPERATION_UNSUPPORTED")
        BY <1>1, <1>8 DEF TypeOK, Fail, Goto
    <2>5. HandlerInv(r)'
        BY <1>1, <1>3, <1>5, <1>6, <2>1, <2>4 DEF HandlerInv, FailureCodes, TerminalCodes
    <2>6. QED
        BY <1>1, <1>3, <1>5, <1>7, <2>1, <2>2, <2>3, <2>4, <2>5, OperationStep
<1>9. CASE Goto(r, "calling") /\ UNCHANGED result
    <2>1. TypeOK'
        BY <1>1, <1>4, <1>9 DEF TypeOK, Goto, Locations, provider
    <2>2. \A s \in Requests \ {r} : Idles(s)
        BY <1>1, <1>9 DEF TypeOK, Goto, Idles, provider
    <2>3. pc'[r] = "calling" /\ query'[r] = query[r] /\ result'[r] = result[r]
        BY <1>1, <1>9 DEF TypeOK, Goto
    <2>4. HandlerInv(r)'
        BY <1>1, <1>3, <1>5, <1>6, <2>3 DEF HandlerInv, IInv
    <2>5. QED
        BY <1>1, <1>3, <1>5, <1>7, <2>1, <2>2, <2>3, <2>4, OperationStep
<1>10. QED
    BY <1>8, <1>9 DEF StartOperation

(* Recording a failure never replaces a published row and fits the schema. *)
LEMMA MarkFailedStep ==
    ASSUME IInv, NEW r \in Requests, MarkFailed(r)
    PROVE  IInv'
<1> DEFINE old == operations[Entry(r)]
           code == result[r].code
           new == [old EXCEPT !.status = StatusOf(code), !.comment = None, !.code = code]
<1>1. /\ pc[r] = "failing" /\ query[r] \in Query /\ TypeOK /\ old # None
      /\ result[r] # None /\ code \in FailureCodes
      /\ UNCHANGED <<comments, active, provider, query, begun, answer>>
    BY DEF MarkFailed, IInv, HandlerInv
<1>2. Entry(r) \in Accounts \X Keys /\ old \in Operation /\ OperationInv(Entry(r))
    BY <1>1, EntryType DEF TypeOK, IInv
<1>3. /\ StatusOf(code) \in {"retryable_failed", "failed", "indeterminate"}
      /\ StatusOf(code) = "retryable_failed" => code \in RetryableCodes
      /\ StatusOf(code) = "failed" => code \in TerminalCodes
      /\ StatusOf(code) = "indeterminate" => code \in IndeterminateCodes
    BY <1>1, StatusOfFits
<1>4. /\ new \in Operation /\ new # None /\ new.status = StatusOf(code)
      /\ new.comment = None /\ new.code = code
    BY <1>1, <1>2, <1>3, NoneAssumption DEF Operation, Statuses
<1>5. \/ /\ old.status # "published"
         /\ operations' = [operations EXCEPT ![Entry(r)] = new]
      \/ operations' = operations
    BY <1>2, <1>3 DEF MarkFailed, Replaceable
<1>6. /\ UNCHANGED result
      /\ pc' = [pc EXCEPT ![r] = IF code = "PLATFORM_RESOURCE_NOT_FOUND"
                                 THEN "deleting" ELSE "returning"]
    BY <1>1 DEF MarkFailed, Goto
<1> HIDE DEF new, code
<1>7. operations' \in [Accounts \X Keys -> Operation \cup {None}]
    BY <1>1, <1>2, <1>4, <1>5 DEF TypeOK
<1>8. TypeOK'
    BY <1>1, <1>6, <1>7 DEF TypeOK, Locations, provider
<1>9. \A s \in Requests \ {r} : Idles(s)
    BY <1>1, <1>6 DEF TypeOK, Idles, provider
<1>10. /\ \A e \in Accounts \X Keys : e # Entry(r) => operations'[e] = operations[e]
       /\ operations'[Entry(r)] \in {old, new}
       /\ old.status = "published" => operations'[Entry(r)] = old
    BY <1>1, <1>2, <1>5 DEF TypeOK
<1>11. Entry(r)' = Entry(r) /\ \A a, k : StoredUnder(a, k)' = StoredUnder(a, k)
    BY <1>1 DEF Entry, StoredUnder
<1>12. OperationInv(Entry(r))'
    <2>1. CASE operations'[Entry(r)] = old
        BY <2>1, <1>2, <1>11 DEF OperationInv, CodeFits
    <2>2. CASE operations'[Entry(r)] = new
        BY <2>2, <1>3, <1>4, <1>11 DEF OperationInv, CodeFits
    <2>3. QED
        BY <1>10, <2>1, <2>2
<1>13. pc'[r] \in {"deleting", "returning"} /\ result'[r] = result[r] /\ query'[r] = query[r]
    BY <1>1, <1>6 DEF TypeOK
<1>14. HandlerInv(r)'
    BY <1>1, <1>11, <1>13, CodesApart DEF HandlerInv, IInv, code
<1>15. QED
    BY <1>1, <1>4, <1>8, <1>9, <1>10, <1>12, <1>13, <1>14, OperationStep

(* Publishing attaches the row that carries the entry's key, once. *)
LEMMA MarkPublishedStep ==
    ASSUME IInv, NEW r \in Requests, MarkPublished(r)
    PROVE  IInv'
<1> DEFINE old == operations[Entry(r)]
           id == result[r].comment
           new == [old EXCEPT !.status = "published", !.comment = id, !.code = None]
<1>1. /\ pc[r] = "publishing" /\ query[r] \in Query /\ TypeOK /\ old # None
      /\ result[r] # None /\ result[r].code \in SuccessKinds
      /\ id \in StoredUnder(Entry(r)[1], Entry(r)[2])
      /\ UNCHANGED <<comments, active, provider, query, begun, answer>>
    BY DEF MarkPublished, IInv, HandlerInv
<1>2. /\ Entry(r) \in Accounts \X Keys /\ old \in Operation
      /\ Entry(r)[1] \in Accounts /\ Entry(r)[2] \in Keys
      /\ OperationInv(Entry(r))
    BY <1>1, EntryType DEF TypeOK, IInv
<1>3. id \in CommentIds /\ id # None
    BY <1>1, NoneAssumption DEF StoredUnder
<1>4. old.status = "published" => old.comment = id
    BY <1>1, <1>2 DEF OperationInv, IInv, OneCommentPerKey
<1>5. /\ new \in Operation /\ new # None /\ new.status = "published"
      /\ new.comment = id /\ new.code = None
    BY <1>2, <1>3, NoneAssumption DEF Operation, Statuses
<1>6. /\ \/ old.status # "published" /\ operations' = [operations EXCEPT ![Entry(r)] = new]
         \/ old.status = "published" /\ operations' = operations
      /\ Respond(r, result[r])
    BY <1>1, <1>4 DEF MarkPublished, Publishable
<1> HIDE DEF new, id
<1>7. operations' \in [Accounts \X Keys -> Operation \cup {None}]
    BY <1>1, <1>2, <1>5, <1>6 DEF TypeOK
<1>8. TypeOK'
    BY <1>1, <1>6, <1>7 DEF TypeOK, Respond, Goto, Locations, provider
<1>9. \A s \in Requests \ {r} : Idles(s)
    BY <1>1, <1>6 DEF TypeOK, Respond, Goto, Idles, provider
<1>10. /\ \A e \in Accounts \X Keys : e # Entry(r) => operations'[e] = operations[e]
       /\ operations'[Entry(r)] \in {old, new}
       /\ old.status = "published" => operations'[Entry(r)] = old
       /\ old.status # "published" => operations'[Entry(r)] = new
    BY <1>1, <1>2, <1>6 DEF TypeOK
<1>11. Entry(r)' = Entry(r) /\ \A a, k : StoredUnder(a, k)' = StoredUnder(a, k)
    BY <1>1 DEF Entry, StoredUnder
<1>12. OperationInv(Entry(r))'
    <2>1. CASE operations'[Entry(r)] = old
        BY <2>1, <1>2, <1>11 DEF OperationInv, CodeFits
    <2>2. CASE operations'[Entry(r)] = new
        BY <2>2, <1>1, <1>3, <1>5, <1>11 DEF OperationInv, CodeFits, id
    <2>3. QED
        BY <1>10, <2>1, <2>2
<1>13. pc'[r] = "returning" /\ result'[r] = result[r] /\ query'[r] = query[r]
    BY <1>1, <1>6 DEF TypeOK, Respond, Goto
<1>14. PublishedWith(Entry(r), id)'
    BY <1>1, <1>4, <1>5, <1>10, <1>11, <1>13 DEF PublishedWith, id
<1>15. HandlerInv(r)'
    BY <1>1, <1>11, <1>13, <1>14 DEF HandlerInv, IInv, id
<1>16. QED
    BY <1>1, <1>5, <1>8, <1>9, <1>10, <1>12, <1>13, <1>15, OperationStep

-----------------------------------------------------------------------------
(* The steps that write comments *)

(* Storing a reply under a free key gives that key, and no other, to a row. *)
LEMMA InsertRow ==
    ASSUME TypeOK, NEW r \in Requests, query[r] \in Query, answer[r] # None,
           NEW id, InsertOrAttach(r, id)
    PROVE  /\ id \in CommentIds /\ AccountOf[id[1]] = Entry(r)[1]
           /\ comments' \in [CommentIds -> Row \cup {None}]
           /\ comments'[id] # None
           /\ \A a \in Accounts, k \in Keys :
                /\ StoredUnder(a, k) \subseteq StoredUnder(a, k)'
                /\ <<a, k>> # Entry(r) => StoredUnder(a, k)' = StoredUnder(a, k)
                /\ StoredUnder(a, k)' \subseteq StoredUnder(a, k) \cup {id}
<1> DEFINE new == IF comments[id] = None THEN NewRow(r)
                  ELSE AttachKey(comments[id], query[r].key)
<1>0. /\ id = <<PostOf[query[r].parent], answer[r].reply>>
      /\ comments' = [comments EXCEPT ![id] = new]
    BY DEF InsertOrAttach
<1>1. /\ Entry(r) = <<Entry(r)[1], Entry(r)[2]>>
      /\ Entry(r)[1] \in Accounts /\ Entry(r)[2] \in Keys
      /\ AccountOf[PostOf[query[r].parent]] = Entry(r)[1]
      /\ query[r].key = Entry(r)[2]
      /\ query[r].parent \in Parents /\ PostOf[query[r].parent] \in Posts
    BY EntryType
<1>2. answer[r] \in Answer
    BY DEF TypeOK
<1>3. id \in CommentIds /\ id[1] = PostOf[query[r].parent]
    BY <1>0, <1>1, <1>2 DEF Answer
<1>4. comments[id] \in Row \cup {None}
    BY <1>3 DEF TypeOK
<1>5. /\ new \in Row
      /\ \/ new.key = Entry(r)[2] /\ (comments[id] = None \/ comments[id].key = None)
         \/ comments[id] # None /\ new.key = comments[id].key
    <2>1. CASE comments[id] = None
        BY <1>1, <1>2, <2>1 DEF Row, NewRow, Answer
    <2>2. CASE comments[id] # None
        BY <1>1, <1>4, <2>2 DEF Row, AttachKey
    <2>3. QED
        BY <2>1, <2>2
<1> HIDE DEF new
<1>7. /\ comments' \in [CommentIds -> Row \cup {None}]
      /\ comments'[id] = new /\ new # None
      /\ \A j \in CommentIds : j # id => comments'[j] = comments[j]
    BY <1>0, <1>3, <1>5, NoneAssumption DEF TypeOK
<1>8. ASSUME NEW a \in Accounts, NEW k \in Keys
      PROVE  /\ StoredUnder(a, k) \subseteq StoredUnder(a, k)'
             /\ <<a, k>> # Entry(r) => StoredUnder(a, k)' = StoredUnder(a, k)
             /\ StoredUnder(a, k)' \subseteq StoredUnder(a, k) \cup {id}
    <2>1. k # None
        BY NoneAssumption
    <2>2. \A j \in CommentIds \ {id} : j \in StoredUnder(a, k)' <=> j \in StoredUnder(a, k)
        BY <1>7 DEF StoredUnder
    <2>3. id \in StoredUnder(a, k) => id \in StoredUnder(a, k)'
        BY <2>1, <1>3, <1>5, <1>7 DEF StoredUnder
    <2>4. id \in StoredUnder(a, k)' /\ <<a, k>> # Entry(r) => id \in StoredUnder(a, k)
        BY <1>1, <1>3, <1>5, <1>7 DEF StoredUnder
    <2>5. /\ StoredUnder(a, k) \subseteq CommentIds
          /\ StoredUnder(a, k)' \subseteq CommentIds
        BY DEF StoredUnder
    <2>6. QED
        BY <2>2, <2>3, <2>4, <2>5
<1>9. QED
    BY <1>1, <1>3, <1>7, <1>8

(* Saving gives the key to one row at most and answers with that row. *)
LEMMA SavePublishedReplyStep ==
    ASSUME IInv, NEW r \in Requests, SavePublishedReply(r)
    PROVE  IInv'
<1>1. /\ pc[r] = "saving" /\ query[r] \in Query /\ TypeOK
      /\ operations[Entry(r)] # None /\ answer[r] # None
      /\ answer' = [answer EXCEPT ![r] = None]
      /\ UNCHANGED <<operations, active, provider, query, begun>>
    BY DEF SavePublishedReply, IInv, HandlerInv
<1>2. /\ Entry(r) = <<Entry(r)[1], Entry(r)[2]>>
      /\ Entry(r) \in Accounts \X Keys
      /\ Entry(r)[1] \in Accounts /\ Entry(r)[2] \in Keys
      /\ query[r].key = Entry(r)[2]
    BY <1>1, EntryType
<1>3. PICK id \in CommentIds :
        /\ SavedReply(r, id)
        /\ \/ /\ IsReplayOf(comments'[id], query[r])
              /\ Goto(r, "publishing")
              /\ result' = [result EXCEPT ![r] = Success(SavedKind(id), id)]
           \/ Fail(r, "IDEMPOTENCY_CONFLICT")
    BY DEF SavePublishedReply
<1> DEFINE claimed == StoredUnder(Entry(r)[1], Entry(r)[2])
(* What the table gains. *)
<1>4. /\ comments' \in [CommentIds -> Row \cup {None}]
      /\ \A a \in Accounts, k \in Keys :
           /\ StoredUnder(a, k) \subseteq StoredUnder(a, k)'
           /\ <<a, k>> # Entry(r) => StoredUnder(a, k)' = StoredUnder(a, k)
           /\ StoredUnder(a, k)' \subseteq StoredUnder(a, k) \cup {id}
      /\ comments[id] = None => claimed = {}
      /\ claimed # {} => comments' = comments /\ id \in claimed
      /\ comments'[id] # None
      /\ AccountOf[id[1]] = Entry(r)[1]
    <2>1. CASE id \in claimed /\ UNCHANGED comments
        BY <1>1, <2>1 DEF StoredUnder, TypeOK
    <2>2. CASE claimed = {} /\ InsertOrAttach(r, id)
        BY <1>1, <2>2, InsertRow
    <2>3. QED
        BY <1>3, <2>1, <2>2 DEF SavedReply
<1>5. Entry(r)' = Entry(r)
    BY <1>1 DEF Entry
<1>6. OneCommentPerKey'
    <2>1. SUFFICES ASSUME NEW a \in Accounts, NEW k \in Keys,
                          NEW i \in StoredUnder(a, k)', NEW j \in StoredUnder(a, k)'
                   PROVE  i = j
        BY DEF OneCommentPerKey
    <2>2. CASE StoredUnder(a, k)' = StoredUnder(a, k)
        BY <2>2 DEF IInv, OneCommentPerKey
    <2>3. CASE StoredUnder(a, k)' # StoredUnder(a, k)
        <3>1. <<a, k>> = Entry(r)
            BY <1>4, <2>3
        <3>2. a = Entry(r)[1] /\ k = Entry(r)[2]
            BY <3>1
        <3>3. claimed # {} => StoredUnder(a, k)' = StoredUnder(a, k)
            BY <1>4 DEF StoredUnder
        <3>4. StoredUnder(a, k) = {}
            BY <2>3, <3>2, <3>3
        <3>5. QED
            BY <1>4, <3>4
    <2>4. QED
        BY <2>2, <2>3
<1>7. Grows
    BY <1>1, <1>4 DEF Grows
<1>8. \A e \in Accounts \X Keys : OperationInv(e)'
    <2>1. SUFFICES ASSUME NEW e \in Accounts \X Keys PROVE OperationInv(e)'
        OBVIOUS
    <2>2. OperationInv(e) /\ operations'[e] = operations[e]
        BY <1>1 DEF IInv
    <2>3. StoredUnder(e[1], e[2]) \subseteq StoredUnder(e[1], e[2])'
        BY <1>4
    <2>4. QED
        BY <2>2, <2>3 DEF OperationInv, CodeFits
<1>9. CASE /\ IsReplayOf(comments'[id], query[r])
           /\ Goto(r, "publishing")
           /\ result' = [result EXCEPT ![r] = Success(SavedKind(id), id)]
    <2>1. /\ SavedKind(id) \in SuccessKinds
          /\ SavedKind(id) = "created" => claimed = {}
        BY <1>4 DEF SavedKind, SuccessKinds
    <2>2. /\ Success(SavedKind(id), id) \in Outcome /\ Success(SavedKind(id), id) # None
          /\ Success(SavedKind(id), id).code = SavedKind(id)
          /\ Success(SavedKind(id), id).comment = id
        BY <2>1, OutcomeType
    <2>3. id \in StoredUnder(Entry(r)[1], Entry(r)[2])'
        BY <1>2, <1>4, <1>5, <1>9 DEF StoredUnder, IsReplayOf
    <2>4. TypeOK'
        BY <1>1, <1>4, <1>9, <2>2 DEF TypeOK, Goto, Locations, provider
    <2>5. \A s \in Requests \ {r} : Idles(s)
        BY <1>1, <1>9 DEF TypeOK, Goto, Idles, provider
    <2>6. /\ pc'[r] = "publishing" /\ query'[r] = query[r]
          /\ result'[r] = Success(SavedKind(id), id)
        BY <1>1, <1>9 DEF TypeOK, Goto
    <2>7. HandlerInv(r)'
        BY <1>1, <1>5, <2>1, <2>2, <2>3, <2>6 DEF HandlerInv, SuccessKinds
    <2>8. CreatedInv'
        <3>1. SUFFICES ASSUME NEW s \in Requests \ {r},
                              result'[s] # None, result'[s].code = "created",
                              result'[r].code = "created", Entry(s)' = Entry(r)'
                       PROVE  FALSE
            BY <2>5 DEF CreatedInv, IInv, Idles, Entry
        <3>2. claimed = {}
            BY <2>1, <2>2, <2>6, <3>1
        <3>3. /\ result[s] = result'[s] /\ query[s] = query'[s]
            BY <2>5 DEF Idles
        <3>4. Entry(s) = Entry(r)
            BY <1>5, <3>1, <3>3 DEF Entry
        <3>5. StoredUnder(Entry(s)[1], Entry(s)[2]) # {}
            BY <3>1, <3>3 DEF IInv, HandlerInv
        <3>6. QED
            BY <3>2, <3>4, <3>5
    <2>9. QED
        BY <1>6, <1>7, <1>8, <2>4, <2>5, <2>7, <2>8, Assemble
<1>10. CASE Fail(r, "IDEMPOTENCY_CONFLICT")
    <2>1. /\ Failure("IDEMPOTENCY_CONFLICT") \in Outcome
          /\ Failure("IDEMPOTENCY_CONFLICT") # None
          /\ Failure("IDEMPOTENCY_CONFLICT").code = "IDEMPOTENCY_CONFLICT"
        BY OutcomeType DEF FailureCodes, IndeterminateCodes
    <2>2. TypeOK'
        BY <1>1, <1>4, <1>10, <2>1 DEF TypeOK, Fail, Goto, Locations, provider
    <2>3. \A s \in Requests \ {r} : Idles(s)
        BY <1>1, <1>10 DEF TypeOK, Fail, Goto, Idles, provider
    <2>4. /\ pc'[r] = "failing" /\ query'[r] = query[r]
          /\ result'[r] = Failure("IDEMPOTENCY_CONFLICT")
        BY <1>1, <1>10 DEF TypeOK, Fail, Goto
    <2>5. HandlerInv(r)'
        BY <1>1, <1>5, <2>1, <2>4 DEF HandlerInv, FailureCodes, IndeterminateCodes
    <2>6. CreatedInv'
        <3>1. \A s \in Requests : result'[s] # None /\ result'[s].code = "created" =>
                 result'[s] = result[s] /\ query'[s] = query[s]
            BY <2>1, <2>3, <2>4 DEF Idles
        <3>2. QED
            BY <3>1, CreatedFrame DEF IInv
    <2>7. QED
        BY <1>6, <1>7, <1>8, <2>2, <2>3, <2>5, <2>6, Assemble
<1>11. QED
    BY <1>3, <1>9, <1>10

-----------------------------------------------------------------------------
(* The steps of the provider and of retrieval *)

(* A step in which no handler moves and no key is stored. *)
LEMMA WorldStep ==
    ASSUME IInv, TypeOK', operations' = operations,
           \A a \in Accounts, k \in Keys : StoredUnder(a, k)' = StoredUnder(a, k),
           \A s \in Requests : Idles(s)
    PROVE  IInv'
<1>1. Grows
    BY DEF Grows
<1>2. \A s \in Requests : HandlerInv(s)'
    BY <1>1, HandlerFrame DEF IInv
<1>3. \A e \in Accounts \X Keys : OperationInv(e)'
    <2>1. SUFFICES ASSUME NEW e \in Accounts \X Keys PROVE OperationInv(e)'
        OBVIOUS
    <2>2. OperationInv(e) /\ StoredUnder(e[1], e[2])' = StoredUnder(e[1], e[2])
        BY DEF IInv
    <2>3. QED
        BY <2>2 DEF OperationInv, CodeFits
<1>4. OneCommentPerKey'
    BY DEF IInv, OneCommentPerKey
<1>5. CreatedInv'
    <2>1. \A s \in Requests : result'[s] = result[s] /\ query'[s] = query[s]
        BY DEF Idles
    <2>2. QED
        BY <2>1, CreatedFrame DEF IInv
<1>6. QED
    BY <1>2, <1>3, <1>4, <1>5 DEF IInv

(* A late effect at the provider changes no table and no handler. *)
LEMMA TakeEffectStep ==
    ASSUME IInv, NEW r \in Requests, TakeEffect(r)
    PROVE  IInv'
<1>1. /\ query[r] \in Query /\ TypeOK
      /\ inflight' = inflight \ {r}
      /\ UNCHANGED <<tables, pc, query, begun, answer, result>>
    BY DEF TakeEffect, IInv, HandlerInv
<1>2. PICK x \in Requests : ExternalWrite(r, x)
    BY DEF TakeEffect
<1>3. replies' \in [Requests -> Reply \cup {None}]
    BY <1>1, <1>2, EntryType DEF ExternalWrite, TypeOK, Reply
<1>4. TypeOK'
    BY <1>1, <1>3 DEF TypeOK, tables
<1>5. \A s \in Requests : Idles(s)
    BY <1>1 DEF Idles
<1>6. \A a, k : StoredUnder(a, k)' = StoredUnder(a, k)
    BY <1>1 DEF StoredUnder, tables
<1>7. QED
    BY <1>1, <1>4, <1>5, <1>6, WorldStep DEF tables

(* An edit at the provider changes no table and no handler. *)
LEMMA EditReplyStep ==
    ASSUME IInv, NEW x \in Requests, NEW c \in Contents, EditReply(x, c)
    PROVE  IInv'
<1>1. /\ TypeOK /\ replies[x] # None
      /\ replies' = [replies EXCEPT ![x].content = c]
      /\ UNCHANGED <<tables, inflight, pc, query, begun, answer, result>>
    BY DEF EditReply, IInv
<1>2. TypeOK'
    BY <1>1 DEF TypeOK, Reply, tables
<1>3. \A s \in Requests : Idles(s)
    BY <1>1 DEF Idles
<1>4. \A a, k : StoredUnder(a, k)' = StoredUnder(a, k)
    BY <1>1 DEF StoredUnder, tables
<1>5. QED
    BY <1>1, <1>2, <1>3, <1>4, WorldStep DEF tables

(* Storing a page keeps the key of every row it overwrites. *)
LEMMA ImportStep ==
    ASSUME IInv, NEW x \in Requests, Import(x)
    PROVE  IInv'
<1> DEFINE id == <<PostOf[replies[x].parent], x>>
           row == [parent |-> replies[x].parent, content |-> replies[x].content,
                   key |-> ImportedKey(comments[id])]
<1>1. /\ TypeOK /\ replies[x] # None
      /\ comments' = [comments EXCEPT ![id] = row]
      /\ UNCHANGED <<operations, active, provider, pc, query, begun, answer, result>>
    BY DEF Import, IInv
<1>2. replies[x] \in Reply
    BY <1>1 DEF TypeOK
<1>3. id \in CommentIds
    BY <1>2, TopologyAssumption DEF Reply
<1>4. comments[id] \in Row \cup {None}
    BY <1>1, <1>3 DEF TypeOK
<1>5. row \in Row /\ row.key = ImportedKey(comments[id])
    BY <1>2, <1>4 DEF Reply, Row, ImportedKey
<1> HIDE DEF id, row
<1>6. /\ comments' \in [CommentIds -> Row \cup {None}]
      /\ comments'[id] = row /\ row # None
      /\ \A j \in CommentIds : j # id => comments'[j] = comments[j]
    BY <1>1, <1>3, <1>5, NoneAssumption DEF TypeOK
<1>7. TypeOK'
    BY <1>1, <1>6 DEF TypeOK, provider
<1>8. ASSUME NEW a \in Accounts, NEW k \in Keys
      PROVE  StoredUnder(a, k)' = StoredUnder(a, k)
    <2>1. k # None
        BY NoneAssumption
    <2>2. \A j \in CommentIds \ {id} : j \in StoredUnder(a, k)' <=> j \in StoredUnder(a, k)
        BY <1>6 DEF StoredUnder
    <2>3. id \in StoredUnder(a, k)' <=> id \in StoredUnder(a, k)
        BY <2>1, <1>3, <1>5, <1>6 DEF StoredUnder, ImportedKey
    <2>4. /\ StoredUnder(a, k) \subseteq CommentIds
          /\ StoredUnder(a, k)' \subseteq CommentIds
        BY DEF StoredUnder
    <2>5. QED
        BY <2>2, <2>3, <2>4
<1>9. \A s \in Requests : Idles(s)
    BY <1>1 DEF Idles, provider
<1>10. QED
    BY <1>1, <1>7, <1>8, <1>9, WorldStep

(* A parent that becomes active again changes no operation and no row. *)
LEMMA ObserveParentStep ==
    ASSUME IInv, NEW p \in Parents, ObserveParent(p)
    PROVE  IInv'
<1>1. /\ TypeOK /\ active' = active \cup {p}
      /\ UNCHANGED <<operations, comments, provider, pc, query, begun, answer, result>>
    BY DEF ObserveParent, IInv
<1>2. TypeOK'
    BY <1>1 DEF TypeOK, provider
<1>3. \A s \in Requests : Idles(s)
    BY <1>1 DEF Idles, provider
<1>4. \A a, k : StoredUnder(a, k)' = StoredUnder(a, k)
    BY <1>1 DEF StoredUnder
<1>5. QED
    BY <1>1, <1>2, <1>3, <1>4, WorldStep

-----------------------------------------------------------------------------
(* The invariant *)

(* The empty database satisfies the invariant. *)
LEMMA InitInv == Init => IInv
<1>1. SUFFICES ASSUME Init PROVE IInv
    OBVIOUS
<1>2. TypeOK
    BY <1>1 DEF Init, TypeOK, Locations
<1>3. \A r \in Requests : HandlerInv(r)
    BY <1>1 DEF Init, HandlerInv
<1>4. \A e \in Accounts \X Keys : OperationInv(e)
    BY <1>1 DEF Init, OperationInv
<1>5. OneCommentPerKey
    BY <1>1 DEF Init, OneCommentPerKey, StoredUnder
<1>6. CreatedInv
    BY <1>1 DEF Init, CreatedInv
<1>7. QED
    BY <1>2, <1>3, <1>4, <1>5, <1>6 DEF IInv

(* A step that changes nothing keeps the invariant. *)
LEMMA StutterInv ==
    ASSUME IInv, UNCHANGED vars
    PROVE  IInv'
<1>1. TypeOK'
    BY DEF vars, IInv, TypeOK
<1>2. \A s \in Requests : Idles(s)
    BY DEF vars, Idles
<1>3. operations' = operations /\ \A a, k : StoredUnder(a, k)' = StoredUnder(a, k)
    BY DEF vars, StoredUnder
<1>4. QED
    BY <1>1, <1>2, <1>3, WorldStep

(* Every step of handlers, provider and retrieval keeps the invariant. *)
LEMMA StepInv == IInv /\ [Next]_vars => IInv'
<1>1. SUFFICES ASSUME IInv, [Next]_vars PROVE IInv'
    OBVIOUS
<1>2. ASSUME NEW r \in Requests, FindContext(r) PROVE IInv'
    BY <1>1, <1>2, FindContextStep
<1>3. ASSUME NEW r \in Requests, Handler(r) PROVE IInv'
    <2>1. CASE ReplayWithoutContext(r)
        BY <1>1, <2>1, ReplayWithoutContextStep
    <2>2. CASE StartOperation(r)
        BY <1>1, <2>2, StartOperationStep
    <2>3. CASE RejectReuse(r)
        BY <1>1, <2>3, RejectReuseStep
    <2>4. CASE LoadOperation(r)
        BY <1>1, <2>4, LoadOperationStep
    <2>5. CASE RecoverStored(r)
        BY <1>1, <2>5, RecoverStoredStep
    <2>6. CASE NothingStored(r)
        BY <1>1, <2>6, NothingStoredStep
    <2>7. CASE GatewayConfirms(r)
        BY <1>1, <2>7, GatewayConfirmsStep
    <2>8. CASE GatewayRejects(r)
        BY <1>1, <2>8, GatewayRejectsStep
    <2>9. CASE GatewayUnknown(r)
        BY <1>1, <2>9, GatewayUnknownStep
    <2>10. CASE SavePublishedReply(r)
        BY <1>1, <2>10, SavePublishedReplyStep
    <2>11. CASE MarkPublished(r)
        BY <1>1, <2>11, MarkPublishedStep
    <2>12. CASE MarkFailed(r)
        BY <1>1, <2>12, MarkFailedStep
    <2>13. CASE MarkDeleted(r)
        BY <1>1, <2>13, MarkDeletedStep
    <2>14. CASE ReturnResult(r)
        BY <1>1, <2>14, ReturnResultStep
    <2>15. QED
        BY <1>3, <2>1, <2>2, <2>3, <2>4, <2>5, <2>6, <2>7, <2>8, <2>9, <2>10,
           <2>11, <2>12, <2>13, <2>14 DEF Handler, Begin, Gateway
<1>4. ASSUME NEW r \in Requests, Abandon(r) PROVE IInv'
    BY <1>1, <1>4, AbandonStep
<1>5. ASSUME NEW r \in Requests, TakeEffect(r) PROVE IInv'
    BY <1>1, <1>5, TakeEffectStep
<1>6. ASSUME NEW r \in Requests, Import(r) PROVE IInv'
    BY <1>1, <1>6, ImportStep
<1>7. ASSUME NEW x \in Requests, NEW c \in Contents, EditReply(x, c) PROVE IInv'
    BY <1>1, <1>7, EditReplyStep
<1>8. ASSUME NEW p \in Parents, ObserveParent(p) PROVE IInv'
    BY <1>1, <1>8, ObserveParentStep
<1>9. CASE UNCHANGED vars
    BY <1>1, <1>9, StutterInv
<1>10. QED
    BY <1>1, <1>2, <1>3, <1>4, <1>5, <1>6, <1>7, <1>8, <1>9 DEF Next, Quiescent

(* The inductive invariant holds in every reachable state. *)
THEOREM Invariance == Spec => []IInv
BY InitInv, StepInv, PTL DEF Spec

-----------------------------------------------------------------------------
(* The safety properties *)

(* Every variable keeps its type, whatever handlers, crashes and edits do. *)
THEOREM TypeCorrect == Spec => []TypeOK
<1>1. IInv => TypeOK
    BY DEF IInv
<1>2. QED
    BY <1>1, Invariance, PTL

(* No statement of a handler fails on a check constraint of the schema. *)
THEOREM SchemaHolds == Spec => []SchemaConstraints
<1>1. IInv => SchemaConstraints
    <2>1. SUFFICES ASSUME IInv, NEW e \in Accounts \X Keys, operations[e] # None
                   PROVE  LET op == operations[e] IN
                          /\ (op.status = "published") <=> (op.comment # None)
                          /\ op.comment # None => comments[op.comment] # None
                          /\ op.status \in {"pending", "published"} <=> op.code = None
                          /\ op.status = "retryable_failed" => op.code \in RetryableCodes
                          /\ op.status = "failed" => op.code \in TerminalCodes
                          /\ op.status = "indeterminate" => op.code \in IndeterminateCodes
        BY DEF SchemaConstraints
    <2>2. operations[e] \in Operation /\ OperationInv(e)
        BY <2>1 DEF IInv, TypeOK
    <2>3. None \notin RetryableCodes \cup TerminalCodes \cup IndeterminateCodes
        BY NoneAssumption DEF FailureCodes
    <2>4. operations[e].comment # None => comments[operations[e].comment] # None
        BY <2>1, <2>2 DEF OperationInv, StoredUnder
    <2>5. operations[e].status \in {"pending", "published"} <=> operations[e].code = None
        BY <2>1, <2>2, <2>3 DEF OperationInv, CodeFits, Operation, Statuses
    <2>6. QED
        BY <2>1, <2>2, <2>4, <2>5 DEF OperationInv, CodeFits
<1>2. QED
    BY <1>1, Invariance, PTL

(* One account never has two rows under one key, although no unique
   constraint of the database says so. *)
THEOREM OneCommentHolds == Spec => []OneCommentPerKey
<1>1. IInv => OneCommentPerKey
    BY DEF IInv
<1>2. QED
    BY <1>1, Invariance, PTL

(* A success that was answered stays backed by its published operation. *)
THEOREM AnswersHold == Spec => []AnsweredSuccessIsPublished
<1>1. IInv => AnsweredSuccessIsPublished
    BY DEF IInv, HandlerInv, PublishedWith, AnsweredSuccessIsPublished
<1>2. QED
    BY <1>1, Invariance, PTL

(* At most one request of a key is answered 201. *)
THEOREM CreatedOnceHolds == Spec => []CreatedOnce
<1>1. IInv => CreatedOnce
    BY DEF IInv, HandlerInv, CreatedInv, CreatedOnce
<1>2. QED
    BY <1>1, Invariance, PTL

(* None of the defensive throw statements is reachable. *)
THEOREM NoThrowHolds == Spec => []NoDefensiveThrow
<1>1. IInv => NoDefensiveThrow
    BY DEF IInv, HandlerInv, NoDefensiveThrow
<1>2. QED
    BY <1>1, Invariance, PTL

-----------------------------------------------------------------------------
(* The protocol implements the ledger *)

(* A step that writes no operation and ends no request leaves the ledger be. *)
LEMMA LedgerStutter ==
    ASSUME operations' = operations, TypeOK,
           \A s \in Requests :
              \/ pc'[s] = pc[s] /\ query'[s] = query[s] /\ result'[s] = result[s]
              \/ pc[s] # "done" /\ pc'[s] # "done"
    PROVE  UNCHANGED Ledger!ledgerVars
<1>1. ledgerBar' = ledgerBar
    BY DEF ledgerBar, LedgerEntry
<1>2. acknowledgedBar' = acknowledgedBar
    BY DEF acknowledgedBar, Entry
<1>3. QED
    BY <1>1, <1>2 DEF Ledger!ledgerVars

(* The answers given so far depend on the requests that are done only. *)
LEMMA AnswersKept ==
    ASSUME \A s \in Requests :
              \/ pc'[s] = pc[s] /\ query'[s] = query[s] /\ result'[s] = result[s]
              \/ pc[s] # "done" /\ pc'[s] # "done"
    PROVE  acknowledgedBar' = acknowledgedBar
BY DEF acknowledgedBar, Entry

(* Writing one operation is writing one entry of the ledger. *)
LEMMA LedgerUpdate ==
    ASSUME TypeOK, NEW e \in Accounts \X Keys, NEW op,
           operations' = [operations EXCEPT ![e] = op]
    PROVE  /\ ledgerBar' = [ledgerBar EXCEPT ![e] = LedgerEntry(op)]
           /\ ledgerBar[e] = LedgerEntry(operations[e])
BY DEF TypeOK, ledgerBar

(* An operation's entry in the ledger is a record, not null. *)
LEMMA LedgerEntryIsNotNull ==
    ASSUME NEW op \in Operation, op # None
    PROVE  LedgerEntry(op) # None
BY NoneAssumption DEF LedgerEntry, LedgerRecord, Operation

(* A new operation row opens a pending ledger entry. *)
LEMMA OpenStep ==
    ASSUME IInv, NEW r \in Requests, StartOperation(r)
    PROVE  Ledger!Open(Entry(r))
<1> DEFINE op == [status |-> "pending", parent |-> query[r].parent,
                  fingerprint |-> Fingerprint(query[r]), comment |-> None, code |-> None]
           claim == Fingerprint(query[r])
<1>1. /\ pc[r] = "context" /\ query[r] \in Query /\ TypeOK
      /\ operations[Entry(r)] = None
      /\ operations' = [operations EXCEPT ![Entry(r)] = op]
      /\ query' = query
    BY DEF StartOperation, IInv, HandlerInv
<1>2. Entry(r) \in Accounts \X Keys /\ claim \in Fingerprints
    BY <1>1, EntryType DEF Fingerprint, Fingerprints, Query
<1>3. op # None
    BY <1>1, <1>2, NoneAssumption DEF Operation, Statuses, Query
<1>4. LedgerEntry(op) = [status |-> "pending", claim |-> claim, comment |-> None]
    BY <1>3 DEF LedgerEntry
<1>5. /\ ledgerBar' = [ledgerBar EXCEPT ![Entry(r)] = LedgerEntry(op)]
      /\ ledgerBar[Entry(r)] = None
    <2>1. /\ ledgerBar' = [ledgerBar EXCEPT ![Entry(r)] = LedgerEntry(op)]
          /\ ledgerBar[Entry(r)] = LedgerEntry(operations[Entry(r)])
        BY <1>1, <1>2, LedgerUpdate
    <2>2. QED
        BY <1>1, <2>1 DEF LedgerEntry
<1>6. acknowledgedBar' = acknowledgedBar
    <2>1. \A s \in Requests :
             \/ pc'[s] = pc[s] /\ query'[s] = query[s] /\ result'[s] = result[s]
             \/ pc[s] # "done" /\ pc'[s] # "done"
        BY <1>1 DEF StartOperation, Fail, Goto, TypeOK
    <2>2. QED
        BY <2>1, AnswersKept
<1> HIDE DEF op, claim
<1>7. QED
    BY <1>2, <1>4, <1>5, <1>6 DEF Ledger!Open

(* A recorded failure decides a ledger entry that is not published. *)
LEMMA DecideStep ==
    ASSUME IInv, NEW r \in Requests, MarkFailed(r)
    PROVE  Ledger!Decide(Entry(r)) \/ UNCHANGED Ledger!ledgerVars
<1> DEFINE old == operations[Entry(r)]
           code == result[r].code
           new == [old EXCEPT !.status = StatusOf(code), !.comment = None, !.code = code]
<1>1. /\ pc[r] = "failing" /\ query[r] \in Query /\ TypeOK /\ old # None
      /\ result[r] # None /\ code \in FailureCodes /\ query' = query
    BY DEF MarkFailed, IInv, HandlerInv
<1>2. Entry(r) \in Accounts \X Keys /\ old \in Operation /\ OperationInv(Entry(r))
    BY <1>1, EntryType DEF TypeOK, IInv
<1>3. StatusOf(code) \in {"retryable_failed", "failed", "indeterminate"}
    BY <1>1, StatusOfFits
<1>4. \A s \in Requests :
         \/ pc'[s] = pc[s] /\ query'[s] = query[s] /\ result'[s] = result[s]
         \/ pc[s] # "done" /\ pc'[s] # "done"
    BY <1>1 DEF MarkFailed, Respond, Goto, TypeOK
<1>5. CASE operations' = operations
    BY <1>1, <1>4, <1>5, LedgerStutter
<1>6. CASE /\ Replaceable(old.status, StatusOf(code))
           /\ operations' = [operations EXCEPT ![Entry(r)] = new]
    <2>1. /\ new \in Operation /\ new # None /\ new.status = StatusOf(code)
          /\ new.comment = None /\ new.fingerprint = old.fingerprint
        BY <1>1, <1>2, <1>3, NoneAssumption DEF Operation, Statuses
    <2>2. old.status # "published" /\ old.comment = None
        BY <1>1, <1>2, <1>6 DEF Replaceable, OperationInv
    <2> HIDE DEF new, code
    <2>3. /\ ledgerBar' = [ledgerBar EXCEPT ![Entry(r)] = LedgerEntry(new)]
          /\ ledgerBar[Entry(r)] = LedgerEntry(old)
        BY <1>1, <1>2, <1>6, LedgerUpdate
    <2>4. /\ LedgerEntry(old) = [status |-> old.status, claim |-> old.fingerprint,
                                 comment |-> None]
          /\ LedgerEntry(new) = [status |-> StatusOf(code), claim |-> old.fingerprint,
                                 comment |-> None]
        BY <1>1, <2>1, <2>2 DEF LedgerEntry
    <2>5. /\ ledgerBar[Entry(r)] # None
          /\ ledgerBar[Entry(r)].status = old.status
          /\ ledgerBar[Entry(r)].claim = old.fingerprint
        BY <1>1, <1>2, <2>3, <2>4, LedgerEntryIsNotNull
    <2>6. Ledger!Rank[old.status] < Ledger!Rank[StatusOf(code)]
        BY <1>3, <1>6 DEF Replaceable, Ledger!Rank
    <2>7. acknowledgedBar' = acknowledgedBar
        BY <1>4, AnswersKept
    <2>8. QED
        BY <1>3, <2>3, <2>4, <2>5, <2>6, <2>7 DEF Ledger!Decide
<1>7. QED
    BY <1>1, <1>5, <1>6 DEF MarkFailed

(* A published operation publishes its ledger entry. *)
LEMMA PublishStep ==
    ASSUME IInv, NEW r \in Requests, MarkPublished(r)
    PROVE  Ledger!Publish(Entry(r)) \/ UNCHANGED Ledger!ledgerVars
<1> DEFINE old == operations[Entry(r)]
           id == result[r].comment
           new == [old EXCEPT !.status = "published", !.comment = id, !.code = None]
<1>1. /\ pc[r] = "publishing" /\ query[r] \in Query /\ TypeOK /\ old # None
      /\ id \in StoredUnder(Entry(r)[1], Entry(r)[2]) /\ query' = query
    BY DEF MarkPublished, IInv, HandlerInv
<1>2. /\ Entry(r) \in Accounts \X Keys /\ old \in Operation
      /\ OperationInv(Entry(r)) /\ id \in CommentIds
    BY <1>1, EntryType DEF TypeOK, IInv, StoredUnder
<1>3. \A s \in Requests :
         \/ pc'[s] = pc[s] /\ query'[s] = query[s] /\ result'[s] = result[s]
         \/ pc[s] # "done" /\ pc'[s] # "done"
    BY <1>1 DEF MarkPublished, Respond, Goto, TypeOK
<1>4. CASE operations' = operations
    BY <1>1, <1>3, <1>4, LedgerStutter
<1>5. CASE /\ old.status # "published"
           /\ operations' = [operations EXCEPT ![Entry(r)] = new]
    <2>1. /\ new \in Operation /\ new # None /\ new.status = "published"
          /\ new.comment = id /\ new.fingerprint = old.fingerprint
        BY <1>1, <1>2, NoneAssumption DEF Operation, Statuses
    <2>2. old.comment = None
        BY <1>1, <1>2, <1>5 DEF OperationInv
    <2> HIDE DEF new, id
    <2>3. /\ ledgerBar' = [ledgerBar EXCEPT ![Entry(r)] = LedgerEntry(new)]
          /\ ledgerBar[Entry(r)] = LedgerEntry(old)
        BY <1>1, <1>2, <1>5, LedgerUpdate
    <2>4. /\ LedgerEntry(old) = [status |-> old.status, claim |-> old.fingerprint,
                                 comment |-> None]
          /\ LedgerEntry(new) = [status |-> "published", claim |-> old.fingerprint,
                                 comment |-> id]
        BY <1>1, <2>1, <2>2 DEF LedgerEntry
    <2>5. /\ ledgerBar[Entry(r)] # None
          /\ ledgerBar[Entry(r)].status = old.status
          /\ ledgerBar[Entry(r)].claim = old.fingerprint
        BY <1>1, <1>2, <2>3, <2>4, LedgerEntryIsNotNull
    <2>6. acknowledgedBar' = acknowledgedBar
        BY <1>3, AnswersKept
    <2>7. QED
        BY <1>2, <1>5, <2>3, <2>4, <2>5, <2>6 DEF Ledger!Publish
<1>6. QED
    BY <1>1, <1>4, <1>5 DEF MarkPublished, Publishable

(* A success that is sent acknowledges a published ledger entry. *)
LEMMA AcknowledgeStep ==
    ASSUME IInv, NEW r \in Requests, ReturnResult(r)
    PROVE  \/ UNCHANGED Ledger!ledgerVars
           \/ Entry(r) \in Accounts \X Keys /\ Ledger!Acknowledge(Entry(r))
<1> DEFINE Answered(s) == pc[s] = "done" /\ result[s].code \in SuccessKinds
<1>1. /\ pc[r] = "returning" /\ TypeOK /\ query[r] \in Query /\ result[r] # None
      /\ result[r].code \in SuccessKinds => PublishedWith(Entry(r), result[r].comment)
      /\ pc' = [pc EXCEPT ![r] = "done"]
      /\ operations' = operations /\ query' = query /\ result' = result
    BY DEF ReturnResult, Goto, IInv, HandlerInv, tables
<1>2. /\ pc'[r] = "done"
      /\ \A s \in Requests \ {r} : pc'[s] = pc[s]
    BY <1>1 DEF TypeOK
<1>3. /\ \A s \in Requests : Entry(s)' = Entry(s) /\ result'[s] = result[s]
      /\ ledgerBar' = ledgerBar
    BY <1>1 DEF Entry, ledgerBar, LedgerEntry
<1>4. CASE result[r].code \notin SuccessKinds
    <2>1. \A s \in Requests : Answered(s)' <=> Answered(s)
        BY <1>1, <1>2, <1>3, <1>4
    <2>2. acknowledgedBar' = acknowledgedBar
        BY <1>3, <2>1 DEF acknowledgedBar
    <2>3. QED
        BY <1>3, <2>2 DEF Ledger!ledgerVars
<1>5. CASE result[r].code \in SuccessKinds
    <2>1. Entry(r) \in Accounts \X Keys
        BY <1>1, EntryType
    <2>2. \A s \in Requests : Answered(s)' <=> Answered(s) \/ s = r
        BY <1>1, <1>2, <1>3, <1>5
    <2>3. acknowledgedBar' = acknowledgedBar \cup {<<Entry(r), result[r].comment>>}
        BY <1>3, <2>2 DEF acknowledgedBar
    <2>4. /\ operations[Entry(r)] # None /\ operations[Entry(r)].status = "published"
          /\ operations[Entry(r)].comment = result[r].comment
        BY <1>1, <1>5 DEF PublishedWith
    <2>5. ledgerBar[Entry(r)] = [status |-> "published",
                                 claim |-> operations[Entry(r)].fingerprint,
                                 comment |-> result[r].comment]
        BY <2>1, <2>4 DEF ledgerBar, LedgerEntry
    <2>6. operations[Entry(r)] \in Operation
        BY <1>1, <2>1, <2>4 DEF TypeOK
    <2>7. ledgerBar[Entry(r)] # None
        BY <2>1, <2>4, <2>6, LedgerEntryIsNotNull DEF ledgerBar
    <2>8. QED
        BY <1>3, <2>1, <2>3, <2>5, <2>7 DEF Ledger!Acknowledge
<1>6. QED
    BY <1>4, <1>5

(* Every other step of the protocol is invisible in the ledger. *)
LEMMA LedgerStep == IInv /\ [Next]_vars => [Ledger!LedgerNext]_(Ledger!ledgerVars)
<1>1. SUFFICES ASSUME IInv, [Next]_vars
               PROVE  \/ UNCHANGED Ledger!ledgerVars
                      \/ \E e \in Accounts \X Keys :
                           \/ Ledger!Open(e) \/ Ledger!Decide(e)
                           \/ Ledger!Publish(e) \/ Ledger!Acknowledge(e)
    BY DEF Ledger!LedgerNext
<1>2. TypeOK /\ \A r \in Requests : pc[r] # "idle" => Entry(r) \in Accounts \X Keys
    BY <1>1, EntryType DEF IInv, HandlerInv
<1>3. ASSUME NEW r \in Requests, Handler(r)
      PROVE  \/ UNCHANGED Ledger!ledgerVars
             \/ \E e \in Accounts \X Keys :
                  \/ Ledger!Open(e) \/ Ledger!Decide(e)
                  \/ Ledger!Publish(e) \/ Ledger!Acknowledge(e)
    <2>1. CASE StartOperation(r)
        BY <1>1, <1>2, <2>1, OpenStep DEF StartOperation
    <2>2. CASE MarkFailed(r)
        BY <1>1, <1>2, <2>2, DecideStep DEF MarkFailed
    <2>3. CASE MarkPublished(r)
        BY <1>1, <1>2, <2>3, PublishStep DEF MarkPublished
    <2>4. CASE ReturnResult(r)
        BY <1>1, <2>4, AcknowledgeStep
    <2>5. CASE ReplayWithoutContext(r) \/ RejectReuse(r)
        BY <1>2, <2>5, LedgerStutter
           DEF ReplayWithoutContext, RejectReuse, Respond, Goto, tables, TypeOK
    <2>6. CASE LoadOperation(r)
        BY <1>2, <2>6, LedgerStutter DEF LoadOperation, Respond, Goto, tables, TypeOK
    <2>7. CASE RecoverStored(r)
        BY <1>2, <2>7, LedgerStutter DEF RecoverStored, Fail, Goto, tables, TypeOK
    <2>8. CASE NothingStored(r)
        BY <1>2, <2>8, LedgerStutter
           DEF NothingStored, Respond, Fail, Goto, tables, TypeOK
    <2>9. CASE GatewayConfirms(r)
        BY <1>2, <2>9, LedgerStutter DEF GatewayConfirms, Goto, tables, TypeOK
    <2>10. CASE GatewayRejects(r) \/ GatewayUnknown(r)
        BY <1>2, <2>10, LedgerStutter
           DEF GatewayRejects, GatewayUnknown, Fail, Goto, tables, TypeOK
    <2>11. CASE SavePublishedReply(r)
        BY <1>2, <2>11, LedgerStutter DEF SavePublishedReply, Fail, Goto, TypeOK
    <2>12. CASE MarkDeleted(r)
        BY <1>2, <2>12, LedgerStutter DEF MarkDeleted, Goto, TypeOK
    <2>13. QED
        BY <1>3, <2>1, <2>2, <2>3, <2>4, <2>5, <2>6, <2>7, <2>8, <2>9, <2>10,
           <2>11, <2>12 DEF Handler, Begin, Gateway
<1>4. ASSUME NEW r \in Requests, FindContext(r) PROVE UNCHANGED Ledger!ledgerVars
    BY <1>2, <1>4, LedgerStutter DEF FindContext, Respond, Goto, tables, TypeOK
<1>5. ASSUME NEW r \in Requests, Abandon(r) PROVE UNCHANGED Ledger!ledgerVars
    BY <1>2, <1>5, LedgerStutter DEF Abandon, Goto, tables, TypeOK
<1>6. ASSUME NEW r \in Requests, TakeEffect(r) \/ Import(r)
      PROVE  UNCHANGED Ledger!ledgerVars
    BY <1>2, <1>6, LedgerStutter DEF TakeEffect, Import, tables
<1>7. ASSUME NEW x \in Requests, NEW c \in Contents, EditReply(x, c)
      PROVE  UNCHANGED Ledger!ledgerVars
    BY <1>2, <1>7, LedgerStutter DEF EditReply, tables
<1>8. ASSUME NEW p \in Parents, ObserveParent(p) PROVE UNCHANGED Ledger!ledgerVars
    BY <1>2, <1>8, LedgerStutter DEF ObserveParent
<1>9. CASE UNCHANGED vars
    BY <1>2, <1>9, LedgerStutter DEF vars
<1>10. QED
    BY <1>1, <1>3, <1>4, <1>5, <1>6, <1>7, <1>8, <1>9 DEF Next, Quiescent

(* The empty database is the empty ledger. *)
LEMMA LedgerInitially == Init => Ledger!LedgerInit
<1>1. SUFFICES ASSUME Init PROVE Ledger!LedgerInit
    OBVIOUS
<1>2. ledgerBar = [e \in Accounts \X Keys |-> None]
    BY <1>1 DEF Init, ledgerBar, LedgerEntry
<1>3. acknowledgedBar = {}
    BY <1>1 DEF Init, acknowledgedBar
<1>4. QED
    BY <1>2, <1>3 DEF Ledger!LedgerInit

(* Every behaviour of the protocol is a behaviour of the ledger. *)
THEOREM Refinement == Spec => ImplementsLedger
<1>1. Spec => Ledger!LedgerSpec
    BY LedgerInitially, LedgerStep, Invariance, PTL DEF Spec, Ledger!LedgerSpec
<1>2. QED
    BY <1>1 DEF ImplementsLedger

(* Whoever is answered 201 or 200 for one key of one account is told of one and
   the same comment, however many requests, crashes and retries it took. *)
THEOREM OneAnswerHolds == Spec => []Ledger!OneAnswerPerKey
<1>1. IInv => Ledger!OneAnswerPerKey
    <2> SUFFICES ASSUME IInv, NEW a \in acknowledgedBar, NEW b \in acknowledgedBar,
                        a[1] = b[1]
                 PROVE  a[2] = b[2]
        BY DEF Ledger!OneAnswerPerKey
    <2>1. PICK r \in Requests : /\ pc[r] = "done" /\ result[r].code \in SuccessKinds
                                /\ a = <<Entry(r), result[r].comment>>
        BY DEF acknowledgedBar
    <2>2. PICK s \in Requests : /\ pc[s] = "done" /\ result[s].code \in SuccessKinds
                                /\ b = <<Entry(s), result[s].comment>>
        BY DEF acknowledgedBar
    <2>3. PublishedWith(a[1], a[2]) /\ PublishedWith(b[1], b[2])
        BY <2>1, <2>2 DEF IInv, HandlerInv
    <2> QED BY <2>3 DEF PublishedWith
<1> QED BY <1>1, Invariance, PTL
=============================================================================
