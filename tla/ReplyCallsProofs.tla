-------------------------- MODULE ReplyCallsProofs --------------------------
(***************************************************************************)
(* What becomes of the calls handlers make at the provider: a reply that   *)
(* was written, or still may be, is never recorded as a plain failure once *)
(* its handler has returned, and a provider without idempotency is called  *)
(* again for a key only after it said that a retry is safe.  From this     *)
(* follows what the responses to POST /comments tell.  The last part is    *)
(* about the calls at the database, which are those of AtomicStore.        *)
(***************************************************************************)
EXTENDS HttpBoundary, ReplyOverStore, ReplyPublicationProofs, FiniteSetTheorems

(* The call of r was made and may have an effect at the provider. *)
Effective(r) == r \in inflight \/ replies[r] # None
Caller(r) == pc[r] = "calling" \/ Effective(r)

Decided(e) ==
    operations[e] # None /\ operations[e].status \in {"indeterminate", "published"}

(* The provider answered a request of the entry that a retry is safe. *)
Told(e) ==
    \E s \in Requests : /\ query[s] \in Query /\ Entry(s) = e
                        /\ result[s] # None /\ result[s].code \in RetryableCodes

(* A handler whose call had an effect knows the reply, or that it does not
   know, and has recorded either before it returns. *)
EffectInv(r) ==
    Effective(r) =>
        /\ pc[r] \in {"saving", "publishing", "failing", "returning", "done", "abandoned"}
        /\ pc[r] \in {"failing", "returning", "done"} =>
             result[r].code \in IndeterminateCodes \cup SuccessKinds
        /\ pc[r] \in {"returning", "done"} => Decided(Entry(r))

CallInv(r) ==
    /\ EffectInv(r)
    /\ Caller(r) => query[r] \in Query /\ operations[Entry(r)] # None
    /\ replies[r] # None => <<replies[r].account, replies[r].key>> = Entry(r)
    /\ pc[r] \in {"inactive", "context", "recovering", "calling", "saving"} =>
         result[r] = None
    /\ begun[r] # None /\ begun[r].status = "retryable_failed" =>
         query[r] \in Query /\ Told(Entry(r))

RetryableTold ==
    \A e \in Accounts \X Keys :
        operations[e] # None /\ operations[e].status = "retryable_failed" => Told(e)

OneCaller ==
    \A r, s \in Requests :
        /\ Caller(r) /\ Caller(s) /\ Entry(r) = Entry(s)
        /\ Publication[Entry(r)[1]] = "none" /\ ~Told(Entry(r))
        => r = s

CallsInv ==
    /\ \A r \in Requests : CallInv(r)
    /\ RetryableTold /\ OneCaller

-----------------------------------------------------------------------------
(* A step leaves request s and its reply at the provider alone. *)
Still(s) ==
    /\ pc'[s] = pc[s] /\ query'[s] = query[s] /\ begun'[s] = begun[s]
    /\ result'[s] = result[s] /\ (s \in inflight' <=> s \in inflight)
    /\ (replies'[s] = None) <=> (replies[s] = None)
    /\ replies[s] # None =>
         replies'[s].account = replies[s].account /\ replies'[s].key = replies[s].key

(* What a step does to the operations, and to what was told. *)
Decides ==
    \A e \in Accounts \X Keys :
        /\ operations[e] # None => operations'[e] # None
        /\ Decided(e) => Decided(e)'
        /\ Told(e) => Told(e)'

Moves(r) == FindContext(r) \/ Handler(r) \/ Abandon(r) \/ TakeEffect(r)

USE DEF CommentIds

LEMMA OthersStill ==
    ASSUME TypeOK, NEW r \in Requests, Moves(r)
    PROVE  \A s \in Requests \ {r} : Still(s)
<1> USE DEF Still, Goto, Respond, Fail, tables, provider, TypeOK
<1>1. CASE FindContext(r)
    BY <1>1 DEF FindContext
<1>2. CASE ReplayWithoutContext(r)
    BY <1>2 DEF ReplayWithoutContext
<1>3. CASE StartOperation(r)
    BY <1>3 DEF StartOperation
<1>4. CASE RejectReuse(r)
    BY <1>4 DEF RejectReuse
<1>5. CASE LoadOperation(r)
    BY <1>5 DEF LoadOperation
<1>6. CASE RecoverStored(r)
    BY <1>6 DEF RecoverStored
<1>7. CASE NothingStored(r)
    BY <1>7 DEF NothingStored
<1>8. CASE GatewayConfirms(r)
    BY <1>8 DEF GatewayConfirms, ExternalWrite
<1>9. CASE GatewayRejects(r)
    BY <1>9 DEF GatewayRejects
<1>10. CASE GatewayUnknown(r)
    BY <1>10 DEF GatewayUnknown
<1>11. CASE SavePublishedReply(r)
    BY <1>11 DEF SavePublishedReply
<1>12. CASE MarkPublished(r)
    BY <1>12 DEF MarkPublished
<1>13. CASE MarkFailed(r)
    BY <1>13 DEF MarkFailed
<1>14. CASE MarkDeleted(r)
    BY <1>14 DEF MarkDeleted
<1>15. CASE ReturnResult(r)
    BY <1>15 DEF ReturnResult
<1>16. CASE Abandon(r)
    BY <1>16 DEF Abandon
<1>17. CASE TakeEffect(r)
    BY <1>17 DEF TakeEffect, ExternalWrite
<1> QED
    BY <1>1, <1>2, <1>3, <1>4, <1>5, <1>6, <1>7, <1>8, <1>9, <1>10, <1>11, <1>12, <1>13,
       <1>14, <1>15, <1>16, <1>17 DEF Moves, Handler, Begin, Gateway

(* A handler keeps what it was asked, and a failure it was told. *)
LEMMA TellingKept ==
    ASSUME IInv, NEW r \in Requests, CallInv(r), Moves(r)
    PROVE  /\ query[r] \in Query => query'[r] = query[r]
           /\ result[r] # None /\ result[r].code \in RetryableCodes => result'[r] = result[r]
<1> USE DEF Goto, Respond, Fail, tables, provider
<1>a. TypeOK /\ HandlerInv(r)
    BY DEF IInv
<1>1. query[r] \in Query => query'[r] = query[r]
    <2>1. CASE FindContext(r)
        BY <1>a, <2>1, NoneAssumption DEF FindContext, HandlerInv
    <2> QED
        BY <2>1 DEF Moves, Handler, Begin, Gateway, ReplayWithoutContext, StartOperation,
           RejectReuse, LoadOperation, RecoverStored, NothingStored, GatewayConfirms,
           GatewayRejects, GatewayUnknown, SavePublishedReply, MarkPublished, MarkFailed,
           MarkDeleted, ReturnResult, Abandon, TakeEffect
<1>2. ASSUME result[r] # None, result[r].code \in RetryableCodes
      PROVE  result'[r] = result[r]
    <2>1. /\ pc[r] \notin {"idle", "inactive", "context", "recovering", "calling", "saving",
                           "publishing"}
          /\ pc[r] = "failing" => operations[Entry(r)] # None
        BY <1>a, <1>2, CodesApart DEF CallInv, HandlerInv
    <2> QED
        BY <1>a, <2>1 DEF Moves, Handler, Begin, Gateway, FindContext, ReplayWithoutContext,
           StartOperation, RejectReuse, LoadOperation, RecoverStored, NothingStored,
           GatewayConfirms, GatewayRejects, GatewayUnknown, SavePublishedReply, MarkPublished,
           MarkFailed, MarkDeleted, ReturnResult, Abandon, TakeEffect
<1> QED BY <1>1, <1>2

(* The records that markPublished and markFailed write. *)
Recorded(op, status, comment, code) ==
    [op EXCEPT !.status = status, !.comment = comment, !.code = code]

LEMMA RecordFields ==
    ASSUME NEW op \in Operation, NEW status \in Statuses,
           NEW comment \in CommentIds \cup {None}, NEW code \in FailureCodes \cup {None}
    PROVE  /\ Recorded(op, status, comment, code) \in Operation \ {None}
           /\ Recorded(op, status, comment, code).status = status
<1>1. Recorded(op, status, comment, code) \in Operation
    BY DEF Operation, Recorded
<1>2. Recorded(op, status, comment, code).status = status
    BY DEF Operation, Recorded
<1> QED BY <1>1, <1>2, NoneAssumption

LEMMA MarkPublishedWrites ==
    ASSUME IInv, NEW r \in Requests, MarkPublished(r)
    PROVE  \A e \in Accounts \X Keys : operations'[e] # operations[e] =>
              operations'[e] # None /\ operations'[e].status = "published"
<1> DEFINE new == Recorded(operations[Entry(r)], "published", result[r].comment, None)
<1>1. /\ TypeOK /\ query[r] \in Query /\ operations[Entry(r)] # None
      /\ result[r].comment \in StoredUnder(Entry(r)[1], Entry(r)[2])
    BY DEF MarkPublished, IInv, HandlerInv
<1>2. /\ Entry(r) \in Accounts \X Keys /\ operations[Entry(r)] \in Operation
      /\ result[r].comment \in CommentIds
    BY <1>1, EntryType DEF TypeOK, StoredUnder
<1>3. new \in Operation /\ new # None /\ new.status = "published"
    <2>1. /\ "published" \in Statuses /\ None \in FailureCodes \cup {None}
          /\ result[r].comment \in CommentIds \cup {None}
        BY <1>2 DEF Statuses
    <2> QED BY <1>2, <2>1, RecordFields
<1>4. operations' = [operations EXCEPT ![Entry(r)] = new] \/ operations' = operations
    BY DEF MarkPublished, Recorded
<1> HIDE DEF new
<1> QED BY <1>1, <1>2, <1>3, <1>4 DEF TypeOK

LEMMA MarkFailedWrites ==
    ASSUME IInv, NEW r \in Requests, MarkFailed(r)
    PROVE  /\ query[r] \in Query /\ Entry(r) \in Accounts \X Keys
           /\ operations[Entry(r)] # None /\ operations[Entry(r)] \in Operation
           /\ result[r] # None /\ result[r].code \in FailureCodes
           /\ UNCHANGED <<replies, inflight, query, begun, result>>
           /\ pc' = [pc EXCEPT ![r] = IF result[r].code = "PLATFORM_RESOURCE_NOT_FOUND"
                                      THEN "deleting" ELSE "returning"]
           /\ ~Replaceable(operations[Entry(r)].status, StatusOf(result[r].code)) =>
                operations' = operations
           /\ Replaceable(operations[Entry(r)].status, StatusOf(result[r].code)) =>
                /\ operations'[Entry(r)] # None
                /\ operations'[Entry(r)].status = StatusOf(result[r].code)
           /\ \A e \in Accounts \X Keys : e # Entry(r) => operations'[e] = operations[e]
<1> DEFINE code == result[r].code
           new == Recorded(operations[Entry(r)], StatusOf(code), None, code)
<1>1. /\ TypeOK /\ query[r] \in Query /\ operations[Entry(r)] # None
      /\ result[r] # None /\ code \in FailureCodes
    BY DEF MarkFailed, IInv, HandlerInv
<1>2. Entry(r) \in Accounts \X Keys /\ operations[Entry(r)] \in Operation
    BY <1>1, EntryType DEF TypeOK
<1>3. new \in Operation /\ new # None /\ new.status = StatusOf(code)
    <2>1. /\ StatusOf(code) \in Statuses /\ None \in CommentIds \cup {None}
          /\ code \in FailureCodes \cup {None}
        BY <1>1, StatusOfFits DEF Statuses
    <2> QED BY <1>2, <2>1, RecordFields
<1>4. /\ Replaceable(operations[Entry(r)].status, StatusOf(code)) =>
           operations' = [operations EXCEPT ![Entry(r)] = new]
      /\ ~Replaceable(operations[Entry(r)].status, StatusOf(code)) => operations' = operations
    BY <1>1 DEF MarkFailed, Recorded
<1>5. /\ UNCHANGED <<replies, inflight, query, begun, result>>
      /\ pc' = [pc EXCEPT ![r] = IF code = "PLATFORM_RESOURCE_NOT_FOUND"
                                 THEN "deleting" ELSE "returning"]
    BY <1>1 DEF MarkFailed, Goto, provider
<1> HIDE DEF new
<1> QED BY <1>1, <1>2, <1>3, <1>4, <1>5 DEF TypeOK

LEMMA DecidesStep ==
    ASSUME IInv, NEW r \in Requests, CallInv(r), Moves(r)
    PROVE  /\ Decides
           /\ RetryableTold => RetryableTold'
<1> USE DEF Goto, Respond, Fail, tables, provider
<1>a. TypeOK /\ HandlerInv(r)
    BY DEF IInv
<1>b. \A e : Told(e) => Told(e)'
    <2> SUFFICES ASSUME NEW e, NEW s \in Requests, query[s] \in Query, Entry(s) = e,
                        result[s] # None, result[s].code \in RetryableCodes
                 PROVE  query'[s] = query[s] /\ result'[s] = result[s]
        BY DEF Told, Entry
    <2>1. CASE s = r
        BY <2>1, TellingKept
    <2>2. CASE s # r
        BY <1>a, <2>2, OthersStill DEF Still
    <2> QED BY <2>1, <2>2
<1>1. CASE UNCHANGED operations
    BY <1>1, <1>b DEF Decides, Decided, RetryableTold
<1>2. CASE StartOperation(r)
    <2> DEFINE new == [status |-> "pending", parent |-> query[r].parent,
                       fingerprint |-> Fingerprint(query[r]), comment |-> None, code |-> None]
    <2>0. query[r] \in Query /\ Entry(r) \in Accounts \X Keys
        BY <1>2, <1>a, EntryType DEF StartOperation, HandlerInv
    <2>1. /\ operations[Entry(r)] = None
          /\ operations' = [operations EXCEPT ![Entry(r)] = new]
        BY <1>2 DEF StartOperation
    <2>2. new.status = "pending"
        OBVIOUS
    <2> HIDE DEF new
    <2>3. \A e \in Accounts \X Keys : operations'[e] # operations[e] =>
               operations[e] = None /\ operations'[e].status = "pending"
        BY <2>0, <2>1, <2>2, <1>a DEF TypeOK
    <2> QED
        BY <1>b, <2>3 DEF Decides, Decided, RetryableTold
<1>3. CASE MarkPublished(r)
    BY <1>3, <1>b, MarkPublishedWrites DEF Decides, Decided, RetryableTold
<1>4. CASE MarkFailed(r)
    <2>1. \A e \in Accounts \X Keys : operations'[e] # operations[e] =>
            /\ e = Entry(r) /\ operations'[e] # None
            /\ Replaceable(operations[e].status, StatusOf(result[r].code))
            /\ operations'[e].status = StatusOf(result[r].code)
        BY <1>4, MarkFailedWrites
    <2>2. /\ StatusOf(result[r].code) = "retryable_failed" => Told(Entry(r))
          /\ StatusOf(result[r].code) # "published"
        BY <1>4, MarkFailedWrites, StatusOfFits DEF Told
    <2> QED
        BY <1>b, <2>1, <2>2 DEF Decides, Decided, RetryableTold, Replaceable
<1> QED
    BY <1>1, <1>2, <1>3, <1>4
       DEF Moves, Handler, Begin, Gateway, FindContext, ReplayWithoutContext, RejectReuse,
           LoadOperation, RecoverStored, NothingStored, GatewayConfirms, GatewayRejects,
           GatewayUnknown, SavePublishedReply, MarkDeleted, ReturnResult, Abandon, TakeEffect


-----------------------------------------------------------------------------
(* What a handler's calls are known to have done survives the others' steps. *)
LEMMA CallFrame ==
    ASSUME NEW s \in Requests, HandlerInv(s), CallInv(s), Still(s), Decides
    PROVE  CallInv(s)' /\ (Caller(s)' => Caller(s))
<1>1. /\ Entry(s)' = Entry(s)
      /\ Effective(s)' <=> Effective(s)
      /\ Caller(s)' <=> Caller(s)
    BY DEF Still, Entry, Effective, Caller
<1>2. query[s] \in Query => Entry(s) \in Accounts \X Keys
    BY EntryType
<1>3. Effective(s) => query[s] \in Query
    BY DEF CallInv, Caller
<1>4. EffectInv(s)'
    <2>1. query[s] \in Query /\ Decided(Entry(s)) => Decided(Entry(s))'
        BY <1>1, <1>2 DEF Decides, Decided
    <2> QED
        BY <1>1, <1>3, <2>1 DEF CallInv, EffectInv, Still
<1>5. Caller(s)' => query'[s] \in Query /\ operations'[Entry(s)'] # None
    BY <1>1, <1>2 DEF CallInv, Decides, Still
<1>6. replies'[s] # None => <<replies'[s].account, replies'[s].key>> = Entry(s)'
    BY <1>1 DEF CallInv, Still
<1>7. query[s] \in Query /\ Told(Entry(s)) => Told(Entry(s))'
    BY <1>1, <1>2 DEF Decides, Told
<1>8. begun'[s] # None /\ begun'[s].status = "retryable_failed" =>
         query'[s] \in Query /\ Told(Entry(s))'
    BY <1>7 DEF CallInv, Still
<1> QED
    BY <1>1, <1>4, <1>5, <1>6, <1>8 DEF CallInv, Still

(* What handler r's own step has to show. *)
Calls(r) ==
    /\ CallInv(r)'
    /\ Caller(r)' =>
         /\ query'[r] = query[r]
         /\ \/ Caller(r) \/ operations[Entry(r)] = None
            \/ Publication[Entry(r)[1]] # "none" \/ Told(Entry(r))

(* A step of a handler whose call had no effect, and that has none. *)
LEMMA IdleCall ==
    ASSUME NEW r \in Requests, CallInv(r), Decides, query[r] \in Query, query' = query,
           replies' = replies, inflight' = inflight, ~Effective(r),
           pc'[r] # "calling",
           pc'[r] \in {"inactive", "context", "recovering", "saving"} => result'[r] = None,
           \/ begun'[r] = None \/ begun'[r] = begun[r]
           \/ begun'[r].status # "retryable_failed" \/ Told(Entry(r))
    PROVE  Calls(r)
<1>1. Entry(r)' = Entry(r) /\ Entry(r) \in Accounts \X Keys
    BY EntryType DEF Entry
<1>2. ~Effective(r)' /\ ~Caller(r)'
    BY DEF Effective, Caller
<1>3. Told(Entry(r)) => Told(Entry(r))'
    BY <1>1 DEF Decides, Told
<1> QED
    BY <1>1, <1>2, <1>3 DEF Calls, CallInv, EffectInv, Effective

(* A step that starts the call. *)
LEMMA StartCall ==
    ASSUME NEW r \in Requests, CallInv(r), Decides, query[r] \in Query, query' = query,
           replies' = replies, inflight' = inflight, ~Effective(r),
           pc'[r] = "calling", result'[r] = None, operations'[Entry(r)] # None,
           begun'[r] = None \/ begun'[r] = begun[r],
           \/ operations[Entry(r)] = None
           \/ Publication[Entry(r)[1]] # "none" \/ Told(Entry(r))
    PROVE  Calls(r)
<1>1. Entry(r)' = Entry(r) /\ Entry(r) \in Accounts \X Keys
    BY EntryType DEF Entry
<1>2. ~Effective(r)'
    BY DEF Effective
<1>3. Told(Entry(r)) => Told(Entry(r))'
    BY <1>1 DEF Decides, Told
<1> QED
    BY <1>1, <1>2, <1>3 DEF Calls, CallInv, EffectInv, Effective


(* The steps before the call. *)
LEMMA BeforeTheCall ==
    ASSUME IInv, IInv', NEW r \in Requests, CallInv(r), RetryableTold, Decides,
           \/ FindContext(r) \/ ReplayWithoutContext(r) \/ StartOperation(r) \/ RejectReuse(r)
           \/ LoadOperation(r) \/ RecoverStored(r) \/ NothingStored(r)
    PROVE  Calls(r)
<1> USE DEF Goto, Respond, Fail, tables, provider
<1>a. TypeOK /\ TypeOK' /\ HandlerInv(r)
    BY DEF IInv
<1>b. /\ pc[r] \in {"idle", "inactive", "context", "recovering"} /\ ~Effective(r)
      /\ UNCHANGED <<replies, inflight>>
    BY DEF CallInv, EffectInv, FindContext, ReplayWithoutContext, StartOperation, RejectReuse,
           LoadOperation, RecoverStored, NothingStored
<1>1. CASE FindContext(r)
    <2>1. /\ pc'[r] \in {"inactive", "context", "returning"}
          /\ pc'[r] \in {"inactive", "context"} => result'[r] = None
          /\ begun'[r] = begun[r]
        BY <1>1, <1>a DEF FindContext, TypeOK, HandlerInv
    <2>2. begun[r] = None \/ begun[r].status # "retryable_failed"
        BY <1>1, <1>a, NoneAssumption DEF FindContext, CallInv, HandlerInv
    <2>3. ~Effective(r)' /\ ~Caller(r)'
        BY <1>b, <2>1 DEF Effective, Caller
    <2> QED
        BY <1>b, <2>1, <2>2, <2>3 DEF Calls, CallInv, EffectInv, Effective
<1>2. ASSUME ~FindContext(r)
      PROVE  /\ query[r] \in Query /\ query' = query
             /\ pc[r] \in {"inactive", "context", "recovering"} /\ result[r] = None
             /\ Entry(r) \in Accounts \X Keys
    <2>1. pc[r] # "idle" /\ query' = query
        BY <1>2 DEF ReplayWithoutContext, StartOperation, RejectReuse,
           LoadOperation, RecoverStored, NothingStored
    <2> QED BY <1>a, <1>b, <2>1, EntryType DEF CallInv, HandlerInv
<1>3. CASE ReplayWithoutContext(r)
    <2>1. pc'[r] = "returning" /\ begun'[r] = begun[r]
        BY <1>3, <1>a DEF ReplayWithoutContext, TypeOK
    <2>2. ~FindContext(r)
        BY <1>3 DEF ReplayWithoutContext, FindContext
    <2> QED BY <1>b, <1>2, <2>1, <2>2, IdleCall
<1>4. CASE StartOperation(r)
    <2>1. ~FindContext(r)
        BY <1>4 DEF StartOperation, FindContext
    <2>2. /\ begun'[r] = begun[r] /\ operations[Entry(r)] = None
          /\ pc'[r] = "failing" \/ (pc'[r] = "calling" /\ result'[r] = result[r])
        BY <1>4, <1>a DEF StartOperation, TypeOK
    <2>3. CASE pc'[r] = "failing"
        BY <1>b, <1>2, <2>1, <2>2, <2>3, IdleCall
    <2>4. CASE pc'[r] = "calling"
        <3>1. HandlerInv(r)' /\ Entry(r)' = Entry(r)
            BY <1>2, <2>1 DEF IInv, Entry
        <3>2. operations'[Entry(r)] # None
            BY <2>4, <3>1 DEF HandlerInv
        <3> QED
            BY <1>b, <1>2, <2>1, <2>2, <2>4, <3>2, StartCall
    <2> QED BY <2>2, <2>3, <2>4
<1>5. CASE RejectReuse(r)
    <2>1. pc'[r] = "returning" /\ begun'[r] = begun[r]
        BY <1>5, <1>a DEF RejectReuse, TypeOK
    <2>2. ~FindContext(r)
        BY <1>5 DEF RejectReuse, FindContext
    <2> QED BY <1>b, <1>2, <2>1, <2>2, IdleCall
<1>6. CASE LoadOperation(r)
    <2>1. ~FindContext(r)
        BY <1>6 DEF LoadOperation, FindContext
    <2>2. \/ pc'[r] = "returning" /\ begun'[r] = begun[r]
          \/ /\ pc'[r] = "recovering" /\ result'[r] = result[r]
             /\ operations[Entry(r)] # None
             /\ begun'[r].status = operations[Entry(r)].status
        BY <1>6, <1>a DEF LoadOperation, TypeOK
    <2>3. \/ begun'[r] = begun[r] \/ begun'[r].status # "retryable_failed"
          \/ Told(Entry(r))
        BY <1>2, <2>1, <2>2 DEF RetryableTold
    <2> QED BY <1>b, <1>2, <2>1, <2>2, <2>3, IdleCall
<1>7. CASE RecoverStored(r)
    <2>1. ~FindContext(r)
        BY <1>7 DEF RecoverStored, FindContext
    <2>2. pc'[r] \in {"publishing", "failing"} /\ begun'[r] = None
        BY <1>7, <1>a DEF RecoverStored, TypeOK
    <2> QED BY <1>b, <1>2, <2>1, <2>2, IdleCall
<1>8. CASE NothingStored(r)
    <2>1. ~FindContext(r) /\ begun[r] # None
        BY <1>8, <1>a DEF NothingStored, FindContext, HandlerInv
    <2>2. begun'[r] = None
        BY <1>8, <1>a DEF NothingStored, TypeOK
    <2>3. \/ pc'[r] \in {"returning", "failing"}
          \/ /\ pc'[r] = "calling" /\ result'[r] = result[r]
             /\ \/ begun[r].status = "retryable_failed"
                \/ begun[r].status = "pending" /\ Capability(r) # "none"
        BY <1>8, <1>a DEF NothingStored, TypeOK, UnsafeRepeat
    <2>4. CASE pc'[r] \in {"returning", "failing"}
        BY <1>b, <1>2, <2>1, <2>2, <2>4, IdleCall
    <2>5. CASE pc'[r] = "calling"
        <3>1. HandlerInv(r)' /\ Entry(r)' = Entry(r)
            BY <1>2, <2>1 DEF IInv, Entry
        <3>2. operations'[Entry(r)] # None
            BY <2>5, <3>1 DEF HandlerInv
        <3>3. Publication[Entry(r)[1]] # "none" \/ Told(Entry(r))
            BY <2>1, <2>3, <2>5 DEF CallInv, Capability, Entry
        <3> QED
            BY <1>b, <1>2, <2>1, <2>2, <2>3, <2>5, <3>2, <3>3, StartCall
    <2> QED BY <2>3, <2>4, <2>5
<1> QED
    BY <1>1, <1>3, <1>4, <1>5, <1>6, <1>7, <1>8


(* The call itself: an answer, a failure that wrote nothing, or no answer. *)
LEMMA TheCall ==
    ASSUME IInv, IInv', NEW r \in Requests, CallInv(r), Decides,
           GatewayConfirms(r) \/ GatewayRejects(r) \/ GatewayUnknown(r)
    PROVE  Calls(r)
<1> USE DEF Goto, Fail, tables, provider
<1>a. TypeOK /\ TypeOK' /\ HandlerInv(r)
    BY DEF IInv
<1>b. /\ pc[r] = "calling" /\ ~Effective(r) /\ query[r] \in Query /\ result[r] = None
      /\ UNCHANGED <<operations, query, begun>>
    BY <1>a DEF CallInv, EffectInv, HandlerInv, GatewayConfirms, GatewayRejects, GatewayUnknown
<1>c. Entry(r)' = Entry(r) /\ Entry(r) \in Accounts \X Keys /\ Caller(r)
    BY <1>b, EntryType DEF Entry, Caller
<1>d. Told(Entry(r)) => Told(Entry(r))'
    BY <1>c DEF Decides, Told
<1>1. CASE GatewayConfirms(r)
    <2>1. pc'[r] = "saving" /\ result'[r] = result[r]
        BY <1>1, <1>a DEF GatewayConfirms, TypeOK
    <2>2. replies'[r] # None => <<replies'[r].account, replies'[r].key>> = Entry(r)
        BY <1>1, <1>a, <1>b DEF GatewayConfirms, ExternalWrite, TypeOK, Entry, Effective
    <2> QED
        BY <1>b, <1>c, <1>d, <2>1, <2>2 DEF Calls, CallInv, EffectInv
<1>2. CASE GatewayRejects(r)
    <2>1. pc'[r] = "failing" /\ replies' = replies /\ inflight' = inflight
        BY <1>2, <1>a DEF GatewayRejects, TypeOK
    <2> QED
        BY <1>b, <2>1, IdleCall
<1>3. CASE GatewayUnknown(r)
    <2>1. /\ pc'[r] = "failing" /\ replies' = replies
          /\ result'[r] = Failure("INDETERMINATE_PLATFORM_RESULT")
        BY <1>3, <1>a DEF GatewayUnknown, TypeOK
    <2>2. result'[r].code \in IndeterminateCodes
        BY <2>1 DEF Failure, IndeterminateCodes
    <2> QED
        BY <1>b, <1>c, <1>d, <2>1, <2>2 DEF Calls, CallInv, EffectInv, Effective
<1> QED BY <1>1, <1>2, <1>3

(* A step of a handler after its call. *)
LEMMA KnownCall ==
    ASSUME NEW r \in Requests, CallInv(r), Decides, query[r] \in Query, query' = query,
           replies' = replies, inflight' = inflight,
           begun'[r] = None \/ begun'[r] = begun[r],
           pc[r] # "calling", operations[Entry(r)] # None,
           pc'[r] \in {"publishing", "failing", "deleting", "returning", "done", "abandoned"},
           Effective(r) =>
             /\ pc'[r] # "deleting"
             /\ pc'[r] \in {"failing", "returning", "done"} =>
                  result'[r].code \in IndeterminateCodes \cup SuccessKinds
             /\ pc'[r] \in {"returning", "done"} => Decided(Entry(r))'
    PROVE  Calls(r)
<1>1. Entry(r)' = Entry(r) /\ Entry(r) \in Accounts \X Keys
    BY EntryType DEF Entry
<1>2. (Effective(r)' <=> Effective(r)) /\ (Caller(r)' => Caller(r))
    BY DEF Effective, Caller
<1>3. Told(Entry(r)) => Told(Entry(r))'
    BY <1>1 DEF Decides, Told
<1>4. operations'[Entry(r)] # None
    BY <1>1 DEF Decides
<1>5. EffectInv(r)'
    BY <1>1, <1>2 DEF EffectInv, Decided
<1> QED
    BY <1>1, <1>2, <1>3, <1>4, <1>5 DEF Calls, CallInv

LEMMA AfterTheCall ==
    ASSUME IInv, IInv', NEW r \in Requests, CallInv(r), Decides,
           \/ SavePublishedReply(r) \/ MarkPublished(r) \/ MarkFailed(r) \/ MarkDeleted(r)
           \/ ReturnResult(r)
    PROVE  Calls(r)
<1> USE DEF Goto, Respond, Fail, tables, provider
<1>a. TypeOK /\ TypeOK' /\ HandlerInv(r)
    BY DEF IInv
<1>b. /\ pc[r] \in {"saving", "publishing", "failing", "deleting", "returning"}
      /\ UNCHANGED <<replies, inflight, query, begun>>
      /\ query[r] \in Query /\ Entry(r) \in Accounts \X Keys /\ Entry(r)' = Entry(r)
    <2>1. /\ pc[r] \in {"saving", "publishing", "failing", "deleting", "returning"}
          /\ UNCHANGED <<replies, inflight, query, begun>>
        BY DEF SavePublishedReply, MarkPublished, MarkFailed, MarkDeleted, ReturnResult
    <2> QED BY <2>1, <1>a, EntryType DEF HandlerInv, Entry
<1>1. CASE SavePublishedReply(r)
    <2>1. /\ pc[r] = "saving"
          /\ \/ pc'[r] = "publishing"
             \/ pc'[r] = "failing" /\ result'[r] = Failure("IDEMPOTENCY_CONFLICT")
        BY <1>1, <1>a DEF SavePublishedReply, TypeOK
    <2>2. Failure("IDEMPOTENCY_CONFLICT").code \in IndeterminateCodes
        BY DEF Failure, IndeterminateCodes
    <2>3. operations[Entry(r)] # None
        BY <1>a, <2>1 DEF HandlerInv
    <2> QED BY <1>b, <2>1, <2>2, <2>3, KnownCall
<1>2. CASE MarkPublished(r)
    <2>1. /\ pc'[r] = "returning"
          /\ result'[r] \in {result[r], Failure("THROWN")}
          /\ operations[Entry(r)] # None
          /\ result[r].code \in SuccessKinds
        BY <1>2, <1>a DEF MarkPublished, TypeOK, HandlerInv
    <2>2. result'[r] = result[r]
        <3>1. HandlerInv(r)'
            BY DEF IInv
        <3>2. Failure("THROWN").code = "THROWN" /\ Failure("THROWN") # None
            BY OutcomeType DEF LocalCodes
        <3> QED BY <2>1, <3>1, <3>2 DEF HandlerInv
    <2>3. PublishedWith(Entry(r), result[r].comment)'
        <3>1. HandlerInv(r)'
            BY DEF IInv
        <3> QED BY <2>1, <2>2, <3>1, <1>b DEF HandlerInv, PublishedWith
    <2>4. Decided(Entry(r))'
        BY <2>3, <1>b DEF Decided, PublishedWith
    <2> QED BY <1>b, <2>1, <2>2, <2>4, KnownCall, <1>2 DEF MarkPublished
<1>3. CASE MarkFailed(r)
    <2>1. /\ pc'[r] \in {"deleting", "returning"} /\ result'[r] = result[r]
          /\ pc'[r] = "deleting" => result[r].code = "PLATFORM_RESOURCE_NOT_FOUND"
          /\ operations[Entry(r)] # None
        BY <1>3, <1>a, MarkFailedWrites DEF TypeOK
    <2>a. pc[r] = "failing"
        BY <1>3 DEF MarkFailed
    <2>2. ASSUME Effective(r)
          PROVE  /\ result[r].code \in IndeterminateCodes
                 /\ pc'[r] # "deleting" /\ Decided(Entry(r))'
        <3>1. result[r].code \in IndeterminateCodes
            BY <2>a, <2>2, <1>3, MarkFailedWrites, CodesApart DEF CallInv, EffectInv
        <3>2. pc'[r] # "deleting"
            BY <2>1, <3>1 DEF IndeterminateCodes
        <3>3. StatusOf(result[r].code) = "indeterminate"
            BY <3>1 DEF StatusOf, IndeterminateCodes, RetryableCodes, TerminalCodes
        <3>4. operations[Entry(r)].status \in Statuses
            BY <1>3, MarkFailedWrites DEF Operation
        <3>5. \/ Replaceable(operations[Entry(r)].status, StatusOf(result[r].code))
              \/ Decided(Entry(r)) /\ operations' = operations
            BY <1>3, MarkFailedWrites, <3>3, <3>4, <2>1 DEF Replaceable, Statuses, Decided
        <3>6. Decided(Entry(r))'
            BY <1>3, MarkFailedWrites, <3>3, <3>5, <1>b DEF Decided
        <3> QED BY <3>1, <3>2, <3>6
    <2> QED BY <1>b, <2>1, <2>2, <2>a, KnownCall
<1>4. CASE MarkDeleted(r)
    <2>1. /\ pc[r] = "deleting" /\ pc'[r] = "returning"
        BY <1>4, <1>a DEF MarkDeleted, TypeOK
    <2>2. ~Effective(r)
        BY <2>1 DEF CallInv, EffectInv
    <2> QED BY <1>b, <2>1, <2>2, IdleCall
<1>5. CASE ReturnResult(r)
    <2>1. /\ pc[r] = "returning" /\ pc'[r] = "done" /\ UNCHANGED <<operations, result>>
        BY <1>5, <1>a DEF ReturnResult, TypeOK
    <2>2. CASE Effective(r)
        BY <1>b, <2>1, <2>2, KnownCall DEF CallInv, EffectInv, Decided
    <2>3. CASE ~Effective(r)
        BY <1>b, <2>1, <2>3, IdleCall
    <2> QED BY <2>2, <2>3
<1> QED BY <1>1, <1>2, <1>3, <1>4, <1>5

(* The handler dies, or its call takes effect although nobody waits for it. *)
LEMMA BesideTheHandler ==
    ASSUME IInv, IInv', NEW r \in Requests, CallInv(r), Decides,
           Abandon(r) \/ TakeEffect(r)
    PROVE  Calls(r)
<1> USE DEF Goto, tables
<1>a. TypeOK /\ TypeOK' /\ HandlerInv(r)
    BY DEF IInv
<1>b. /\ UNCHANGED <<operations, query, result>> /\ pc[r] # "idle"
      /\ query[r] \in Query /\ Entry(r) \in Accounts \X Keys /\ Entry(r)' = Entry(r)
    <2>1. UNCHANGED <<operations, query, result>> /\ pc[r] # "idle"
        BY <1>a DEF Abandon, TakeEffect, HandlerInv
    <2> QED BY <2>1, <1>a, EntryType DEF HandlerInv, Entry
<1>d. Told(Entry(r)) => Told(Entry(r))'
    BY <1>b DEF Decides, Told
<1>1. CASE Abandon(r)
    <2>1. /\ pc'[r] = "abandoned" /\ begun'[r] = None /\ replies' = replies
          /\ Effective(r)' => Caller(r)
        BY <1>1, <1>a DEF Abandon, TypeOK, Effective, Caller
    <2> QED
        BY <1>b, <2>1 DEF Calls, CallInv, EffectInv, Caller
<1>2. CASE TakeEffect(r)
    <2>1. /\ Effective(r) /\ pc' = pc /\ begun' = begun
          /\ replies'[r] # None => <<replies'[r].account, replies'[r].key>> = Entry(r)
        BY <1>2, <1>a DEF TakeEffect, ExternalWrite, TypeOK, Entry, Effective, CallInv
    <2>2. EffectInv(r)'
        BY <1>b, <2>1 DEF CallInv, EffectInv, Decided
    <2> QED
        BY <1>b, <1>d, <2>1, <2>2 DEF Calls, CallInv, Caller
<1> QED BY <1>1, <1>2

LEMMA OwnStep ==
    ASSUME IInv, IInv', NEW r \in Requests, CallInv(r), RetryableTold, Decides, Moves(r)
    PROVE  Calls(r)
BY BeforeTheCall, TheCall, AfterTheCall, BesideTheHandler DEF Moves, Handler, Begin, Gateway


-----------------------------------------------------------------------------
(* A step of one handler, or of its call. *)
LEMMA HandlerCalls ==
    ASSUME IInv, IInv', CallsInv, NEW r \in Requests, Moves(r)
    PROVE  CallsInv'
<1>1. Decides /\ RetryableTold'
    BY DecidesStep DEF CallsInv
<1>2. Calls(r)
    BY <1>1, OwnStep DEF CallsInv
<1>3. \A s \in Requests \ {r} : Still(s)
    BY OthersStill DEF IInv
<1>4. \A s \in Requests \ {r} : CallInv(s)' /\ (Caller(s)' => Caller(s))
    BY <1>1, <1>3, CallFrame DEF CallsInv, IInv
<1>5. \A s \in Requests : CallInv(s)'
    BY <1>2, <1>4 DEF Calls
<1>6. \A s \in Requests : Caller(s)' =>
         /\ query'[s] = query[s] /\ Entry(s)' = Entry(s)
         /\ Entry(s) \in Accounts \X Keys
    <2> SUFFICES ASSUME NEW s \in Requests, Caller(s)'
                 PROVE  /\ query'[s] = query[s] /\ Entry(s)' = Entry(s)
                        /\ Entry(s) \in Accounts \X Keys
        OBVIOUS
    <2>1. query'[s] = query[s]
        BY <1>2, <1>3 DEF Calls, Still
    <2>2. query'[s] \in Query
        BY <1>5 DEF CallInv
    <2> QED BY <2>1, <2>2, EntryType DEF Entry
<1>7. OneCaller'
    <2> SUFFICES ASSUME NEW s \in Requests, NEW t \in Requests,
                        Caller(s)', Caller(t)', Entry(s)' = Entry(t)',
                        Publication[Entry(s)'[1]] = "none", ~Told(Entry(s))'
                 PROVE  s = t
        BY DEF OneCaller
    <2>1. /\ Entry(s)' = Entry(s) /\ Entry(t) = Entry(s)
          /\ Entry(s) \in Accounts \X Keys /\ ~Told(Entry(s))
        BY <1>1, <1>6 DEF Decides, Told
    <2>2. CASE s # r /\ t # r
        BY <1>4, <2>1, <2>2 DEF CallsInv, OneCaller
    <2>3. ASSUME NEW u \in Requests \ {r}, Caller(u), Entry(u) = Entry(s), Caller(r)',
                 Entry(r) = Entry(s)
          PROVE  FALSE
        <3>1. operations[Entry(u)] # None
            BY <2>3 DEF CallsInv, CallInv
        <3>2. Caller(r)
            BY <1>2, <2>1, <2>3, <3>1 DEF Calls
        <3> QED
            BY <2>1, <2>3, <3>2 DEF CallsInv, OneCaller
    <2>4. CASE s = r /\ t # r
        BY <1>4, <2>1, <2>3, <2>4
    <2>5. CASE s # r /\ t = r
        BY <1>4, <2>1, <2>3, <2>5
    <2> QED BY <2>2, <2>4, <2>5
<1> QED BY <1>1, <1>5, <1>7 DEF CallsInv

(* A step that leaves the handlers and the operations alone. *)
LEMMA WorldCalls ==
    ASSUME IInv, CallsInv, operations' = operations, \A s \in Requests : Still(s)
    PROVE  CallsInv'
<1>1. \A s \in Requests : query'[s] = query[s] /\ result'[s] = result[s]
    BY DEF Still
<1>2. Decides
    BY <1>1 DEF Decides, Decided, Told, Entry
<1>3. \A s \in Requests : CallInv(s)' /\ (Caller(s)' => Caller(s))
    BY <1>2, CallFrame DEF CallsInv, IInv
<1>4. RetryableTold'
    BY <1>2 DEF CallsInv, RetryableTold, Decides
<1>5. \A s \in Requests : Entry(s)' = Entry(s)
    BY <1>1 DEF Entry
<1>6. OneCaller'
    <2> SUFFICES ASSUME NEW s \in Requests, NEW t \in Requests,
                        Caller(s)', Caller(t)', Entry(s)' = Entry(t)',
                        Publication[Entry(s)'[1]] = "none", ~Told(Entry(s))'
                 PROVE  s = t
        BY DEF OneCaller
    <2>1. Caller(s) /\ Caller(t) /\ Entry(s) = Entry(t) /\ Publication[Entry(s)[1]] = "none"
        BY <1>3, <1>5
    <2>2. Entry(s) \in Accounts \X Keys
        BY <2>1, EntryType DEF CallsInv, CallInv
    <2>3. ~Told(Entry(s))
        BY <1>2, <1>5, <2>2 DEF Decides, Told
    <2> QED BY <2>1, <2>3 DEF CallsInv, OneCaller
<1> QED BY <1>3, <1>4, <1>6 DEF CallsInv

LEMMA CallsStep == IInv /\ IInv' /\ CallsInv /\ [Next]_vars => CallsInv'
<1> SUFFICES ASSUME IInv, IInv', CallsInv, [Next]_vars PROVE CallsInv'
    OBVIOUS
<1>0. TypeOK
    BY DEF IInv
<1>1. ASSUME NEW r \in Requests, Moves(r) PROVE CallsInv'
    BY <1>1, HandlerCalls
<1>2. ASSUME NEW r \in Requests, Import(r) PROVE CallsInv'
    BY <1>2, WorldCalls DEF Import, Still, provider
<1>3. ASSUME NEW x \in Requests, NEW c \in Contents, EditReply(x, c) PROVE CallsInv'
    <2>1. replies[x] \in Reply /\ replies[x] # None
        BY <1>0, <1>3 DEF EditReply, TypeOK
    <2> DEFINE edited == [replies[x] EXCEPT !.content = c]
    <2>2. /\ edited \in Reply /\ edited # None
          /\ edited.account = replies[x].account /\ edited.key = replies[x].key
        BY <2>1, NoneAssumption DEF Reply
    <2>3. replies' = [replies EXCEPT ![x] = edited]
        BY <1>3 DEF EditReply
    <2> HIDE DEF edited
    <2>4. \A s \in Requests : Still(s)
        BY <1>0, <1>3, <2>1, <2>2, <2>3 DEF EditReply, Still, TypeOK
    <2> QED BY <1>3, <2>4, WorldCalls DEF EditReply, tables
<1>4. ASSUME NEW p \in Parents, ObserveParent(p) PROVE CallsInv'
    BY <1>4, WorldCalls DEF ObserveParent, Still, provider
<1>5. CASE UNCHANGED vars
    BY <1>5, WorldCalls DEF vars, Still
<1> QED
    BY <1>1, <1>2, <1>3, <1>4, <1>5 DEF Next, Quiescent, Moves

LEMMA CallsInit == Init => CallsInv
BY DEF Init, CallsInv, CallInv, EffectInv, Effective, Caller, RetryableTold, OneCaller

(* The invariant of the calls holds in every reachable state. *)
THEOREM CallsInvariance == Spec => []CallsInv
BY CallsInit, CallsStep, Invariance, PTL DEF Spec

(* What a request wrote is filed under its own entry. *)
LEMMA WritesAreCallers ==
    ASSUME CallsInv, NEW e, NEW x \in Writes(e)
    PROVE  /\ x \in Requests /\ Effective(x) /\ Entry(x) = e
           /\ query[x] \in Query
BY DEF Writes, CallsInv, CallInv, Effective, Caller

(* The reply of an operation that reads as failed is known to a handler that is
   still to record it, or was known to one that died: whatever the order in which
   handlers, late effects and failures of one key are recorded. *)
THEOREM HiddenHolds == Spec => []ReplyHiddenOnlyByCrash
<1>1. IInv /\ CallsInv => ReplyHiddenOnlyByCrash
    <2> SUFFICES ASSUME IInv, CallsInv, NEW e \in Accounts \X Keys, operations[e] # None,
                        operations[e].status \in {"failed", "retryable_failed"},
                        NEW x \in Writes(e)
                 PROVE  /\ x \in Requests /\ EntryOf(x) = e
                        /\ pc[x] \in {"saving", "publishing", "failing", "abandoned"}
        BY DEF ReplyHiddenOnlyByCrash
    <2>1. x \in Requests /\ Effective(x) /\ Entry(x) = e /\ query[x] \in Query
        BY WritesAreCallers
    <2>2. EntryOf(x) = e
        BY <2>1, NoneAssumption DEF EntryOf
    <2>3. ~Decided(e)
        BY DEF Decided
    <2> QED
        BY <2>1, <2>2, <2>3 DEF CallsInv, CallInv, EffectInv
<1> QED
    BY <1>1, Invariance, CallsInvariance, PTL

(* A provider without idempotency has two replies of one key only if it answered
   a request of that key that a retry is safe: no crash, no live call and no
   failure that another handler recorded makes the use case repeat a call. *)
THEOREM NoBlindRepeatHolds == Spec => []NoBlindRepeat
<1>1. CallsInv => NoBlindRepeat
    <2> SUFFICES ASSUME CallsInv, NEW e \in Accounts \X Keys, Publication[e[1]] = "none",
                        Cardinality(Writes(e)) > 1
                 PROVE  \E r \in Requests : /\ EntryOf(r) = e /\ result[r] # None
                                            /\ result[r].code \in RetryableCodes
        BY DEF NoBlindRepeat
    <2>1. CASE Told(e)
        BY <2>1, NoneAssumption DEF Told, EntryOf
    <2>2. CASE ~Told(e)
        <3>1. \A x, y \in Writes(e) : x = y
            <4> TAKE x, y \in Writes(e)
            <4>1. /\ x \in Requests /\ Caller(x) /\ Entry(x) = e
                  /\ y \in Requests /\ Caller(y) /\ Entry(y) = e
                BY WritesAreCallers DEF Caller
            <4> QED
                BY <2>2, <4>1 DEF CallsInv, OneCaller
        <3>2. Writes(e) = {} \/ \E x : Writes(e) = {x}
            BY <3>1
        <3>3. Cardinality(Writes(e)) \in {0, 1}
            BY <3>2, FS_EmptySet, FS_Singleton
        <3> QED BY <3>3
    <2> QED BY <2>1, <2>2
<1> QED
    BY <1>1, CallsInvariance, PTL

-----------------------------------------------------------------------------
(* What the response to POST /comments tells.  The router's behaviours are
   behaviours of the use case, so that what is known about the calls holds
   behind the router, too. *)

(* A definite answer is the refusal of a request that never started, or the
   outcome of one that is done. *)
AnswerInv(r) ==
    response[r] \in Definite =>
        \/ pc[r] = "idle"
        \/ pc[r] = "done" /\ response[r] = HttpStatus(result[r].code)

HttpInv ==
    /\ response \in [Requests -> (200..599) \cup {None}]
    /\ \A r \in Requests : AnswerInv(r)

-----------------------------------------------------------------------------
(* Every step of the router is one of the use case, or none. *)
LEMMA StepIsNext == [HttpNext]_httpVars => [Next]_vars
<1> SUFFICES ASSUME [HttpNext]_httpVars PROVE [Next]_vars
    OBVIOUS
<1>1. ASSUME NEW r \in Requests,
             \/ Refuse(r) \/ Receive(r) \/ Await(r) \/ SendResult(r) \/ Stop(r)
             \/ AnswerError(r)
      PROVE  [Next]_vars
    BY <1>1 DEF Refuse, Receive, Await, SendResult, Stop, AnswerError, Next, Handler
<1>2. CASE Elsewhere
    BY <1>2 DEF Elsewhere, Next
<1>3. CASE UNCHANGED httpVars
    BY <1>3 DEF httpVars
<1> QED BY <1>1, <1>2, <1>3 DEF HttpNext

(* The use case keeps its specification behind the router. *)
THEOREM HttpIsReply == HttpSpec => Spec
<1>1. HttpInit => Init
    BY DEF HttpInit
<1> QED
    BY <1>1, StepIsNext, PTL DEF HttpSpec, Spec

(* Every outcome has a status. *)
LEMMA StatusType ==
    /\ \A code \in FailureCodes \cup LocalCodes \cup SuccessKinds :
         HttpStatus(code) \in 200..599
    /\ \A code \in IndeterminateCodes \cup SuccessKinds : HttpStatus(code) \notin Definite
BY DEF FailureCodes, LocalCodes, SuccessKinds, RetryableCodes, TerminalCodes,
       IndeterminateCodes, HttpStatus, Definite

(* A request whose handler is idle or done, and that was not answered before,
   is the only one whose response changes. *)
LEMMA HttpStep == IInv /\ HttpInv /\ [HttpNext]_httpVars => HttpInv'
<1> SUFFICES ASSUME IInv, HttpInv, [HttpNext]_httpVars PROVE HttpInv'
    OBVIOUS
<1>a. TypeOK /\ response \in [Requests -> (200..599) \cup {None}]
    BY DEF IInv, HttpInv
<1>b. None \notin Definite /\ Refusals \subseteq 200..599
    BY StatusAssumption DEF Definite, Refusals
<1>c. ASSUME NEW s \in Requests, pc'[s] = pc[s], result'[s] = result[s],
             response'[s] = response[s]
      PROVE  AnswerInv(s)'
    BY <1>c DEF HttpInv, AnswerInv
<1>1. ASSUME NEW r \in Requests, Refuse(r) PROVE HttpInv'
    BY <1>1, <1>a, <1>b DEF Refuse, Send, HttpInv, AnswerInv, vars
<1>2. ASSUME NEW r \in Requests, Receive(r) \/ Await(r) \/ Stop(r) PROVE HttpInv'
    <2>1. response' = response
        BY <1>2 DEF Receive, Await, Stop
    <2>2. Moves(r) /\ \A s \in Requests \ {r} : pc'[s] = pc[s] /\ result'[s] = result[s]
        BY <1>2, <1>a, OthersStill DEF Receive, Await, Stop, Moves, Still
    <2>3. response[r] \notin Definite
        <3>1. CASE Receive(r)
            BY <3>1, <1>b DEF Receive
        <3>2. CASE Await(r) \/ Stop(r)
            <4>1. pc[r] \notin {"idle", "done"}
                BY <3>2 DEF Await, Stop, Abandon, Handler, Begin, Gateway,
                   ReplayWithoutContext, StartOperation, RejectReuse, LoadOperation,
                   RecoverStored, NothingStored, GatewayConfirms, GatewayRejects,
                   GatewayUnknown, SavePublishedReply, MarkPublished, MarkFailed, MarkDeleted,
                   ReturnResult
            <4> QED BY <4>1 DEF HttpInv, AnswerInv
        <3> QED BY <1>2, <3>1, <3>2
    <2>4. AnswerInv(r)'
        BY <2>1, <2>3 DEF AnswerInv
    <2> QED
        BY <1>a, <1>c, <2>1, <2>2, <2>4 DEF HttpInv
<1>3. ASSUME NEW r \in Requests, SendResult(r) PROVE HttpInv'
    <2>1. /\ pc[r] = "returning" /\ pc' = [pc EXCEPT ![r] = "done"] /\ result' = result
          /\ response' = [response EXCEPT ![r] = HttpStatus(result[r].code)]
        BY <1>3 DEF SendResult, Send, ReturnResult, Goto
    <2>2. result[r] \in Outcome
        BY <1>a, <2>1 DEF IInv, HandlerInv, TypeOK
    <2>3. HttpStatus(result[r].code) \in 200..599
        BY <2>2, StatusType DEF Outcome
    <2> QED
        BY <1>a, <1>c, <2>1, <2>3 DEF HttpInv, AnswerInv, TypeOK
<1>4. ASSUME NEW r \in Requests, AnswerError(r) PROVE HttpInv'
    BY <1>4, <1>a, <1>c DEF AnswerError, Send, HttpInv, AnswerInv, vars, Definite
<1>5. CASE Elsewhere
    <2>1. /\ response' = response /\ pc' = pc /\ result' = result
        BY <1>5 DEF Elsewhere, TakeEffect, Import, EditReply, ObserveParent
    <2> QED BY <1>a, <1>c, <2>1 DEF HttpInv
<1>6. CASE UNCHANGED httpVars
    BY <1>6, <1>a, <1>c DEF HttpInv, httpVars, vars
<1> QED
    BY <1>1, <1>2, <1>3, <1>4, <1>5, <1>6 DEF HttpNext

LEMMA HttpInvInit == HttpInit => HttpInv
BY StatusAssumption DEF HttpInit, HttpInv, AnswerInv, Definite

THEOREM HttpInvariance == HttpSpec => []HttpInv
BY HttpInvInit, HttpStep, HttpIsReply, Invariance, PTL DEF HttpSpec

(* Every request is answered with a status, or not yet, and the use case keeps
   its types behind the router. *)
THEOREM HttpTypeCorrect == HttpSpec => []HttpTypeOK
<1>1. IInv /\ HttpInv => HttpTypeOK
    BY DEF IInv, HttpInv, HttpTypeOK
<1> QED
    BY <1>1, HttpIsReply, Invariance, HttpInvariance, PTL

(* A status that says that nothing was published is true, and stays true: no
   call of that request has had an effect, and none can have one later. *)
THEOREM DoubtHolds == HttpSpec => []DoubtIsTold
<1>1. IInv /\ CallsInv /\ HttpInv => DoubtIsTold
    <2> SUFFICES ASSUME IInv, CallsInv, HttpInv, NEW r \in Requests,
                        response[r] \in Definite
                 PROVE  ~Effective(r)
        BY DEF DoubtIsTold, Effective
    <2>1. EffectInv(r) /\ AnswerInv(r)
        BY DEF CallsInv, CallInv, HttpInv
    <2>2. CASE pc[r] = "idle"
        BY <2>1, <2>2 DEF EffectInv
    <2>3. CASE pc[r] = "done" /\ response[r] = HttpStatus(result[r].code)
        BY <2>1, <2>3, StatusType DEF EffectInv
    <2> QED BY <2>1, <2>2, <2>3 DEF AnswerInv
<1> QED
    BY <1>1, HttpIsReply, Invariance, CallsInvariance, HttpInvariance, PTL

-----------------------------------------------------------------------------
(* What becomes of the calls handlers make at the database.  They are those of
   AtomicStore, if clients spell a parent as PostgreSQL returns it: the store
   takes the claim of an operation as it was inserted, and begin compares a
   parent with the stored one in ===. *)

(* What an operation claims is what its fingerprint was taken of. *)
ClaimsInv ==
    \A e \in Accounts \X Keys : operations[e] # None =>
        /\ operations[e].fingerprint[1] = operations[e].parent
        /\ operations[e].fingerprint[2] = "canonical"

(* Four actions of a handler write the tables, and retrieval. *)
LEMMA TableWriters ==
    ASSUME [Next]_vars
    PROVE  /\ \/ operations' = operations
              \/ \E r \in Requests : StartOperation(r) \/ MarkPublished(r) \/ MarkFailed(r)
           /\ \/ comments' = comments
              \/ \E r \in Requests : SavePublishedReply(r) \/ Import(r)
<1> USE DEF tables, provider
<1>1. ASSUME NEW r \in Requests, FindContext(r) \/ Handler(r) \/ Abandon(r) \/ TakeEffect(r)
      PROVE  /\ \/ operations' = operations
                \/ StartOperation(r) \/ MarkPublished(r) \/ MarkFailed(r)
             /\ comments' = comments \/ SavePublishedReply(r)
    BY <1>1 DEF FindContext, Handler, Begin, Gateway, ReplayWithoutContext, StartOperation,
       RejectReuse, LoadOperation, RecoverStored, NothingStored, GatewayConfirms,
       GatewayRejects, GatewayUnknown, SavePublishedReply, MarkPublished, MarkFailed,
       MarkDeleted, ReturnResult, Abandon, TakeEffect
<1>2. ASSUME NEW r \in Requests, Import(r) PROVE operations' = operations
    BY <1>2 DEF Import
<1>3. ASSUME NEW x \in Requests, NEW c \in Contents, EditReply(x, c)
      PROVE  UNCHANGED <<operations, comments>>
    BY <1>3 DEF EditReply
<1>4. ASSUME NEW p \in Parents, ObserveParent(p) PROVE UNCHANGED <<operations, comments>>
    BY <1>4 DEF ObserveParent
<1>5. CASE UNCHANGED vars
    BY <1>5 DEF vars
<1> QED BY <1>1, <1>2, <1>3, <1>4, <1>5 DEF Next, Quiescent

(* Only a new operation has a claim, which is what its request asked for. *)
LEMMA ClaimsStep ==
    ASSUME Spellings = {"canonical"}, IInv, ClaimsInv, [Next]_vars
    PROVE  ClaimsInv'
<1> USE DEF ClaimsInv, tables, provider
<1>0. TypeOK
    BY DEF IInv
<1>1. ASSUME NEW r \in Requests, StartOperation(r) PROVE ClaimsInv'
    <2>1. query[r] \in Query /\ Entry(r) \in Accounts \X Keys
        BY <1>1, EntryType DEF StartOperation, IInv, HandlerInv
    <2> DEFINE op == [status |-> "pending", parent |-> query[r].parent,
                      fingerprint |-> Fingerprint(query[r]), comment |-> None, code |-> None]
    <2>2. op.fingerprint[1] = op.parent /\ op.fingerprint[2] = "canonical"
        BY <2>1 DEF Fingerprint, Query
    <2>3. operations' = [operations EXCEPT ![Entry(r)] = op]
        BY <1>1 DEF StartOperation
    <2> HIDE DEF op
    <2> QED BY <1>0, <2>1, <2>2, <2>3 DEF TypeOK
<1>2. ASSUME NEW r \in Requests, MarkPublished(r) \/ MarkFailed(r) PROVE ClaimsInv'
    <2>1. query[r] \in Query /\ Entry(r) \in Accounts \X Keys /\ operations[Entry(r)] # None
        BY <1>2, EntryType DEF MarkPublished, MarkFailed, IInv, HandlerInv
    <2>2. operations[Entry(r)] \in Operation
        BY <1>0, <2>1 DEF TypeOK
    <2> DEFINE op == operations[Entry(r)]
    <2>3. PICK status, comment, code :
            \/ operations' = operations
            \/ operations' = [operations EXCEPT ![Entry(r)] = Recorded(op, status, comment, code)]
        <3>1. CASE MarkPublished(r)
            <4>1. \/ operations' = operations
                  \/ operations' = [operations EXCEPT ![Entry(r)] =
                       Recorded(op, "published", result[r].comment, None)]
                BY <3>1 DEF MarkPublished, Recorded
            <4> QED BY <4>1
        <3>2. CASE MarkFailed(r)
            <4>1. \/ operations' = operations
                  \/ operations' = [operations EXCEPT ![Entry(r)] =
                       Recorded(op, StatusOf(result[r].code), None, result[r].code)]
                BY <3>2 DEF MarkFailed, Recorded
            <4> QED BY <4>1
        <3> QED BY <1>2, <3>1, <3>2
    <2>4. Recorded(op, status, comment, code).fingerprint = op.fingerprint
        BY <2>2 DEF Operation, Recorded
    <2>5. Recorded(op, status, comment, code).parent = op.parent
        BY <2>2 DEF Operation, Recorded
    <2> HIDE DEF op
    <2>6. op = operations[Entry(r)]
        BY DEF op
    <2>7. operations'[Entry(r)] = op \/ operations'[Entry(r)] = Recorded(op, status, comment, code)
        BY <1>0, <2>1, <2>3, <2>6 DEF TypeOK
    <2>8. \A e \in Accounts \X Keys : e # Entry(r) => operations'[e] = operations[e]
        BY <1>0, <2>1, <2>3 DEF TypeOK
    <2> QED BY <2>1, <2>4, <2>5, <2>6, <2>7, <2>8
<1>3. CASE operations' = operations
    BY <1>3
<1> QED
    BY <1>1, <1>2, <1>3, TableWriters

-----------------------------------------------------------------------------
(* The tables as the store sees them *)

(* A step that writes neither table is none of the store. *)
LEMMA ViewKept ==
    ASSUME UNCHANGED <<operations, comments>>
    PROVE  UNCHANGED <<ledgerBar, rowsBar>>
BY DEF ledgerBar, rowsBar

(* Each table is seen through its own rows only. *)
LEMMA ViewsApart ==
    /\ operations' = operations => ledgerBar' = ledgerBar
    /\ comments' = comments => rowsBar' = rowsBar
BY DEF ledgerBar, rowsBar

(* A stored reply is a row of the store, not null. *)
LEMMA RowIsNotNull ==
    ASSUME TypeOK, NEW id \in CommentIds
    PROVE  /\ rowsBar[id] = RowOf(comments[id])
           /\ comments[id] # None =>
                /\ rowsBar[id] # None
                /\ rowsBar[id] = [key |-> comments[id].key, content |-> comments[id].content,
                                  state |-> "active", version |-> 1]
           /\ comments[id] = None => rowsBar[id] = None
<1>1. rowsBar[id] = RowOf(comments[id])
    BY DEF rowsBar
<1>2. ASSUME comments[id] # None PROVE RowOf(comments[id]) \in Store!Row
    <2>1. comments[id] \in Row
        BY <1>2 DEF TypeOK
    <2> QED BY <1>2, <2>1 DEF RowOf, Row, Store!Row
<1> QED BY <1>1, <1>2, StoredRowAssumption DEF RowOf

(* Writing one reply row is writing one row of the store. *)
LEMMA RowsUpdate ==
    ASSUME TypeOK, NEW id \in CommentIds, NEW row,
           comments' = [comments EXCEPT ![id] = row]
    PROVE  rowsBar' = [rowsBar EXCEPT ![id] = RowOf(row)] /\ comments'[id] = row
BY DEF TypeOK, rowsBar

(* A stored reply keeps its key in the store's view. *)
LEMMA SameRow ==
    ASSUME TypeOK, NEW id \in CommentIds
    PROVE  /\ rowsBar[id] # None <=> comments[id] # None
           /\ comments[id] # None => rowsBar[id].key = comments[id].key
<1>1. rowsBar[id] # None <=> comments[id] # None
    BY RowIsNotNull
<1>2. ASSUME comments[id] # None PROVE rowsBar[id].key = comments[id].key
    <2>1. rowsBar[id] = [key |-> comments[id].key, content |-> comments[id].content,
                         state |-> "active", version |-> 1]
        BY <1>2, RowIsNotNull
    <2> QED BY <2>1
<1> QED BY <1>1, <1>2

(* Both models mean the same rows by the key of an account. *)
LEMMA SameClaimed ==
    ASSUME TypeOK, NEW e \in Accounts \X Keys
    PROVE  Store!StoredUnder(e) = StoredUnder(e[1], e[2])
BY SameRow DEF Store!StoredUnder, StoredUnder

-----------------------------------------------------------------------------
(* What a handler does at an await is what the call it awaits does *)

(* An operation as begin and findExisting show it. *)
LEMMA SameShown ==
    ASSUME NEW e \in Accounts \X Keys, TypeOK, operations[e] # None
    PROVE  /\ ledgerBar[e] = [status |-> operations[e].status,
                              claim |-> operations[e].fingerprint,
                              comment |-> operations[e].comment]
           /\ ledgerBar[e].status = operations[e].status
           /\ ledgerBar[e].claim = operations[e].fingerprint
           /\ ledgerBar[e].comment = operations[e].comment
           /\ ledgerBar[e] # None
           /\ ShownWith(operations[e]) = Store!ShownIf(ledgerBar[e].comment)
<1>1. ledgerBar[e] = [status |-> operations[e].status, claim |-> operations[e].fingerprint,
                      comment |-> operations[e].comment]
    BY DEF ledgerBar, LedgerEntry
<1>2. ledgerBar[e] # None
    BY LedgerEntryIsNotNull DEF ledgerBar, TypeOK
<1>3. ledgerBar[e].status = operations[e].status /\ ledgerBar[e].claim = operations[e].fingerprint
      /\ ledgerBar[e].comment = operations[e].comment
    BY <1>1
<1> QED BY <1>1, <1>2, <1>3 DEF ShownWith, Store!ShownIf, Store!Shown

(* No operation is no row of the store, either. *)
LEMMA NoEntryShown ==
    ASSUME NEW e \in Accounts \X Keys, operations[e] = None
    PROVE  ledgerBar[e] = None
BY DEF ledgerBar, LedgerEntry

(* begin: the claim that is compared is the parent and the fingerprint, of which
   the fingerprint alone decides because it was taken of the parent. *)
LEMMA BeginPerformed ==
    ASSUME Spellings = {"canonical"}, IInv, ClaimsInv, NEW r \in Requests,
           \/ StartOperation(r) /\ Hears(r, "started", None, <<>>)
           \/ RejectReuse(r) /\ Hears(r, "conflict", None, <<>>)
           \/ LoadOperation(r) /\ HearsExisting(r)
    PROVE  Performed(r)
<1>1. pc[r] = "context" /\ TypeOK /\ query[r] \in Query /\ Entry(r) \in Accounts \X Keys
    BY EntryType DEF StartOperation, RejectReuse, LoadOperation, IInv, HandlerInv
<1>2. awaitedBar[r].entry = Entry(r) /\ awaitedBar[r].claim = Fingerprint(query[r])
    BY <1>1 DEF awaitedBar, Awaited
<1>3. CASE StartOperation(r) /\ Hears(r, "started", None, <<>>)
    <2> DEFINE op == [status |-> "pending", parent |-> query[r].parent,
                      fingerprint |-> Fingerprint(query[r]), comment |-> None, code |-> None]
    <2>1. op \in Operation
        BY <1>1 DEF Operation, Query, Statuses, Fingerprint, Fingerprints
    <2>2. /\ op # None
          /\ LedgerEntry(op) =
               [status |-> "pending", claim |-> Fingerprint(query[r]), comment |-> None]
        BY <2>1, NoneAssumption DEF LedgerEntry
    <2>3. operations' = [operations EXCEPT ![Entry(r)] = op] /\ operations[Entry(r)] = None
          /\ comments' = comments
        BY <1>3 DEF StartOperation
    <2> HIDE DEF op
    <2>4. ledgerBar' = [ledgerBar EXCEPT ![Entry(r)] = LedgerEntry(op)] /\ ledgerBar[Entry(r)] = None
        BY <1>1, <2>3, LedgerUpdate, NoEntryShown
    <2>5. rowsBar' = rowsBar
        BY <2>3, ViewsApart
    <2> QED
        BY <1>1, <1>2, <1>3, <2>2, <2>4, <2>5
           DEF Performed, Store!Begin, Store!Answered, Store!Reply, Hears
<1>4. CASE RejectReuse(r) /\ Hears(r, "conflict", None, <<>>)
    <2>1. operations' = operations /\ comments' = comments
        BY <1>4 DEF RejectReuse, tables
    <2>2. operations[Entry(r)] # None /\ ~MatchesOperation(operations[Entry(r)], query[r])
        BY <1>4 DEF RejectReuse
    <2>3. operations[Entry(r)].fingerprint # Fingerprint(query[r])
        BY <1>1, <2>2 DEF ClaimsInv, MatchesOperation, SameParent, Fingerprint, Query
    <2>4. ledgerBar[Entry(r)] # None /\ ledgerBar[Entry(r)].claim # Fingerprint(query[r])
        BY <1>1, <2>2, <2>3, SameShown
    <2>5. ledgerBar' = ledgerBar /\ rowsBar' = rowsBar
        BY <2>1, ViewsApart
    <2> QED
        BY <1>1, <1>2, <1>4, <2>4, <2>5
           DEF Performed, Store!Begin, Store!Answered, Store!Reply, Hears
<1>5. CASE LoadOperation(r) /\ HearsExisting(r)
    <2>1. operations' = operations /\ comments' = comments
        BY <1>5 DEF LoadOperation, tables
    <2>2. operations[Entry(r)] # None
          /\ operations[Entry(r)].fingerprint = Fingerprint(query[r])
        BY <1>5 DEF LoadOperation, MatchesOperation
    <2>3. /\ ledgerBar[Entry(r)] # None /\ ledgerBar[Entry(r)].claim = Fingerprint(query[r])
          /\ ShownWith(operations[Entry(r)]) = Store!ShownIf(ledgerBar[Entry(r)].comment)
        BY <1>1, <2>2, SameShown
    <2>4. ledgerBar' = ledgerBar /\ rowsBar' = rowsBar
        BY <2>1, ViewsApart
    <2> QED
        BY <1>1, <1>2, <1>5, <2>3, <2>4
           DEF Performed, Store!Begin, Store!Answered, Store!Reply, HearsExisting, Hears
<1> QED BY <1>3, <1>4, <1>5

(* findExisting, when there is no active parent. *)
LEMMA FindPerformed ==
    ASSUME IInv, NEW r \in Requests, ReplayWithoutContext(r),
           IF operations[Entry(r)] = None THEN Hears(r, "missing", None, <<>>)
                                          ELSE HearsExisting(r)
    PROVE  Performed(r)
<1>1. pc[r] = "inactive" /\ TypeOK /\ query[r] \in Query /\ Entry(r) \in Accounts \X Keys
    BY EntryType DEF ReplayWithoutContext, IInv, HandlerInv
<1>2. awaitedBar[r].entry = Entry(r)
    BY <1>1 DEF awaitedBar, Awaited
<1>3. ledgerBar' = ledgerBar /\ rowsBar' = rowsBar
    BY ViewsApart DEF ReplayWithoutContext, tables
<1>4. CASE operations[Entry(r)] = None
    BY <1>1, <1>2, <1>3, <1>4, NoEntryShown
       DEF Performed, Store!FindExisting, Store!Answered, Store!Reply, Store!tables, Hears
<1>5. CASE operations[Entry(r)] # None
    <2>1. /\ ledgerBar[Entry(r)] # None
          /\ ShownWith(operations[Entry(r)]) = Store!ShownIf(ledgerBar[Entry(r)].comment)
        BY <1>1, <1>5, SameShown
    <2> QED
        BY <1>1, <1>2, <1>3, <1>5, <2>1
           DEF Performed, Store!FindExisting, Store!Answered, Store!Reply, Store!tables,
               HearsExisting, Hears
<1> QED BY <1>4, <1>5

(* markPublished, of an operation that exists. *)
LEMMA PublishPerformed ==
    ASSUME IInv, NEW r \in Requests, MarkPublished(r),
           Hears(r, IF result'[r].code = "THROWN" THEN "thrown" ELSE "done", None, <<>>)
    PROVE  Performed(r)
<1> DEFINE e == Entry(r)
           op == operations[e]
           id == result[r].comment
<1>1. /\ pc[r] = "publishing" /\ TypeOK /\ query[r] \in Query /\ op # None
      /\ result[r].code \in SuccessKinds /\ id \in StoredUnder(e[1], e[2])
    BY DEF MarkPublished, IInv, HandlerInv
<1>2. e \in Accounts \X Keys /\ op \in Operation /\ id \in CommentIds
    BY <1>1, EntryType DEF TypeOK, StoredUnder
<1>3. awaitedBar[r].entry = e /\ awaitedBar[r].comment = id
    BY <1>1 DEF awaitedBar, Awaited
<1>4. /\ ledgerBar[e].status = op.status /\ ledgerBar[e].claim = op.fingerprint
      /\ ledgerBar[e].comment = op.comment
    BY <1>1, <1>2, SameShown
<1>5. comments' = comments /\ rowsBar' = rowsBar
    BY ViewsApart DEF MarkPublished
<1>6. CASE op.status = "published"
    <2>1. operations' = operations /\ ledgerBar' = ledgerBar
        BY <1>6, ViewsApart DEF MarkPublished, Publishable
    <2>2. result'[r].code = "THROWN" <=> op.comment # id
        <3>1. result' = [result EXCEPT ![r] = IF op.comment = id THEN result[r]
                                               ELSE Failure("THROWN")]
            BY <1>1, <1>6 DEF MarkPublished, Publishable, Respond
        <3> QED BY <1>1, <3>1, CodesApart DEF TypeOK, Failure
    <2> QED
        BY <1>1, <1>3, <1>4, <1>5, <1>6, <2>1, <2>2
           DEF Performed, Store!MarkPublished, Store!Answered, Store!Reply, Hears
<1>7. CASE op.status # "published"
    <2> DEFINE new == Recorded(op, "published", id, None)
    <2>1. new \in Operation /\ new # None
        BY <1>2, RecordFields DEF Statuses
    <2>2. LedgerEntry(new) = Store!Settled(ledgerBar[e], "published", id)
        BY <1>2, <1>4, <2>1 DEF LedgerEntry, Recorded, Store!Settled, Operation
    <2>3. operations' = [operations EXCEPT ![e] = new]
        BY <1>1, <1>7 DEF MarkPublished, Publishable, Recorded
    <2>4. result'[r].code # "THROWN"
        <3>1. result' = [result EXCEPT ![r] = result[r]]
            BY <1>1, <1>7 DEF MarkPublished, Publishable, Respond
        <3> QED BY <1>1, <3>1, CodesApart DEF TypeOK
    <2> HIDE DEF new
    <2>5. ledgerBar' = [ledgerBar EXCEPT ![e] = Store!Settled(ledgerBar[e], "published", id)]
        BY <1>1, <1>2, <2>2, <2>3, LedgerUpdate
    <2> QED
        BY <1>1, <1>3, <1>4, <1>5, <1>7, <2>4, <2>5
           DEF Performed, Store!MarkPublished, Store!Answered, Store!Reply, Hears
<1> QED BY <1>6, <1>7

(* markFailed: both models agree on which status replaces which. *)
LEMMA FailPerformed ==
    ASSUME IInv, NEW r \in Requests, MarkFailed(r), Hears(r, "done", None, <<>>)
    PROVE  Performed(r)
<1> DEFINE e == Entry(r)
           op == operations[e]
           status == StatusOf(result[r].code)
<1>1. /\ pc[r] = "failing" /\ TypeOK /\ query[r] \in Query /\ op # None
      /\ result[r].code \in FailureCodes
    BY DEF MarkFailed, IInv, HandlerInv
<1>2. e \in Accounts \X Keys /\ op \in Operation /\ status \in Statuses
    BY <1>1, EntryType, StatusOfFits DEF TypeOK, Statuses
<1>3. awaitedBar[r].entry = e /\ awaitedBar[r].status = status
    BY <1>1 DEF awaitedBar, Awaited
<1>4. ledgerBar[e].status = op.status /\ ledgerBar[e].claim = op.fingerprint
    BY <1>1, <1>2, SameShown
<1>5. comments' = comments /\ rowsBar' = rowsBar
    BY ViewsApart DEF MarkFailed
<1>6. Store!Replaceable(ledgerBar[e].status, status) <=> Replaceable(op.status, status)
    BY <1>4 DEF Replaceable, Store!Replaceable
<1>7. ledgerBar' = IF Replaceable(op.status, status)
                   THEN [ledgerBar EXCEPT ![e] = Store!Settled(ledgerBar[e], status, None)]
                   ELSE ledgerBar
    <2>1. CASE Replaceable(op.status, status)
        <3> DEFINE new == Recorded(op, status, None, result[r].code)
        <3>1. new \in Operation /\ new # None
            <4>1. None \in CommentIds \cup {None} /\ result[r].code \in FailureCodes \cup {None}
                BY <1>1
            <4>2. op \in Operation /\ status \in Statuses
                BY <1>2
            <4> HIDE DEF op, status
            <4> QED BY <4>1, <4>2, RecordFields
        <3>2. LedgerEntry(new) = Store!Settled(ledgerBar[e], status, None)
            BY <1>2, <1>4, <3>1 DEF LedgerEntry, Recorded, Store!Settled, Operation
        <3>3. operations' = [operations EXCEPT ![e] = new]
            BY <1>1, <2>1 DEF MarkFailed, Recorded
        <3> HIDE DEF new
        <3>4. ledgerBar' = [ledgerBar EXCEPT ![e] = LedgerEntry(new)]
            BY <1>1, <1>2, <3>3, LedgerUpdate
        <3> HIDE DEF status
        <3> QED BY <2>1, <3>2, <3>4
    <2>2. CASE ~Replaceable(op.status, status)
        BY <2>2, ViewsApart DEF MarkFailed
    <2> QED BY <2>1, <2>2
<1> HIDE DEF status
<1> QED
    BY <1>1, <1>3, <1>5, <1>6, <1>7
       DEF Performed, Store!MarkFailed, Store!Answered, Store!Reply, Hears

(* The row a save leaves under the external id. *)
LEMMA SaveWrites ==
    ASSUME IInv, NEW r \in Requests, pc[r] = "saving", NEW id \in CommentIds,
           InsertOrAttach(r, id)
    PROVE  /\ id = StoredComment(r)
           /\ rowsBar' = [rowsBar EXCEPT ![id] = RowOf(comments'[id])]
           /\ comments'[id] = IF comments[id] = None THEN NewRow(r)
                              ELSE AttachKey(comments[id], query[r].key)
<1> DEFINE new == IF comments[id] = None THEN NewRow(r)
                  ELSE AttachKey(comments[id], query[r].key)
<1>1. comments' = [comments EXCEPT ![id] = new]
    BY DEF InsertOrAttach
<1> HIDE DEF new
<1>2. rowsBar' = [rowsBar EXCEPT ![id] = RowOf(new)] /\ comments'[id] = new
    BY <1>1, RowsUpdate DEF IInv
<1> QED BY <1>2 DEF new, InsertOrAttach, StoredComment

(* savePublishedReply: the row that holds the key answers, else the one of the
   external id, inserted or given the key. *)
LEMMA SavePerformed ==
    ASSUME IInv, NEW r \in Requests, SavePublishedReply(r), HearsSaved(r)
    PROVE  Performed(r)
<1> DEFINE e == Entry(r)
           x == StoredComment(r)
           claimed == StoredUnder(e[1], e[2])
<1>1. /\ pc[r] = "saving" /\ TypeOK /\ query[r] \in Query /\ answer[r] # None
      /\ operations' = operations
    BY DEF SavePublishedReply, IInv, HandlerInv
<1>2. /\ e \in Accounts \X Keys /\ e = <<AccountOf[PostOf[query[r].parent]], query[r].key>>
      /\ answer[r] \in Answer /\ PostOf[query[r].parent] \in Posts
    BY <1>1, EntryType DEF TypeOK, Entry, AccountFor
<1>3. x \in CommentIds /\ x[1] = PostOf[query[r].parent]
    BY <1>2 DEF StoredComment, Answer
<1>4. /\ awaitedBar[r] = [method |-> "savePublishedReply", key |-> query[r].key,
                          comment |-> x, content |-> answer[r].content]
      /\ awaitedBar[r].key = query[r].key /\ awaitedBar[r].comment = x
      /\ awaitedBar[r].content = answer[r].content
    BY <1>1 DEF awaitedBar, Awaited
<1>5. Store!EntryOf(awaitedBar[r]) = e
    BY <1>2, <1>3, <1>4 DEF Store!EntryOf
<1>6. Store!StoredUnder(Store!EntryOf(awaitedBar[r])) = claimed
    BY <1>1, <1>2, <1>5, SameClaimed
<1>7. ledgerBar' = ledgerBar
    BY <1>1, ViewsApart
<1>8. PICK id \in CommentIds :
        /\ SavedReply(r, id)
        /\ Hears(r, SavedKind(id), None, <<[comment |-> id, row |-> RowOf(comments'[id])]>>)
    BY DEF HearsSaved
<1>9. CASE id \in claimed /\ UNCHANGED comments
    <2>1. rowsBar' = rowsBar /\ rowsBar[id] = RowOf(comments[id]) /\ comments[id] # None
        BY <1>1, <1>9, ViewsApart, RowIsNotNull DEF StoredUnder
    <2>2. heard' = [heard EXCEPT ![r] = Store!Reply("existing", None, Store!Shown(id, rowsBar[id]))]
        BY <1>8, <1>9, <2>1 DEF Hears, SavedKind, Store!Reply, Store!Shown
    <2> HIDE DEF x, claimed
    <2> QED
        BY <1>1, <1>4, <1>6, <1>7, <1>9, <2>1, <2>2
           DEF Performed, Store!SavePublishedReply, Store!Answered
<1>10. CASE claimed = {} /\ InsertOrAttach(r, id)
    <2>1. /\ id = x /\ rowsBar' = [rowsBar EXCEPT ![x] = RowOf(comments'[x])]
          /\ comments'[x] = IF comments[x] = None THEN NewRow(r)
                            ELSE AttachKey(comments[x], query[r].key)
        BY <1>1, <1>8, <1>10, SaveWrites
    <2>2. CASE comments[x] = None
        <3>1. NewRow(r) \in Row
            BY <1>1, <1>2 DEF NewRow, Row, Query, Answer
        <3>2. NewRow(r) # None
            BY <3>1, NoneAssumption
        <3>3. RowOf(comments'[x]) = Store!NewReply(query[r].key, answer[r].content)
            BY <2>1, <2>2, <3>2 DEF RowOf, NewRow, Store!NewReply
        <3>4. rowsBar[x] = None
            BY <1>1, <1>3, <2>2, RowIsNotNull
        <3>5. heard' = [heard EXCEPT ![r] =
                Store!Reply("created", None,
                  Store!Shown(x, Store!NewReply(query[r].key, answer[r].content)))]
            BY <1>8, <2>1, <2>2, <3>3 DEF Hears, SavedKind, Store!Reply, Store!Shown
        <3> HIDE DEF x, claimed
        <3> QED
            BY <1>1, <1>4, <1>6, <1>7, <1>10, <2>1, <3>3, <3>4, <3>5
               DEF Performed, Store!SavePublishedReply, Store!Answered
    <2>3. CASE comments[x] # None
        <3> DEFINE row == rowsBar[x]
                   kept == IF row.key = None THEN Store!Attached(row, query[r].key) ELSE row
        <3>1. /\ row # None
              /\ row = [key |-> comments[x].key, content |-> comments[x].content,
                        state |-> "active", version |-> 1]
            BY <1>1, <1>3, <2>3, RowIsNotNull
        <3>2. comments[x] \in Row
            BY <1>1, <1>3, <2>3 DEF TypeOK
        <3>3. AttachKey(comments[x], query[r].key) \in Row
            BY <1>1, <3>2 DEF AttachKey, Row, Query
        <3>4. AttachKey(comments[x], query[r].key) # None
            BY <3>3, NoneAssumption
        <3>5. /\ AttachKey(comments[x], query[r].key).content = comments[x].content
              /\ AttachKey(comments[x], query[r].key).key =
                   IF comments[x].key = None THEN query[r].key ELSE comments[x].key
            BY <3>2 DEF AttachKey, Row
        <3>6. RowOf(comments'[x]) =
                [key |-> IF comments[x].key = None THEN query[r].key ELSE comments[x].key,
                 content |-> comments[x].content, state |-> "active", version |-> 1]
            BY <2>1, <2>3, <3>4, <3>5 DEF RowOf
        <3>7. kept = RowOf(comments'[x])
            BY <3>1, <3>6 DEF Store!Attached
        <3>8. heard' = [heard EXCEPT ![r] = Store!Reply("existing", None, Store!Shown(x, kept))]
            BY <1>8, <2>1, <2>3, <3>7 DEF Hears, SavedKind, Store!Reply, Store!Shown
        <3>9. rowsBar' = [rowsBar EXCEPT ![x] = kept]
            BY <2>1, <3>7
        <3> HIDE DEF x, claimed
        <3> QED
            BY <1>1, <1>4, <1>6, <1>7, <1>10, <3>1, <3>8, <3>9
               DEF Performed, Store!SavePublishedReply, Store!Answered
    <2> QED BY <2>2, <2>3
<1> QED BY <1>8, <1>9, <1>10 DEF SavedReply

(* Retrieval writes one row as a page does. *)
LEMMA PageRow ==
    ASSUME IInv, NEW x \in Requests, Import(x), UNCHANGED heard
    PROVE  Imported(x) \/ UNCHANGED <<ledgerBar, rowsBar, heard>>
<1> DEFINE id == <<PostOf[replies[x].parent], x>>
           new == [parent |-> replies[x].parent, content |-> replies[x].content,
                   key |-> ImportedKey(comments[id])]
<1>1. /\ TypeOK /\ replies[x] \in Reply /\ replies[x] # None
      /\ operations' = operations /\ comments' = [comments EXCEPT ![id] = new]
    BY DEF Import, IInv, TypeOK
<1>2. id \in CommentIds
    BY <1>1, TopologyAssumption DEF Reply
<1>3. ImportedKey(comments[id]) \in Keys \cup {None}
    BY <1>1, <1>2 DEF ImportedKey, TypeOK, Row
<1>4. new \in Row
    BY <1>1, <1>3 DEF Row, Reply
<1>5. new # None
    BY <1>4, NoneAssumption
<1>6. RowOf(new) = [key |-> ImportedKey(comments[id]), content |-> replies[x].content,
                    state |-> "active", version |-> 1]
    BY <1>5 DEF RowOf
<1> HIDE DEF new
<1>7. rowsBar' = [rowsBar EXCEPT ![id] = RowOf(new)]
    BY <1>1, <1>2, RowsUpdate
<1>8. [Store!Upsert(rowsBar[id], replies[x].content) EXCEPT !.version = 1] = RowOf(new)
    <2>1. CASE comments[id] = None
        <3>1. rowsBar[id] = None /\ ImportedKey(comments[id]) = None
            BY <1>1, <1>2, <2>1, RowIsNotNull DEF ImportedKey
        <3> QED BY <1>6, <3>1 DEF Store!Upsert
    <2>2. CASE comments[id] # None
        <3>1. /\ rowsBar[id] # None
              /\ rowsBar[id] = [key |-> comments[id].key, content |-> comments[id].content,
                                state |-> "active", version |-> 1]
            BY <1>1, <1>2, <2>2, RowIsNotNull
        <3>2. rowsBar[id].key = comments[id].key
            BY <3>1
        <3> QED BY <1>6, <2>2, <3>1, <3>2 DEF Store!Upsert, ImportedKey
    <2> QED BY <2>1, <2>2
<1>9. ledgerBar' = ledgerBar
    BY <1>1, ViewsApart
<1> QED BY <1>1, <1>7, <1>8, <1>9 DEF Imported

(* Every answered await is the call that was awaited. *)
LEMMA AnsweredPerformed ==
    ASSUME Spellings = {"canonical"}, IInv, ClaimsInv, NEW r \in Requests, Answered(r)
    PROVE  Performed(r)
BY BeginPerformed, FindPerformed, SavePerformed, PublishPerformed, FailPerformed DEF Answered

(* All other steps leave the tables to the handlers that await them. *)
LEMMA UnansweredKept ==
    ASSUME IInv, NEW r \in Requests, Unanswered(r)
    PROVE  Imported(r) \/ UNCHANGED <<ledgerBar, rowsBar, heard>>
<1>1. CASE Import(r)
    BY <1>1, PageRow DEF Unanswered
<1>2. CASE ~Import(r)
    <2>1. UNCHANGED <<operations, comments>>
        BY <1>2 DEF Unanswered, FindContext, RecoverStored, NothingStored, Gateway,
           GatewayConfirms, GatewayRejects, GatewayUnknown, MarkDeleted, ReturnResult, Abandon,
           TakeEffect, tables
    <2> QED BY <2>1, ViewKept DEF Unanswered
<1> QED BY <1>1, <1>2

(* Every step of this specification is one of the use case, or none. *)
LEMMA StoreStepIsNext == [StoreNext]_storeVars => [Next]_vars
<1> SUFFICES ASSUME [StoreNext]_storeVars PROVE [Next]_vars
    OBVIOUS
<1>1. ASSUME NEW r \in Requests, Answered(r) PROVE Next
    BY <1>1 DEF Answered, Next, Handler, Begin
<1>2. ASSUME NEW r \in Requests, Unanswered(r) PROVE Next
    BY <1>2 DEF Unanswered, Next, Handler, Begin
<1> QED
    BY <1>1, <1>2 DEF StoreNext, AtTheProvider, storeVars, Next

(* To remember the answers adds no behaviour to the use case. *)
THEOREM StoreIsReply == StoreSpec => Spec
<1>1. StoreInit => Init
    BY DEF StoreInit
<1> QED BY <1>1, StoreStepIsNext, PTL DEF StoreSpec, Spec

(* The repositories that ReplyPublication awaits are those of AtomicStore, which
   the statements of SqlStore implement: whatever a handler does to the tables at
   an await, and whatever it goes on from, is one call's effect and answer. *)
THEOREM AwaitsHold == Spellings = {"canonical"} => (StoreSpec => AwaitsAreCalls)
<1> SUFFICES ASSUME Spellings = {"canonical"} PROVE StoreSpec => AwaitsAreCalls
    OBVIOUS
<1>1. Init => ClaimsInv
    BY DEF Init, ClaimsInv
<1>2. IInv /\ ClaimsInv /\ [Next]_vars => ClaimsInv'
    BY ClaimsStep
<1>3. ASSUME IInv, ClaimsInv, [StoreNext]_storeVars
      PROVE  [(\E r \in Requests : Performed(r)) \/ (\E x \in Requests : Imported(x))]_
                <<ledgerBar, rowsBar, heard>>
    <2>1. ASSUME NEW r \in Requests, Answered(r) PROVE Performed(r)
        BY <1>3, <2>1, AnsweredPerformed
    <2>2. ASSUME NEW r \in Requests, Unanswered(r)
          PROVE  Imported(r) \/ UNCHANGED <<ledgerBar, rowsBar, heard>>
        BY <1>3, <2>2, UnansweredKept
    <2>3. CASE UNCHANGED <<operations, comments, heard>>
        BY <2>3, ViewKept
    <2>4. ASSUME NEW x \in Requests, NEW c \in Contents, EditReply(x, c) /\ UNCHANGED heard
          PROVE  UNCHANGED <<operations, comments, heard>>
        BY <2>4 DEF EditReply, tables
    <2>5. ASSUME NEW p \in Parents, ObserveParent(p) /\ UNCHANGED heard
          PROVE  UNCHANGED <<operations, comments, heard>>
        BY <2>5 DEF ObserveParent
    <2>6. CASE UNCHANGED storeVars \/ (Quiescent /\ UNCHANGED heard)
        BY <2>3, <2>6 DEF storeVars, vars, Quiescent
    <2> QED
        BY <1>3, <2>1, <2>2, <2>3, <2>4, <2>5, <2>6 DEF StoreNext, AtTheProvider
<1>4. StoreSpec => []IInv /\ []ClaimsInv
    BY <1>1, <1>2, StoreIsReply, Invariance, PTL DEF Spec
<1> QED
    BY <1>3, <1>4, PTL DEF StoreSpec, AwaitsAreCalls

-----------------------------------------------------------------------------
(* What the callers give the store *)

(* A key is stored only for an operation that was begun. *)
KeysInv ==
    \A id \in CommentIds :
        comments[id] # None /\ comments[id].key # None =>
            operations[<<AccountOf[id[1]], comments[id].key>>] # None

(* The key a save writes is that of the operation its handler has begun. *)
LEMMA SaveKeys ==
    ASSUME IInv, KeysInv, NEW r \in Requests, SavePublishedReply(r)
    PROVE  KeysInv'
<1>1. /\ pc[r] = "saving" /\ TypeOK /\ query[r] \in Query /\ answer[r] # None
      /\ operations' = operations /\ operations[Entry(r)] # None
    BY DEF SavePublishedReply, IInv, HandlerInv
<1>2. PICK id \in CommentIds : SavedReply(r, id)
    BY DEF SavePublishedReply
<1>3. CASE UNCHANGED comments
    BY <1>1, <1>3 DEF KeysInv
<1>4. CASE InsertOrAttach(r, id)
    <2>1. comments' = [comments EXCEPT ![id] = comments'[id]] /\ id[1] = PostOf[query[r].parent]
        BY <1>1, <1>4 DEF InsertOrAttach, TypeOK
    <2>2. /\ <<AccountOf[id[1]], query[r].key>> = Entry(r)
          /\ comments'[id] = IF comments[id] = None THEN NewRow(r)
                             ELSE AttachKey(comments[id], query[r].key)
        BY <1>1, <1>4, <2>1, SaveWrites DEF Entry, AccountFor
    <2>3. \/ comments'[id].key = query[r].key
          \/ comments[id] # None /\ comments'[id].key = comments[id].key
        <3>1. CASE comments[id] = None
            BY <2>2, <3>1 DEF NewRow
        <3>2. CASE comments[id] # None
            <4>1. comments[id] \in Row
                BY <1>1, <3>2 DEF TypeOK
            <4> QED BY <2>2, <3>2, <4>1 DEF AttachKey, Row
        <3> QED BY <3>1, <3>2
    <2>4. ASSUME NEW x \in CommentIds, comments'[x] # None, comments'[x].key # None
          PROVE  operations'[<<AccountOf[x[1]], comments'[x].key>>] # None
        <3>1. CASE x = id
            BY <1>1, <2>2, <2>3, <2>4, <3>1 DEF KeysInv
        <3>2. CASE x # id
            BY <1>1, <2>1, <2>4, <3>2 DEF KeysInv, TypeOK
        <3> QED BY <3>1, <3>2
    <2> QED BY <2>4 DEF KeysInv
<1> QED BY <1>2, <1>3, <1>4 DEF SavedReply

(* A page brings no key. *)
LEMMA PageKeys ==
    ASSUME IInv, KeysInv, NEW x \in Requests, Import(x)
    PROVE  KeysInv'
<1> DEFINE id == <<PostOf[replies[x].parent], x>>
           new == [parent |-> replies[x].parent, content |-> replies[x].content,
                   key |-> ImportedKey(comments[id])]
<1>1. /\ TypeOK /\ operations' = operations /\ comments' = [comments EXCEPT ![id] = new]
    BY DEF Import, IInv
<1>2. new.key = IF comments[id] = None THEN None ELSE comments[id].key
    BY DEF ImportedKey
<1> HIDE DEF new
<1>3. ASSUME NEW y \in CommentIds, comments'[y] # None, comments'[y].key # None
      PROVE  operations'[<<AccountOf[y[1]], comments'[y].key>>] # None
    BY <1>1, <1>2, <1>3 DEF KeysInv, TypeOK
<1> QED BY <1>3 DEF KeysInv

(* Operations are never removed. *)
LEMMA OperationsStay ==
    ASSUME IInv, [Next]_vars
    PROVE  \A e \in Accounts \X Keys : operations[e] # None => operations'[e] # None
<1>1. ASSUME NEW r \in Requests, StartOperation(r)
      PROVE  \A e \in Accounts \X Keys : operations[e] # None => operations'[e] # None
    <2>1. query[r] \in Query /\ Entry(r) \in Accounts \X Keys /\ TypeOK
        BY <1>1, EntryType DEF StartOperation, IInv, HandlerInv
    <2> QED BY <1>1, <2>1 DEF StartOperation, TypeOK
<1>2. ASSUME NEW r \in Requests, MarkPublished(r)
      PROVE  \A e \in Accounts \X Keys : operations[e] # None => operations'[e] # None
    BY <1>2, MarkPublishedWrites
<1>3. ASSUME NEW r \in Requests, MarkFailed(r)
      PROVE  \A e \in Accounts \X Keys : operations[e] # None => operations'[e] # None
    BY <1>3, MarkFailedWrites
<1> QED BY <1>1, <1>2, <1>3, TableWriters

LEMMA KeysStep == IInv /\ KeysInv /\ [Next]_vars => KeysInv'
<1> SUFFICES ASSUME IInv, KeysInv, [Next]_vars PROVE KeysInv'
    OBVIOUS
<1>1. CASE \E r \in Requests : SavePublishedReply(r) \/ Import(r)
    BY <1>1, SaveKeys, PageKeys
<1>2. CASE comments' = comments
    <2> SUFFICES ASSUME NEW id \in CommentIds, comments[id] # None, comments[id].key # None
                 PROVE  operations'[<<AccountOf[id[1]], comments[id].key>>] # None
        BY <1>2 DEF KeysInv
    <2>1. comments[id].key \in Keys /\ AccountOf[id[1]] \in Accounts
        BY TopologyAssumption DEF IInv, TypeOK, Row
    <2> QED BY <2>1, OperationsStay DEF KeysInv
<1> QED BY <1>1, <1>2, TableWriters

LEMMA KeysHold == Spec => []KeysInv
<1>1. Init => KeysInv
    BY DEF Init, KeysInv
<1> QED BY <1>1, KeysStep, Invariance, PTL DEF Spec

(* The tables are such as StoreCalls assumes them. *)
LEMMA TablesAreLegal ==
    ASSUME IInv, KeysInv
    PROVE  Store!Legal(ledgerBar, rowsBar)
<1>0. TypeOK
    BY DEF IInv
<1>1. ASSUME NEW e \in Accounts \X Keys
      PROVE  ledgerBar[e] \in Store!Operation \cup {None}
    <2>1. CASE operations[e] = None
        BY <2>1, NoEntryShown
    <2>2. CASE operations[e] # None
        <3>1. operations[e] \in Operation
            BY <1>0, <2>2 DEF TypeOK
        <3>2. ledgerBar[e] = [status |-> operations[e].status,
                              claim |-> operations[e].fingerprint,
                              comment |-> operations[e].comment]
            BY <1>0, <2>2, SameShown
        <3>3. /\ operations[e].status \in Statuses
              /\ operations[e].fingerprint \in Fingerprints
              /\ operations[e].comment \in CommentIds \cup {None}
            BY <3>1 DEF Operation
        <3> QED BY <3>2, <3>3 DEF Statuses, Store!Operation, Store!Statuses
    <2> QED BY <2>1, <2>2
<1>2. ASSUME NEW id \in CommentIds
      PROVE  rowsBar[id] \in Store!Row \cup {None}
    <2>1. CASE comments[id] # None
        <3>1. comments[id] \in Row
            BY <1>0, <2>1 DEF TypeOK
        <3>2. rowsBar[id] = [key |-> comments[id].key, content |-> comments[id].content,
                             state |-> "active", version |-> 1]
            BY <1>0, <2>1, RowIsNotNull
        <3>3. comments[id].key \in Keys \cup {None} /\ comments[id].content \in Contents
            BY <3>1 DEF Row
        <3> QED BY <3>2, <3>3 DEF Store!Row
    <2> QED BY <1>0, <2>1, RowIsNotNull
<1>3. ASSUME NEW e \in Accounts \X Keys, ledgerBar[e] # None
      PROVE  /\ (ledgerBar[e].status = "published") <=> (ledgerBar[e].comment # None)
             /\ ledgerBar[e].comment # None =>
                  /\ AccountOf[ledgerBar[e].comment[1]] = e[1]
                  /\ ledgerBar[e].comment \in CommentIds
                  /\ rowsBar[ledgerBar[e].comment] # None
                  /\ rowsBar[ledgerBar[e].comment].key = e[2]
    <2>1. operations[e] # None
        BY <1>3, NoEntryShown
    <2>2. ledgerBar[e].status = operations[e].status /\ ledgerBar[e].comment = operations[e].comment
        BY <1>0, <2>1, SameShown
    <2>3. (operations[e].status = "published") <=> (operations[e].comment # None)
        BY <2>1 DEF IInv, OperationInv
    <2>4. ASSUME operations[e].comment # None
          PROVE  operations[e].comment \in StoredUnder(e[1], e[2])
        BY <2>1, <2>3, <2>4 DEF IInv, OperationInv
    <2>5. ASSUME operations[e].comment # None
          PROVE  operations[e].comment \in Store!StoredUnder(e)
        BY <1>0, <2>4, <2>5, SameClaimed
    <2> QED BY <2>2, <2>3, <2>5 DEF Store!StoredUnder
<1>4. ASSUME NEW x \in CommentIds, rowsBar[x] # None, rowsBar[x].key # None
      PROVE  /\ <<AccountOf[x[1]], rowsBar[x].key>> \in Accounts \X Keys
             /\ ledgerBar[<<AccountOf[x[1]], rowsBar[x].key>>] # None
             /\ \A y \in CommentIds :
                  AccountOf[y[1]] = AccountOf[x[1]] /\ rowsBar[y] # None
                  /\ rowsBar[y].key = rowsBar[x].key => y = x
    <2> DEFINE e == <<AccountOf[x[1]], rowsBar[x].key>>
    <2>1. comments[x] # None /\ rowsBar[x].key = comments[x].key
        BY <1>0, <1>4, SameRow
    <2>2. comments[x].key \in Keys /\ AccountOf[x[1]] \in Accounts
        BY <1>0, <1>4, <2>1, TopologyAssumption DEF TypeOK, Row
    <2>3. e \in Accounts \X Keys /\ operations[e] # None
        BY <1>4, <2>1, <2>2 DEF KeysInv
    <2>4. ledgerBar[e] # None
        BY <1>0, <2>3, SameShown
    <2>5. ASSUME NEW y \in CommentIds, AccountOf[y[1]] = AccountOf[x[1]], rowsBar[y] # None,
                 rowsBar[y].key = rowsBar[x].key
          PROVE  y = x
        <3>1. comments[y] # None /\ comments[y].key = comments[x].key
            BY <1>0, <2>1, <2>5, SameRow
        <3>2. x \in StoredUnder(e[1], e[2]) /\ y \in StoredUnder(e[1], e[2])
            BY <2>1, <2>5, <3>1 DEF StoredUnder
        <3> QED BY <2>1, <2>2, <3>2 DEF IInv, OneCommentPerKey
    <2> QED BY <2>1, <2>2, <2>3, <2>4, <2>5
<1> QED
    BY <1>1, <1>2, <1>3, <1>4 DEF Store!Legal, Store!Entries, ledgerBar, rowsBar

(* Every call has its arguments, and asks for rows that are there. *)
LEMMA CallsAreAskable ==
    ASSUME IInv, NEW r \in Requests, awaitedBar[r] # None
    PROVE  awaitedBar[r] \in Store!Call /\ Store!Askable(awaitedBar[r])
<1>1. TypeOK /\ HandlerInv(r) /\ awaitedBar[r] = Awaited(r)
    BY DEF IInv, awaitedBar
<1>2. pc[r] # "idle" /\ query[r] \in Query
    BY <1>1 DEF HandlerInv, Awaited
<1>3. /\ Entry(r) \in Accounts \X Keys /\ query[r].key \in Keys
      /\ PostOf[query[r].parent] \in Posts /\ Fingerprint(query[r]) \in Fingerprints
    BY <1>2, EntryType DEF Query, Fingerprint, Fingerprints
<1>4. CASE pc[r] = "context"
    BY <1>1, <1>3, <1>4 DEF Awaited, Store!Call, Store!BeginCall, Store!Entries, Store!Askable
<1>5. CASE pc[r] = "inactive"
    BY <1>1, <1>3, <1>5 DEF Awaited, Store!Call, Store!FindCall, Store!Entries, Store!Askable
<1>6. CASE pc[r] = "saving"
    <2>1. answer[r] \in Answer
        BY <1>1, <1>6 DEF HandlerInv, TypeOK
    <2> QED
        BY <1>1, <1>3, <1>6, <2>1
           DEF Awaited, StoredComment, Answer, Store!Call, Store!SaveCall, Store!Askable
<1>7. CASE pc[r] = "publishing"
    <2> DEFINE id == result[r].comment
               call == [method |-> "markPublished", entry |-> Entry(r), comment |-> id]
    <2>1. id \in StoredUnder(Entry(r)[1], Entry(r)[2]) /\ operations[Entry(r)] # None
        BY <1>1, <1>7 DEF HandlerInv
    <2>2. id \in CommentIds /\ rowsBar[id] # None /\ ledgerBar[Entry(r)] # None
        BY <1>1, <1>3, <2>1, SameShown, RowIsNotNull DEF StoredUnder
    <2>3. awaitedBar[r] = call
        BY <1>1, <1>7 DEF Awaited
    <2>4. call \in Store!PublishCall
        BY <1>3, <2>2 DEF Store!PublishCall, Store!Entries
    <2> HIDE DEF id
    <2> QED BY <2>2, <2>3, <2>4 DEF Store!Call, Store!Askable
<1>8. CASE pc[r] = "failing"
    <2> DEFINE status == StatusOf(result[r].code)
               call == [method |-> "markFailed", entry |-> Entry(r), status |-> status]
    <2>1. /\ status \in {"retryable_failed", "failed", "indeterminate"}
          /\ operations[Entry(r)] # None
        BY <1>1, <1>8, StatusOfFits DEF HandlerInv
    <2>2. ledgerBar[Entry(r)] # None
        BY <1>1, <1>3, <2>1, SameShown
    <2>3. awaitedBar[r] = call
        BY <1>1, <1>8 DEF Awaited
    <2>4. call \in Store!FailCall
        BY <1>3, <2>1 DEF Store!FailCall, Store!Entries, Store!FailedStatuses, Store!Statuses
    <2> HIDE DEF status
    <2> QED BY <2>2, <2>3, <2>4 DEF Store!Call, Store!Askable
<1> QED
    BY <1>1, <1>4, <1>5, <1>6, <1>7, <1>8 DEF Awaited

(* What AtomicStore and SqlStore assume of their callers is what the use case
   guarantees, for every set of requests: the tables it leaves are the ones the
   store may start from, and no call asks for a row that is not there. *)
THEOREM ContractHolds == StoreSpec => []CallersKeepToTheContract
<1>1. IInv /\ KeysInv => CallersKeepToTheContract
    BY TablesAreLegal, CallsAreAskable DEF CallersKeepToTheContract
<1> QED BY <1>1, StoreIsReply, Invariance, KeysHold, PTL
=============================================================================
