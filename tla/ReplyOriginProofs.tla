-------------------------- MODULE ReplyOriginProofs --------------------------
(***************************************************************************)
(* Proofs about where published comments come from: a published operation  *)
(* owns a row that answers its parent, and the reply it shows was written  *)
(* through its own account.  The argument follows a call from the          *)
(* operation that asks for it (AskedInv) to the reply it leaves at the     *)
(* provider (ReplyInv), to the answer (AnswerInv) and to the stored row    *)
(* (RowInv); the others disturb none of it because operations and replies  *)
(* keep whom they belong to (Keeps).                                       *)
(***************************************************************************)
EXTENDS ReplyPublicationProofs

Asking == {"recovering", "calling", "saving", "publishing", "failing"}

(* Whoever may call the provider serves the operation of its own parent. *)
Asked(r) ==
    /\ query[r] \in Query
    /\ operations[Entry(r)] # None
    /\ operations[Entry(r)].parent = query[r].parent

AskedInv(r) == pc[r] \in Asking \/ r \in inflight => Asked(r)

(* The native gateway finds a reply by its key alone.  This hypothesis, which the
   seeded accounts meet, keeps the replies of others out of its answers. *)
OneNativeAccount ==
    \A a, b \in Accounts :
        Publication[a] = "native" /\ Publication[b] = "native" => a = b

(* The reply a handler was given carries its key. *)
Given(r, x) ==
    /\ replies[x] # None
    /\ replies[x].key = query[r].key
    /\ OneNativeAccount => replies[x].account = Entry(r)[1]

AnswerInv(r) == pc[r] = "saving" => Given(r, answer[r].reply)

(* A reply belongs to the operation that its call served. *)
ReplyInv(x) ==
    replies[x] # None =>
        /\ query[x] # None
        /\ replies[x].parent = query[x].parent
        /\ replies[x].key = query[x].key
        /\ replies[x].account = AccountFor(replies[x].parent)
        /\ LET e == <<replies[x].account, replies[x].key>> IN
             operations[e] # None /\ operations[e].parent = replies[x].parent

(* A row is stored under the post it answers, with the parent of the operation
   that owns it, or of the reply while no operation does. *)
RowInv(id) ==
    comments[id] # None =>
        LET row == comments[id]
            reply == replies[id[2]]
            e == <<AccountOf[id[1]], row.key>>
        IN
        /\ reply # None
        /\ PostOf[row.parent] = id[1]
        /\ row.key = None => row.parent = reply.parent
        /\ row.key # None =>
             /\ row.key = reply.key
             /\ operations[e] # None /\ operations[e].parent = row.parent
        /\ OneNativeAccount => reply.account = AccountOf[id[1]]

OriginInv ==
    /\ \A r \in Requests : AskedInv(r) /\ AnswerInv(r) /\ ReplyInv(r)
    /\ \A id \in CommentIds : RowInv(id)

-----------------------------------------------------------------------------
(* Operations and replies are never removed, and keep whom they belong to. *)
Keeps ==
    /\ \A e \in Accounts \X Keys : operations[e] # None =>
         operations'[e] # None /\ operations'[e].parent = operations[e].parent
    /\ \A x \in Requests : replies[x] # None =>
         /\ replies'[x] # None
         /\ replies'[x].account = replies[x].account
         /\ replies'[x].key = replies[x].key
         /\ replies'[x].parent = replies[x].parent

(* A handler moves on by itself, with what it was asked. *)
Moves(s) ==
    /\ query'[s] = query[s] \/ query[s] = None
    /\ AskedInv(s)' /\ AnswerInv(s)'

USE DEF CommentIds

(* The types of an operation's entry and of a reply's. *)
LEMMA OriginTypes ==
    ASSUME TypeOK
    PROVE  /\ \A x \in Requests : replies[x] # None =>
                /\ replies[x].parent \in Parents /\ replies[x].key \in Keys
                /\ replies[x].account \in Accounts
                /\ <<replies[x].account, replies[x].key>> \in Accounts \X Keys
                /\ PostOf[replies[x].parent] \in Posts
                /\ AccountFor(replies[x].parent) \in Accounts
           /\ \A id \in CommentIds : comments[id] # None =>
                /\ id[1] \in Posts /\ id[2] \in Requests
                /\ AccountOf[id[1]] \in Accounts
                /\ comments[id].parent \in Parents
                /\ comments[id].key # None =>
                     <<AccountOf[id[1]], comments[id].key>> \in Accounts \X Keys
<1>1. ASSUME NEW x \in Requests, replies[x] # None PROVE replies[x] \in Reply
    BY <1>1 DEF TypeOK
<1>2. ASSUME NEW id \in CommentIds, comments[id] # None PROVE comments[id] \in Row
    BY <1>2 DEF TypeOK
<1>3. \A y \in Reply :
        /\ y.parent \in Parents /\ y.key \in Keys /\ y.account \in Accounts
        /\ PostOf[y.parent] \in Posts /\ AccountFor(y.parent) \in Accounts
    BY TopologyAssumption DEF Reply, AccountFor
<1>4. \A id \in CommentIds :
        id[1] \in Posts /\ id[2] \in Requests /\ AccountOf[id[1]] \in Accounts
    BY TopologyAssumption
<1>5. \A row \in Row : row.parent \in Parents /\ row.key \in Keys \cup {None}
    BY DEF Row
<1>6. ASSUME NEW x \in Requests, replies[x] # None
      PROVE  /\ replies[x].parent \in Parents /\ replies[x].key \in Keys
             /\ replies[x].account \in Accounts
             /\ PostOf[replies[x].parent] \in Posts
             /\ AccountFor(replies[x].parent) \in Accounts
    BY <1>1, <1>3, <1>6
<1>7. ASSUME NEW id \in CommentIds, comments[id] # None
      PROVE  /\ comments[id].parent \in Parents
             /\ comments[id].key \in Keys \cup {None}
    BY <1>2, <1>5, <1>7
<1>8. QED
    BY <1>4, <1>6, <1>7

(* A step keeps the invariant if it keeps what operations and replies are, and
   if what it writes itself is right. *)
LEMMA OriginFrame ==
    ASSUME IInv, OriginInv, Keeps,
           \A s \in Requests : Idles(s) \/ Moves(s),
           \A x \in Requests : replies[x] = None => ReplyInv(x)',
           \A id \in CommentIds : comments'[id] = comments[id] \/ RowInv(id)'
    PROVE  OriginInv'
<1>1. ASSUME NEW s \in Requests PROVE AskedInv(s)' /\ AnswerInv(s)'
    <2>1. CASE Moves(s)
        BY <2>1 DEF Moves
    <2>2. CASE Idles(s)
        <3>1. AskedInv(s) /\ AnswerInv(s) /\ HandlerInv(s) /\ TypeOK
            BY DEF OriginInv, IInv
        <3>2. query'[s] = query[s] /\ pc'[s] = pc[s] /\ answer'[s] = answer[s]
            BY <2>2 DEF Idles
        <3>3. Entry(s)' = Entry(s)
            BY <3>2 DEF Entry
        <3>4. AskedInv(s)'
            <4>1. SUFFICES ASSUME Asked(s) PROVE Asked(s)'
                BY <2>2, <3>1, <3>2 DEF AskedInv, Idles
            <4>2. Entry(s) \in Accounts \X Keys
                BY <4>1, EntryType DEF Asked
            <4>3. QED
                BY <3>2, <3>3, <4>1, <4>2 DEF Asked, Keeps
        <3>5. AnswerInv(s)'
            <4>1. SUFFICES ASSUME pc[s] = "saving" PROVE Given(s, answer[s].reply)'
                BY <3>2 DEF AnswerInv
            <4>2. Given(s, answer[s].reply)
                BY <3>1, <4>1 DEF AnswerInv
            <4>3. answer[s].reply \in Requests
                BY <3>1, <4>1 DEF HandlerInv, TypeOK, Answer
            <4>4. QED
                BY <3>2, <3>3, <4>2, <4>3 DEF Given, Keeps
        <3>6. QED
            BY <3>4, <3>5
    <2>3. QED
        BY <2>1, <2>2
<1>2. ASSUME NEW x \in Requests, replies[x] # None PROVE ReplyInv(x)'
    <2>1. ReplyInv(x) /\ TypeOK
        BY DEF OriginInv, IInv
    <2>2. query'[x] = query[x]
        BY <1>2, <2>1 DEF ReplyInv, Idles, Moves
    <2>3. <<replies[x].account, replies[x].key>> \in Accounts \X Keys
        BY <1>2, <2>1, OriginTypes
    <2>4. /\ replies'[x].account = replies[x].account
          /\ replies'[x].key = replies[x].key
          /\ replies'[x].parent = replies[x].parent
        BY <1>2 DEF Keeps
    <2>5. QED
        BY <1>2, <2>1, <2>2, <2>3, <2>4 DEF ReplyInv, Keeps, AccountFor
<1>3. ASSUME NEW id \in CommentIds, comments'[id] = comments[id] PROVE RowInv(id)'
    <2>1. SUFFICES ASSUME comments[id] # None PROVE RowInv(id)'
        BY <1>3 DEF RowInv
    <2>2. RowInv(id) /\ TypeOK
        BY DEF OriginInv, IInv
    <2>3. /\ id[2] \in Requests
          /\ comments[id].key # None =>
               <<AccountOf[id[1]], comments[id].key>> \in Accounts \X Keys
        BY <2>1, <2>2, OriginTypes
    <2>4. replies[id[2]] # None
        BY <2>1, <2>2 DEF RowInv
    <2>5. /\ replies'[id[2]] # None
          /\ replies'[id[2]].account = replies[id[2]].account
          /\ replies'[id[2]].key = replies[id[2]].key
          /\ replies'[id[2]].parent = replies[id[2]].parent
        BY <2>3, <2>4 DEF Keeps
    <2>6. comments[id].key # None =>
             LET e == <<AccountOf[id[1]], comments[id].key>> IN
             operations'[e] # None /\ operations'[e].parent = comments[id].parent
        BY <2>1, <2>2, <2>3 DEF RowInv, Keeps
    <2>7. QED
        BY <1>3, <2>1, <2>2, <2>5, <2>6 DEF RowInv
<1>4. QED
    BY <1>1, <1>2, <1>3 DEF OriginInv

-----------------------------------------------------------------------------
(* The steps *)

(* An external write leaves a reply of the operation it was asked for. *)
LEMMA ExternalWriteOrigin ==
    ASSUME IInv, OriginInv, NEW r \in Requests, NEW x \in Requests,
           Asked(r), ExternalWrite(r, x),
           UNCHANGED <<operations, query>>
    PROVE  /\ Keeps
           /\ \A y \in Requests : replies[y] = None => ReplyInv(y)'
           /\ Given(r, x)'
<1>1. TypeOK /\ ReplyInv(r) /\ query[r] \in Query
    BY DEF IInv, OriginInv, Asked
<1>2. /\ Entry(r) = <<AccountFor(query[r].parent), query[r].key>>
      /\ Entry(r)' = Entry(r) /\ Entry(r)[1] = AccountFor(query[r].parent)
    BY DEF Entry, AccountFor
<1>3. CASE x \in AlreadyPublished(r) /\ UNCHANGED replies
    <2>1. /\ replies[x] # None /\ replies[x].key = query[r].key
          /\ Publication[replies[x].account] = "native"
          /\ Publication[Entry(r)[1]] = "native"
        BY <1>2, <1>3 DEF AlreadyPublished, Capability
    <2>2. replies[x].account \in Accounts /\ Entry(r)[1] \in Accounts
        BY <1>1, <1>2, <2>1, EntryType DEF TypeOK, Reply
    <2>3. OneNativeAccount => replies[x].account = Entry(r)[1]
        BY <2>1, <2>2 DEF OneNativeAccount
    <2>4. Given(r, x)'
        BY <1>2, <1>3, <2>1, <2>3 DEF Given
    <2>5. QED
        BY <1>3, <2>4 DEF Keeps, ReplyInv
<1>4. CASE AlreadyPublished(r) = {} /\ x = r /\ replies' = [replies EXCEPT ![r] =
             [account |-> Entry(r)[1], key |-> query[r].key,
              parent |-> query[r].parent, content |-> query[r].content]]
    <2> DEFINE new == [account |-> Entry(r)[1], key |-> query[r].key,
                       parent |-> query[r].parent, content |-> query[r].content]
    <2>1. /\ \A y \in Requests : replies'[y] = IF y = r THEN new ELSE replies[y]
          /\ new \in Reply /\ new # None
        BY <1>1, <1>4, EntryType, NoneAssumption DEF TypeOK, Reply
    <2>2. replies[r] # None =>
            /\ replies[r].account = Entry(r)[1] /\ replies[r].key = query[r].key
            /\ replies[r].parent = query[r].parent
        BY <1>1, <1>2 DEF ReplyInv
    <2>3. Keeps
        BY <2>1, <2>2 DEF Keeps
    <2>4. query[r] # None
        BY <1>1, NoneAssumption
    <2>5. ReplyInv(r)'
        BY <1>2, <2>1, <2>4 DEF ReplyInv, Asked, AccountFor
    <2>6. \A y \in Requests : replies[y] = None => ReplyInv(y)'
        BY <2>1, <2>5 DEF ReplyInv
    <2>7. Given(r, x)'
        BY <1>2, <1>4, <2>1 DEF Given
    <2>8. QED
        BY <2>3, <2>6, <2>7
<1>5. QED
    BY <1>3, <1>4 DEF ExternalWrite

(* A handler that writes no reply and no row moves on with what it was asked. *)
LEMMA MoveOrigin ==
    ASSUME IInv, OriginInv, NEW r \in Requests,
           UNCHANGED <<replies, comments>>,
           \A e \in Accounts \X Keys : operations[e] # None =>
             operations'[e] # None /\ operations'[e].parent = operations[e].parent,
           \A s \in Requests \ {r} : Idles(s),
           query'[r] = query[r] \/ query[r] = None,
           AskedInv(r)', AnswerInv(r)'
    PROVE  OriginInv'
<1>1. Keeps /\ Moves(r)
    BY DEF Keeps, Moves
<1>2. \A x \in Requests : replies[x] = None => ReplyInv(x)'
    BY DEF ReplyInv
<1>3. QED
    BY <1>1, <1>2, OriginFrame

(* A request arrives: nobody asked for it yet. *)
LEMMA FindContextOrigin ==
    ASSUME IInv, OriginInv, NEW r \in Requests, FindContext(r)
    PROVE  OriginInv'
<1>1. TypeOK /\ query[r] = None /\ r \notin inflight /\ pc[r] = "idle"
    BY DEF FindContext, IInv, HandlerInv
<1>2. /\ UNCHANGED <<tables, provider, begun, answer>>
      /\ pc'[r] \in {"inactive", "returning", "context"}
      /\ \A s \in Requests \ {r} :
           pc'[s] = pc[s] /\ query'[s] = query[s] /\ result'[s] = result[s]
    BY <1>1 DEF FindContext, Respond, Goto, TypeOK
<1>3. \A s \in Requests \ {r} : Idles(s)
    BY <1>2 DEF Idles, tables, provider
<1>4. AskedInv(r)' /\ AnswerInv(r)'
    BY <1>1, <1>2 DEF AskedInv, AnswerInv, Asking, provider
<1>5. QED
    BY <1>1, <1>2, <1>3, <1>4, MoveOrigin DEF tables, provider

(* The handlers' steps that write neither operations nor replies nor rows. *)
LEMMA QuietOrigin ==
    ASSUME IInv, OriginInv, NEW r \in Requests,
           \/ ReplayWithoutContext(r) \/ RejectReuse(r) \/ LoadOperation(r)
           \/ RecoverStored(r) \/ NothingStored(r)
           \/ GatewayRejects(r) \/ GatewayUnknown(r)
           \/ MarkDeleted(r) \/ ReturnResult(r) \/ Abandon(r)
    PROVE  OriginInv'
<1> USE DEF Respond, Fail, Goto, tables, provider
<1>1. TypeOK /\ AskedInv(r) /\ HandlerInv(r)
    BY DEF IInv, OriginInv
<1>2. UNCHANGED <<operations, comments, replies, query>>
    BY DEF ReplayWithoutContext, RejectReuse, LoadOperation, RecoverStored,
           NothingStored, GatewayRejects, GatewayUnknown, MarkDeleted, ReturnResult,
           Abandon
<1>3. \A s \in Requests \ {r} : Idles(s)
    BY <1>1 DEF Idles, TypeOK, ReplayWithoutContext, RejectReuse, LoadOperation,
           RecoverStored, NothingStored, GatewayRejects, GatewayUnknown, MarkDeleted,
           ReturnResult, Abandon
<1>4. pc'[r] # "saving"
    BY <1>1 DEF TypeOK, ReplayWithoutContext, RejectReuse, LoadOperation,
           RecoverStored, NothingStored, GatewayRejects, GatewayUnknown, MarkDeleted,
           ReturnResult, Abandon
<1>5. (pc'[r] \in Asking \/ r \in inflight') => Asked(r)
    <2>1. CASE LoadOperation(r)
        <3>1. query[r] \in Query
            BY <1>1, <2>1 DEF LoadOperation, HandlerInv
        <3>2. QED
            BY <1>1, <2>1, <3>1
            DEF LoadOperation, MatchesOperation, SameParent, Asked, AskedInv
    <2>2. CASE ~LoadOperation(r)
        BY <1>1, <2>2 DEF TypeOK, Asking, AskedInv, ReplayWithoutContext, RejectReuse,
           RecoverStored, NothingStored, GatewayRejects, GatewayUnknown, MarkDeleted,
           ReturnResult, Abandon
    <2>3. QED
        BY <2>1, <2>2
<1>6. AskedInv(r)' /\ AnswerInv(r)'
    BY <1>2, <1>4, <1>5 DEF AskedInv, AnswerInv, Asked, Entry
<1>7. QED
    BY <1>2, <1>3, <1>6, MoveOrigin

(* begin inserts the operation of the parent that is asked for. *)
LEMMA StartOperationOrigin ==
    ASSUME IInv, OriginInv, NEW r \in Requests, StartOperation(r)
    PROVE  OriginInv'
<1> DEFINE op == [status |-> "pending", parent |-> query[r].parent,
                  fingerprint |-> Fingerprint(query[r]), comment |-> None, code |-> None]
<1>1. TypeOK /\ query[r] \in Query /\ pc[r] = "context"
    BY DEF StartOperation, IInv, HandlerInv
<1>2. Entry(r) \in Accounts \X Keys
    BY <1>1, EntryType
<1>3. /\ operations[Entry(r)] = None
      /\ operations' = [operations EXCEPT ![Entry(r)] = op]
      /\ UNCHANGED <<comments, active, provider, query, begun, answer>>
      /\ pc'[r] \in {"failing", "calling"}
      /\ \A s \in Requests \ {r} : pc'[s] = pc[s] /\ result'[s] = result[s]
    BY <1>1 DEF StartOperation, Fail, Goto, TypeOK
<1>4. IInv'
    BY StartOperationStep
<1>5. operations'[Entry(r)] = op /\ op # None
    <2>1. operations'[Entry(r)] = op
        BY <1>1, <1>2, <1>3 DEF TypeOK
    <2>2. op \in Operation
        BY <1>1, EntryType
        DEF Operation, Statuses, Fingerprints, Fingerprint, Query
    <2>3. QED
        BY <2>1, <2>2, NoneAssumption
<1>6. \A e \in Accounts \X Keys : operations[e] # None =>
         operations'[e] # None /\ operations'[e].parent = operations[e].parent
    BY <1>1, <1>3 DEF TypeOK
<1>7. \A s \in Requests \ {r} : Idles(s)
    BY <1>3 DEF Idles, provider
<1>8. AskedInv(r)' /\ AnswerInv(r)'
    <2>1. Entry(r)' = Entry(r)
        BY <1>3 DEF Entry
    <2>2. QED
        BY <1>1, <1>3, <1>5, <2>1 DEF AskedInv, Asked, AnswerInv
<1>9. QED
    BY <1>3, <1>6, <1>7, <1>8, MoveOrigin DEF provider

(* A mark keeps the parent of its operation. *)
LEMMA MarkOrigin ==
    ASSUME IInv, OriginInv, NEW r \in Requests, MarkPublished(r) \/ MarkFailed(r)
    PROVE  OriginInv'
<1>1. TypeOK /\ HandlerInv(r) /\ AskedInv(r) /\ pc[r] \in {"publishing", "failing"}
    BY DEF MarkPublished, MarkFailed, IInv, OriginInv
<1>2. query[r] \in Query /\ Asked(r)
    BY <1>1 DEF AskedInv, Asked, Asking
<1>3. Entry(r) \in Accounts \X Keys
    BY <1>2, EntryType
<1>4. /\ UNCHANGED <<comments, active, provider, query, begun, answer>>
      /\ pc'[r] \in {"returning", "deleting"}
      /\ \A s \in Requests \ {r} : pc'[s] = pc[s] /\ result'[s] = result[s]
    BY <1>1, <1>2 DEF MarkPublished, MarkFailed, Asked, Respond, Goto, TypeOK
<1>5. \/ operations' = operations
      \/ \E st \in Statuses, id \in CommentIds \cup {None},
            code \in FailureCodes \cup {None} :
           operations' = [operations EXCEPT ![Entry(r)] =
              [operations[Entry(r)] EXCEPT !.status = st, !.comment = id, !.code = code]]
    <2>1. CASE MarkPublished(r)
        <3>1. result[r].comment \in CommentIds \cup {None}
            BY <1>1, <2>1 DEF MarkPublished, HandlerInv, TypeOK, Outcome
        <3>2. QED
            BY <2>1, <3>1 DEF MarkPublished, Statuses
    <2>2. CASE MarkFailed(r)
        <3>1. result[r].code \in FailureCodes
            BY <1>1, <2>2 DEF MarkFailed, HandlerInv
        <3>2. StatusOf(result[r].code) \in Statuses
            BY <3>1, StatusOfFits DEF Statuses
        <3>3. QED
            BY <2>2, <3>1, <3>2 DEF MarkFailed
    <2>3. QED
        BY <2>1, <2>2
<1>6. \A e \in Accounts \X Keys : operations[e] # None =>
         operations'[e] # None /\ operations'[e].parent = operations[e].parent
    <2>1. CASE operations' = operations
        BY <2>1
    <2>2. ASSUME NEW st \in Statuses, NEW id \in CommentIds \cup {None},
                 NEW code \in FailureCodes \cup {None},
                 operations' = [operations EXCEPT ![Entry(r)] =
                   [operations[Entry(r)] EXCEPT !.status = st, !.comment = id,
                                                !.code = code]]
          PROVE  \A e \in Accounts \X Keys : operations[e] # None =>
                    operations'[e] # None /\ operations'[e].parent = operations[e].parent
        <3> DEFINE new == [operations[Entry(r)] EXCEPT !.status = st, !.comment = id,
                                                       !.code = code]
        <3>1. operations[Entry(r)] \in Operation
            BY <1>1, <1>2, <1>3 DEF TypeOK, Asked
        <3>2. new \in Operation /\ new.parent = operations[Entry(r)].parent
            BY <3>1 DEF Operation
        <3>3. new # None
            BY <3>2, NoneAssumption
        <3>4. \A e \in Accounts \X Keys :
                 operations'[e] = IF e = Entry(r) THEN new ELSE operations[e]
            BY <1>1, <2>2 DEF TypeOK
        <3> HIDE DEF new
        <3>5. QED
            BY <3>2, <3>3, <3>4
    <2>3. QED
        BY <1>5, <2>1, <2>2
<1>7. \A s \in Requests \ {r} : Idles(s)
    BY <1>4 DEF Idles, provider
<1>8. AskedInv(r)' /\ AnswerInv(r)'
    <2>1. Entry(r)' = Entry(r)
        BY <1>4 DEF Entry
    <2>2. QED
        BY <1>2, <1>3, <1>4, <1>6, <2>1 DEF AskedInv, Asked, AnswerInv
<1>9. QED
    BY <1>4, <1>6, <1>7, <1>8, MoveOrigin DEF provider

(* The provider answers, or a late call takes effect. *)
LEMMA WriteOrigin ==
    ASSUME IInv, OriginInv, NEW r \in Requests, GatewayConfirms(r) \/ TakeEffect(r)
    PROVE  OriginInv'
<1>1. TypeOK /\ AskedInv(r) /\ (pc[r] = "calling" \/ r \in inflight)
    BY DEF GatewayConfirms, TakeEffect, IInv, OriginInv
<1>2. Asked(r)
    BY <1>1 DEF AskedInv, Asking
<1>3. UNCHANGED <<operations, comments, active, query, begun, result>>
    BY DEF GatewayConfirms, TakeEffect, tables
<1>4. PICK x \in Requests :
        /\ ExternalWrite(r, x)
        /\ \/ /\ GatewayConfirms(r) /\ inflight' = inflight
              /\ answer' = [answer EXCEPT ![r] =
                              [reply |-> x, content |-> replies'[x].content]]
              /\ pc' = [pc EXCEPT ![r] = "saving"]
           \/ /\ inflight' = inflight \ {r}
              /\ UNCHANGED <<pc, answer>>
    BY DEF GatewayConfirms, TakeEffect, Goto
<1>5. /\ Keeps
      /\ \A y \in Requests : replies[y] = None => ReplyInv(y)'
      /\ Given(r, x)'
    BY <1>2, <1>3, <1>4, ExternalWriteOrigin
<1>6. \A s \in Requests \ {r} : Idles(s)
    BY <1>1, <1>3, <1>4 DEF Idles, TypeOK
<1>7. Idles(r) \/ Moves(r)
    <2>1. CASE UNCHANGED <<pc, answer>> /\ inflight' = inflight \ {r}
        BY <1>3, <2>1 DEF Idles
    <2>2. CASE /\ inflight' = inflight
               /\ answer' = [answer EXCEPT ![r] =
                               [reply |-> x, content |-> replies'[x].content]]
               /\ pc' = [pc EXCEPT ![r] = "saving"]
        <3>1. answer'[r].reply = x
            BY <1>1, <2>2 DEF TypeOK
        <3>2. AnswerInv(r)'
            BY <1>5, <3>1 DEF AnswerInv
        <3>3. AskedInv(r)'
            BY <1>2, <1>3 DEF AskedInv, Asked, Entry
        <3>4. QED
            BY <1>3, <3>2, <3>3 DEF Moves
    <2>3. QED
        BY <1>4, <2>1, <2>2
<1>8. QED
    BY <1>3, <1>5, <1>6, <1>7, OriginFrame

(* savePublishedReply inserts a row for the operation it serves, or gives its
   key to the row retrieval stored for that operation's reply. *)
LEMMA SavePublishedReplyOrigin ==
    ASSUME IInv, OriginInv, NEW r \in Requests, SavePublishedReply(r)
    PROVE  OriginInv'
<1>reply. PICK x \in Requests : x = answer[r].reply
    BY DEF SavePublishedReply, IInv, HandlerInv, TypeOK, Answer
<1>1. /\ TypeOK /\ Asked(r) /\ Given(r, x) /\ pc[r] = "saving"
      /\ \A i \in CommentIds : RowInv(i)
    BY <1>reply DEF SavePublishedReply, IInv, OriginInv, AskedInv, AnswerInv, Asking
<1>2. query[r] \in Query /\ ReplyInv(x)
    BY <1>1 DEF Asked, OriginInv
<1>row. PICK id \in CommentIds : id = <<PostOf[query[r].parent], x>>
    BY <1>2, EntryType
<1>3. /\ Entry(r) = <<AccountOf[PostOf[query[r].parent]], query[r].key>>
      /\ id[1] = PostOf[query[r].parent] /\ id[2] = x
      /\ query[r].key \in Keys /\ query[r].key # None /\ Entry(r)[1] = AccountOf[id[1]]
    BY <1>2, <1>row, EntryType, NoneAssumption DEF Entry, AccountFor
<1>4. /\ UNCHANGED <<operations, replies, inflight, query, begun>>
      /\ pc'[r] \in {"publishing", "failing"}
      /\ \A s \in Requests \ {r} :
           pc'[s] = pc[s] /\ result'[s] = result[s] /\ answer'[s] = answer[s]
    BY <1>1 DEF SavePublishedReply, Fail, Goto, TypeOK, provider
<1>5. (\A i \in CommentIds : comments'[i] = comments[i] \/ RowInv(i)')
    <2>1. CASE comments' = comments
        BY <2>1
    <2>2. CASE InsertOrAttach(r, id)
        <3>1. comments' = [comments EXCEPT ![id] =
                 IF comments[id] = None THEN NewRow(r)
                 ELSE AttachKey(comments[id], query[r].key)]
            BY <2>2 DEF InsertOrAttach
        <3>2. \A i \in CommentIds : i # id => comments'[i] = comments[i]
            BY <1>1, <3>1 DEF TypeOK
        <3>3. CASE comments[id] = None
            <4>1. comments'[id] = NewRow(r)
                BY <1>1, <1>3, <3>1, <3>3 DEF TypeOK
            <4>2. comments'[id].parent = query[r].parent /\ comments'[id].key = query[r].key
                BY <4>1 DEF NewRow
            <4>3. RowInv(id)'
                BY <1>1, <1>3, <1>4, <4>2 DEF RowInv, Given, Asked
            <4>4. QED
                BY <3>2, <4>3
        <3>4. CASE comments[id] # None /\ comments[id].key # None
            <4>1. comments[id] \in Row
                BY <1>1, <1>3, <3>4 DEF TypeOK
            <4>2. AttachKey(comments[id], query[r].key) = comments[id]
                BY <3>4, <4>1 DEF AttachKey, Row
            <4>3. comments'[id] = comments[id]
                BY <1>1, <1>3, <3>1, <3>4, <4>2 DEF TypeOK
            <4>4. QED
                BY <3>2, <4>3
        <3>5. CASE comments[id] # None /\ comments[id].key = None
            <4>1. comments[id] \in Row /\ RowInv(id)
                BY <1>1, <1>3, <3>5 DEF TypeOK
            <4>2. comments'[id] = AttachKey(comments[id], query[r].key)
                BY <1>1, <1>3, <3>1, <3>5 DEF TypeOK
            <4>3. /\ comments'[id].parent = comments[id].parent
                  /\ comments'[id].key = query[r].key
                BY <3>5, <4>1, <4>2 DEF AttachKey, Row
            <4>4. /\ comments[id].parent = replies[x].parent
                  /\ PostOf[replies[x].parent] = id[1]
                BY <1>3, <3>5, <4>1 DEF RowInv
            <4>5. <<replies[x].account, replies[x].key>> = Entry(r)
                BY <1>1, <1>2, <1>3, <4>4 DEF ReplyInv, Given, AccountFor
            <4>6. operations[Entry(r)].parent = comments[id].parent
                BY <1>1, <1>2, <4>4, <4>5 DEF ReplyInv, Given
            <4>7. RowInv(id)'
                BY <1>1, <1>3, <1>4, <4>3, <4>4, <4>6 DEF RowInv, Given, Asked
            <4>8. QED
                BY <3>2, <4>7
        <3>6. QED
            BY <3>3, <3>4, <3>5
    <2>3. QED
        BY <1>reply, <1>row, <2>1, <2>2 DEF SavePublishedReply, SavedReply, InsertOrAttach
<1>6. Keeps /\ \A y \in Requests : replies[y] = None => ReplyInv(y)'
    BY <1>4 DEF Keeps, ReplyInv
<1>7. Moves(r)
    BY <1>1, <1>4 DEF Moves, AskedInv, AnswerInv, Asked, Entry
<1>8. \A s \in Requests \ {r} : Idles(s)
    BY <1>4 DEF Idles
<1>9. QED
    BY <1>5, <1>6, <1>7, <1>8, OriginFrame

(* Retrieval stores a reply under the post it answers, and keeps the key. *)
LEMMA ImportOrigin ==
    ASSUME IInv, OriginInv, NEW x \in Requests, Import(x)
    PROVE  OriginInv'
<1>1. /\ TypeOK /\ replies[x] # None /\ ReplyInv(x)
      /\ UNCHANGED <<operations, active, provider, pc, query, begun, answer, result>>
    BY DEF Import, IInv, OriginInv
<1>row. PICK id \in CommentIds : id = <<PostOf[replies[x].parent], x>>
    BY <1>1, OriginTypes
<1>2. id[1] = PostOf[replies[x].parent] /\ id[2] = x
    BY <1>row
<1>3. comments' = [comments EXCEPT ![id] =
         [parent |-> replies[x].parent, content |-> replies[x].content,
          key |-> ImportedKey(comments[id])]]
    BY <1>row DEF Import
<1>4. /\ comments'[id].parent = replies[x].parent
      /\ comments'[id].key = ImportedKey(comments[id])
      /\ \A i \in CommentIds : i # id => comments'[i] = comments[i]
    BY <1>1, <1>2, <1>3 DEF TypeOK
<1>5. comments'[id].key # None => comments'[id].key = replies[x].key
    BY <1>2, <1>4 DEF ImportedKey, OriginInv, RowInv
<1>6. /\ replies[x].account = AccountOf[id[1]]
      /\ LET e == <<replies[x].account, replies[x].key>> IN
           operations[e] # None /\ operations[e].parent = replies[x].parent
    BY <1>1, <1>2 DEF ReplyInv, AccountFor
<1>7. RowInv(id)'
    BY <1>1, <1>2, <1>4, <1>5, <1>6 DEF RowInv, provider
<1>8. Keeps /\ \A y \in Requests : replies[y] = None => ReplyInv(y)'
    BY <1>1 DEF Keeps, ReplyInv, provider
<1>9. \A s \in Requests : Idles(s)
    BY <1>1 DEF Idles, provider
<1>10. QED
    BY <1>4, <1>7, <1>8, <1>9, OriginFrame

(* An edit changes a reply's content only. *)
LEMMA EditOrigin ==
    ASSUME IInv, OriginInv, NEW x \in Requests, NEW c \in Contents, EditReply(x, c)
    PROVE  OriginInv'
<1>1. /\ TypeOK /\ replies[x] # None
      /\ replies' = [replies EXCEPT ![x].content = c]
      /\ UNCHANGED <<tables, inflight, pc, query, begun, answer, result>>
    BY DEF EditReply, IInv
<1>2. replies[x] \in Reply
    BY <1>1 DEF TypeOK
<1>3. [replies[x] EXCEPT !.content = c] \in Reply
    BY <1>2 DEF Reply
<1>4. Keeps
    <2>1. \A y \in Requests :
             replies'[y] = IF y = x THEN [replies[x] EXCEPT !.content = c] ELSE replies[y]
        BY <1>1 DEF TypeOK
    <2>2. /\ replies'[x] # None
          /\ replies'[x].account = replies[x].account
          /\ replies'[x].key = replies[x].key
          /\ replies'[x].parent = replies[x].parent
        BY <1>2, <1>3, <2>1, NoneAssumption DEF Reply
    <2>3. QED
        BY <1>1, <2>1, <2>2 DEF Keeps, tables
<1>5. \A y \in Requests : replies[y] = None => ReplyInv(y)'
    BY <1>1 DEF TypeOK, ReplyInv
<1>6. \A s \in Requests : Idles(s)
    BY <1>1 DEF Idles
<1>7. QED
    BY <1>1, <1>4, <1>5, <1>6, OriginFrame DEF tables

(* Steps that leave handlers, operations, rows and replies alone. *)
LEMMA StillOrigin ==
    ASSUME IInv, OriginInv,
           UNCHANGED <<operations, comments, replies, inflight, pc, query, begun,
                       answer, result>>
    PROVE  OriginInv'
<1>1. Keeps /\ \A y \in Requests : replies[y] = None => ReplyInv(y)'
    BY DEF Keeps, ReplyInv
<1>2. \A s \in Requests : Idles(s)
    BY DEF Idles
<1>3. QED
    BY <1>1, <1>2, OriginFrame

-----------------------------------------------------------------------------
(* The properties *)

(* Where calls, replies and rows come from holds in every reachable state. *)
LEMMA OriginHolds == Spec => []OriginInv
<1>1. Init => OriginInv
    BY DEF Init, OriginInv, AskedInv, Asking, AnswerInv, ReplyInv, RowInv
<1>2. IInv /\ OriginInv /\ [Next]_vars => OriginInv'
    <2>1. ASSUME IInv, OriginInv, NEW r \in Requests, Handler(r) PROVE OriginInv'
        BY <2>1, QuietOrigin, StartOperationOrigin, MarkOrigin, WriteOrigin,
           SavePublishedReplyOrigin DEF Handler, Begin, Gateway
    <2>2. ASSUME IInv, OriginInv, NEW p \in Parents, ObserveParent(p) PROVE OriginInv'
        BY <2>2, StillOrigin DEF ObserveParent, provider
    <2>3. ASSUME IInv, OriginInv, UNCHANGED vars PROVE OriginInv'
        BY <2>3, StillOrigin DEF vars
    <2>4. QED
        BY <2>1, <2>2, <2>3, FindContextOrigin, QuietOrigin, WriteOrigin, ImportOrigin,
           EditOrigin DEF Next, Quiescent
<1>3. QED
    BY <1>1, <1>2, Invariance, PTL DEF Spec

(* The row of a published operation. *)
LEMMA PublishedOrigin ==
    ASSUME IInv, OriginInv, NEW e \in Accounts \X Keys,
           operations[e] # None, operations[e].status = "published"
    PROVE  LET op == operations[e]
               reply == replies[op.comment[2]]
           IN
           /\ op.comment \in StoredUnder(e[1], e[2])
           /\ comments[op.comment].parent = op.parent
           /\ OneNativeAccount =>
                reply # None /\ reply.account = e[1] /\ reply.parent = op.parent
<1> DEFINE id == operations[e].comment
           y == replies[id[2]]
<1>1. id \in CommentIds /\ id \in StoredUnder(e[1], e[2]) /\ RowInv(id)
    BY PublishedRow DEF OriginInv
<1>2. /\ comments[id] # None /\ comments[id].key = e[2] /\ AccountOf[id[1]] = e[1]
      /\ e[2] # None /\ e = <<e[1], e[2]>> /\ id[2] \in Requests
    BY <1>1, NoneAssumption DEF StoredUnder
<1>3. /\ comments[id].parent = operations[e].parent
      /\ y # None /\ y.key = e[2]
      /\ OneNativeAccount => y.account = e[1]
    BY <1>1, <1>2 DEF RowInv
<1>4. OneNativeAccount => y.parent = operations[e].parent
    BY <1>2, <1>3 DEF OriginInv, ReplyInv
<1>5. QED
    BY <1>1, <1>3, <1>4

(* A published operation is attached to a row of its own account that carries
   its key and answers its parent, never to a row another operation owns. *)
THEOREM OwnsItsRowHolds == Spec => []PublishedOwnsItsRow
<1>1. IInv /\ OriginInv => PublishedOwnsItsRow
    BY PublishedOrigin DEF PublishedOwnsItsRow
<1>2. QED
    BY <1>1, Invariance, OriginHolds, PTL

(* While one account uses the native gateway, the reply a published operation
   shows was written through its own account, for its own parent: no import, late
   effect or retry of another account that uses the key gets in between. *)
THEOREM OwnAccountHolds == OneNativeAccount => (Spec => []PublishedOnOwnAccount)
<1> SUFFICES ASSUME OneNativeAccount PROVE Spec => []PublishedOnOwnAccount
    OBVIOUS
<1>1. IInv /\ OriginInv => PublishedOnOwnAccount
    BY PublishedOrigin DEF PublishedOnOwnAccount
<1>2. QED
    BY <1>1, Invariance, OriginHolds, PTL

-----------------------------------------------------------------------------
(* When a conflict is answered *)

(* Clients spell a parent in one way, replies are not edited, and one account
   uses the native gateway: each of the three is needed, since a request with an
   upper-case id, a reply that is edited before it is stored, and the reply of
   another account with another content are conflicts nobody's reuse caused. *)
Plain == Spellings = {"canonical"} /\ ~Edits /\ OneNativeAccount

Serves(s, e) == query[s] \in Query /\ Entry(s) = e

(* Two requests of the entry carry different bodies. *)
Split(e) ==
    \E s, t \in Requests :
        /\ Serves(s, e) /\ Serves(t, e)
        /\ query[s].parent # query[t].parent \/ query[s].content # query[t].content

(* The handler answers a conflict, or is about to repeat a recorded one. *)
Conflicted(r) ==
    \/ result[r] # None /\ result[r].code = "IDEMPOTENCY_CONFLICT"
    \/ begun[r] # None /\ begun[r].code = "IDEMPOTENCY_CONFLICT"

(* An operation holds the claim of some request, and a conflict only if there
   is one. *)
ClaimInv(e) ==
    operations[e] # None =>
        /\ \E s \in Requests : /\ Serves(s, e)
                               /\ operations[e].parent = query[s].parent
                               /\ operations[e].fingerprint = Fingerprint(query[s])
        /\ operations[e].code = "IDEMPOTENCY_CONFLICT" => Split(e)

(* What the provider, the answers and the rows hold is what was asked for. *)
BodyInv ==
    /\ \A x \in Requests : replies[x] # None => replies[x].content = query[x].content
    /\ \A r \in Requests : pc[r] = "saving" =>
         answer[r].content = replies[answer[r].reply].content
    /\ \A id \in CommentIds : comments[id] # None =>
         comments[id].content = replies[id[2]].content
    /\ \A e \in Accounts \X Keys : ClaimInv(e)
    /\ \A r \in Requests : Conflicted(r) => query[r] \in Query /\ Split(Entry(r))

(* A request keeps its query. *)
Kept == \A s \in Requests : query[s] \in Query => query'[s] = query[s]

LEMMA QueryKept ==
    ASSUME IInv, [Next]_vars
    PROVE  Kept
<1> USE DEF Kept, tables, provider, vars
<1>1. ASSUME NEW r \in Requests, FindContext(r) PROVE Kept
    <2>1. query[r] = None /\ TypeOK
        BY <1>1 DEF FindContext, IInv, HandlerInv
    <2> QED BY <1>1, <2>1, NoneAssumption DEF FindContext, TypeOK
<1>2. ASSUME NEW r \in Requests, Handler(r) \/ Abandon(r) \/ TakeEffect(r) \/ Import(r)
      PROVE  query' = query
    BY <1>2 DEF Handler, Begin, Gateway, ReplayWithoutContext, StartOperation, RejectReuse,
       LoadOperation, RecoverStored, NothingStored, GatewayConfirms, GatewayRejects,
       GatewayUnknown, SavePublishedReply, MarkPublished, MarkFailed, MarkDeleted,
       ReturnResult, Abandon, TakeEffect, Import
<1>3. ASSUME NEW x \in Requests, NEW c \in Contents, EditReply(x, c) PROVE query' = query
    BY <1>3 DEF EditReply
<1>4. ASSUME NEW q \in Parents, ObserveParent(q) PROVE query' = query
    BY <1>4 DEF ObserveParent
<1> QED
    BY <1>1, <1>2, <1>3, <1>4 DEF Next, Quiescent

LEMMA SplitKept ==
    ASSUME Kept
    PROVE  /\ \A s \in Requests : \A e : Serves(s, e) => Serves(s, e)'
           /\ \A e : Split(e) => Split(e)'
<1>1. \A s \in Requests : \A e : Serves(s, e) => Serves(s, e)' /\ query'[s] = query[s]
    BY DEF Kept, Serves, Entry
<1> QED
    BY <1>1 DEF Split

(* A step keeps the invariant if what it writes itself is right. *)
LEMMA BodyFrame ==
    ASSUME IInv, OriginInv, BodyInv, Kept,
           \A x \in Requests : replies[x] # None => replies'[x] = replies[x],
           \A x \in Requests : replies'[x] # replies[x] =>
             query[x] \in Query /\ replies'[x].content = query[x].content,
           \A s \in Requests : pc'[s] = "saving" =>
             \/ pc[s] = "saving" /\ answer'[s] = answer[s]
             \/ answer'[s].content = replies'[answer'[s].reply].content,
           \A id \in CommentIds :
             \/ comments'[id] = comments[id]
             \/ comments'[id].content = replies'[id[2]].content,
           \A e \in Accounts \X Keys : operations'[e] = operations[e] \/ ClaimInv(e)',
           \A s \in Requests : Conflicted(s)' =>
             Conflicted(s) \/ (query[s] \in Query /\ Split(Entry(s)))
    PROVE  BodyInv'
<1>a. TypeOK
    BY DEF IInv
<1>1. \A x \in Requests : replies'[x] # None => replies'[x].content = query'[x].content
    <2> SUFFICES ASSUME NEW x \in Requests, replies'[x] # None
                 PROVE  replies'[x].content = query'[x].content
        OBVIOUS
    <2>1. CASE replies'[x] # replies[x]
        BY <2>1 DEF Kept
    <2>2. CASE replies'[x] = replies[x]
        <3>1. query[x] \in Query
            BY <1>a, <2>2 DEF OriginInv, ReplyInv, TypeOK
        <3> QED BY <2>2, <3>1 DEF BodyInv, Kept
    <2> QED BY <2>1, <2>2
<1>2. \A s \in Requests : pc'[s] = "saving" =>
         answer'[s].content = replies'[answer'[s].reply].content
    <2> SUFFICES ASSUME NEW s \in Requests, pc[s] = "saving"
                 PROVE  answer[s].content = replies'[answer[s].reply].content
        OBVIOUS
    <2>1. /\ answer[s].reply \in Requests /\ replies[answer[s].reply] # None
          /\ answer[s].content = replies[answer[s].reply].content
        BY DEF OriginInv, AnswerInv, Given, BodyInv, IInv, HandlerInv, TypeOK, Answer
    <2> QED BY <2>1
<1>3. \A id \in CommentIds : comments'[id] # None =>
         comments'[id].content = replies'[id[2]].content
    <2> SUFFICES ASSUME NEW id \in CommentIds, comments[id] # None
                 PROVE  comments[id].content = replies'[id[2]].content
        OBVIOUS
    <2>1. /\ id[2] \in Requests /\ replies[id[2]] # None
          /\ comments[id].content = replies[id[2]].content
        BY DEF OriginInv, RowInv, BodyInv
    <2> QED BY <2>1
<1>4. \A e \in Accounts \X Keys : ClaimInv(e)'
    <2> SUFFICES ASSUME NEW e \in Accounts \X Keys, operations'[e] = operations[e],
                        operations[e] # None
                 PROVE  ClaimInv(e)'
        BY DEF ClaimInv
    <2>1. PICK s \in Requests : /\ Serves(s, e)
                                /\ operations[e].parent = query[s].parent
                                /\ operations[e].fingerprint = Fingerprint(query[s])
        BY DEF BodyInv, ClaimInv
    <2>2. Serves(s, e)' /\ query'[s] = query[s]
        BY <2>1, SplitKept DEF Serves, Kept
    <2>3. operations[e].code = "IDEMPOTENCY_CONFLICT" => Split(e)'
        BY SplitKept DEF BodyInv, ClaimInv
    <2> QED BY <2>1, <2>2, <2>3 DEF ClaimInv
<1>5. \A s \in Requests : Conflicted(s)' => query'[s] \in Query /\ Split(Entry(s))'
    <2> SUFFICES ASSUME NEW s \in Requests, query[s] \in Query, Split(Entry(s))
                 PROVE  query'[s] \in Query /\ Split(Entry(s))'
        BY DEF BodyInv
    <2>1. query'[s] = query[s] /\ Entry(s)' = Entry(s)
        BY DEF Kept, Entry
    <2>2. \A e : Split(e) => Split(e)'
        BY SplitKept
    <2>3. Split(Entry(s))'
        BY <2>1, <2>2 DEF Split
    <2> QED BY <2>1, <2>3
<1> QED
    BY <1>1, <1>2, <1>3, <1>4, <1>5 DEF BodyInv

(* A stored row, or an operation, that disagrees with a request was written for
   another body. *)
LEMMA Disagreement ==
    ASSUME Plain, IInv, OriginInv, BodyInv, NEW r \in Requests, query[r] \in Query
    PROVE  /\ operations[Entry(r)] # None /\ ~MatchesOperation(operations[Entry(r)], query[r])
                => Split(Entry(r))
           /\ \A id \in StoredUnder(Entry(r)[1], Entry(r)[2]) :
                ~IsReplayOf(comments[id], query[r]) => Split(Entry(r))
           /\ \A x \in Requests : \A account, key :
                /\ replies[x] # None /\ Entry(r) = <<account, key>>
                /\ replies[x].account = account /\ replies[x].key = key
                => Serves(x, Entry(r)) /\ replies[x].content = query[x].content
<1> DEFINE e == Entry(r)
<1>1. /\ TypeOK /\ e \in Accounts \X Keys /\ Serves(r, e)
      /\ e = <<AccountFor(query[r].parent), query[r].key>>
      /\ query[r].spelling = "canonical" /\ query[r].key # None
    BY EntryType, NoneAssumption DEF IInv, Serves, Entry, Plain, Query
<1>2. ASSUME operations[e] # None
      PROVE  \E s \in Requests : /\ Serves(s, e) /\ query[s].spelling = "canonical"
                                 /\ operations[e].parent = query[s].parent
                                 /\ operations[e].fingerprint = Fingerprint(query[s])
    BY <1>1, <1>2 DEF BodyInv, ClaimInv, Serves, Plain, Query
<1>3. ASSUME operations[e] # None, ~MatchesOperation(operations[e], query[r])
      PROVE  Split(e)
    BY <1>1, <1>2, <1>3 DEF MatchesOperation, SameParent, Fingerprint, Split
<1>4. ASSUME NEW x \in Requests, replies[x] # None,
             <<replies[x].account, replies[x].key>> = e
      PROVE  Serves(x, e) /\ replies[x].content = query[x].content
    <2>1. /\ query[x] # None /\ replies[x].parent = query[x].parent
          /\ replies[x].key = query[x].key
          /\ replies[x].account = AccountFor(replies[x].parent)
        BY <1>4 DEF OriginInv, ReplyInv
    <2> QED BY <1>1, <1>4, <2>1 DEF TypeOK, Serves, Entry, BodyInv
<1>5. ASSUME NEW id \in StoredUnder(e[1], e[2]), ~IsReplayOf(comments[id], query[r])
      PROVE  Split(e)
    <2>1. /\ id \in CommentIds /\ comments[id] # None /\ comments[id].key = query[r].key
          /\ <<AccountOf[id[1]], comments[id].key>> = e
        BY <1>1, <1>5 DEF StoredUnder
    <2>2. /\ id[2] \in Requests /\ replies[id[2]] # None
          /\ replies[id[2]].key = comments[id].key
          /\ replies[id[2]].account = AccountOf[id[1]]
          /\ operations[e] # None /\ operations[e].parent = comments[id].parent
          /\ comments[id].content = replies[id[2]].content
        BY <1>1, <2>1 DEF OriginInv, RowInv, Plain, BodyInv
    <2>3. CASE comments[id].parent # query[r].parent
        BY <1>1, <1>2, <2>2, <2>3 DEF Split
    <2>4. CASE comments[id].content # query[r].content
        <3>1. Serves(id[2], e) /\ replies[id[2]].content = query[id[2]].content
            BY <1>4, <2>1, <2>2
        <3> QED BY <1>1, <2>2, <2>4, <3>1 DEF Split
    <2>5. comments[id].parent # query[r].parent \/ comments[id].content # query[r].content
        BY <1>1, <1>5, <2>1 DEF IsReplayOf, SameParent
    <2> QED BY <2>3, <2>4, <2>5
<1> QED BY <1>1, <1>3, <1>4, <1>5

(* The outcomes a handler takes from a row or an operation. *)
LEMMA ReplayConflicts ==
    ASSUME Plain, IInv, OriginInv, BodyInv, NEW r \in Requests, query[r] \in Query,
           operations[Entry(r)] # None
    PROVE  LET op == operations[Entry(r)] IN
           /\ op.status = "published" =>
                (ReplayOf(op.comment, query[r]).code = "IDEMPOTENCY_CONFLICT"
                   => Split(Entry(r)))
           /\ op.status \in {"failed", "indeterminate"} =>
                (RecordedFailure(op).code = "IDEMPOTENCY_CONFLICT" => Split(Entry(r)))
<1> DEFINE op == operations[Entry(r)]
<1>1. Entry(r) \in Accounts \X Keys
    BY EntryType
<1>2. ASSUME op.status = "published",
             ReplayOf(op.comment, query[r]).code = "IDEMPOTENCY_CONFLICT"
      PROVE  Split(Entry(r))
    <2>1. /\ op.comment \in CommentIds /\ op.comment # None /\ comments[op.comment] # None
          /\ op.comment \in StoredUnder(Entry(r)[1], Entry(r)[2])
        BY <1>1, <1>2, PublishedRow
    <2>2. ~IsReplayOf(comments[op.comment], query[r])
        BY <1>2, <2>1 DEF ReplayOf, Success
    <2> QED BY <2>1, <2>2, Disagreement
<1>3. ASSUME op.status \in {"failed", "indeterminate"},
             RecordedFailure(op).code = "IDEMPOTENCY_CONFLICT"
      PROVE  Split(Entry(r))
    <2>1. op.code = "IDEMPOTENCY_CONFLICT"
        BY <1>3 DEF RecordedFailure, Failure
    <2> QED BY <1>1, <2>1 DEF BodyInv, ClaimInv
<1> QED BY <1>2, <1>3

(* The steps that only move a handler on. *)
LEMMA QuietBodies ==
    ASSUME Plain, IInv, OriginInv, BodyInv, Kept, NEW r \in Requests,
           \/ FindContext(r) \/ ReplayWithoutContext(r) \/ RejectReuse(r) \/ LoadOperation(r)
           \/ RecoverStored(r) \/ NothingStored(r) \/ GatewayRejects(r) \/ GatewayUnknown(r)
           \/ MarkDeleted(r) \/ ReturnResult(r) \/ Abandon(r)
    PROVE  BodyInv'
<1> USE DEF Goto, Respond, Fail, tables, provider
<1>a. TypeOK /\ HandlerInv(r)
    BY DEF IInv
<1>b. UNCHANGED <<operations, comments, replies, answer>> \/ Abandon(r)
    BY DEF FindContext, ReplayWithoutContext, RejectReuse, LoadOperation, RecoverStored,
       NothingStored, GatewayRejects, GatewayUnknown, MarkDeleted, ReturnResult
<1>c. UNCHANGED <<operations, comments, replies>>
    BY <1>b DEF Abandon
<1>d. /\ pc'[r] # "saving"
      /\ \A s \in Requests \ {r} : /\ pc'[s] = pc[s] /\ begun'[s] = begun[s]
                                   /\ answer'[s] = answer[s] /\ result'[s] = result[s]
    BY <1>a DEF TypeOK, FindContext, ReplayWithoutContext, RejectReuse, LoadOperation,
       RecoverStored, NothingStored, GatewayRejects, GatewayUnknown, MarkDeleted, ReturnResult,
       Abandon
<1>e. FindContext(r) \/ query[r] \in Query
    BY <1>a DEF HandlerInv, ReplayWithoutContext, RejectReuse, LoadOperation,
       RecoverStored, NothingStored, GatewayRejects, GatewayUnknown, MarkDeleted, ReturnResult,
       Abandon
<1>f. \A code : Failure(code).code = code
    BY DEF Failure
<1>g. ASSUME Conflicted(r)'
      PROVE  Conflicted(r) \/ (query[r] \in Query /\ Split(Entry(r)))
    <2>1. CASE FindContext(r)
        <3>1. \/ result'[r] = result[r] \/ result'[r] = Failure("UNSUPPORTED_PLATFORM")
            BY <1>a, <2>1 DEF FindContext, TypeOK
        <3>2. begun' = begun
            BY <2>1 DEF FindContext
        <3> QED BY <1>f, <1>g, <3>1, <3>2 DEF Conflicted
    <2>2. CASE ReplayWithoutContext(r)
        <3> DEFINE op == operations[Entry(r)]
        <3>1. /\ result'[r] = ReplayWithoutActiveContext(op, query[r])
              /\ begun' = begun /\ query[r] \in Query
            BY <1>a, <1>e, <2>2 DEF ReplayWithoutContext, FindContext, TypeOK
        <3>2. Entry(r) \in Accounts \X Keys
            BY <3>1, EntryType
        <3>3. op = None \/ op.status \in Statuses
            BY <1>a, <3>2 DEF TypeOK, Operation
        <3>4. \/ result'[r] = Failure("COMMENT_NOT_FOUND")
              \/ op # None /\ ~MatchesOperation(op, query[r])
              \/ /\ op # None /\ op.status = "published"
                 /\ result'[r] = ReplayOf(op.comment, query[r])
              \/ /\ op # None /\ op.status \in {"failed", "indeterminate"}
                 /\ result'[r] = RecordedFailure(op)
            BY <3>1, <3>3 DEF ReplayWithoutActiveContext, Statuses
        <3> QED
            BY <1>f, <1>g, <3>1, <3>4, Disagreement, ReplayConflicts DEF Conflicted
    <2>3. CASE RejectReuse(r)
        <3>1. /\ operations[Entry(r)] # None
              /\ ~MatchesOperation(operations[Entry(r)], query[r])
              /\ query[r] \in Query
            BY <1>e, <2>3 DEF RejectReuse, FindContext
        <3> QED BY <3>1, Disagreement
    <2>4. CASE LoadOperation(r)
        <3> DEFINE op == operations[Entry(r)]
        <3>1. /\ op # None /\ query[r] \in Query
              /\ \/ /\ op.status = "published" /\ begun'[r] = begun[r]
                    /\ result'[r] = ReplayOf(op.comment, query[r])
                 \/ begun'[r].code = op.code /\ result'[r] = result[r]
            BY <1>a, <1>e, <2>4 DEF LoadOperation, FindContext, TypeOK
        <3>2. op.code = "IDEMPOTENCY_CONFLICT" => Split(Entry(r))
            BY <3>1, EntryType DEF BodyInv, ClaimInv
        <3> QED
            BY <1>g, <3>1, <3>2, ReplayConflicts DEF Conflicted
    <2>5. CASE RecoverStored(r)
        <3>1. PICK id \in StoredUnder(Entry(r)[1], Entry(r)[2]) :
                \/ result'[r] = Success("existing", id)
                \/ ~IsReplayOf(comments[id], query[r])
            BY <1>a, <2>5 DEF RecoverStored, TypeOK
        <3>2. begun'[r] = None /\ query[r] \in Query
            BY <1>a, <1>e, <2>5 DEF RecoverStored, FindContext, TypeOK
        <3>3. Success("existing", id).code = "existing"
            BY DEF Success
        <3> QED
            BY <1>g, <3>1, <3>2, <3>3, Disagreement DEF Conflicted
    <2>6. CASE NothingStored(r)
        <3>1. /\ begun'[r] = None /\ begun[r] # None
              /\ \/ result'[r] = RecordedFailure(begun[r])
                 \/ result'[r] = Failure("PLATFORM_OPERATION_UNSUPPORTED")
                 \/ result'[r] = Failure("INDETERMINATE_PLATFORM_RESULT")
                 \/ result'[r] = result[r]
            BY <1>a, <2>6 DEF NothingStored, TypeOK, HandlerInv
        <3>2. RecordedFailure(begun[r]).code = "IDEMPOTENCY_CONFLICT" =>
                 begun[r].code = "IDEMPOTENCY_CONFLICT"
            BY DEF RecordedFailure, Failure
        <3> QED BY <1>f, <1>g, <3>1, <3>2 DEF Conflicted
    <2>7. CASE GatewayRejects(r)
        <3>1. PICK code \in ProviderFailures : result'[r] = Failure(code)
            BY <1>a, <2>7 DEF GatewayRejects, TypeOK
        <3>2. code # "IDEMPOTENCY_CONFLICT" /\ begun' = begun
            BY <2>7, ProviderAssumption DEF GatewayRejects, RetryableCodes, TerminalCodes
        <3> QED BY <1>f, <1>g, <3>1, <3>2 DEF Conflicted
    <2>8. CASE GatewayUnknown(r)
        <3>1. /\ result'[r] = Failure("INDETERMINATE_PLATFORM_RESULT") /\ begun' = begun
            BY <1>a, <2>8 DEF GatewayUnknown, TypeOK
        <3> QED BY <1>f, <1>g, <3>1 DEF Conflicted
    <2>9. CASE MarkDeleted(r) \/ ReturnResult(r)
        BY <1>g, <2>9 DEF Conflicted, MarkDeleted, ReturnResult
    <2>10. CASE Abandon(r)
        <3>1. result' = result /\ begun'[r] = None
            BY <1>a, <2>10 DEF Abandon, TypeOK
        <3> QED BY <1>g, <3>1 DEF Conflicted
    <2> QED
        BY <2>1, <2>2, <2>3, <2>4, <2>5, <2>6, <2>7, <2>8, <2>9, <2>10
<1>h. \A s \in Requests \ {r} : Conflicted(s)' <=> Conflicted(s)
    BY <1>d DEF Conflicted
<1> QED
    BY <1>c, <1>d, <1>g, <1>h, BodyFrame


(* The steps that write an operation. *)
LEMMA RecordBodies ==
    ASSUME Plain, IInv, OriginInv, BodyInv, Kept, NEW r \in Requests,
           StartOperation(r) \/ MarkPublished(r) \/ MarkFailed(r)
    PROVE  BodyInv'
<1> DEFINE old == operations[Entry(r)]
<1>a. TypeOK /\ HandlerInv(r)
    BY DEF IInv
<1>b. /\ UNCHANGED <<comments, replies, query, begun, answer>>
      /\ query[r] \in Query
    BY <1>a DEF HandlerInv, StartOperation, MarkPublished, MarkFailed, provider
<1>c. Entry(r) \in Accounts \X Keys /\ Entry(r)' = Entry(r) /\ Serves(r, Entry(r))
    BY <1>b, EntryType DEF Entry, Serves
<1>d. None # "IDEMPOTENCY_CONFLICT"
    BY NoneAssumption DEF FailureCodes, IndeterminateCodes
<1>e. \A code : Failure(code).code = code
    BY DEF Failure
<1>1. /\ pc'[r] # "saving"
      /\ \/ result'[r] = result[r] \/ result'[r] = Failure("THROWN")
         \/ result'[r] = Failure("PLATFORM_OPERATION_UNSUPPORTED")
      /\ \A s \in Requests \ {r} : pc'[s] = pc[s] /\ result'[s] = result[s]
    BY <1>a DEF TypeOK, StartOperation, MarkPublished, MarkFailed, Goto, Respond, Fail
<1>2. \A s \in Requests : Conflicted(s)' => Conflicted(s)
    BY <1>b, <1>e, <1>1 DEF Conflicted
<1>3. ASSUME NEW new \in Operation,
             operations' = [operations EXCEPT ![Entry(r)] = new],
             \/ /\ new.parent = query[r].parent /\ new.fingerprint = Fingerprint(query[r])
             \/ /\ old # None /\ new.parent = old.parent
                /\ new.fingerprint = old.fingerprint,
             new.code = "IDEMPOTENCY_CONFLICT" => Split(Entry(r))
      PROVE  \A e \in Accounts \X Keys : operations'[e] = operations[e] \/ ClaimInv(e)'
    <2>1. /\ operations'[Entry(r)] = new
          /\ \A e \in Accounts \X Keys : e # Entry(r) => operations'[e] = operations[e]
        BY <1>a, <1>c, <1>3 DEF TypeOK
    <2>2. PICK s \in Requests : /\ Serves(s, Entry(r)) /\ new.parent = query[s].parent
                                /\ new.fingerprint = Fingerprint(query[s])
        BY <1>c, <1>3 DEF BodyInv, ClaimInv
    <2>3. Serves(s, Entry(r))' /\ query'[s] = query[s]
        BY <1>b, <2>2 DEF Serves, Entry
    <2>4. new.code = "IDEMPOTENCY_CONFLICT" => Split(Entry(r))'
        BY <1>3, <1>b, <1>c, SplitKept DEF Split, Serves, Entry
    <2>5. \E t \in Requests : /\ Serves(t, Entry(r))' /\ new.parent = query'[t].parent
                              /\ new.fingerprint = Fingerprint(query'[t])
        BY <2>2, <2>3
    <2>6. ClaimInv(Entry(r))'
        BY <1>c, <2>1, <2>4, <2>5 DEF ClaimInv, Serves, Split, Entry, Fingerprint
    <2> QED
        BY <1>c, <2>1, <2>6
<1>4. \A e \in Accounts \X Keys : operations'[e] = operations[e] \/ ClaimInv(e)'
    <2>1. CASE StartOperation(r)
        <3> DEFINE new == [status |-> "pending", parent |-> query[r].parent,
                           fingerprint |-> Fingerprint(query[r]),
                           comment |-> None, code |-> None]
        <3>1. /\ new \in Operation /\ new.parent = query[r].parent
              /\ new.fingerprint = Fingerprint(query[r]) /\ new.code = None
            BY <1>b, EntryType DEF Operation, Statuses, Fingerprints, Fingerprint, Query
        <3>2. operations' = [operations EXCEPT ![Entry(r)] = new]
            BY <2>1 DEF StartOperation
        <3> HIDE DEF new
        <3> QED BY <1>3, <1>d, <3>1, <3>2
    <2>2. CASE MarkPublished(r)
        <3> DEFINE new == [old EXCEPT !.status = "published",
                                      !.comment = result[r].comment, !.code = None]
        <3>1. old \in Operation /\ old # None /\ result[r].comment \in CommentIds
            BY <1>a, <1>c, <2>2 DEF TypeOK, MarkPublished, HandlerInv, StoredUnder
        <3>2. /\ new \in Operation /\ new.parent = old.parent
              /\ new.fingerprint = old.fingerprint /\ new.code = None
            BY <3>1 DEF Operation, Statuses
        <3>3. operations' = [operations EXCEPT ![Entry(r)] = new] \/ operations' = operations
            BY <2>2 DEF MarkPublished
        <3> HIDE DEF new
        <3> QED BY <1>3, <1>d, <3>1, <3>2, <3>3
    <2>3. CASE MarkFailed(r)
        <3> DEFINE code == result[r].code
                   new == [old EXCEPT !.status = StatusOf(code), !.comment = None,
                                      !.code = code]
        <3>1. old \in Operation /\ old # None /\ result[r] # None /\ code \in FailureCodes
            BY <1>a, <1>c, <2>3 DEF TypeOK, MarkFailed, HandlerInv
        <3>2. /\ new \in Operation /\ new.parent = old.parent
              /\ new.fingerprint = old.fingerprint /\ new.code = code
            BY <3>1, StatusOfFits DEF Operation, Statuses
        <3>3. operations' = [operations EXCEPT ![Entry(r)] = new] \/ operations' = operations
            BY <2>3 DEF MarkFailed
        <3>4. code = "IDEMPOTENCY_CONFLICT" => Split(Entry(r))
            BY <3>1 DEF BodyInv, Conflicted
        <3> HIDE DEF new
        <3> QED BY <1>3, <3>1, <3>2, <3>3, <3>4
    <2> QED BY <2>1, <2>2, <2>3
<1> QED
    BY <1>b, <1>1, <1>2, <1>4, BodyFrame

(* A call leaves the reply that was asked for. *)
LEMMA WriteBodies ==
    ASSUME Plain, IInv, OriginInv, BodyInv, Kept, NEW r \in Requests,
           GatewayConfirms(r) \/ TakeEffect(r)
    PROVE  BodyInv'
<1>a. TypeOK /\ HandlerInv(r) /\ AskedInv(r)
    BY DEF IInv, OriginInv
<1>b. /\ UNCHANGED <<operations, comments, query, begun, result>>
      /\ Asked(r) /\ query[r] \in Query
    BY <1>a DEF GatewayConfirms, TakeEffect, tables, AskedInv, Asking, Asked
<1>1. PICK x \in Requests :
        /\ ExternalWrite(r, x)
        /\ \/ /\ pc' = [pc EXCEPT ![r] = "saving"]
              /\ answer' = [answer EXCEPT ![r] =
                              [reply |-> x, content |-> replies'[x].content]]
           \/ UNCHANGED <<pc, answer>>
    BY DEF GatewayConfirms, TakeEffect, Goto
<1> DEFINE new == [account |-> Entry(r)[1], key |-> query[r].key,
                   parent |-> query[r].parent, content |-> query[r].content]
<1>2. /\ \A y \in Requests \ {r} : replies'[y] = replies[y]
      /\ replies'[r] = replies[r] \/ (replies'[r] = new /\ AlreadyPublished(r) = {})
    BY <1>a, <1>1 DEF ExternalWrite, TypeOK
<1>3. new.content = query[r].content
    OBVIOUS
<1>4. ASSUME replies[r] # None, replies'[r] = new PROVE replies'[r] = replies[r]
    <2>1. /\ replies[r] \in Reply
          /\ replies[r].parent = query[r].parent /\ replies[r].key = query[r].key
          /\ replies[r].account = AccountFor(query[r].parent)
          /\ replies[r].content = query[r].content
        BY <1>a, <1>4 DEF TypeOK, OriginInv, ReplyInv, BodyInv
    <2>2. Entry(r)[1] = AccountFor(query[r].parent)
        BY DEF Entry
    <2>3. \A y \in Reply : y = [account |-> y.account, key |-> y.key, parent |-> y.parent,
                                content |-> y.content]
        BY DEF Reply
    <2>4. replies[r] = new
        BY <2>1, <2>2, <2>3
    <2> QED BY <1>4, <2>4
<1> HIDE DEF new
<1>5. \A y \in Requests : replies[y] # None => replies'[y] = replies[y]
    BY <1>2, <1>4
<1>6. \A y \in Requests : replies'[y] # replies[y] =>
         query[y] \in Query /\ replies'[y].content = query[y].content
    BY <1>b, <1>2, <1>3
<1>7. \A s \in Requests : pc'[s] = "saving" =>
         \/ pc[s] = "saving" /\ answer'[s] = answer[s]
         \/ answer'[s].content = replies'[answer'[s].reply].content
    BY <1>a, <1>1 DEF TypeOK
<1>8. \A s \in Requests : Conflicted(s)' <=> Conflicted(s)
    BY <1>b DEF Conflicted
<1> QED
    BY <1>b, <1>5, <1>6, <1>7, <1>8, BodyFrame


(* A row that is inserted, or given its key, holds what the provider answered. *)
LEMMA SaveBodies ==
    ASSUME Plain, IInv, OriginInv, BodyInv, Kept, NEW r \in Requests, SavePublishedReply(r)
    PROVE  BodyInv'
<1>a. /\ TypeOK /\ pc[r] = "saving" /\ query[r] \in Query /\ answer[r] # None
      /\ \A i \in CommentIds : RowInv(i)
    BY DEF SavePublishedReply, IInv, HandlerInv, OriginInv
<1>b. UNCHANGED <<operations, replies, query, begun>>
    BY DEF SavePublishedReply, provider
<1>reply. PICK x \in Requests : x = answer[r].reply
    BY <1>a DEF TypeOK, Answer
<1>c. /\ Entry(r) \in Accounts \X Keys
      /\ Entry(r) = <<AccountOf[PostOf[query[r].parent]], query[r].key>>
      /\ query[r].spelling = "canonical" /\ query[r].key # None
    BY <1>a, EntryType, NoneAssumption DEF Entry, AccountFor, Plain, Query
<1>d. /\ replies[x] # None /\ answer[r].content = replies[x].content
      /\ replies[x].account = Entry(r)[1] /\ replies[x].key = query[r].key
    BY <1>a, <1>reply DEF OriginInv, AnswerInv, Given, Plain, BodyInv
<1>e. Serves(x, Entry(r)) /\ replies[x].content = query[x].content
    BY <1>a, <1>c, <1>d, Disagreement
<1>f. replies[x].parent = query[x].parent
    BY <1>d DEF OriginInv, ReplyInv
<1>1. PICK id \in CommentIds :
        /\ SavedReply(r, id)
        /\ \/ result'[r] = Success(SavedKind(id), id)
           \/ /\ ~IsReplayOf(comments'[id], query[r])
              /\ result'[r] = Failure("IDEMPOTENCY_CONFLICT")
    BY <1>a DEF SavePublishedReply, TypeOK, Fail, Goto
<1>2. CASE id \in StoredUnder(Entry(r)[1], Entry(r)[2]) /\ UNCHANGED comments
    <2>1. ~IsReplayOf(comments'[id], query[r]) => Split(Entry(r))
        BY <1>a, <1>2, Disagreement
    <2>2. Success(SavedKind(id), id).code # "IDEMPOTENCY_CONFLICT"
        BY DEF Success, SavedKind
    <2>3. \A s \in Requests : Conflicted(s)' =>
             Conflicted(s) \/ (query[s] \in Query /\ Split(Entry(s)))
        BY <1>a, <1>b, <1>1, <2>1, <2>2
           DEF Conflicted, SavePublishedReply, Fail, Goto, TypeOK
    <2>4. \A s \in Requests : pc'[s] = "saving" => pc[s] = "saving" /\ answer'[s] = answer[s]
        BY <1>a DEF SavePublishedReply, Fail, Goto, TypeOK
    <2> QED
        BY <1>b, <1>2, <2>3, <2>4, BodyFrame
<1>3. CASE /\ StoredUnder(Entry(r)[1], Entry(r)[2]) = {} /\ InsertOrAttach(r, id)
    <2>1. /\ id = <<PostOf[query[r].parent], x>> /\ id[2] = x
          /\ id[1] = PostOf[query[r].parent] /\ AccountOf[id[1]] = Entry(r)[1]
        BY <1>3, <1>reply, <1>c DEF InsertOrAttach
    <2>2. /\ \A i \in CommentIds : i # id => comments'[i] = comments[i]
          /\ comments'[id] = IF comments[id] = None THEN NewRow(r)
                             ELSE AttachKey(comments[id], query[r].key)
        BY <1>a, <1>3 DEF InsertOrAttach, TypeOK
    <2>3. ASSUME comments[id] = None
          PROVE  /\ comments'[id].content = replies[x].content
                 /\ ~IsReplayOf(comments'[id], query[r]) => Split(Entry(r))
        <3>1. /\ comments'[id].parent = query[r].parent /\ comments'[id].key = query[r].key
              /\ comments'[id].content = replies[x].content
            BY <1>d, <2>2, <2>3 DEF NewRow
        <3>2. ~IsReplayOf(comments'[id], query[r]) => Split(Entry(r))
            BY <1>a, <1>c, <1>e, <3>1 DEF IsReplayOf, SameParent, Split, Serves
        <3> QED BY <3>1, <3>2
    <2>4. ASSUME comments[id] # None
          PROVE  /\ comments'[id].content = replies[x].content
                 /\ ~IsReplayOf(comments'[id], query[r]) => Split(Entry(r))
        <3>1. comments[id] \in Row /\ RowInv(id) /\ comments[id].content = replies[x].content
            BY <1>a, <2>1, <2>4 DEF TypeOK, BodyInv
        <3>2. comments[id].key = None
            <4>1. comments[id].key # None => comments[id].key = query[r].key
                BY <1>d, <2>1, <2>4, <3>1 DEF RowInv
            <4>2. comments[id].key # query[r].key
                BY <1>3, <1>c, <2>1, <2>4 DEF StoredUnder
            <4> QED BY <4>1, <4>2
        <3>3. /\ comments'[id].parent = comments[id].parent
              /\ comments'[id].key = query[r].key
              /\ comments'[id].content = comments[id].content
            BY <2>2, <2>4, <3>1, <3>2 DEF AttachKey, Row
        <3>4. comments[id].parent = query[x].parent
            BY <1>f, <2>1, <2>4, <3>1, <3>2 DEF RowInv
        <3>5. ~IsReplayOf(comments'[id], query[r]) => Split(Entry(r))
            BY <1>a, <1>c, <1>e, <3>1, <3>3, <3>4 DEF IsReplayOf, SameParent, Split, Serves
        <3> QED BY <3>1, <3>3, <3>5
    <2>5. /\ comments'[id].content = replies'[id[2]].content
          /\ ~IsReplayOf(comments'[id], query[r]) => Split(Entry(r))
        BY <1>b, <2>1, <2>3, <2>4
    <2>6. Success(SavedKind(id), id).code # "IDEMPOTENCY_CONFLICT"
        BY DEF Success, SavedKind
    <2>7. \A s \in Requests : Conflicted(s)' =>
             Conflicted(s) \/ (query[s] \in Query /\ Split(Entry(s)))
        BY <1>a, <1>b, <1>1, <2>5, <2>6
           DEF Conflicted, SavePublishedReply, Fail, Goto, TypeOK
    <2>8. \A s \in Requests : pc'[s] = "saving" => pc[s] = "saving" /\ answer'[s] = answer[s]
        BY <1>a DEF SavePublishedReply, Fail, Goto, TypeOK
    <2> QED
        BY <1>b, <2>2, <2>5, <2>7, <2>8, BodyFrame
<1> QED BY <1>1, <1>2, <1>3 DEF SavedReply

LEMMA ImportBodies ==
    ASSUME IInv, OriginInv, BodyInv, Kept, NEW x \in Requests, Import(x)
    PROVE  BodyInv'
<1>1. /\ TypeOK /\ replies[x] # None
      /\ UNCHANGED <<operations, replies, pc, query, begun, answer, result>>
    BY DEF Import, IInv, provider
<1>row. PICK id \in CommentIds : id = <<PostOf[replies[x].parent], x>>
    BY <1>1, OriginTypes
<1>2. /\ comments'[id].content = replies[x].content /\ id[2] = x
      /\ \A i \in CommentIds : i # id => comments'[i] = comments[i]
    BY <1>1, <1>row DEF Import, TypeOK
<1>3. \A s \in Requests : Conflicted(s)' <=> Conflicted(s)
    BY <1>1 DEF Conflicted
<1> QED
    BY <1>1, <1>2, <1>3, BodyFrame

(* Steps that leave the protocol's state alone. *)
LEMMA StillBodies ==
    ASSUME IInv, OriginInv, BodyInv, Kept,
           UNCHANGED <<operations, comments, replies, pc, begun, answer, result>>
    PROVE  BodyInv'
<1>1. \A s \in Requests : Conflicted(s)' <=> Conflicted(s)
    BY DEF Conflicted
<1> QED BY <1>1, BodyFrame

LEMMA BodiesHold == Plain => (Spec => []BodyInv)
<1> SUFFICES ASSUME Plain PROVE Spec => []BodyInv
    OBVIOUS
<1>1. Init => BodyInv
    BY DEF Init, BodyInv, ClaimInv, Conflicted
<1>2. IInv /\ OriginInv /\ BodyInv /\ [Next]_vars => BodyInv'
    <2> SUFFICES ASSUME IInv, OriginInv, BodyInv, [Next]_vars PROVE BodyInv'
        OBVIOUS
    <2>0. Kept
        BY QueryKept
    <2>1. ASSUME NEW r \in Requests,
                 FindContext(r) \/ Handler(r) \/ Abandon(r) \/ TakeEffect(r)
          PROVE  BodyInv'
        BY <2>0, <2>1, QuietBodies, RecordBodies, WriteBodies, SaveBodies
           DEF Handler, Begin, Gateway
    <2>2. ASSUME NEW r \in Requests, Import(r) PROVE BodyInv'
        BY <2>0, <2>2, ImportBodies
    <2>3. ASSUME NEW x \in Requests, NEW c \in Contents, EditReply(x, c) PROVE BodyInv'
        BY <2>3 DEF EditReply, Plain
    <2>4. ASSUME NEW p \in Parents, ObserveParent(p) PROVE BodyInv'
        BY <2>0, <2>4, StillBodies DEF ObserveParent, provider
    <2>5. CASE UNCHANGED vars
        BY <2>0, <2>5, StillBodies DEF vars
    <2> QED
        BY <2>1, <2>2, <2>3, <2>4, <2>5 DEF Next, Quiescent
<1> QED
    BY <1>1, <1>2, Invariance, OriginHolds, PTL DEF Spec

(* A request is answered 409 only if its key was used with two bodies: no
   interleaving of retries, crashes, late effects and retrieval makes an identical
   retry a conflict. *)
THEOREM ConflictsHold == Plain => (Spec => []ConflictOnlyOnReuse)
<1> SUFFICES ASSUME Plain PROVE Spec => []ConflictOnlyOnReuse
    OBVIOUS
<1>1. IInv /\ BodyInv => ConflictOnlyOnReuse
    <2> SUFFICES ASSUME IInv, BodyInv, NEW r \in Requests, pc[r] = "done",
                        result[r].code = "IDEMPOTENCY_CONFLICT"
                 PROVE  \E s \in Requests \ {r} :
                           /\ EntryOf(s) = Entry(r)
                           /\ \/ query[s].parent # query[r].parent
                              \/ query[s].content # query[r].content
        BY DEF ConflictOnlyOnReuse
    <2>1. Split(Entry(r))
        BY DEF IInv, HandlerInv, BodyInv, Conflicted
    <2>2. PICK s, t \in Requests :
            /\ Serves(s, Entry(r)) /\ Serves(t, Entry(r))
            /\ query[s].parent # query[t].parent \/ query[s].content # query[t].content
        BY <2>1 DEF Split
    <2>3. EntryOf(s) = Entry(r) /\ EntryOf(t) = Entry(r)
        BY <2>2, NoneAssumption DEF Serves, EntryOf
    <2> QED
        BY <2>2, <2>3
<1> QED
    BY <1>1, Invariance, BodiesHold, PTL
=============================================================================
