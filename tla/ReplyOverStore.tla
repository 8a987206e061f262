--------------------------- MODULE ReplyOverStore ---------------------------
(***************************************************************************)
(* ReplyPublication on top of AtomicStore: which call of the repositories  *)
(* each await of the use case is, with which arguments, and which answer   *)
(* the handler goes on from.  ReplyPublication has effects of its own for  *)
(* these awaits; the property is that they are the effects of the calls,   *)
(* which SqlStore implements statement by statement.                       *)
(***************************************************************************)
EXTENDS ReplyPublication, Sequences

VARIABLE
    heard    \* history: what the repositories last answered to each handler

storeVars == <<vars, heard>>

StoredComment(r) == <<PostOf[query[r].parent], answer[r].reply>>

(* The call a handler awaits, as the use case asks for it. *)
Awaited(r) ==
    CASE pc[r] = "context" ->
           [method |-> "begin", entry |-> Entry(r), claim |-> Fingerprint(query[r])]
      [] pc[r] = "inactive" ->
           [method |-> "findExisting", entry |-> Entry(r)]
      [] pc[r] = "saving" ->
           [method |-> "savePublishedReply", key |-> query[r].key,
            comment |-> StoredComment(r), content |-> answer[r].content]
      [] pc[r] = "publishing" ->
           [method |-> "markPublished", entry |-> Entry(r), comment |-> result[r].comment]
      [] pc[r] = "failing" ->
           [method |-> "markFailed", entry |-> Entry(r), status |-> StatusOf(result[r].code)]
      [] OTHER -> None

awaitedBar == [r \in Requests |-> Awaited(r)]

(* No reply of ReplyPublication is deleted, and only retrieval counts versions. *)
RowOf(row) ==
    IF row = None THEN None
    ELSE [key |-> row.key, content |-> row.content, state |-> "active", version |-> 1]

rowsBar == [id \in CommentIds |-> RowOf(comments[id])]

(* Handlers ask, so that neither Work nor Histories matters. *)
Store == INSTANCE AtomicStore
    WITH Calls <- Requests, Work <- {}, Histories <- {}, Claims <- Fingerprints,
         Comments <- CommentIds,
         AccountOf <- [id \in CommentIds |-> AccountOf[id[1]]],
         operations <- ledgerBar, comments <- rowsBar, asked <- awaitedBar,
         answers <- heard, returned <- {}

ASSUME StoredRowAssumption == None \notin Store!Row

-----------------------------------------------------------------------------
Hears(r, kind, operation, found) ==
    heard' = [heard EXCEPT ![r] =
                [kind |-> kind, operation |-> operation, found |-> found]]

ShownWith(op) ==
    IF op.comment = None THEN <<>>
    ELSE <<[comment |-> op.comment, row |-> rowsBar[op.comment]]>>

HearsExisting(r) ==
    Hears(r, "existing", ledgerBar[Entry(r)], ShownWith(operations[Entry(r)]))

HearsSaved(r) ==
    \E id \in CommentIds :
        /\ SavedReply(r, id)
        /\ Hears(r, SavedKind(id), None, <<[comment |-> id, row |-> RowOf(comments'[id])]>>)

(* What the answer was that made the handler go on as it does. *)
Answered(r) ==
    \/ StartOperation(r) /\ Hears(r, "started", None, <<>>)
    \/ RejectReuse(r) /\ Hears(r, "conflict", None, <<>>)
    \/ LoadOperation(r) /\ HearsExisting(r)
    \/ /\ ReplayWithoutContext(r)
       /\ IF operations[Entry(r)] = None THEN Hears(r, "missing", None, <<>>)
                                         ELSE HearsExisting(r)
    \/ SavePublishedReply(r) /\ HearsSaved(r)
    \/ MarkPublished(r) /\ Hears(r, IF result'[r].code = "THROWN" THEN "thrown" ELSE "done",
                                 None, <<>>)
    \/ MarkFailed(r) /\ Hears(r, "done", None, <<>>)

(* Every other step, with the reads that are no call of AtomicStore. *)
Unanswered(r) ==
    /\ \/ FindContext(r) \/ RecoverStored(r) \/ NothingStored(r) \/ Gateway(r)
       \/ MarkDeleted(r) \/ ReturnResult(r) \/ Abandon(r) \/ TakeEffect(r) \/ Import(r)
    /\ UNCHANGED heard

(* What happens at the provider, and the end: nobody asks the repositories. *)
AtTheProvider ==
    \/ \E x \in Requests, c \in Contents : EditReply(x, c)
    \/ \E p \in Parents : ObserveParent(p)
    \/ Quiescent

StoreInit == Init /\ heard = [r \in Requests |-> None]

StoreNext ==
    \/ \E r \in Requests : Answered(r) \/ Unanswered(r)
    \/ AtTheProvider /\ UNCHANGED heard

StoreSpec == StoreInit /\ [][StoreNext]_storeVars

-----------------------------------------------------------------------------
Performed(r) ==
    \/ pc[r] = "context" /\ Store!Begin(r)
    \/ pc[r] = "inactive" /\ Store!FindExisting(r)
    \/ pc[r] = "saving" /\ Store!SavePublishedReply(r)
    \/ pc[r] = "publishing" /\ Store!MarkPublished(r)
    \/ pc[r] = "failing" /\ Store!MarkFailed(r)

(* One row of a page, but for the version. *)
Imported(x) ==
    LET id == <<PostOf[replies[x].parent], x>> IN
    /\ replies[x] # None
    /\ rowsBar' = [rowsBar EXCEPT ![id] =
                     [Store!Upsert(@, replies[x].content) EXCEPT !.version = 1]]
    /\ UNCHANGED <<ledgerBar, heard>>

(* The two models of the repositories agree: whatever a handler does to the
   tables at an await, and whatever it concludes there, is effect and answer of
   the one atomic call that it awaits; nothing else writes, but pages. *)
AwaitsAreCalls ==
    [][(\E r \in Requests : Performed(r)) \/ (\E x \in Requests : Imported(x))]_
        <<ledgerBar, rowsBar, heard>>

(* What the store takes for granted is what its callers give it: the tables it is
   started from are such as the use case leaves them (HistoryAssumption), its
   arguments have their types (WorkAssumption), and markPublished and markFailed
   are called only for rows that exist (Askable), whoever died before. *)
CallersKeepToTheContract ==
    /\ Store!Legal(ledgerBar, rowsBar)
    /\ \A r \in Requests : awaitedBar[r] # None =>
          awaitedBar[r] \in Store!Call /\ Store!Askable(awaitedBar[r])
=============================================================================
