----------------------------- MODULE MCSqlStore -----------------------------
(***************************************************************************)
(* A finite instance of SqlStore for TLC.                                  *)
(***************************************************************************)
EXTENDS SqlStore, TLC

CONSTANTS c1, c2, c3, acme, beta, k1, k2, claim1, claim2, x1, x2, x3, stale, fresh

(* Two comments on a post of one account, one on a post of another. *)
TwoAccounts == (x1 :> acme) @@ (x2 :> acme) @@ (x3 :> beta)

Entry == <<acme, k1>>
Listing(x, content) == [comment |-> x, content |-> content]
Page(items) == [method |-> "saveMany", page |-> items]
Save(x) == [method |-> "savePublishedReply", key |-> k1, comment |-> x, content |-> fresh]

Publication ==
    {[method |-> "begin", entry |-> Entry, claim |-> c] : c \in {claim1, claim2}}
    \cup {[method |-> "findExisting", entry |-> Entry]}
    \cup {Save(x1), Save(x2), Save(x3)}
    \cup {[method |-> "markPublished", entry |-> Entry, comment |-> x] : x \in {x1, x2}}
    \cup {[method |-> "markFailed", entry |-> Entry, status |-> s] :
            s \in {"retryable_failed", "failed"}}

(* Two pages that list the same comments in another order, one of them fetched
   before an edit, and an empty one. *)
Retrieval ==
    {Page(<<Listing(x1, fresh), Listing(x2, fresh)>>),
     Page(<<Listing(x2, stale), Listing(x1, stale)>>), Page(<<>>)}
    \cup {[method |-> "markDeleted", comment |-> x1]}

(* Tables before any call, and after some: an operation nobody finished, one
   whose reply is stored only, a published one beside one of another key, a
   failed one. *)
Op(status, x) == [status |-> status, claim |-> claim1, comment |-> x]
RowOf(key, state) == [key |-> key, content |-> stale, state |-> state, version |-> 1]
History(op, op2, one, two) ==
    [operations |-> (Entry :> op) @@ (<<acme, k2>> :> op2)
                       @@ (<<beta, k1>> :> None) @@ (<<beta, k2>> :> None),
     comments |-> (x1 :> one) @@ (x2 :> two) @@ (x3 :> None)]

Earlier == {
    History(None, None, None, None),
    History(Op("pending", None), None, RowOf(None, "deleted"), None),
    History(Op("retryable_failed", None), None, RowOf(k1, "active"), RowOf(None, "active")),
    History(Op("published", x1), None, RowOf(k1, "deleted"), RowOf(None, "active")),
    History(Op("failed", None), Op("published", x2), None, RowOf(k2, "active"))}

AllWork == Publication \cup Retrieval

Symmetry == Permutations(Calls)
=============================================================================
