------------------------- MODULE PublicationLedger -------------------------
(***************************************************************************)
(* What ThreadBridge promises about reply publication, seen from outside:  *)
(* one durable entry per account and client-chosen key, which is claimed   *)
(* by one request body, only ever moves to a more decided status, is       *)
(* published with one comment for good, and backs every success a client   *)
(* is given.  ReplyPublication, the protocol of the code, implements it.   *)
(***************************************************************************)
EXTENDS Naturals

CONSTANTS
    Entries,   \* account and key pairs
    Claims,    \* request bodies an entry can be opened for
    Replies,   \* identities of stored reply comments
    None       \* "no value"; not an element of the sets above

VARIABLES
    ledger,         \* entry -> None or [status, claim, comment]
    acknowledged    \* <<entry, comment>> pairs clients were told succeeded

ledgerVars == <<ledger, acknowledged>>

(* How decided a status is: reply-publication-operation.ts lists the five. *)
Rank == [pending |-> 0, retryable_failed |-> 1, failed |-> 2,
         indeterminate |-> 3, published |-> 4]

LedgerInit ==
    /\ ledger = [e \in Entries |-> None]
    /\ acknowledged = {}

(* An unused key is claimed by the first request that arrives with it. *)
Open(e) ==
    /\ ledger[e] = None
    /\ \E claim \in Claims :
         ledger' = [ledger EXCEPT ![e] =
                      [status |-> "pending", claim |-> claim, comment |-> None]]
    /\ UNCHANGED acknowledged

(* A failure is recorded only over a less decided status. *)
Decide(e) ==
    /\ ledger[e] # None
    /\ \E s \in {"retryable_failed", "failed", "indeterminate"} :
         /\ Rank[ledger[e].status] < Rank[s]
         /\ ledger' = [ledger EXCEPT ![e] =
              [status |-> s, claim |-> ledger[e].claim, comment |-> None]]
    /\ UNCHANGED acknowledged

(* A stored reply settles the entry, whatever failure was recorded before. *)
Publish(e) ==
    /\ ledger[e] # None
    /\ ledger[e].status # "published"
    /\ \E c \in Replies :
         ledger' = [ledger EXCEPT ![e] =
              [status |-> "published", claim |-> ledger[e].claim, comment |-> c]]
    /\ UNCHANGED acknowledged

(* A client hears of a success only once the entry is published with it. *)
Acknowledge(e) ==
    /\ ledger[e] # None
    /\ ledger[e].status = "published"
    /\ acknowledged' = acknowledged \cup {<<e, ledger[e].comment>>}
    /\ UNCHANGED ledger

LedgerNext ==
    \E e \in Entries : Open(e) \/ Decide(e) \/ Publish(e) \/ Acknowledge(e)

LedgerSpec == LedgerInit /\ [][LedgerNext]_ledgerVars

-----------------------------------------------------------------------------
(* Two clients that use one key of one account are never told of two
   different comments, however long the entry was retried in between. *)
OneAnswerPerKey ==
    \A a, b \in acknowledged : a[1] = b[1] => a[2] = b[2]

(* What a client was told stays true: the entry is published with it. *)
AcknowledgedIsPublished ==
    \A a \in acknowledged :
        /\ ledger[a[1]] # None
        /\ ledger[a[1]].status = "published"
        /\ ledger[a[1]].comment = a[2]
=============================================================================
