---------------------- MODULE PublicationLedgerProofs ----------------------
(***************************************************************************)
(* The promise of PublicationLedger, for all sets of entries, claims and   *)
(* comments.  ReplyPublicationProofs shows that the protocol keeps it.     *)
(***************************************************************************)
EXTENDS PublicationLedger, TLAPS

LedgerInv ==
    /\ DOMAIN ledger = Entries
    /\ \A a \in acknowledged : a[1] \in Entries
    /\ AcknowledgedIsPublished

(* An acknowledged entry is published, and no step touches a published entry:
   Open needs a free one, Decide a less decided and Publish an unpublished one. *)
LEMMA AcknowledgedUntouched ==
    ASSUME LedgerInv, NEW a \in acknowledged, NEW e \in Entries,
           Open(e) \/ Decide(e) \/ Publish(e)
    PROVE  ledger'[a[1]] = ledger[a[1]]
  <1> USE DEF LedgerInv, AcknowledgedIsPublished
  <1>1. CASE Open(e)
    BY <1>1 DEF Open
  <1>2. CASE Decide(e)
    <2>1. PICK s \in {"retryable_failed", "failed", "indeterminate"} :
            /\ Rank[ledger[e].status] < Rank[s]
            /\ ledger' = [ledger EXCEPT ![e] =
                 [status |-> s, claim |-> ledger[e].claim, comment |-> None]]
      BY <1>2 DEF Decide
    <2>2. Rank[s] < Rank["published"]
      BY DEF Rank
    <2>3. ledger[e].status # "published"
      BY <2>1, <2>2 DEF Rank
    <2> QED BY <2>1, <2>3
  <1>3. CASE Publish(e)
    BY <1>3 DEF Publish
  <1> QED BY <1>1, <1>2, <1>3

(* Every step keeps what was acknowledged published with its comment. *)
LEMMA LedgerStep == LedgerInv /\ [LedgerNext]_ledgerVars => LedgerInv'
  <1> SUFFICES ASSUME LedgerInv, [LedgerNext]_ledgerVars PROVE LedgerInv'
    OBVIOUS
  <1>1. CASE UNCHANGED ledgerVars
    BY <1>1 DEF LedgerInv, AcknowledgedIsPublished, ledgerVars
  <1>2. ASSUME NEW e \in Entries, Open(e) \/ Decide(e) \/ Publish(e)
        PROVE  LedgerInv'
    <2>1. DOMAIN ledger' = Entries /\ acknowledged' = acknowledged
      BY <1>2 DEF LedgerInv, Open, Decide, Publish
    <2> QED BY <2>1, <1>2, AcknowledgedUntouched DEF LedgerInv, AcknowledgedIsPublished
  <1>3. ASSUME NEW e \in Entries, Acknowledge(e) PROVE LedgerInv'
    BY <1>3 DEF Acknowledge, LedgerInv, AcknowledgedIsPublished
  <1> QED BY <1>1, <1>2, <1>3 DEF LedgerNext

(* Clients of one key are told of one comment, however long it was retried. *)
THEOREM LedgerAnswersAgree == LedgerSpec => []OneAnswerPerKey
  <1>1. LedgerInit => LedgerInv
    BY DEF LedgerInit, LedgerInv, AcknowledgedIsPublished
  <1>2. LedgerInv => OneAnswerPerKey
    BY DEF LedgerInv, AcknowledgedIsPublished, OneAnswerPerKey
  <1> QED BY <1>1, <1>2, LedgerStep, PTL DEF LedgerSpec
=============================================================================
