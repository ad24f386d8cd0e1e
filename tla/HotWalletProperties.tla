------------------------ MODULE HotWalletProperties ------------------------
(* What refunds and settlements on chain promise. *)
EXTENDS HotWallet

(* What the books call paid has been paid: a refund or settlement that is  *)
(* COMPLETED, and a payment flagged refunded or settled, has a transfer on *)
(* chain behind it, through failover, retries, stale writes and crashes.   *)
RecordedMeansSent ==
  /\ \A r \in Requests : refund[r] = "COMPLETED" => sent[r] > 0
  /\ \A p \in refunded : \E r \in Requests : on[r] = p /\ sent[r] > 0
  /\ \A b \in Batches : batch[b] = "COMPLETED" => sent[b] > 0
  /\ \A p \in settled : \E b \in Batches : p \in got[b] /\ sent[b] > 0

(* Tokens go out only for a refund that a review has approved, whatever    *)
(* another review wrote before or after.                                   *)
SentMeansApproved ==
  \A r \in Requests :
    sent[r] > 0 => \E v \in Reviews : on[v] = r /\ pc[v] = "approved"

(* A refund does not stay PROCESSING while the process lives.              *)
ProcessingEnds ==
  \A r \in Requests :
    refund[r] = "PROCESSING" ~> refund[r] # "PROCESSING" \/ crashes > 0
=============================================================================
