------------------------- MODULE OffRampProperties -------------------------
(***************************************************************************)
(* What is claimed of OffRamp.                                             *)
(***************************************************************************)
EXTENDS OffRamp

(* Both submit and the Solana webhook order the fiat payout of the same    *)
(* transaction, each unaware of the other.  Whatever they interleave with, *)
(* whatever is delivered twice and wherever the process dies, at most one  *)
(* disbursement exists for a transaction, because both name it by the      *)
(* transaction's id.                                                       *)
OneOrderPerTransaction ==
  \A r1, r2 \in Hashes :
    order[r1] # "none" /\ order[r2] # "none" /\ orderFor[r1] = orderFor[r2]
      => r1 = r2

(* The stage of a row in the terms of OffRampPromise. *)
StageOf(t) ==
  IF status[t] = "ABSENT" THEN "absent"
  ELSE IF status[t] \in Unsigned THEN "unsigned" ELSE "launched"

Promise == INSTANCE OffRampPromise
  WITH stage <- [t \in Txs |-> StageOf(t)], payout <- [t \in Txs |-> order[t]]

(* The off-ramp keeps OffRampPromise.  A transaction is launched once its  *)
(* row has left PENDING and AWAITING_SIGNATURE: because it was submitted,  *)
(* because the Solana webhook gave it a deposit, or because it was failed. *)
(* Although every handler writes the status unconditionally, none of them  *)
(* ever makes a launched transaction signable again (execute writes        *)
(* AWAITING_SIGNATURE last, and by then nothing else may hold the row),    *)
(* and fiat is ordered only for a launched transaction, once.  That it was *)
(* signed is not implied: a deposit that matches no row is given to the    *)
(* newest open one, and fiat is then ordered for a transaction that still  *)
(* waited for its signature (a state this run reaches).                    *)
KeepsPromise == Promise!Spec

(* quote.used is read and set at different awaits, so two execute calls    *)
(* may take one quote; but only while neither has set it.  Once one call   *)
(* has marked the quote, no later call is let in, even after the cleanup   *)
(* job has released the quote: it has expired by then.                     *)
AdmissionClosedByMark ==
  [][\A e, f \in Txs :
       /\ exec[e] = "idle" /\ exec'[e] = "create"
       /\ f # e /\ quoteOf[f] = quoteOf'[e]
       => exec[f] \in {"create", "mark", "dead"}]_vars

(* submit's check of the status and its write of SIGNED are two awaits:    *)
(* two calls for one transaction may both pass, but none passes after      *)
(* another has stored SIGNED, however the row has been overwritten since.  *)
SignedOnce ==
  [][\A s, z \in Submits :
       /\ subPc[s] = "idle" /\ subPc'[s] = "sign"
       /\ z # s /\ subTx[z] = subTx'[s]
       => subPc[z] \in {"sign", "dead"}]_vars

(* A transaction marked REFUNDED has no fiat order that is under way or    *)
(* paid, except when a submit call marked it so, after its own swap or     *)
(* payout call had thrown, and the order is not one that call made and was *)
(* told of: another submit call or the Solana webhook made it, or the      *)
(* reply was lost.  In particular no report of the providers, however old  *)
(* or repeated, undoes a payout that stands.                               *)
RefundedOnlyIfUnpaid ==
  \A t \in Txs :
    status[t] = "REFUNDED" /\ order[t] \in {"pending", "paid"} =>
      refunder[t] \in Submits /\ refunder[t] # payer[t]

(* No transaction waits for its signature for ever: the cleanup job fails  *)
(* it if nobody signs it.                                                  *)
AwaitingSignatureTimesOut ==
  \A t \in Txs :
    status[t] = "AWAITING_SIGNATURE" ~> status[t] # "AWAITING_SIGNATURE"

(* A swap that reached the escrow wallet is some day paid out in fiat or   *)
(* marked REFUNDED, as long as no reply is lost, no process dies and the   *)
(* bank account stays: every failure path of submit ends in REFUNDED, and  *)
(* an order Monnify fails later comes back through its webhook.  (The mark *)
(* need not stay: a handler that is late may overwrite it.)                *)
DepositResolved ==
  \A t \in Txs :
    <>(t \in landed) => <>(order[t] = "paid" \/ status[t] = "REFUNDED")
=============================================================================
