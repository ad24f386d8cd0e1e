------------------------ MODULE SettlementProperties ------------------------
(***************************************************************************)
(* What is claimed of Settlement.                                          *)
(***************************************************************************)
EXTENDS Settlement

(* The payments in a payout the provider has accepted. *)
PaidOut == UNION {paymentIds[c] : c \in {d \in Calls : order[d] # "none"}}

(* A payment is marked settled only if the provider has accepted a payout  *)
(* that includes it, whoever marked it and whatever the rows say by then:  *)
(* a webhook may have overwritten the row, the retry job may be paying it  *)
(* again, and the process may have died in between.                        *)
SettledMeansPaid ==
  settled \subseteq PaidOut

Promise == INSTANCE SettlementPromise
  WITH earned <- completed, paidOut <- PaidOut, booked <- settled

(* Settlement keeps SettlementPromise: although calls and jobs overlap,    *)
(* rows are overwritten and a row may be paid by a call that gathered long *)
(* ago, the provider is only asked for payments that were completed, and   *)
(* only payments it has accepted are booked, none ever taken back.         *)
KeepsPromise == Promise!Spec

(* A payment is paid to the merchant once: "Gather completed + unsettled   *)
(* payments", "Idempotency: skip if already settled today".                *)
NoPaymentSettledTwice ==
  \A b, c \in Calls :
    b # c /\ status[b] = "COMPLETED" /\ status[c] = "COMPLETED"
      => paymentIds[b] \cap paymentIds[c] = {}

(* As long as the process lives and no webhook overwrites it, a settlement *)
(* ends COMPLETED, or FAILED with all its retries made, and stays so.      *)
SettlementResolved ==
  \A c \in Calls :
    status[c] # "ABSENT" ~>
      [](status[c] = "COMPLETED"
           \/ (status[c] = "FAILED" /\ retryCount[c] = MaxRetries))

(* As long as the process lives and no answer is lost, what the provider   *)
(* has accepted is booked: the payments end up settled, so that nobody     *)
(* gathers them again.                                                     *)
PaidThenSettled ==
  \A c \in Calls : order[c] # "none" ~> paymentIds[c] \subseteq settled
=============================================================================
