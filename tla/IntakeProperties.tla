-------------------------- MODULE IntakeProperties --------------------------
(* What incoming payments and checkout sessions promise. *)
EXTENDS Intake

(* The wallet a session is bound to has signed a challenge for that very   *)
(* session: whatever mix of the copy in memory, the row and the token      *)
(* executeCheckoutPayment accepts, though the write of the row may fail    *)
(* and a restart forgets the copy in memory.                               *)
PaidByProvenCustomer ==
  \A s \in Sessions : customer[s] # None => <<s, customer[s]>> \in tokens

(* Where Helius's report of a transfer is matched by wallet, an intent     *)
(* counts as paid only by a transfer of its amount, whichever deliveries,  *)
(* retries and expiry runs took place between its match and its update.    *)
PaidInFull ==
  router = "helius" =>
    \A p \in Intents :
      payment[p] \in {"CONFIRMED", "COMPLETED"} => txHash[p] \in Exact

(* Two deliveries of one transfer, at once or one after the other, are not *)
(* both carried out by handleHeliusWebhook, as long as the process lives.  *)
ReportActedOnOnce ==
  \A q, r \in RefHooks :
    /\ q # r /\ by[q] = by[r]
    /\ pc[q] \in {"write", "done"} /\ pc[r] \in {"write", "done"}
    => on[q] = None \/ on[r] = None \/ crashes > 0

(* A session that was completed gets its payment on the merchant's         *)
(* dashboard, unless the process dies in between or the database refuses   *)
(* the payment: confirmCheckoutPayment then logs "DB write skipped" and    *)
(* leaves the session COMPLETED.                                           *)
SessionRecorded ==
  \A s \in Sessions :
    session[s] = "COMPLETED" ~>
      \/ \E c \in Calls :
           on[c] = s /\ (payment[c] # "ABSENT" \/ pc[c] = "skipped")
      \/ crashes > 0

(* An intent that is out of time does not stay PENDING, although it may be *)
(* retried, failed or paid while the job runs and the job may be killed.   *)
DuePaymentsEnd ==
  \A p \in Intents :
    p \in overdue /\ payment[p] = "PENDING" ~> payment[p] # "PENDING"

(* A session that is out of time does not stay open, although a visit that *)
(* began in time may open it again after it expired.                       *)
DueSessionsEnd ==
  \A s \in Sessions : s \in overdue /\ Open(s) ~> ~Open(s)
=============================================================================
