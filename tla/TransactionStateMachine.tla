---------------------- MODULE TransactionStateMachine ----------------------
(***************************************************************************)
(* The status machine of an off-ramp transaction: the table                *)
(* VALID_TRANSITIONS and the predicate canTransition that the off-ramp     *)
(* service and the webhook controller consult through assertTransition.    *)
(* A handler that calls assertTransition outside a try block stops when    *)
(* CanTransition is false; one that wraps the call in try {} goes on.      *)
(***************************************************************************)

Statuses ==
  {"INITIATED", "PENDING", "AWAITING_SIGNATURE", "SIGNED", "BROADCASTING",
   "SWAPPING", "SWAPPED", "CRYPTO_RECEIVED", "PAYOUT_PENDING",
   "PAYOUT_PROCESSING", "FIAT_PROCESSING", "COMPLETED", "FAILED", "REFUNDED"}

VALID_TRANSITIONS ==
  [INITIATED          |-> {"AWAITING_SIGNATURE", "FAILED"},
   PENDING            |-> {"AWAITING_SIGNATURE", "FAILED"},
   AWAITING_SIGNATURE |-> {"BROADCASTING", "SIGNED", "SWAPPING", "FAILED"},
   SIGNED             |-> {"BROADCASTING", "SWAPPING", "FAILED"},
   BROADCASTING       |-> {"CRYPTO_RECEIVED", "SWAPPING", "SWAPPED", "FAILED"},
   SWAPPING           |-> {"SWAPPED", "CRYPTO_RECEIVED", "FAILED"},
   SWAPPED            |-> {"CRYPTO_RECEIVED", "FIAT_PROCESSING",
                           "PAYOUT_PENDING", "FAILED", "REFUNDED"},
   CRYPTO_RECEIVED    |-> {"FIAT_PROCESSING", "PAYOUT_PROCESSING",
                           "PAYOUT_PENDING", "FAILED", "REFUNDED"},
   PAYOUT_PENDING     |-> {"FIAT_PROCESSING", "PAYOUT_PROCESSING", "FAILED"},
   PAYOUT_PROCESSING  |-> {"COMPLETED", "FAILED"},
   FIAT_PROCESSING    |-> {"COMPLETED", "FAILED"},
   COMPLETED          |-> {},
   FAILED             |-> {"REFUNDED"},
   REFUNDED           |-> {}]

\* canTransition: an unknown "from" has no successors.
CanTransition(from, to) ==
  from \in Statuses /\ to \in VALID_TRANSITIONS[from]

\* The statuses the table gives no way out of.
Terminal == {s \in Statuses : VALID_TRANSITIONS[s] = {}}
=============================================================================
