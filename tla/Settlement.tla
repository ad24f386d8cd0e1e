----------------------------- MODULE Settlement -----------------------------
(***************************************************************************)
(* Fiat settlement of one merchant: payments complete and are credited to  *)
(* the merchant's escrow balance; triggerSettlement, the daily job and the *)
(* retry job of SettlementService gather what is unsettled and pay it out; *)
(* the settlement branch of the payout provider's webhook writes the same  *)
(* rows.                                                                   *)
(*                                                                         *)
(* As in OffRamp one action is what a handler does at one await.  A        *)
(* settlement row is named by the call that creates it; its id is the      *)
(* reference of the payout.  Every payment has the amount 1: what matters  *)
(* is which payments a sum stands for.                                     *)
(***************************************************************************)
EXTENDS Naturals, FiniteSets

CONSTANTS
  Payments,       \* payments to the merchant
  Escrowed,       \* those whose handler credits the escrow balance
  Triggers,       \* calls of triggerSettlement
  Dailies,        \* runs of the daily job
  RetryJob,       \* the retry job
  ProviderHooks,  \* deliveries to /webhooks/ngn and /webhooks/usdeur
  None,           \* no settlement
  LostReplies,    \* whether a payout may be made although its call throws
  ContractErrors, \* whether the provider may refuse with a contract error
  MaxRetries,     \* rounds of the retry job per settlement, 3 in the code
  MaxAttempts,    \* attempts of retryWithBackoff, 3 in the code
  MaxCrashes      \* how often the server process may die

Calls == Triggers \cup Dailies
Workers == Calls \cup {RetryJob}

ASSUME SettlementAssumption ==
  /\ IsFiniteSet(Payments)
  /\ Escrowed \subseteq Payments
  /\ Triggers \cap Dailies = {}
  /\ RetryJob \notin Calls \cup Payments
  /\ Calls \cap Payments = {}
  /\ None \notin Calls
  /\ LostReplies \in BOOLEAN /\ ContractErrors \in BOOLEAN
  /\ MaxRetries \in Nat /\ MaxAttempts \in Nat \ {0}
  /\ MaxCrashes \in Nat

VARIABLES
  completed,   \* payments with status COMPLETED
  settled,     \* payments with settled = true
  status,      \* settlement.status, "ABSENT" before the row exists
  paymentIds,  \* settlement.paymentIds
  retryCount,  \* settlement.retryCount
  today,       \* the settlements created since midnight
  escrow,      \* merchant.escrowBalance
  pc,          \* where each worker, and each payment's handler, is
  balance,     \* the escrow balance it has read and will write back
  tries,       \* the attempts of its retryWithBackoff so far
  batch,       \* the retry job's array of rows still to visit
  counted,     \* the retryCount of each row in that array
  current,     \* the settlement the retry job is paying
  hookPc,      \* where each webhook delivery is
  hookRow,     \* the settlement it matched
  hookTo,      \* the status it will write
  hookCount,   \* the retryCount it will write
  order,       \* the provider's payouts, by reference
  crashes

payVars == <<completed, settled>>
rowVars == <<status, paymentIds, retryCount, today>>
workVars == <<pc, balance, tries>>
jobVars == <<batch, counted, current>>
hookVars == <<hookPc, hookRow, hookTo, hookCount>>
vars == <<payVars, rowVars, escrow, workVars, jobVars, hookVars, order,
          crashes>>

SettlementStatus == {"PENDING", "PROCESSING", "COMPLETED", "FAILED", "RETRYING"}
Settlements == {c \in Calls : status[c] # "ABSENT"}
(* Defect: findUnsettledPayments does not ask for COMPLETED. *)
BugUnsettled == Payments \ settled
Unsettled == completed \ settled

TypeOK ==
  /\ completed \in SUBSET Payments
  /\ settled \in SUBSET Payments
  /\ status \in [Calls -> SettlementStatus \cup {"ABSENT"}]
  /\ paymentIds \in [Calls -> SUBSET Payments]
  /\ retryCount \in [Calls -> Nat]
  /\ today \in SUBSET Calls
  /\ escrow \in Nat
  /\ pc \in [Workers \cup Payments ->
       {"idle", "gather", "create", "process", "pay", "complete", "debit",
        "debited", "settle", "fail", "credit", "credited", "done", "dead"}]
  /\ balance \in [Workers \cup Payments -> Nat]
  /\ tries \in [Workers -> 0 .. MaxAttempts]
  /\ batch \in SUBSET Calls
  /\ counted \in [Calls -> 0 .. MaxRetries]
  /\ current \in Calls \cup {None}
  /\ hookPc \in [ProviderHooks -> {"idle", "write", "done"}]
  /\ hookRow \in [ProviderHooks -> Calls \cup {None}]
  /\ hookTo \in [ProviderHooks -> SettlementStatus \cup {"ABSENT"}]
  /\ hookCount \in [ProviderHooks -> Nat]
  /\ order \in [Calls -> {"none", "pending", "paid", "failed"}]
  /\ crashes \in Nat

Init ==
  /\ completed = {}
  /\ settled = {}
  /\ status = [c \in Calls |-> "ABSENT"]
  /\ paymentIds = [c \in Calls |-> {}]
  /\ retryCount = [c \in Calls |-> 0]
  /\ today = {}
  /\ escrow = 0
  /\ pc = [w \in Workers \cup Payments |-> "idle"]
  /\ balance = [w \in Workers \cup Payments |-> 0]
  /\ tries = [w \in Workers |-> 0]
  /\ batch = {}
  /\ counted = [c \in Calls |-> 0]
  /\ current = None
  /\ hookPc = [h \in ProviderHooks |-> "idle"]
  /\ hookRow = [h \in ProviderHooks |-> None]
  /\ hookTo = [h \in ProviderHooks |-> "ABSENT"]
  /\ hookCount = [h \in ProviderHooks |-> 0]
  /\ order = [c \in Calls |-> "none"]
  /\ crashes = 0
-----------------------------------------------------------------------------
(* A step of a worker's control. *)
Goes(w, from, to) == pc[w] = from /\ pc' = [pc EXCEPT ![w] = to]

(* updateSettlement: an unconditional write of the row's status. *)
SetStatus(c, st) == status' = [status EXCEPT ![c] = st]

(* The settlement a worker is paying. *)
Row(w) == IF w = RetryJob THEN current ELSE w

(* A control step that only writes a status. *)
Writes(w, from, st, to) ==
  /\ Goes(w, from, to)
  /\ SetStatus(Row(w), st)
  /\ UNCHANGED <<payVars, paymentIds, retryCount, today, escrow, balance,
                 tries, jobVars, hookVars, order, crashes>>
-----------------------------------------------------------------------------
(* A payment completes, and the escrow balance is credited: read in one    *)
(* await, written in the next.                                             *)

CompletePayment(p) ==
  /\ Goes(p, "idle", IF p \in Escrowed THEN "credit" ELSE "done")
  /\ completed' = completed \cup {p}
  /\ UNCHANGED <<settled, rowVars, escrow, balance, tries, jobVars, hookVars,
                 order, crashes>>

CreditRead(p) ==
  /\ Goes(p, "credit", "credited")
  /\ balance' = [balance EXCEPT ![p] = escrow]
  /\ UNCHANGED <<payVars, rowVars, escrow, tries, jobVars, hookVars, order,
                 crashes>>

CreditWrite(p) ==
  /\ Goes(p, "credited", "done")
  /\ escrow' = balance[p] + 1
  /\ balance' = [balance EXCEPT ![p] = 0]
  /\ UNCHANGED <<payVars, rowVars, tries, jobVars, hookVars, order,
                 crashes>>
-----------------------------------------------------------------------------
(* triggerSettlement and processDailyFiatSettlement                        *)

(* The daily job stops if a settlement created today is COMPLETED; one     *)
(* run is over before the next begins.                                     *)
DailyCheck(d) ==
  /\ \A e \in Dailies : pc[e] \in {"idle", "done", "dead"}
  /\ \/ Goes(d, "idle", "gather") /\ \A c \in today : status[c] # "COMPLETED"
     \/ Goes(d, "idle", "done") /\ \E c \in today : status[c] = "COMPLETED"
  /\ UNCHANGED <<payVars, rowVars, escrow, balance, tries, jobVars, hookVars,
                 order, crashes>>

(* Nothing to settle, or no verified bank account. *)
DailySkip(d) ==
  /\ Goes(d, "gather", "done")
  /\ UNCHANGED <<payVars, rowVars, escrow, balance, tries, jobVars, hookVars,
                 order, crashes>>

(* findUnsettledPayments.  A trigger that finds none changes nothing. *)
Gather(c) ==
  /\ Goes(c, IF c \in Dailies THEN "gather" ELSE "idle", "create")
  /\ Unsettled # {}
  /\ paymentIds' = [paymentIds EXCEPT ![c] = Unsettled]
  /\ UNCHANGED <<payVars, status, retryCount, today, escrow, balance, tries,
                 jobVars, hookVars, order, crashes>>

(* The row is made after the quote has been awaited. *)
Create(c) ==
  /\ Goes(c, "create", "process")
  /\ SetStatus(c, "PENDING")
  /\ today' = today \cup {c}
  /\ UNCHANGED <<payVars, paymentIds, retryCount, escrow, balance, tries,
                 jobVars, hookVars, order, crashes>>

Process(c) == Writes(c, "process", "PROCESSING", "pay")
-----------------------------------------------------------------------------
(* What the three of them do with a row: pay it, then book it.             *)

(* The provider: a reference seen before makes no new payout. *)
Disburse(ref) ==
  IF order[ref] = "none"
    THEN \E result \in {"pending", "paid"} :
           order' = [order EXCEPT ![ref] = result]
    ELSE UNCHANGED order

Answered(w) ==
  /\ Goes(w, "pay", "complete")
  /\ Disburse(Row(w))

(* The provider refuses, naming a contract: reported as COMPLETED. *)
ContractRefused(w) ==
  /\ ContractErrors
  /\ Goes(w, "pay", "complete")
  /\ UNCHANGED order

(* Nothing was paid, or the answer was lost. *)
Threw(w) ==
  \/ UNCHANGED order
  \/ LostReplies /\ Disburse(Row(w))

(* executePayout within retryWithBackoff: the third error is thrown on.    *)
(* Defect: the loop returns after its last attempt.                        *)
BugPay(w) ==
  /\ \/ (Answered(w) \/ ContractRefused(w)) /\ tries' = [tries EXCEPT ![w] = 0]
     \/ /\ tries[w] + 1 < MaxAttempts
        /\ Goes(w, "pay", "pay")
        /\ Threw(w)
        /\ tries' = [tries EXCEPT ![w] = @ + 1]
     \/ /\ tries[w] + 1 = MaxAttempts
        /\ Goes(w, "pay", "complete")
        /\ Threw(w)
        /\ tries' = [tries EXCEPT ![w] = 0]
  /\ UNCHANGED <<payVars, rowVars, escrow, balance, jobVars, hookVars, crashes>>

Pay(w) ==
  /\ \/ (Answered(w) \/ ContractRefused(w)) /\ tries' = [tries EXCEPT ![w] = 0]
     \/ /\ tries[w] + 1 < MaxAttempts
        /\ Goes(w, "pay", "pay")
        /\ Threw(w)
        /\ tries' = [tries EXCEPT ![w] = @ + 1]
     \/ /\ tries[w] + 1 = MaxAttempts
        /\ Goes(w, "pay", "fail")
        /\ Threw(w)
        /\ tries' = [tries EXCEPT ![w] = 0]
  /\ UNCHANGED <<payVars, rowVars, escrow, balance, jobVars, hookVars, crashes>>

(* A call is over; the retry job goes on to the next row. *)
Over(w) == IF w = RetryJob THEN "idle" ELSE "done"

(* Defect: the row is COMPLETED and nothing is booked. *)
BugComplete(w) == Writes(w, "complete", "COMPLETED", Over(w))
Complete(w) == Writes(w, "complete", "COMPLETED", "debit")

DebitRead(w) ==
  /\ Goes(w, "debit", "debited")
  /\ balance' = [balance EXCEPT ![w] = escrow]
  /\ UNCHANGED <<payVars, rowVars, escrow, tries, jobVars, hookVars, order,
                 crashes>>

(* decrementMerchantEscrow stops at zero. *)
DebitWrite(w) ==
  /\ Goes(w, "debited", "settle")
  /\ LET gross == Cardinality(paymentIds[Row(w)])
     IN  escrow' = IF gross > balance[w] THEN 0 ELSE balance[w] - gross
  /\ balance' = [balance EXCEPT ![w] = 0]
  /\ UNCHANGED <<payVars, rowVars, tries, jobVars, hookVars, order,
                 crashes>>

Settle(w) ==
  /\ Goes(w, "settle", Over(w))
  /\ settled' = settled \cup paymentIds[Row(w)]
  /\ UNCHANGED <<completed, rowVars, escrow, balance, tries, jobVars, hookVars,
                 order, crashes>>

Fail(w) == Writes(w, "fail", "FAILED", Over(w))
-----------------------------------------------------------------------------
(* retryFailedSettlements, every hour *)

(* Defect: the last retry is not made. *)
BugRetryScan ==
  /\ pc[RetryJob] = "idle" /\ batch = {}
  /\ batch' = {c \in Calls :
                 status[c] = "FAILED" /\ retryCount[c] < MaxRetries - 1}
  /\ batch' # {}
  /\ counted' = [c \in Calls |-> IF c \in batch' THEN retryCount[c] ELSE 0]
  /\ UNCHANGED <<payVars, rowVars, escrow, workVars, current, hookVars, order,
                 crashes>>

RetryScan ==
  /\ pc[RetryJob] = "idle" /\ batch = {}
  /\ batch' = {c \in Calls : status[c] = "FAILED" /\ retryCount[c] < MaxRetries}
  /\ batch' # {}
  /\ counted' = [c \in Calls |-> IF c \in batch' THEN retryCount[c] ELSE 0]
  /\ UNCHANGED <<payVars, rowVars, escrow, workVars, current, hookVars, order,
                 crashes>>

(* The count is that of the array plus one, whatever the row says by now.  *)
RetryMark(c) ==
  /\ c \in batch
  /\ Goes(RetryJob, "idle", "pay")
  /\ batch' = batch \ {c}
  /\ current' = c
  /\ SetStatus(c, "RETRYING")
  /\ retryCount' = [retryCount EXCEPT ![c] = counted[c] + 1]
  /\ UNCHANGED <<payVars, paymentIds, today, escrow, balance, tries, counted,
                 hookVars, order, crashes>>
-----------------------------------------------------------------------------
(* processProviderPayoutWebhook, its settlement branch: no transition is   *)
(* checked, and what is written was computed from the row as it was read.  *)

(* Defect: the statuses of an off-ramp transaction are written. *)
BugReportedStatus(state) ==
  CASE state = "pending" -> "PAYOUT_PROCESSING"
    [] state = "paid"    -> "COMPLETED"
    [] state = "failed"  -> "FAILED"
ReportedStatus(state) ==
  CASE state = "pending" -> "PROCESSING"
    [] state = "paid"    -> "COMPLETED"
    [] state = "failed"  -> "FAILED"

HookRead(h) ==
  /\ hookPc[h] = "idle"
  /\ hookPc' = [hookPc EXCEPT ![h] = "write"]
  /\ \E c \in Settlements :
       /\ order[c] # "none"
       /\ hookRow' = [hookRow EXCEPT ![h] = c]
       /\ hookTo' = [hookTo EXCEPT ![h] = ReportedStatus(order[c])]
       /\ hookCount' = [hookCount EXCEPT ![h] = retryCount[c] + 1]
  /\ UNCHANGED <<payVars, rowVars, escrow, workVars, jobVars, order, crashes>>

HookWrite(h) ==
  /\ hookPc[h] = "write"
  /\ hookPc' = [hookPc EXCEPT ![h] = "done"]
  /\ SetStatus(hookRow[h], hookTo[h])
  /\ retryCount' = IF hookTo[h] = "FAILED"
                     THEN [retryCount EXCEPT ![hookRow[h]] = hookCount[h]]
                     ELSE retryCount
  /\ UNCHANGED <<payVars, paymentIds, today, escrow, workVars, jobVars,
                 hookRow, hookTo, hookCount, order, crashes>>
-----------------------------------------------------------------------------
(* The world: midnight, the provider, crashes.                             *)

Midnight ==
  /\ today # {}
  /\ today' = {}
  /\ UNCHANGED <<payVars, status, paymentIds, retryCount, escrow, workVars,
                 jobVars, hookVars, order, crashes>>

ProviderResolves(ref) ==
  /\ order[ref] = "pending"
  /\ \E result \in {"paid", "failed"} :
       order' = [order EXCEPT ![ref] = result]
  /\ UNCHANGED <<payVars, rowVars, escrow, workVars, jobVars, hookVars,
                 crashes>>

(* The process dies and restarts: calls in flight are gone for good, the   *)
(* jobs start afresh, and an unanswered webhook is delivered again.        *)
Crash ==
  /\ crashes < MaxCrashes
  /\ crashes' = crashes + 1
  /\ pc' = [w \in Workers \cup Payments |->
              IF w = RetryJob THEN "idle"
              ELSE IF pc[w] \in {"idle", "done"} THEN pc[w] ELSE "dead"]
  /\ tries' = [w \in Workers |-> 0]
  /\ batch' = {}
  /\ hookPc' = [h \in ProviderHooks |->
                  IF hookPc[h] = "done" THEN "done" ELSE "idle"]
  /\ UNCHANGED <<payVars, rowVars, escrow, balance, counted, current, hookRow,
                 hookTo, hookCount, order>>
-----------------------------------------------------------------------------
Payment(p) == CompletePayment(p) \/ CreditRead(p) \/ CreditWrite(p)

PayOut(w) ==
  \/ Pay(w) \/ Complete(w) \/ DebitRead(w) \/ DebitWrite(w) \/ Settle(w)
  \/ Fail(w)

triggerSettlement(c) == Gather(c) \/ Create(c) \/ Process(c) \/ PayOut(c)

DailyJob(d) ==
  \/ DailyCheck(d) \/ DailySkip(d)
  \/ Gather(d) \/ Create(d) \/ Process(d) \/ PayOut(d)

RetryFailed == RetryScan \/ (\E c \in Calls : RetryMark(c)) \/ PayOut(RetryJob)

Provider(h) == HookRead(h) \/ HookWrite(h)

World == Midnight \/ (\E ref \in Calls : ProviderResolves(ref)) \/ Crash

Next ==
  \/ \E p \in Payments : Payment(p)
  \/ \E c \in Triggers : triggerSettlement(c)
  \/ \E d \in Dailies : DailyJob(d)
  \/ RetryFailed
  \/ \E h \in ProviderHooks : Provider(h)
  \/ World

Spec == Init /\ [][Next]_vars

(* The event loop runs every continuation whose await is over and the      *)
(* hourly timer fires.  Nobody need trigger a settlement.                  *)
Fairness ==
  /\ \A c \in Triggers : WF_vars(pc[c] # "idle" /\ triggerSettlement(c))
  /\ \A d \in Dailies : WF_vars(DailyJob(d))
  /\ WF_vars(RetryFailed)

FairSpec == Spec /\ Fairness
=============================================================================
