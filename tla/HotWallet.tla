----------------------------- MODULE HotWallet -----------------------------
(***************************************************************************)
(* What is paid from FluxPay's own wallet on chain: refunds of payments    *)
(* (requested, approved or rejected, processed) and the settlements a      *)
(* merchant triggers with POST /api/settlements/process, the failed ones   *)
(* of which the fiat retry job picks up as well.  Requests that carry an   *)
(* idempotency key go through the cache of answers.                        *)
(*                                                                         *)
(* One action is what a handler does at one await.  A refund and a         *)
(* settlement row are named by the call that creates them; the payments    *)
(* of this module are COMPLETED and have the customer's wallet.  Amounts   *)
(* are left out: a refund is of its payment's amount.                      *)
(***************************************************************************)
EXTENDS Naturals, FiniteSets

CONSTANTS
  Payments,   \* COMPLETED payments of one merchant, in one token
  Requests,   \* calls of createRefund
  Reviews,    \* calls of approveRefund and rejectRefund
  Processes,  \* calls of processRefund
  Batches,    \* calls of processManualSettlement, rounds of the daily one
  Key,        \* the Idempotency-Key of each request and process call
  Endpoints,  \* RPC endpoints withFailover goes through
  MaxRetries, \* retries of a settlement by the hourly job, 3 in the code
  None,
  MaxCrashes  \* how often the server process may die

Callers == Requests \cup Reviews \cup Processes \cup Batches
Senders == Processes \cup Batches
Rows == Requests \cup Batches
Keys == {Key[c] : c \in Requests \cup Processes}

ASSUME HotWalletAssumption ==
  /\ DOMAIN Key = Requests \cup Processes
  /\ Requests \cap (Reviews \cup Processes \cup Batches) = {}
  /\ Reviews \cap (Processes \cup Batches) = {} /\ Processes \cap Batches = {}
  /\ None \notin Payments \cup Requests
  /\ Endpoints \in Nat \ {0} /\ MaxRetries \in Nat /\ MaxCrashes \in Nat

VARIABLES
  refund,    \* refund.status
  refunded,  \* payments with payment.refunded
  settled,   \* payments with payment.settled
  batch,     \* settlement.status
  retries,   \* settlement.retryCount
  sent,      \* how many transfers have landed on chain for a row
  pc,        \* where each call is
  on,        \* its payment (of a request) or its refund (of the others)
  stale,     \* requests that read payment.refunded as true
  got,       \* the payments a settlement call has read
  tries,     \* endpoints a call has been through
  cache,     \* <<path, key>> with a stored answer
  crashes

rowVars == <<refund, refunded, settled, batch, retries>>
callVars == <<pc, on, stale, got, tries>>
vars == <<rowVars, sent, callVars, cache, crashes>>

RefundStatus ==
  {"PENDING", "APPROVED", "PROCESSING", "COMPLETED", "REJECTED", "FAILED"}
SettlementStatus == {"PROCESSING", "COMPLETED", "FAILED", "RETRYING"}

TypeOK ==
  /\ refund \in [Requests -> RefundStatus \cup {"ABSENT"}]
  /\ refunded \subseteq Payments /\ settled \subseteq Payments
  /\ batch \in [Batches -> SettlementStatus \cup {"ABSENT"}]
  /\ retries \in [Batches -> 0..MaxRetries]
  /\ sent \in [Rows -> Nat]
  /\ pc \in [Callers -> {"idle", "read", "find", "insert", "approve", "reject",
                         "load", "mark", "send", "complete", "flag", "fail",
                         "approved", "retry", "done"}]
  /\ on \in [Callers -> Payments \cup Requests \cup {None}]
  /\ stale \subseteq Requests
  /\ got \in [Batches -> SUBSET Payments]
  /\ tries \in [Senders -> 0..(Endpoints - 1)]
  /\ cache \subseteq (Requests \cup {None}) \X Keys
  /\ crashes \in Nat

Init ==
  /\ refund = [r \in Requests |-> "ABSENT"]
  /\ refunded = {} /\ settled = {}
  /\ batch = [b \in Batches |-> "ABSENT"]
  /\ retries = [b \in Batches |-> 0]
  /\ sent = [r \in Rows |-> 0]
  /\ pc = [c \in Callers |-> "idle"]
  /\ on = [c \in Callers |-> None]
  /\ stale = {}
  /\ got = [b \in Batches |-> {}]
  /\ tries = [c \in Senders |-> 0]
  /\ cache = {}
  /\ crashes = 0
-----------------------------------------------------------------------------
Goes(c, from, to) == pc[c] = from /\ pc' = [pc EXCEPT ![c] = to]
Starts(c, to, x) == Goes(c, "idle", to) /\ on' = [on EXCEPT ![c] = x]
SetRefund(r, st) == refund' = [refund EXCEPT ![r] = st]
SetBatch(b, st) == batch' = [batch EXCEPT ![b] = st]

(* idempotencyMiddleware: a stored answer ends the call; any answer of the *)
(* handler is stored, a failure's too.                                     *)
CacheKey(c, path) == <<path, Key[c]>>
Unless(key, to) == IF key \in cache THEN "done" ELSE to
Answers(key) == cache' = cache \cup {key}
CacheForgets(key) ==
  /\ key \in cache
  /\ cache' = cache \ {key}
  /\ UNCHANGED <<rowVars, sent, callVars, crashes>>
-----------------------------------------------------------------------------
(* createRefund *)

RequestArrives(r, p) ==
  /\ Starts(r, Unless(CacheKey(r, None), "read"), p)
  /\ UNCHANGED <<rowVars, sent, stale, got, tries, cache, crashes>>

RequestRead(r) ==
  /\ Goes(r, "read", "find")
  /\ stale' = IF on[r] \in refunded THEN stale \cup {r} ELSE stale
  /\ UNCHANGED <<rowVars, sent, on, got, tries, cache, crashes>>

Active(p) == \E r \in Requests : on[r] = p
               /\ refund[r] \in {"PENDING", "APPROVED", "PROCESSING"}

(* The refunded flag looked at here is the one of the first read.          *)
RequestFind(r) ==
  /\ \/ /\ Goes(r, "find", "insert")
        /\ ~Active(on[r]) /\ r \notin stale
        /\ UNCHANGED cache
     \/ /\ Goes(r, "find", "done")
        /\ Active(on[r]) \/ r \in stale
        /\ Answers(CacheKey(r, None))
  /\ UNCHANGED <<rowVars, sent, on, stale, got, tries, crashes>>

RequestInsert(r) ==
  /\ Goes(r, "insert", "done")
  /\ SetRefund(r, "PENDING")
  /\ Answers(CacheKey(r, None))
  /\ UNCHANGED <<refunded, settled, batch, retries, sent, on, stale, got, tries,
                 crashes>>
-----------------------------------------------------------------------------
(* approveRefund and rejectRefund *)

Review(v, r, verdict) ==
  /\ refund[r] = "PENDING"
  /\ Starts(v, verdict, r)
  /\ UNCHANGED <<rowVars, sent, stale, got, tries, cache, crashes>>

Approve(v) ==
  /\ Goes(v, "approve", "approved")
  /\ SetRefund(on[v], "APPROVED")
  /\ UNCHANGED <<refunded, settled, batch, retries, sent, on, stale, got, tries,
                 cache, crashes>>

Reject(v) ==
  /\ Goes(v, "reject", "done")
  /\ SetRefund(on[v], "REJECTED")
  /\ UNCHANGED <<refunded, settled, batch, retries, sent, on, stale, got, tries,
                 cache, crashes>>
-----------------------------------------------------------------------------
(* processRefundOnChain and transferToMerchant, within withFailover        *)

Row(c) == IF c \in Batches THEN c ELSE on[c]
Lands(c) == sent' = [sent EXCEPT ![Row(c)] = @ + 1]

(* sendAndConfirmTransaction returned. *)
Confirmed(c) ==
  /\ Goes(c, "send", "complete")
  /\ tries' = [tries EXCEPT ![c] = 0]
  /\ Lands(c)

(* It threw, and the transfer may have landed all the same; the next       *)
(* endpoint sends again, with a blockhash and so a signature of its own.   *)
Threw(c) ==
  /\ Goes(c, "send", IF tries[c] + 1 < Endpoints THEN "send" ELSE "fail")
  /\ tries' = [tries EXCEPT ![c] = (@ + 1) % Endpoints]
  /\ Lands(c) \/ UNCHANGED sent

(* Defect: the last endpoint's error is not thrown. *)
BugSend(c) ==
  /\ \/ Confirmed(c)
     \/ /\ Goes(c, "send",
                IF tries[c] + 1 < Endpoints THEN "send" ELSE "complete")
        /\ tries' = [tries EXCEPT ![c] = (@ + 1) % Endpoints]
        /\ Lands(c) \/ UNCHANGED sent
  /\ UNCHANGED <<rowVars, on, stale, got, cache, crashes>>
Send(c) ==
  /\ Confirmed(c) \/ Threw(c)
  /\ UNCHANGED <<rowVars, on, stale, got, cache, crashes>>
-----------------------------------------------------------------------------
(* processRefund *)

ProcessArrives(x, r) ==
  /\ refund[r] # "ABSENT"
  /\ Starts(x, Unless(CacheKey(x, r), "load"), r)
  /\ UNCHANGED <<rowVars, sent, stale, got, tries, cache, crashes>>

(* Defect: a refund that is not yet approved is taken too. *)
BugProcessLoad(x) ==
  /\ \/ /\ Goes(x, "load", "mark")
        /\ refund[on[x]] \in {"PENDING", "APPROVED"}
        /\ UNCHANGED cache
     \/ /\ Goes(x, "load", "done")
        /\ refund[on[x]] \notin {"PENDING", "APPROVED"}
        /\ Answers(CacheKey(x, on[x]))
  /\ UNCHANGED <<rowVars, sent, on, stale, got, tries, crashes>>
ProcessLoad(x) ==
  /\ \/ /\ Goes(x, "load", "mark")
        /\ refund[on[x]] = "APPROVED"
        /\ UNCHANGED cache
     \/ /\ Goes(x, "load", "done")
        /\ refund[on[x]] # "APPROVED"
        /\ Answers(CacheKey(x, on[x]))
  /\ UNCHANGED <<rowVars, sent, on, stale, got, tries, crashes>>

ProcessMark(x) ==
  /\ x \in Processes
  /\ Goes(x, "mark", "send")
  /\ SetRefund(on[x], "PROCESSING")
  /\ UNCHANGED <<refunded, settled, batch, retries, sent, on, stale, got, tries,
                 cache, crashes>>

(* An update that throws here goes to the handler's catch, as the transfer *)
(* does, although the tokens have gone.                                    *)
ProcessComplete(x) ==
  /\ \/ Goes(x, "complete", "flag") /\ SetRefund(on[x], "COMPLETED")
     \/ Goes(x, "complete", "fail") /\ UNCHANGED refund
  /\ UNCHANGED <<refunded, settled, batch, retries, sent, on, stale, got, tries,
                 cache, crashes>>

ProcessFlag(x) ==
  /\ \/ /\ Goes(x, "flag", "done")
        /\ refunded' = refunded \cup {on[on[x]]}
        /\ Answers(CacheKey(x, on[x]))
     \/ Goes(x, "flag", "fail") /\ UNCHANGED <<refunded, cache>>
  /\ UNCHANGED <<refund, settled, batch, retries, sent, on, stale, got, tries,
                 crashes>>

(* Defect: the catch only answers. *)
BugProcessFail(x) ==
  /\ Goes(x, "fail", "done")
  /\ Answers(CacheKey(x, on[x]))
  /\ UNCHANGED <<rowVars, sent, on, stale, got, tries, crashes>>
ProcessFail(x) ==
  /\ Goes(x, "fail", "done")
  /\ SetRefund(on[x], "FAILED")
  /\ Answers(CacheKey(x, on[x]))
  /\ UNCHANGED <<refunded, settled, batch, retries, sent, on, stale, got, tries,
                 crashes>>
-----------------------------------------------------------------------------
(* processManualSettlement *)

Gather(b) ==
  /\ settled # Payments
  /\ Goes(b, "idle", "insert")
  /\ got' = [got EXCEPT ![b] = Payments \ settled]
  /\ UNCHANGED <<rowVars, sent, on, stale, tries, cache, crashes>>

BatchCreate(b) ==
  /\ Goes(b, "insert", "send")
  /\ SetBatch(b, "PROCESSING")
  /\ UNCHANGED <<refund, refunded, settled, retries, sent, on, stale, got,
                 tries, cache, crashes>>

BatchComplete(b) ==
  /\ \/ Goes(b, "complete", "flag") /\ SetBatch(b, "COMPLETED")
     \/ Goes(b, "complete", "fail") /\ UNCHANGED batch
  /\ UNCHANGED <<refund, refunded, settled, retries, sent, on, stale, got,
                 tries, cache, crashes>>

BatchFlag(b) ==
  /\ \/ Goes(b, "flag", "done") /\ settled' = settled \cup got[b]
     \/ Goes(b, "flag", "fail") /\ UNCHANGED settled
  /\ UNCHANGED <<refund, refunded, batch, retries, sent, on, stale, got,
                 tries, cache, crashes>>

BatchFail(b) ==
  /\ Goes(b, "fail", "done")
  /\ SetBatch(b, "FAILED")
  /\ UNCHANGED <<refund, refunded, settled, retries, sent, on, stale, got,
                 tries, cache, crashes>>

(* Defect: the count of retries is not looked at. *)
BugRetryMark(b) ==
  /\ batch[b] = "FAILED"
  /\ Goes(b, "done", "retry")
  /\ SetBatch(b, "RETRYING")
  /\ retries' = [retries EXCEPT ![b] = @ + 1]
  /\ UNCHANGED <<refund, refunded, settled, sent, on, stale, got, tries, cache,
                 crashes>>
(* retryFailedSettlements does not look at what kind of settlement it has: *)
(* it asks the payout provider of the row's currency, and UsdEurReal,      *)
(* which answers for a token's symbol, refuses every payout.               *)
RetryMark(b) ==
  /\ batch[b] = "FAILED" /\ retries[b] < MaxRetries
  /\ Goes(b, "done", "retry")
  /\ SetBatch(b, "RETRYING")
  /\ retries' = [retries EXCEPT ![b] = @ + 1]
  /\ UNCHANGED <<refund, refunded, settled, sent, on, stale, got, tries, cache,
                 crashes>>

RetryRefused(b) ==
  /\ Goes(b, "retry", "done")
  /\ SetBatch(b, "FAILED")
  /\ UNCHANGED <<refund, refunded, settled, retries, sent, on, stale, got,
                 tries, cache, crashes>>
-----------------------------------------------------------------------------
(* The process dies; a row that was being worked on stays as it is.        *)
Crash ==
  /\ crashes < MaxCrashes
  /\ crashes' = crashes + 1
  /\ pc' = [c \in Callers |->
              IF pc[c] \in {"idle", "approved"} THEN pc[c] ELSE "done"]
  /\ UNCHANGED <<rowVars, sent, on, stale, got, tries, cache>>

RequestStep(r) == RequestRead(r) \/ RequestFind(r) \/ RequestInsert(r)
ReviewStep(v) == Approve(v) \/ Reject(v)
ProcessStep(x) ==
  \/ ProcessLoad(x) \/ ProcessMark(x) \/ Send(x) \/ ProcessComplete(x)
  \/ ProcessFlag(x) \/ ProcessFail(x)
BatchStep(b) ==
  \/ BatchCreate(b) \/ Send(b) \/ BatchComplete(b) \/ BatchFlag(b)
  \/ BatchFail(b)

(* processDailySettlement, which nothing schedules any more, makes the same *)
(* steps for each merchant and token: it reads all of a merchant's payments *)
(* at once, so a later token's may be long out of date when it is paid.     *)
SettlementRound(b) == Gather(b) \/ BatchStep(b)

Next ==
  \/ \E r \in Requests, p \in Payments : RequestArrives(r, p)
  \/ \E r \in Requests : RequestStep(r)
  \/ \E v \in Reviews, r \in Requests :
       Review(v, r, "approve") \/ Review(v, r, "reject")
  \/ \E v \in Reviews : ReviewStep(v)
  \/ \E x \in Processes, r \in Requests : ProcessArrives(x, r)
  \/ \E x \in Processes : ProcessStep(x)
  \/ \E b \in Batches : SettlementRound(b)
  \/ \E b \in Batches : RetryMark(b) \/ RetryRefused(b)
  \/ \E key \in cache : CacheForgets(key)
  \/ Crash

Spec == Init /\ [][Next]_vars

(* A call that has begun goes on; what people and the job begin is not fair. *)
Fairness ==
  /\ \A r \in Requests : WF_vars(RequestStep(r))
  /\ \A v \in Reviews : WF_vars(ReviewStep(v))
  /\ \A x \in Processes : WF_vars(ProcessStep(x))
  /\ \A b \in Batches : WF_vars(BatchStep(b))

FairSpec == Spec /\ Fairness
=============================================================================
