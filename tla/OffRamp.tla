------------------------------ MODULE OffRamp ------------------------------
(***************************************************************************)
(* The crypto-to-bank off-ramp: execute, submit and the cleanup job of     *)
(* OfframpExecutionService, the quotes they reserve, and the three         *)
(* webhook handlers that write the same transaction rows.                  *)
(*                                                                         *)
(* The server is one event loop, so a handler runs undisturbed between two *)
(* awaits and anything may happen at an await.  One action below is what a *)
(* handler does at one await: one row read or written, or one call to a    *)
(* provider.  No handler uses a database transaction or a conditional      *)
(* update, so a value read at one await may be stale at the next.          *)
(*                                                                         *)
(* A transaction is named by its id, which the execute call that makes the *)
(* row draws; the signature of its swap is named by the same value.        *)
(***************************************************************************)
EXTENDS TransactionStateMachine, Naturals

CONSTANTS
  Quotes,           \* quotes on offer
  Txs,              \* off-ramp transactions, one per execute call
  Submits,          \* calls of submit
  Target,           \* the transactions each submit call may name
  SolanaHooks,      \* deliveries to /webhooks/solana in flight at once
  MonnifyHooks,     \* deliveries to /webhooks/monnify
  ProviderHooks,    \* deliveries to /webhooks/ngn and /webhooks/usdeur
  Foreign,          \* a deposit in the escrow wallet that no swap here made
  None,             \* no row, no transaction, no hash
  Ngn,              \* transactions paid out in NGN (others always fail)
  WalletIds,        \* transactions whose actor id is 32 characters or more
  Closable,         \* transactions whose bank account may be deleted
  Slow,             \* transactions that may stay unsigned for ten minutes
  ForeignDeposits,  \* {Foreign} or {}
  LostReplies,      \* calls that may take effect although they throw
  MaxCrashes        \* how often the server process may die

Hashes == Txs \cup {Foreign}
Hooks == SolanaHooks \cup MonnifyHooks \cup ProviderHooks

ASSUME OffRampAssumption ==
  /\ None \notin Hashes \cup Quotes
  /\ Foreign \notin Txs
  /\ SolanaHooks \cap MonnifyHooks = {}
  /\ ProviderHooks \cap (SolanaHooks \cup MonnifyHooks) = {}
  /\ Target \in [Submits -> SUBSET Txs]
  /\ ForeignDeposits \subseteq {Foreign}
  /\ LostReplies \subseteq {"broadcast", "disburse"}
  /\ MaxCrashes \in Nat
  /\ Submits \cap Hooks = {}
  /\ None \notin Submits \cup Hooks

VARIABLES
  phase,     \* quote: "live", "expired" (expiresAt has passed) or "deleted"
  used,      \* quote.used
  status,    \* transaction.status, "ABSENT" before the row exists
  quoteOf,   \* transaction.quoteId
  older,     \* the rows with an earlier createdAt
  hash,      \* transaction.swapTxHash
  memory,    \* the status of its copy in memoryTransactions, a Map in memory
  ahead,     \* the copies that were put into the Map before it
  exec,      \* where the execute call of each transaction is
  subPc,     \* where each submit call is
  subTx,     \* the transaction it was called for
  sweep,     \* the cleanup job's array of rows still to visit
  release,   \* the row whose quote it releases next
  hookPc,    \* where each webhook delivery is
  hookTx,    \* the transaction it matched
  hookArg,   \* Solana: the deposit's hash; provider: the status to write
  seen,      \* processedTxHashes, a Set in memory
  stale,     \* rows whose createdAt is more than ten minutes ago
  sent,      \* swaps the Solana RPC has accepted
  landed,    \* deposits in the escrow wallet
  order,     \* Monnify's disbursements, by the reference of the request
  orderFor,  \* the transaction each disbursement is for
  payer,     \* history: the call that made it and got an answer
  refunds,   \* USDC refunds sent from escrow, per transaction
  refunder,  \* history: the handler that last wrote REFUNDED
  closed,    \* transactions whose bank account has been deleted
  crashes

quoteVars == <<phase, used>>
rowVars == <<status, quoteOf, older, hash, memory, ahead>>
subVars == <<subPc, subTx>>
sweepVars == <<sweep, release>>
hookVars == <<hookPc, hookTx, hookArg, seen>>
worldVars == <<stale, sent, landed, closed, crashes>>
orderVars == <<order, orderFor, payer>>
refundVars == <<refunds, refunder>>
vars == <<quoteVars, rowVars, exec, subVars, sweepVars, hookVars, worldVars,
          orderVars, refundVars>>

Unsigned == {"PENDING", "AWAITING_SIGNATURE"}
Rows == {t \in Txs : status[t] # "ABSENT"}
OrderStates == {"none", "pending", "paid", "failed"}

TypeOK ==
  /\ phase \in [Quotes -> {"live", "expired", "deleted"}]
  /\ used \in [Quotes -> BOOLEAN]
  /\ status \in [Txs -> Statuses \cup {"ABSENT"}]
  /\ quoteOf \in [Txs -> Quotes \cup {None}]
  /\ older \in [Txs -> SUBSET Txs]
  /\ hash \in [Txs -> Hashes \cup {None}]
  /\ memory \in [Txs -> Statuses \cup {"ABSENT"}]
  /\ ahead \in [Txs -> SUBSET Txs]
  /\ exec \in [Txs -> {"idle", "create", "mark", "build", "done", "dead"}]
  /\ subPc \in [Submits ->
       {"idle", "sign", "swap", "broadcast", "swapFailed", "swapRefund",
        "swapped", "queue", "process", "account", "pay", "payFailed",
        "payRefund", "sendRefund", "complete", "done", "dead"}]
  /\ subTx \in [Submits -> Txs \cup {None}]
  /\ sweep \in SUBSET Txs
  /\ release \in Txs \cup {None}
  /\ hookPc \in [Hooks ->
       {"idle", "guess", "receive", "account", "fiat", "disburse",
        "complete", "fail", "refund", "sendRefund", "write", "done"}]
  /\ hookTx \in [Hooks -> Txs \cup {None}]
  /\ hookArg \in [Hooks -> Hashes \cup Statuses \cup {None}]
  /\ seen \in SUBSET Hashes
  /\ stale \in SUBSET Txs
  /\ sent \in SUBSET Txs
  /\ landed \in SUBSET Hashes
  /\ order \in [Hashes -> OrderStates]
  /\ orderFor \in [Hashes -> Txs \cup {None}]
  /\ payer \in [Hashes -> Submits \cup SolanaHooks \cup {None}]
  /\ refunds \in [Txs -> Nat]
  /\ refunder \in [Txs -> Submits \cup Hooks \cup {None}]
  /\ closed \in SUBSET Txs
  /\ crashes \in Nat

Init ==
  /\ phase = [q \in Quotes |-> "live"]
  /\ used = [q \in Quotes |-> FALSE]
  /\ status = [t \in Txs |-> "ABSENT"]
  /\ quoteOf = [t \in Txs |-> None]
  /\ older = [t \in Txs |-> {}]
  /\ hash = [t \in Txs |-> None]
  /\ memory = [t \in Txs |-> "ABSENT"]
  /\ ahead = [t \in Txs |-> {}]
  /\ exec = [t \in Txs |-> "idle"]
  /\ subPc = [s \in Submits |-> "idle"]
  /\ subTx = [s \in Submits |-> None]
  /\ sweep = {}
  /\ release = None
  /\ hookPc = [w \in Hooks |-> "idle"]
  /\ hookTx = [w \in Hooks |-> None]
  /\ hookArg = [w \in Hooks |-> None]
  /\ seen = {}
  /\ stale = {}
  /\ sent = {}
  /\ landed = ForeignDeposits
  /\ order = [r \in Hashes |-> "none"]
  /\ orderFor = [r \in Hashes |-> None]
  /\ payer = [r \in Hashes |-> None]
  /\ refunds = [t \in Txs |-> 0]
  /\ refunder = [t \in Txs |-> None]
  /\ closed = {}
  /\ crashes = 0
-----------------------------------------------------------------------------
(* An unconditional write of the row's status.                             *)
SetStatus(t, st) == status' = [status EXCEPT ![t] = st]

(* memoryTransactions.set: a copy that is there keeps its place.  Its      *)
(* swapTxHash is the row's, as the copy takes over the row as written.     *)
SetCopy(t, st) ==
  /\ memory' = [memory EXCEPT ![t] = st]
  /\ ahead' = IF memory[t] # "ABSENT" THEN ahead
              ELSE [ahead EXCEPT ![t] = {u \in Txs : memory[u] # "ABSENT"}]

updateTransaction(t, st) == SetStatus(t, st) /\ SetCopy(t, st)

(* A step of one handler's control. *)
ExecGoes(e, from, to) ==
  exec[e] = from /\ exec' = [exec EXCEPT ![e] = to]
SubmitGoes(s, from, to) ==
  subPc[s] = from /\ subPc' = [subPc EXCEPT ![s] = to]
HookGoes(w, from, to) ==
  hookPc[w] = from /\ hookPc' = [hookPc EXCEPT ![w] = to]

(* A control step that only writes a status. *)
RecordRefunder(h, t, st) ==
  refunder' = IF st = "REFUNDED" THEN [refunder EXCEPT ![t] = h] ELSE refunder
SubmitWrites(s, from, st, to) ==
  /\ SubmitGoes(s, from, to)
  /\ updateTransaction(subTx[s], st)
  /\ RecordRefunder(s, subTx[s], st)
  /\ UNCHANGED <<quoteVars, quoteOf, older, hash, exec, subTx, sweepVars,
                 hookVars, worldVars, orderVars, refunds>>
HookWrites(w, from, st, to) ==
  /\ HookGoes(w, from, to)
  /\ updateTransaction(hookTx[w], st)
  /\ RecordRefunder(w, hookTx[w], st)
  /\ UNCHANGED <<quoteVars, quoteOf, older, hash, exec, subVars, sweepVars,
                 hookTx, hookArg, seen, worldVars, orderVars, refunds>>
-----------------------------------------------------------------------------
(* execute *)

(* Defect: the expiry of the quote is not checked. *)
BugExecuteSkipsExpiry(e) ==
  /\ ExecGoes(e, "idle", "create")
  /\ \E q \in Quotes :
       /\ phase[q] # "deleted"
       /\ ~used[q]
       /\ quoteOf' = [quoteOf EXCEPT ![e] = q]
  /\ UNCHANGED <<quoteVars, status, older, hash, memory, ahead, subVars,
                 sweepVars, hookVars, worldVars, orderVars, refundVars>>

(* The quote checks: found, not expired, not used.  A call they reject     *)
(* changes nothing.                                                        *)
ExecuteRead(e) ==
  /\ ExecGoes(e, "idle", "create")
  /\ \E q \in Quotes :
       /\ phase[q] = "live"
       /\ ~used[q]
       /\ quoteOf' = [quoteOf EXCEPT ![e] = q]
  /\ UNCHANGED <<quoteVars, status, older, hash, memory, ahead, subVars,
                 sweepVars, hookVars, worldVars, orderVars, refundVars>>

ExecuteCreate(e) ==
  /\ ExecGoes(e, "create", "mark")
  /\ updateTransaction(e, "PENDING")
  /\ older' = [older EXCEPT ![e] = Rows]
  /\ UNCHANGED <<quoteVars, quoteOf, hash, subVars, sweepVars, hookVars,
                 worldVars, orderVars, refundVars>>

(* Only now is the quote taken; the write is unconditional and does        *)
(* nothing when the row is gone.                                           *)
ExecuteMark(e) ==
  /\ ExecGoes(e, "mark", "build")
  /\ used' = [used EXCEPT ![quoteOf[e]] = phase[quoteOf[e]] # "deleted"]
  /\ UNCHANGED <<phase, rowVars, subVars, sweepVars, hookVars, worldVars,
                 orderVars, refundVars>>

(* The swap is built and the row waits for the signature, or building      *)
(* failed; then the quote stays used.                                      *)
ExecuteBuild(e) ==
  /\ ExecGoes(e, "build", "done")
  /\ \/ updateTransaction(e, "AWAITING_SIGNATURE")
     \/ updateTransaction(e, "FAILED")
  /\ UNCHANGED <<quoteVars, quoteOf, older, hash, subVars, sweepVars,
                 hookVars, worldVars, orderVars, refundVars>>
-----------------------------------------------------------------------------
(* submit *)

SubmitRead(s) ==
  /\ SubmitGoes(s, "idle", "sign")
  /\ \E t \in Rows \cap Target[s] :
       /\ CanTransition(status[t], "SIGNED")
       /\ subTx' = [subTx EXCEPT ![s] = t]
  /\ UNCHANGED <<quoteVars, rowVars, exec, sweepVars, hookVars, worldVars,
                 orderVars, refundVars>>

(* Defect: SIGNED is not stored. *)
BugSubmitSigned(s) ==
  /\ SubmitGoes(s, "sign", "swap")
  /\ UNCHANGED <<quoteVars, rowVars, exec, subTx, sweepVars, hookVars,
                 worldVars, orderVars, refundVars>>
SubmitSigned(s) == SubmitWrites(s, "sign", "SIGNED", "swap")
SubmitSwapping(s) == SubmitWrites(s, "swap", "SWAPPING", "broadcast")

(* sendTransaction returns the signature, or throws; a lost reply throws   *)
(* although the RPC has the transaction.                                   *)
SubmitBroadcast(s) ==
  /\ \/ /\ SubmitGoes(s, "broadcast", "swapped")
        /\ sent' = sent \cup {subTx[s]}
     \/ /\ SubmitGoes(s, "broadcast", "swapFailed")
        /\ \/ sent' = sent
           \/ "broadcast" \in LostReplies /\ sent' = sent \cup {subTx[s]}
  /\ UNCHANGED <<quoteVars, rowVars, exec, subTx, sweepVars, hookVars, stale,
                 landed, closed, crashes, orderVars, refundVars>>

SubmitSwapFailed(s) == SubmitWrites(s, "swapFailed", "FAILED", "swapRefund")
SubmitSwapRefund(s) == SubmitWrites(s, "swapRefund", "REFUNDED", "done")

SubmitSwapped(s) ==
  /\ SubmitGoes(s, "swapped", "queue")
  /\ updateTransaction(subTx[s], "SWAPPED")
  /\ hash' = [hash EXCEPT ![subTx[s]] = subTx[s]]
  /\ UNCHANGED <<quoteVars, quoteOf, older, exec, subTx, sweepVars, hookVars,
                 worldVars, orderVars, refundVars>>

(* Defect: a settlement's status is written. *)
BugSubmitProcess(s) == SubmitWrites(s, "process", "PROCESSING", "account")
SubmitQueue(s) == SubmitWrites(s, "queue", "PAYOUT_PENDING", "process")
SubmitProcess(s) == SubmitWrites(s, "process", "PAYOUT_PROCESSING", "account")

(* findBankAccount; without one the call throws and leaves the row as is.  *)
SubmitAccount(s) ==
  /\ \/ SubmitGoes(s, "account", "pay") /\ subTx[s] \notin closed
     \/ SubmitGoes(s, "account", "done") /\ subTx[s] \in closed
  /\ UNCHANGED <<quoteVars, rowVars, exec, subTx, sweepVars, hookVars,
                 worldVars, orderVars, refundVars>>

(* The idempotency reference each caller passes to initiateDisbursement:   *)
(* the transaction's id.  Defect: the webhook passes the deposit's hash.   *)
SubmitReference(s) == subTx[s]
BugWebhookReference(w) == hookArg[w]
WebhookReference(w) == hookTx[w]

(* Monnify: a reference seen before makes no new disbursement.  The call   *)
(* that makes one is told, unless its reply is lost.                       *)
Disburse(ref, t, result, told) ==
  IF order[ref] = "none"
    THEN /\ order' = [order EXCEPT ![ref] = result]
         /\ orderFor' = [orderFor EXCEPT ![ref] = t]
         /\ payer' = [payer EXCEPT ![ref] = told]
    ELSE UNCHANGED orderVars

(* The payout call answers, or throws.  Its status is not looked at: an    *)
(* order still being processed completes the transaction like a paid one.  *)
SubmitPay(s) ==
  /\ \/ /\ SubmitGoes(s, "pay", "complete")
        /\ subTx[s] \in Ngn
        /\ \E result \in {"pending", "paid"} :
             Disburse(SubmitReference(s), subTx[s], result, s)
     \/ /\ SubmitGoes(s, "pay", "payFailed")
        /\ \/ UNCHANGED orderVars
           \/ /\ "disburse" \in LostReplies
              /\ subTx[s] \in Ngn
              /\ \E result \in {"pending", "paid"} :
                   Disburse(SubmitReference(s), subTx[s], result, None)
  /\ UNCHANGED <<quoteVars, rowVars, exec, subTx, sweepVars, hookVars,
                 worldVars, refundVars>>

SubmitComplete(s) == SubmitWrites(s, "complete", "COMPLETED", "done")
SubmitPayFailed(s) == SubmitWrites(s, "payFailed", "FAILED", "payRefund")
SubmitPayRefund(s) == SubmitWrites(s, "payRefund", "REFUNDED", "sendRefund")

(* refundEscrowToUser swallows its errors, and is skipped when the actor   *)
(* id is too short to be a wallet address.                                 *)
SendRefund(t) ==
  \/ UNCHANGED refunds
  \/ t \in WalletIds /\ refunds' = [refunds EXCEPT ![t] = @ + 1]

SubmitSendRefund(s) ==
  /\ SubmitGoes(s, "sendRefund", "done")
  /\ SendRefund(subTx[s])
  /\ UNCHANGED <<quoteVars, rowVars, exec, subTx, sweepVars, hookVars,
                 worldVars, orderVars, refunder>>
-----------------------------------------------------------------------------
(* cleanupExpiredTransactions, every five minutes *)

(* Defect: the job looks for the wrong status. *)
BugSweepScan ==
  /\ sweep = {} /\ release = None
  /\ sweep' = {t \in stale : status[t] = "PENDING"}
  /\ sweep' # {}
  /\ UNCHANGED <<quoteVars, rowVars, exec, subVars, release, hookVars,
                 worldVars, orderVars, refundVars>>

SweepScan ==
  /\ sweep = {} /\ release = None
  /\ sweep' = {t \in stale : status[t] = "AWAITING_SIGNATURE"}
  /\ sweep' # {}
  /\ UNCHANGED <<quoteVars, rowVars, exec, subVars, release, hookVars,
                 worldVars, orderVars, refundVars>>

(* The transition is asserted on the row as it was when the array was read *)
(* (AWAITING_SIGNATURE, so it always holds), not on the row as it is.      *)
SweepFail(t) ==
  /\ t \in sweep /\ release = None
  /\ updateTransaction(t, "FAILED")
  /\ sweep' = sweep \ {t}
  /\ release' = t
  /\ UNCHANGED <<quoteVars, quoteOf, older, hash, exec, subVars, hookVars,
                 worldVars, orderVars, refundVars>>

SweepRelease ==
  /\ release # None
  /\ used' = [used EXCEPT ![quoteOf[release]] = FALSE]
  /\ release' = None
  /\ UNCHANGED <<phase, rowVars, exec, subVars, sweep, hookVars,
                 worldVars, orderVars, refundVars>>
-----------------------------------------------------------------------------
(* handleSolanaWebhook, one deposit at a time *)

(* A hash already in processedTxHashes is skipped; it is recorded there    *)
(* before anything is done about it.  First look for the row by its hash.  *)
SolanaLookup(w) ==
  /\ \E h \in landed \ seen :
       LET matches == {t \in Rows : hash[t] = h}
       IN  /\ seen' = seen \cup {h}
           /\ hookArg' = [hookArg EXCEPT ![w] = h]
           /\ \/ /\ HookGoes(w, "idle", "receive")
                 /\ \E t \in matches : hookTx' = [hookTx EXCEPT ![w] = t]
              \/ /\ HookGoes(w, "idle", "guess")
                 /\ matches = {}
                 /\ UNCHANGED hookTx
  /\ UNCHANGED <<quoteVars, rowVars, exec, subVars, sweepVars, worldVars,
                 orderVars, refundVars>>

(* A row, or a copy, that might be waiting for a deposit.                  *)
(* Defect: one whose execute call has not finished counts as waiting.      *)
BugGuessable(st) ==
  st \in {"PENDING", "BROADCASTING", "SWAPPING", "AWAITING_SIGNATURE"}
Guessable(st) == st \in {"BROADCASTING", "SWAPPING", "AWAITING_SIGNATURE"}

(* Failing that, take the newest row that might be waiting; and when there *)
(* is none, the first copy in memory that has the hash or might be.  The   *)
(* copies lag behind the rows: processProviderPayoutWebhook writes none.   *)
SolanaGuess(w) ==
  /\ LET open == {t \in Txs : Guessable(status[t])}
         copies == {t \in Txs : /\ memory[t] # "ABSENT"
                                /\ hash[t] = hookArg[w] \/ Guessable(memory[t])}
     IN  \/ /\ HookGoes(w, "guess", "receive")
            /\ \E t \in open :
                 /\ open \ {t} \subseteq older[t]
                 /\ hookTx' = [hookTx EXCEPT ![w] = t]
         \/ /\ HookGoes(w, "guess", "receive")
            /\ open = {}
            /\ \E t \in copies :
                 /\ copies \cap ahead[t] = {}
                 /\ hookTx' = [hookTx EXCEPT ![w] = t]
         \/ /\ HookGoes(w, "guess", "idle")
            /\ open \cup copies = {}
            /\ UNCHANGED hookTx
  /\ UNCHANGED <<quoteVars, rowVars, exec, subVars, sweepVars, hookArg, seen,
                 worldVars, orderVars, refundVars>>

(* assertTransition is called inside try {} and so has no say. *)
SolanaReceive(w) ==
  /\ HookGoes(w, "receive", "account")
  /\ updateTransaction(hookTx[w], "CRYPTO_RECEIVED")
  /\ hash' = [hash EXCEPT ![hookTx[w]] = hookArg[w]]
  /\ UNCHANGED <<quoteVars, quoteOf, older, exec, subVars, sweepVars, hookTx,
                 hookArg, seen, worldVars, orderVars, refundVars>>

SolanaAccount(w) ==
  /\ LET payable == hookTx[w] \in Ngn \ closed
     IN  \/ HookGoes(w, "account", "fiat") /\ payable
         \/ HookGoes(w, "account", "idle") /\ ~payable
  /\ UNCHANGED <<quoteVars, rowVars, exec, subVars, sweepVars, hookTx,
                 hookArg, seen, worldVars, orderVars, refundVars>>

SolanaFiat(w) == HookWrites(w, "fiat", "FIAT_PROCESSING", "disburse")

(* Here an order that is only being processed does not complete the row,   *)
(* and a request that throws leaves it in FIAT_PROCESSING.                 *)
SolanaDisburse(w) ==
  /\ hookPc[w] = "disburse"
  /\ \/ /\ \E result \in {"pending", "paid"} :
             Disburse(WebhookReference(w), hookTx[w], result, w)
        /\ HookGoes(w, "disburse", IF order'[WebhookReference(w)] = "paid"
                                     THEN "complete" ELSE "idle")
     \/ /\ HookGoes(w, "disburse", "idle")
        /\ \/ UNCHANGED orderVars
           \/ /\ "disburse" \in LostReplies
              /\ \E result \in {"pending", "paid"} :
                   Disburse(WebhookReference(w), hookTx[w], result, None)
  /\ UNCHANGED <<quoteVars, rowVars, exec, subVars, sweepVars, hookTx,
                 hookArg, seen, worldVars, refundVars>>

SolanaComplete(w) == HookWrites(w, "complete", "COMPLETED", "idle")
-----------------------------------------------------------------------------
(* handleMonnifyWebhook: nothing remembers what was delivered before, and  *)
(* the transition is again asserted inside try {}.                         *)

(* Defect: an order that is not paid yet is taken for a failed one.        *)
BugMonnifyRead(m) ==
  /\ \E t \in Rows :
       /\ \/ HookGoes(m, "idle", "complete") /\ order[t] = "paid"
          \/ HookGoes(m, "idle", "fail") /\ order[t] \in {"pending", "failed"}
       /\ hookTx' = [hookTx EXCEPT ![m] = t]
  /\ UNCHANGED <<quoteVars, rowVars, exec, subVars, sweepVars, hookArg, seen,
                 worldVars, orderVars, refundVars>>

MonnifyRead(m) ==
  /\ \E t \in Rows :
       /\ \/ HookGoes(m, "idle", "complete") /\ order[t] = "paid"
          \/ HookGoes(m, "idle", "fail") /\ order[t] = "failed"
       /\ hookTx' = [hookTx EXCEPT ![m] = t]
  /\ UNCHANGED <<quoteVars, rowVars, exec, subVars, sweepVars, hookArg, seen,
                 worldVars, orderVars, refundVars>>

MonnifyComplete(m) == HookWrites(m, "complete", "COMPLETED", "done")
(* Defect: the handler stops at FAILED. *)
BugMonnifyFail(m) == HookWrites(m, "fail", "FAILED", "done")
MonnifyFail(m) == HookWrites(m, "fail", "FAILED", "refund")
MonnifyRefund(m) == HookWrites(m, "refund", "REFUNDED", "sendRefund")

MonnifySendRefund(m) ==
  /\ HookGoes(m, "sendRefund", "done")
  /\ SendRefund(hookTx[m])
  /\ UNCHANGED <<quoteVars, rowVars, exec, subVars, sweepVars, hookTx,
                 hookArg, seen, worldVars, orderVars, refunder>>
-----------------------------------------------------------------------------
(* processProviderPayoutWebhook, its off-ramp branch: the only webhook     *)
(* that obeys assertTransition, on the row as it was when it was read.     *)

ReportedStatus(state) ==
  CASE state = "pending" -> "PAYOUT_PROCESSING"
    [] state = "paid"    -> "COMPLETED"
    [] state = "failed"  -> "FAILED"

ProviderRead(p) ==
  /\ HookGoes(p, "idle", "write")
  /\ \E t \in Rows :
       /\ order[t] # "none"
       /\ CanTransition(status[t], ReportedStatus(order[t]))
       /\ hookTx' = [hookTx EXCEPT ![p] = t]
       /\ hookArg' = [hookArg EXCEPT ![p] = ReportedStatus(order[t])]
  /\ UNCHANGED <<quoteVars, rowVars, exec, subVars, sweepVars, seen, worldVars,
                 orderVars, refundVars>>

(* This write is to the row alone; the copy in memory keeps its status.    *)
ProviderWrite(p) ==
  /\ HookGoes(p, "write", "done")
  /\ SetStatus(hookTx[p], hookArg[p])
  /\ UNCHANGED <<quoteVars, quoteOf, older, hash, memory, ahead, exec, subVars,
                 sweepVars, hookTx, hookArg, seen, worldVars, orderVars,
                 refundVars>>
-----------------------------------------------------------------------------
(* The world: time, the chain, the payout provider, users, crashes.        *)

(* Thirty seconds pass. *)
QuoteExpires(q) ==
  /\ phase[q] = "live"
  /\ phase' = [phase EXCEPT ![q] = "expired"]
  /\ UNCHANGED <<used, rowVars, exec, subVars, sweepVars, hookVars, worldVars,
                 orderVars, refundVars>>

(* cleanupExpiredQuotes deletes it, used or not. *)
QuoteDeleted(q) ==
  /\ phase[q] = "expired"
  /\ phase' = [phase EXCEPT ![q] = "deleted"]
  /\ used' = [used EXCEPT ![q] = FALSE]
  /\ UNCHANGED <<rowVars, exec, subVars, sweepVars, hookVars, worldVars,
                 orderVars, refundVars>>

(* Ten minutes pass; by then the row's quote has expired long ago.         *)
TenMinutes(t) ==
  /\ t \in (Slow \cap Rows) \ stale
  /\ phase[quoteOf[t]] # "live"
  /\ stale' = stale \cup {t}
  /\ UNCHANGED <<quoteVars, rowVars, exec, subVars, sweepVars, hookVars, sent,
                 landed, closed, crashes, orderVars, refundVars>>

SwapLands(t) ==
  /\ t \in sent \ landed
  /\ landed' = landed \cup {t}
  /\ UNCHANGED <<quoteVars, rowVars, exec, subVars, sweepVars, hookVars, stale,
                 sent, closed, crashes, orderVars, refundVars>>

MonnifyResolves(ref) ==
  /\ order[ref] = "pending"
  /\ \E result \in {"paid", "failed"} :
       order' = [order EXCEPT ![ref] = result]
  /\ UNCHANGED <<quoteVars, rowVars, exec, subVars, sweepVars, hookVars,
                 worldVars, orderFor, payer, refundVars>>

AccountCloses(t) ==
  /\ t \in Closable \ closed
  /\ closed' = closed \cup {t}
  /\ UNCHANGED <<quoteVars, rowVars, exec, subVars, sweepVars, hookVars, stale,
                 sent, landed, crashes, orderVars, refundVars>>

(* The process dies and restarts: every handler in flight and everything   *)
(* kept in memory is gone.  A webhook whose delivery was not answered is   *)
(* delivered again; nobody resumes an execute or a submit.                 *)
Crash ==
  /\ crashes < MaxCrashes
  /\ crashes' = crashes + 1
  /\ exec' = [e \in Txs |-> IF exec[e] \in {"idle", "done"} THEN exec[e]
                             ELSE "dead"]
  /\ subPc' = [s \in Submits |-> IF subPc[s] \in {"idle", "done"} THEN subPc[s]
                                  ELSE "dead"]
  /\ hookPc' = [w \in Hooks |-> IF hookPc[w] = "done" THEN "done" ELSE "idle"]
  /\ seen' = {}
  /\ sweep' = {}
  /\ release' = None
  /\ memory' = [t \in Txs |-> "ABSENT"]
  /\ ahead' = [t \in Txs |-> {}]
  /\ UNCHANGED <<quoteVars, status, quoteOf, older, hash, subTx, hookTx,
                 hookArg, stale, sent, landed, closed, orderVars, refundVars>>
-----------------------------------------------------------------------------
Execute(e) ==
  ExecuteRead(e) \/ ExecuteCreate(e) \/ ExecuteMark(e) \/ ExecuteBuild(e)

Submit(s) ==
  \/ SubmitRead(s) \/ SubmitSigned(s) \/ SubmitSwapping(s)
  \/ SubmitBroadcast(s) \/ SubmitSwapFailed(s) \/ SubmitSwapRefund(s)
  \/ SubmitSwapped(s) \/ SubmitQueue(s) \/ SubmitProcess(s)
  \/ SubmitAccount(s) \/ SubmitPay(s) \/ SubmitComplete(s)
  \/ SubmitPayFailed(s) \/ SubmitPayRefund(s) \/ SubmitSendRefund(s)

Sweep == SweepScan \/ (\E t \in Txs : SweepFail(t)) \/ SweepRelease

Solana(w) ==
  \/ SolanaLookup(w) \/ SolanaGuess(w) \/ SolanaReceive(w)
  \/ SolanaAccount(w) \/ SolanaFiat(w) \/ SolanaDisburse(w)
  \/ SolanaComplete(w)

Monnify(m) ==
  \/ MonnifyRead(m) \/ MonnifyComplete(m) \/ MonnifyFail(m)
  \/ MonnifyRefund(m) \/ MonnifySendRefund(m)

Provider(p) == ProviderRead(p) \/ ProviderWrite(p)

World ==
  \/ \E q \in Quotes : QuoteExpires(q) \/ QuoteDeleted(q)
  \/ \E t \in Txs : TenMinutes(t) \/ SwapLands(t) \/ AccountCloses(t)
  \/ \E ref \in Hashes : MonnifyResolves(ref)
  \/ Crash

Next ==
  \/ \E e \in Txs : Execute(e)
  \/ \E s \in Submits : Submit(s)
  \/ Sweep
  \/ \E w \in SolanaHooks : Solana(w)
  \/ \E m \in MonnifyHooks : Monnify(m)
  \/ \E p \in ProviderHooks : Provider(p)
  \/ World

Spec == Init /\ [][Next]_vars

(* The event loop runs every continuation whose await is over, the timers  *)
(* fire, time passes, and the provider settles and reports its orders.     *)
(* Users need not call anything, and a swap need not land.                 *)
Fairness ==
  /\ \A e \in Txs :
       /\ WF_vars(ExecuteCreate(e)) /\ WF_vars(ExecuteMark(e))
       /\ WF_vars(ExecuteBuild(e))
       /\ WF_vars(TenMinutes(e))
  /\ \A s \in Submits : WF_vars(subPc[s] # "idle" /\ Submit(s))
  /\ WF_vars(Sweep)
  /\ \A m \in MonnifyHooks : WF_vars(Monnify(m))
  /\ \A w \in SolanaHooks : WF_vars(Solana(w))
  /\ \A q \in Quotes : WF_vars(QuoteExpires(q))
  /\ \A ref \in Hashes : WF_vars(MonnifyResolves(ref))

FairSpec == Spec /\ Fairness
=============================================================================
