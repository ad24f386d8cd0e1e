# FluxPay backend: TLA+ models, checks and proofs

FluxPay is an Express/TypeScript payment gateway on Solana (`src/backend`). A
consumer can sell tokens for money in a bank account (the off-ramp); a merchant
can take payments in tokens and have them settled to a bank account. State is in
Postgres, through Prisma. Every Prisma call is a separate await: the code uses no
database transaction and hardly any conditional update, so what a handler has
read may be stale when it writes. Much is kept a second time, in maps of the
process or in Redis. That, and calls to providers, to the chain and to the
database that may fail or be lost, is what these modules are about.

## 1. The system

| part | state it keeps | operations | talks to | what is hard | what makes it correct |
|---|---|---|---|---|---|
| Off-ramp execution (`offrampExecution.service`) | `OffRampTransaction` rows | execute, submit, cleanup job (every 5 min) | quotes, Jupiter, the Solana RPC, payout providers, escrow refunds | each call is a chain of 5 to 15 awaits; submit, two webhooks and the job write the same row | fiat ordered at most once, and only once the row no longer waits for a signature; no row signable twice; a deposit is paid out or refunded |
| State machine (`transactionStateMachine`) | none | `canTransition`, `assertTransition` | consulted by the off-ramp and webhooks | called inside `try {}` it has no effect | it refuses what is not in the table |
| Webhooks (`webhooks.controller`) | `processedTxHashes` in memory | Helius, Solana, Monnify, NGN, USD/EUR deliveries | payments, off-ramp rows, settlements | duplicates, old reports, redelivery after a crash, matching by guess | an old report pays nothing twice and makes nothing signable |
| Quotes (`quote.service`) | `Quote` rows | create, expire, delete, mark used, release | off-ramp | `used` is read and set at different awaits | one transaction per quote once it is marked |
| Payout providers (`providers/*`, `utils/retry`) | none | order a transfer, with retries | Monnify, OneLiquidity | a call that throws may have paid | one transfer per reference |
| Escrow refunds (`routing.service`) | none | `refundEscrowToUser` | Solana | errors are swallowed | a row is REFUNDED over a standing order only by a submit call that does not know of it |
| Payout accounts | `BankAccount` rows | add, verify, delete | off-ramp, settlement | deleted while a payout is under way | - |
| Fiat settlement (`settlement.service`) | `Settlement` rows, `Payment.settled` | trigger, daily job, hourly retry job | escrow balance, providers | the three overlap; payments are marked only after the payout | a payment is marked settled only if it was paid; every settlement ends |
| Escrow balance (`escrow.service`) | `Merchant.escrowBalance` | increment, decrement | payments, settlement | read and written at different awaits | - (credits are lost) |
| Payments (`payment.service`, `expire-payments`) | `Payment` rows | create, retry, expire | reports, merchant webhooks | a report, a retry and the job write one row | what is paid was paid in full; nothing overdue stays PENDING |
| Payment detection (`helius.service`) | `Payment.txHash` | match a transfer to a session or an intent, confirm, complete, credit | checkout, escrow balance | matched by wallet, several awaits before the write | as above |
| Checkout (`checkout.service`) | `CheckoutSession` rows and a copy in memory | create, view, nonce, verify, execute, confirm, expire | payments, detection | proof of a wallet lives in three places; pages, reports and the job write one session | a session is bound to a proven wallet; a completed one is recorded; none stays open |
| Non-custodial swap (`nonCustodialSwap.service`, `jupiter.service`) | `Payment.status`, `swapTxHash`, timeline | send the customer's swap, retry with swaps of its own, create the token account | Jupiter, Solana | a swap whose confirmation is given up may land | at most one swap beyond those lost sight of; the payment says what the chain says |
| Refunds (`refund.service`) | `Refund` rows, `Payment.refunded` | request, approve, reject, process | Solana, with failover | the status is checked and set at different awaits | what is recorded as refunded went out, after an approval |
| Settlement on chain (`settlement.service`, from 1035) | `Settlement` rows, `Payment.settled` | process, daily round, failover | Solana, the fiat retry job | its failed rows are picked up by the fiat job | what is recorded as settled went out |
| Idempotency keys (`middleware/idempotency`, `cache.service`) | answers in Redis | replay, store | refund requests | stored only when the answer is sent | - |
| Merchant webhooks (`utils/webhook`, `webhookQueue.service`) | logs in the database or memory; jobs in Redis or timers | enqueue, deliver, retry, shut down | merchants, BullMQ | at-least-once delivery, two stores, loss with the process | what is recorded as delivered was; every event ends; attempts are bounded |
| Authentication (`auth.service`, `consumerAuth.service`, `consumerNonce`) | nonces, merchants, users, each in the database and in memory | nonce, login, signup, profile | - | two stores, each call may fail and be passed over | a nonce opens once; a wallet has one account |
| API keys (`apikey.service`, `secret.service`, `apikey.middleware`) | keys in two tables, three maps and a cache | make, roll, revoke, check | authentication | six places to forget a key in | a revoked key stays revoked |
| Reconciliation, settings, team, invoices, subscriptions, tokens and prices, alerts, e-mail, HTTP layer | their own rows | compare, read, write, send | - | little | - |

`PROJECT.json` lists the components with their files, and the hazards at the
lines where they bite. Smaller hazards of the same code that are not listed
there: a failed settlement on chain is taken up by the fiat retry job, which its
provider refuses (in `HotWallet`); a restart forgets keys kept in memory (in
`Access`); the log of a webhook stays RETRYING if the write in its last catch
fails, and an event that arrives during shutdown finds a closed queue (both in
`WebhookDelivery`); webhook URL and signature are computed once per event; the
failure counter of `webhookQueue.service:365` counts twice; a rolled API key stays
in the quick map; a retried settlement without its bank account is paid to
account `0000000000` (`settlement.service:829`); two orders for one cart make two
sessions (`checkout.service:116`).

## 2. Plan

Done, in this order: `OffRamp` with `TransactionStateMachine` and `Settlement`, the
two ways money leaves in fiat, with abstract specifications and proofs; `Intake`,
how payments come in, which composes checkout, detection, the webhook and expiry,
since they write the same rows; `HotWallet`, what leaves on chain; `WebhookDelivery`;
`Access`; `NonCustodialSwap`.

Then theorems: every safety property the runs check, invariant or action property,
is proved of its module for all values of the constants, two of them under a
hypothesis (section 5). They came in
the order of their worth: what orders and settles money first (`OffRamp`,
`Settlement`), then what leaves on chain, what is delivered, who gets in, and what
comes in.

To come: abstract specifications of the newer modules, with refinements like those
of `OffRampPromise` and `SettlementPromise`. First `HotWallet`: a refund is asked
for, approved, sent and recorded, in that order, and what is recorded is not taken
back; then the single use of a nonce in `Access` and the attempts of an event in
`WebhookDelivery`.

## 3. Modules

| module | role |
|---|---|
| `TransactionStateMachine` | the status table |
| `OffRamp` | execute, submit, cleanup job, Solana, Monnify and provider webhooks, quotes, the outside world |
| `OffRampPromise` | what the off-ramp promises about one transaction |
| `OffRampProperties` | properties; the refinement mapping |
| `OffRampProofs`, `OffRampGuardProofs` | theorems about `OffRamp`: its invariant and refinement; what a check at one await guards at later ones |
| `Settlement` | payments credited, trigger, daily job, retry job, provider webhook |
| `SettlementPromise` | what settlement promises about payments |
| `SettlementProperties`, `SettlementProofs` | as above |
| `Intake` | payment intents, checkout sessions, both Helius routers, retries, the hourly expiry |
| `HotWallet` | refunds and settlements on chain, failover, idempotency keys |
| `WebhookDelivery` | both delivery services, Redis and memory, BullMQ, shutdown |
| `Access` | nonces, sign-in, sign-up, profile, API keys |
| `NonCustodialSwap` | the swap of a payment in another token |
| `IntakeProperties`, `HotWalletProperties`, `WebhookDeliveryProperties`, `AccessProperties`, `NonCustodialSwapProperties` | what is claimed of them |
| `IntakeProofs`, `HotWalletProofs`, `WebhookDeliveryProofs`, `AccessProofs`, `NonCustodialSwapProofs` | theorems about them |
| `MC...` | the instances |

Operators whose names begin with `Bug` are defective variants of the definition
that follows them. No specification uses them; they show that each checked
property can fail.

### How state and actions correspond to the code

One action is what a handler does at one await: a row read, a row written, a
provider called, with the synchronous code around it. The handlers run on one
event loop, so nothing else happens within an action and anything may happen
between two. A handler's place in the code and its local variables are variables
of the model: `exec`, `subPc`/`subTx`, `hookPc`/`hookTx`/`hookArg`, `sweep`/`release`
(`OffRamp`), `pc`, `balance`, `tries`, `batch`, `counted`, `current`,
`hookRow`/`hookTo`/`hookCount` (`Settlement`), and `pc` with `on`, `by`, `got`, `try`,
`tries`, `stale`, `found`, `profile`, `listed` (the others). Columns of rows keep
their names (`status`, `used`, `retryCount`, `paymentIds`). A row is named by the
call that creates it, because its id is drawn there. Requests that a check rejects
change nothing and have no action.

`OffRamp`:

* `Execute`: quote read and checked (`ExecuteRead`), row created, quote marked,
  swap built. Building may fail; the quote then stays used.
* `Submit`: `SubmitRead` is the last check; then SIGNED, SWAPPING, the broadcast,
  SWAPPED, PAYOUT_PENDING, PAYOUT_PROCESSING, the bank account, the payout, and
  COMPLETED, or FAILED, REFUNDED and the refund. Without the account the call
  throws and the row stays PAYOUT_PROCESSING. Monnify's PROCESSING is taken for
  COMPLETED, as the code does.
* `Sweep`: the job reads an array of rows and works through it with the rows as
  they were; the transition it asserts therefore always holds.
* `Solana`: a hash is remembered before anything is done about it; the row is
  found by hash or, failing that, is the newest one open, whoever it belongs to; if
  none is, the first copy in `memoryTransactions` that has the hash or looks open.
  `memory` and `ahead` are the status and the order of these copies, which
  `updateTransaction` writes with the row and the provider webhook does not, so that
  a finished row may still look open.
* `Monnify`, `Provider`: the first asserts the transition inside `try {}`, the
  second outside.
* `Disburse` is the call as production makes it; the COMPLETED that
  `monnify.adapter:337` makes up where the sandbox refuses is left out.
* `payer` and `refunder` are history: the call that made an order and was told of it,
  and the handler that last wrote REFUNDED. No guard reads them.
* The two writes that mark (or release) a quote are identical and are one action.
* `WalletIds` are the transactions whose actor id is 32 characters or more. The
  program draws ids of 17 to 25 characters, so the set is empty in production
  and no refund is sent; it is not empty in the runs that
  exercise the branch.

`Settlement`, for one merchant paid in NGN (merchants share nothing; for other
currencies the provider always throws):

* `CompletePayment`, `CreditRead`, `CreditWrite`: a payment completes by one of
  the paths in `helius.service` or `checkout.service`; those credit the balance
  (`Escrowed`), the swap services do not.
* `DailyCheck`, `Gather`, `Create`, `Process`: up to the payout; then `Pay`,
  `Complete`, `DebitRead`, `DebitWrite`, `Settle` or `Fail`, which the trigger,
  the daily job and the retry job repeat word for word and the model has once.
* `RetryScan`, `RetryMark`: the hourly job reads an array and writes its counts.
* `HookRead`, `HookWrite`: the webhook's settlement branch, without a transition
  check, writing what it computed from the row as read.
* `ContractErrors` models the condition at `ngn.real.ts:186`.
* The configuration checks of a call (merchant found, FIAT, account verified)
  read what nothing here writes; a call they reject is not in the model, except
  that the daily run then skips. All amounts are 1.

`Intake`, for one merchant:

* `createPayment`, `RetryRead`/`RetryReset`; `JobScan`, `JobExpire`, `JobTell`,
  `JobSessions` are one run of the hourly job.
* The checkout page: `View` and `ExpireSeen`; `createCheckoutNonce`; `VerifyProof`,
  `VerifyPersist`, `VerifyRemember` (the nonce is spent and the token issued before
  the wallet is stored in the row, and then in memory); `ExecuteRead`,
  `ExecuteWrite`; `PageConfirm`. `Authenticated` is the code's chain of three
  proofs.
* `processHeliusWebhook`: `FeedDelivered`, `FeedSession`, `FeedMatch`, `FeedFail`,
  `FeedConfirm`, `FeedComplete`, `FeedCredit`, and `FeedThrows` where the database
  fails on the way; `ConfirmRead` to `ConfirmCredit` are `confirmCheckoutPayment`,
  which the page and the feed share. Its writes share one `try`, whose catch only
  logs: if the payment is refused after the session was made COMPLETED, the call ends
  `skipped` and nothing repairs it. If it throws, the feed goes on to the payments.
* `handleHeliusWebhook`: `RefSeen`, `RefLookup`, `RefWrite`.
* Both routers answer to one path and the first that is mounted takes the
  request. `app.ts` mounts `webhooks.routes`; `helius.routes` is not mounted, so
  `processHeliusWebhook` runs only in its tests today. `router` is either, and never
  changes.

`HotWallet`, for one merchant and one token:

* `RequestArrives`, `RequestRead`, `RequestFind`, `RequestInsert`; `Review`, `Approve`,
  `Reject`; `ProcessArrives` to `ProcessFail`. `Unless` and `Answers` are the two
  halves of the idempotency middleware, at the ends of a call.
* `Send` is a transfer within `withFailover`: confirmed, or thrown and landed or not,
  with the next endpoint trying again with a transfer of its own.
* `Gather`, `BatchCreate`, `BatchComplete`, `BatchFlag`, `BatchFail` are
  `processManualSettlement`; a round of `processDailySettlement`, which nothing
  schedules, is `SettlementRound`. `RetryMark` and `RetryRefused` are what the fiat
  retry job does to a failed one.

`WebhookDelivery`: `LogCreate`, `AddJob`, `StartInMemory`, `TakeJob`, `TimerFires`,
`Post`, `WriteOk`, `WriteRefused`, `CatchInJob`, `CatchInMemory`, `JobReturns`,
`JobThrows`, `TimerThrows`. The two services differ in their logs (one falls back to
memory), in the number of attempts and in what they do without Redis; the
constants `Direct` and `Queued` keep them apart. BullMQ is external: a job that throws
is tried again, one that was active when the process ended is found stalled and
given out again, once. `Shutdown` and `Exit` follow the order of `index.ts`.

`Access`: one wallet, a merchant's or a customer's, chosen in `Init`. Each action is
one database call and has a parameter that says whether it fails, which the code
logs and passes over. `Judge` is what is done with the nonce found; `DropNonce`
the two deletions; `LoginFind`, `SignupFind`, `ConsumerFind`, `Create` the account;
`GenerateCredentials` (also `rollApiKey`), `RevokePrimary`, `CreateApiKey`,
`RevokeApiKey`, `ProfileRead`, `ProfileWrite`; `Accepted` is the chain of look-ups of
`requireApiKey` and `AcceptedAtCheckout` the one `createSession` makes itself, which
never asks the cache. Sessions are left out because `requireAuth` serves a signed token
whether or not it finds the session.

`NonCustodialSwap`: `Process` to `LogComplete` follow
`processNonCustodialSwapIfNeeded` and `executeNonCustodialSwap`. `Lands` and
`FailsOnChain` are the chain. Only a unit test and a script call this code; its
quotes alone are in use.

The models take the database to be available except where a write or call may
fail: `ProcessComplete` and `ProcessFlag` (`HotWallet`), every call of the checkout
page, of a confirmation and of both Helius routers (`Intake`; its hourly job and the
merchant's requests are taken to be answered), and all of `WebhookDelivery`, `Access` and `NonCustodialSwap`, where
`MaxFaults` bounds it. The copies in memory that services write beside a working
database are in the model where something reads them (`memory`, `proven`, `nonceMem`,
`byWallet`, `quick`, `kept`, ...). Elsewhere they only stand in for a database that
does not answer and are left out; where a confirmation's look-up fails, what the copy
says is any of the outcomes it could have.

External, from how `src/` uses it: the chain (a transaction sent may land),
Monnify and OneLiquidity (a reference used before makes no new transfer, which is
what the code relies on; an order is settled or fails later), Helius (a report may
be delivered again), merchants' receivers, BullMQ, crashes (everything in memory
is lost; rows and Redis stay; an unanswered webhook is delivered again). Webhooks of
`/webhooks/ngn` are taken to name an off-ramp order by the transaction's id.

## 4. Runs

| run | instance | shows |
|---|---|---|
| `promise` | 2 transactions, 1 quote, 1 submit call for either, 1 Solana webhook, a deposit nobody here made, an account that may be closed, lost replies, 1 crash | types; `OneOrderPerTransaction`; `OffRamp` implements `OffRampPromise`; no call is let in with a quote another has marked |
| `deposit` | 1 transaction, 2 submit calls, two webhooks, job; no crash, no lost reply; fair | `SignedOnce`; a swap that reached escrow is paid out or marked REFUNDED; a transaction nobody signs is failed |
| `refunds` | 1 transaction, 2 submit calls, 1 Solana, 1 Monnify and 1 provider webhook, a deposit nobody here made, lost replies of the payout call | REFUNDED stands over an order under way or paid only where a submit call wrote it that is not the one that made the order and was told |
| `ledger` | 2 payments, trigger, daily run, retry job, webhook, lost answers, 1 crash; 2 attempts, 1 retry | types; `SettledMeansPaid`; `Settlement` implements `SettlementPromise` |
| `resolve` | 1 payment, trigger, daily run, retry job, 3 attempts and 3 retries; fair | every settlement ends COMPLETED or failed three times over; what the provider accepted is booked |
| `settled_twice` | 2 payments, trigger, daily run, retry job | violated: one payment in two COMPLETED settlements |
| `pages` | 1 session, 2 wallets, 1 page slot used again and again, 1 page confirmation, 1 feed delivery, 1 crash; fair | `PaidByProvenCustomer`, `SessionRecorded`, `DueSessionsEnd` |
| `feed` | 2 intents, 3 transfers (one of a wrong amount, one in another token), 2 deliveries to either router, retries, job, 1 crash; fair | types; `PaidInFull`, `ReportActedOnOnce`, `DuePaymentsEnd` |
| `wallet` | 1 payment, 2 requests, 2 reviews, 1 process call, 1 settlement on chain, 2 endpoints, 1 retry, one key, 1 crash; fair | types; `RecordedMeansSent`, `SentMeansApproved`, `ProcessingEnds` |
| `delivery` | 1 event of each service, 2 attempts, 1 refused write, 2 crashes or shutdowns, with or without Redis; fair | types; `SuccessMeansAccepted`, `AttemptsBounded`, `SuccessStays`, `JobsSurvive`, `TimersEnd` |
| `access` | 2 calls, 2 nonces, 1 key, either role, 1 failing database call, 1 restart | types; `NonceOpensOnce`, `OneIdentity`, `NamedKeyStaysRevoked`, `PrimaryKeyStaysRevoked` |
| `swap` | 1 payment with the customer's swap and 3 attempts, 1 in the merchant's token, 1 failing write, 1 crash; fair | types; `OneSwapBeyondDoubt`, `StatusAgreesWithChain`, `SwapEnds` |

Deadlock is not checked where the calls of an instance are finitely many and all
end. In `Intake` it is checked: the hourly job always has a next step.

Bounds. Two transactions, payments or intents are what interference through a
guess, a job's array or a gathered set needs; two calls for one row are what a race
between check and write needs (`pages` has one page slot besides the confirmation, the
delivery and the job: that overlapping visits break nothing is the theorem
`CustomerIsProven`; and `wallet` one process call, with `SentIsApproved` and
`RecordedIsSent` for more); one delivery of each webhook can be late with
respect to every step of the others; one crash can come at any step, and everything
in memory is lost with the first. `delivery` has two, as a job may be found stalled
twice. Two wallets let a session be bound to the wrong one. Two endpoints are
one failover. One refused write is enough for the two copies of a row to differ.
Attempts and retries are lowered in `ledger`, `wallet`, `delivery` and `swap`, where
only the first, a middle and the last differ, and have the code's values in
`resolve`. Wallets of `access` are one: nonces and accounts of two share nothing.

Properties that hold only under a condition are checked under it and say so:
`KeepsPromise` counts a transaction as launched when its row has left PENDING and
AWAITING_SIGNATURE, in whatever way; fiat for a launched one need not mean that
anybody signed it, as a deposit that matches no row is guessed onto the newest open
one. `RefundedOnlyIfUnpaid` excepts two cases, both reached by its run: the order was
made by another submit call or by the Solana webhook, or the call that made it lost
the reply; what it excludes for every delivery and crash is that a call undoes the
order it knows of, and that a provider's report does. `DepositResolved` needs no crash
(nothing resumes a submit) and the bank account; `SettlementResolved` and
`PaidThenSettled` need no crash and no webhook (an old report turns a COMPLETED
settlement into a PROCESSING one for good); the safety results about settled
payments need `ContractErrors = FALSE`; `SessionRecorded` and `ProcessingEnds` hold
until a crash, as nothing takes up what was under way; `SessionRecorded` also excepts a
payment the database refused, which the code logs and leaves; `DueSessionsEnd` counts
SWAPPING as an end, which only a confirmation leaves again; `ProcessingEnds` also takes
the update in the handler's own catch to succeed; `ReportActedOnOnce` holds until a
restart, which forgets the signatures seen. In `Access` and `NonCustodialSwap` the
exceptions are variables that only record them: `shared` (a nonce read while another
call had it), `together` (two sign-ins overlapped), `held` (a key a profile update
had read), `doubt` (swaps whose outcome or record was lost), `faults`. That the
runs pass shows that no other is needed, where a call of the database and what the
code does with its answer are one action; that each is needed was seen by leaving it
out.

Fairness. The event loop runs a continuation whose await is over, the jobs' timers
fire, quotes expire, time passes for transactions, and a provider settles and reports its
orders; a request to the chain or to a merchant ends, at the latest with its
timeout. No user, merchant, approver or provider need begin anything, and a swap
need not land. In `Intake` time need not pass either: the properties speak of what is
overdue already. Weak fairness is enough: a handler's next step stays enabled
until it is taken.

Where the code differs from what a comment says beside it, or from what one
expects, and the models follow the code:

* `webhooks.controller:474`, `:586`: terminal rows are overwritten, because
  `assertTransition` is called inside `try {}` and its error is only logged.
* `webhooks.controller:453`, `:474`: a deposit that matches no row is given to the
  newest open one, also one that still waits for its signature, and fiat is ordered
  for it: a payout for a transaction that nobody signed. Failing an open row, it may
  be given to a finished one whose copy in memory lags (`:460`).
* `checkout.service:849`: a payment that cannot be created leaves its session
  COMPLETED, and the merchant is told of it all the same.
* `offrampExecution:220`: two execute calls that overlap take one quote.
* `webhooks.controller:629`: no refund is sent for actor ids shorter than 32
  characters, which all ids drawn today are, and the row says REFUNDED.
* `escrow.service:31`: one of two credits at once is lost.
* `ngn.real:186`: a refusal that names a contract counts as a payout.
* `config/solana:84`: a transfer that timed out and landed is made again by the
  next endpoint, so a refund or settlement may go out twice.
* `webhooks.controller:77`: the signature is remembered before the payment is
  handled, so the redelivery a comment there counts on is skipped.
* `checkout.service:783`: the page and a report may both record a payment for one
  session. `refund.service:315`: two process calls may both send a refund.
* `secret.service:109`: a rolled API key is accepted until the next restart.

## 5. Proofs

Each system module has an inductive invariant `IInv`, a theorem `Invariance`
(`Spec => []IInv`), a theorem `TypeCorrect` (`Spec => []TypeOK`), and a theorem for
each of its safety properties. `Spec` is the specification without fairness. The
sets in the constants are arbitrary: nothing need be finite unless an assumption
says so, and the bounds on crashes, faults, attempts and retries may be any number.
The checked invariants alone are never inductive: they say nothing of the handlers
that have read and not yet written, and each `IInv` below says what such a handler
still has a right to do.

`OffRampProofs`, from `OffRampAssumption` (the sets of names are disjoint, and the
marker `None` is no transaction, hash or quote):

* `Invariance`: `IInv` is inductive. It says in which statuses a row is while
  execute is at work (`ExecInv`); that whoever holds a row - a submit call, a
  webhook, the job's array, a deposit's hash - took it when it was past PENDING,
  and has launched it once it has written to it (`SubmitInv`, `HookInv`,
  `SweepInv`, `HashInv`); and that an order is known by its transaction's id and
  came after the launch (`OrderInv`).
* `TypeCorrect`, `PaidOnce` (`OneOrderPerTransaction`) follow from it.
* `Implements`: `Spec => KeepsPromise`. The lemma `Effect` classifies steps: each
  leaves stage and orders alone, creates or launches one transaction, or places or
  resolves one order.

`SettlementProofs`, from `SettlementAssumption`:

* `Invariance`: `IInv` is inductive. Before a call has made its row, nobody - the
  retry job's array, the row it is paying, a webhook, the provider - knows of the
  row (`FreshInv`); whoever works on a row has one (`JobInv`, `HookInv`); a payout
  that is being booked has been accepted (`BookInv`); only completed payments are
  gathered (`EarnedInv`) and only accepted ones settled (`PaidInv`). `FreshInv` is
  why gathering cannot change what an accepted payout stands for, and `BookInv`
  carries acceptance over the awaits between the provider's answer and the write
  of `settled`, whatever happens to the row's status meanwhile.
* `TypeCorrect` follows from it, with the finiteness of `Payments` for the balance.
* `BookedIsPaid` (`SettledMeansPaid`) and `Implements` (`Spec => KeepsPromise`)
  follow under `~ContractErrors`; without it a refusal that counts as success breaks
  both. For the second, completing a payment is `Earn`, a payout call
  `PayOut` of its row's payments, marking them `Book`, and all else a stutter.

`OffRampGuardProofs` adds three invariants to that of `OffRampProofs`, one for each
check that is made at one await and relied on at later ones:

* `MarkClosesQuote` (`AdmissionClosedByMark`), with `AdmissionInv`: the quote of a
  call that has marked it is used or out of date. The cleanup job sets `used` back,
  so the invariant also follows the job's array: it holds only rows ten minutes
  old, whose quotes are out of date, and no quote comes back to life.
* `SignedByOneWave` (`SignedOnce`), with `SigningInv` and the lemma that a launched
  transaction stays launched: whoever is past SIGNED holds a launched row, and a
  call is let in only on a row that is not.
* `RefundedIsUnpaid` (`RefundedOnlyIfUnpaid`), with no hypothesis. A call that made an
  order and was told goes on to COMPLETED, never to a refund (`PayerInv`); a provider's
  handler on its way to FAILED or REFUNDED acts on an order that has failed, which is
  final, and no report of the other provider says REFUNDED (`ReportInv`); so where the
  row says REFUNDED over a standing order a submit call wrote it, and not that
  order's (`RefunderInv`). Without a second call, the Solana webhook or a lost reply
  there is no such order, and REFUNDED then means unpaid.

`HotWalletProofs`: `IInv` says that a request, review or process call at work names a
refund that exists (`RequestInv`, `ReviewInv`, `ProcessInv`), that one past
`processRefund`'s look at the status acts on a refund some review has approved,
although a second review may have written REJECTED since, and that one past the
transfer has something on chain behind it (`ProcessInv`, `BatchInv`).
`SentIsApproved` and `RecordedIsSent` are conjuncts of it.

`WebhookDeliveryProofs`: `IInv` says for each event that its job in Redis and its
timer in memory exclude each other (`PlaceInv`), bounds what has reached the
merchant by the attempts BullMQ has counted, with one more for a stalled job
(`JobInv`), or by the attempt a timer has set (`TimerInv`), and says from where a
log may be written SUCCESS or FAILED (`LogInv`). From it `SuccessIsAccepted`,
`AttemptsAreBounded` and the action property `SuccessIsFinal`.

`AccessProofs`. `AccessAssumption` also says that the markers of an absent row, nonce
or id are none of those; which values mark an absence is a choice of the model.

* `NonceIsSingleUse` (`NonceOpensOnce`): the invariant is a budget. `Spent(n)` counts
  the sessions a nonce has opened and those about to be opened by calls that have
  deleted it; while it can still be found, or a call has read it and not yet deleted
  it, `Spent(n) <= faults` (`NonceInv`). A failed deletion adds one to either side.
* `WalletHasOneAccount` (`OneIdentity`): without faults or overlap only the row's id is
  given out and no account is made twice (`IdentityInv`).
* `NamedKeyIsRevoked`, `PrimaryKeyIsRevoked`: a key is named or primary, and of one
  account (`KindInv`), so that no store of the one kind revives a key of the other;
  without faults the stores agree on the primary key (`KeyInv`).

`IntakeProofs`:

* `CustomerIsProven` (`PaidByProvenCustomer`): the row, the copy in memory, and every
  visit that is about to bind a wallet have a token for it (`ProvenInv`, `VisitInv`).
* `IntentIsPaidInFull` (`PaidInFull`): a delivery that has matched an intent holds an
  exact transfer (`CallInv`), and the intent names an exact one from the first write on
  (`PaidInv`), whatever retry and expiry write to its status in between.
* `ReportIsActedOnOnce` (`ReportActedOnOnce`): a delivery at work has its signature in
  `processedTxHashes`, and only one with that signature got past it (`OnceInv`).

`NonCustodialSwapProofs`: `IInv` says that an attempt's swap is unsent when it is about
to be sent (`UnsentInv`), that of the swaps that may have happened only that of the
attempt under way is not in doubt (`HoldInv`), that what is recorded has landed and
that FAILED leaves only swaps in doubt (`RecordInv`), and how often a timeline can say
COMPLETED (`TimelineInv`, for the type of `events`). From it `OneSwap` and `StatusIsTrue`.

Each `IInv`, and the invariants `OffRampGuardProofs` adds, held on the instances of
section 4 before it was proved.

TLC alone checks the liveness properties: `DepositResolved`,
`AwaitingSignatureTimesOut`, `SettlementResolved`, `PaidThenSettled`,
`SessionRecorded`, `DueSessionsEnd`, `DuePaymentsEnd`, `ProcessingEnds`, `JobsSurvive`,
`TimersEnd`, `SwapEnds`; reasoning under fairness, with `ENABLED`, is beyond the
provers used. And it alone finds the counterexample of `settled_twice`. No model
needs recursion, so nothing rests on induction over data.

## 6. Not modelled

* Reconciliation: it compares two sums and reports; nothing reads what it writes.
* Merchant settings, team, invoices, subscriptions: rows edited by their owner;
  nothing bills a subscription or collects an invoice.
* Tokens and prices: lists fetched from outside. Alerts, e-mail, monitoring: output.
  HTTP layer: routing, validation and the format of errors.
* Parts of modelled components: the creation of quotes and the comparison of
  routes (computations on prices); the swap quote shown with a payment, made by
  `createPayment` and refreshed when asked for, a price for display; adding and verifying bank accounts; lists and
  statistics, which only read; the event log of webhooks and the audit rows of payments;
  the test delivery of a webhook and the storage of its URL and secret; sessions,
  uniqueness of e-mail addresses, profiles of accounts neither store knows, and the
  demonstration merchant and keys that every start puts into memory (`Access`); the search for an earlier session of one order and demonstration
  sessions (`checkout.service`); the server-side swap calls of `jupiter.service` that
  nothing calls.
* Amounts, rates and fees are data no property here tells apart, except that a
  transfer is or is not of the expected amount.
