------------------------------- MODULE Intake -------------------------------
(***************************************************************************)
(* How one merchant's payments come in: payment intents of the API and     *)
(* hosted checkout sessions, the customer's proof of its wallet, the two   *)
(* endpoints Helius reports transfers to, the confirmation of a session by *)
(* the customer's page or by a report, retries by the merchant, and the    *)
(* hourly job that expires what was not paid.                              *)
(*                                                                         *)
(* The repository has two routers for POST /api/webhooks/helius, and only  *)
(* the one mounted first can answer: app.ts mounts webhooks.routes and     *)
(* leaves helius.routes out.  Both are modelled, one per behaviour: the    *)
(* variable router never changes.                                          *)
(*                                                                         *)
(* One action is what a handler does at one await.  Session and nonce      *)
(* copies in memory are lost with the process; rows, and the tokens that   *)
(* customers hold, are not.  Audit rows (PaymentEvent) are left out.       *)
(***************************************************************************)
EXTENDS Naturals, FiniteSets

CONSTANTS
  Intents,     \* payments made by createPayment
  Sessions,    \* checkout sessions
  Wallets,     \* customers' wallets
  Transfers,   \* transfers to the merchant on chain, by signature
  Sender,      \* the wallet each comes from
  Reference,   \* the intent or session each names, None if it names none
  Exact,       \* transfers of the expected amount
  SameToken,   \* transfers in the merchant's own token
  Visits,      \* request slots of the checkout page
  Confirms,    \* confirmations by the checkout page
  FeedHooks,   \* deliveries to processHeliusWebhook (helius.routes)
  RefHooks,    \* deliveries to handleHeliusWebhook (webhooks.routes)
  ExpiryJob,   \* the hourly job
  None,
  MaxCrashes   \* how often the server process may die

Calls == Confirms \cup FeedHooks
Rows == Intents \cup Calls
Procs == Rows \cup RefHooks \cup Visits \cup {ExpiryJob}

ASSUME IntakeAssumption ==
  /\ Sender \in [Transfers -> Wallets]
  /\ Reference \in [Transfers -> Intents \cup Sessions \cup {None}]
  /\ Exact \subseteq Transfers /\ SameToken \subseteq Transfers
  /\ Intents \cap (Calls \cup RefHooks \cup Visits \cup Sessions) = {}
  /\ Confirms \cap FeedHooks = {}
  /\ (RefHooks \cup Visits) \cap Calls = {} /\ RefHooks \cap Visits = {}
  /\ ExpiryJob \notin Rows \cup RefHooks \cup Visits
  /\ None \notin Intents \cup Sessions \cup Wallets \cup Transfers
  /\ MaxCrashes \in Nat

VARIABLES
  router,    \* which router is mounted
  payment,   \* payment.status; a confirmation's row is named by the call
  txHash,    \* payment.txHash
  overdue,   \* intents and sessions whose expiresAt has passed
  told,      \* payments the merchant was told have expired
  session,   \* checkoutSession.status
  customer,  \* checkoutSession.customerWallet
  nonces,    \* memoryCheckoutNonces
  proven,    \* memoryCheckoutSessions: the wallet that has been verified
  seen,      \* processedTxHashes, the signatures handleHeliusWebhook has seen
  tokens,    \* <<session, wallet>> with a customer token
  pc,        \* where each handler is
  on,        \* the intent or session it works on
  by,        \* the transfer or the wallet it works with
  listed,    \* the job's array of payments about to expire
  credits,   \* calls that have credited the escrow balance for a transfer
  crashes

payVars == <<payment, txHash, told>>
sessVars == <<session, customer>>
memVars == <<nonces, proven, tokens, seen>>
callVars == <<pc, on, by>>
runVars == <<router, crashes>>
vars == <<payVars, overdue, sessVars, memVars, callVars, listed, credits,
          runVars>>

PaymentStatus == {"PENDING", "CONFIRMED", "COMPLETED", "FAILED", "EXPIRED"}
SessionStatus ==
  {"PENDING", "AWAITING_PAYMENT", "SWAPPING", "COMPLETED", "EXPIRED"}

TypeOK ==
  /\ router \in {"webhooks", "helius"}
  /\ payment \in [Rows -> PaymentStatus \cup {"ABSENT"}]
  /\ txHash \in [Rows -> Transfers \cup {None}]
  /\ overdue \subseteq Intents \cup Sessions
  /\ told \subseteq Intents
  /\ session \in [Sessions -> SessionStatus \cup {"ABSENT"}]
  /\ customer \in [Sessions -> Wallets \cup {None}]
  /\ nonces \subseteq Sessions \X Wallets
  /\ proven \in [Sessions -> Wallets \cup {None}]
  /\ tokens \subseteq Sessions \X Wallets
  /\ seen \subseteq Transfers
  /\ pc \in [Procs ->
       {"idle", "persist", "remember", "expire", "quote", "check", "session",
        "match", "confirm", "complete", "credit", "fail", "done", "dead",
        "sCheck", "sConfirm", "sPayment", "sCredit", "skipped", "write",
        "reset", "update", "tell", "sessions", "lookup"}]
  /\ on \in [Procs -> Rows \cup Sessions \cup {None}]
  /\ by \in [Procs -> Transfers \cup Wallets \cup {None}]
  /\ listed \subseteq Intents
  /\ credits \in [Transfers -> SUBSET Calls]
  /\ crashes \in Nat

Init ==
  /\ router \in {"webhooks", "helius"}
  /\ payment = [p \in Rows |-> "ABSENT"]
  /\ txHash = [p \in Rows |-> None]
  /\ overdue = {} /\ told = {}
  /\ session = [s \in Sessions |-> "ABSENT"]
  /\ customer = [s \in Sessions |-> None]
  /\ nonces = {}
  /\ proven = [s \in Sessions |-> None]
  /\ tokens = {}
  /\ seen = {}
  /\ pc = [c \in Procs |-> "idle"]
  /\ on = [c \in Procs |-> None]
  /\ by = [c \in Procs |-> None]
  /\ listed = {}
  /\ credits = [t \in Transfers |-> {}]
  /\ crashes = 0
-----------------------------------------------------------------------------
(* A step of one handler's control; its first, which fixes what it is for. *)
Goes(c, from, to) == pc[c] = from /\ pc' = [pc EXCEPT ![c] = to]
Moves(c, from, to) == Goes(c, from, to) /\ UNCHANGED <<on, by>>
Starts(c, to, x, y) ==
  /\ Goes(c, "idle", to)
  /\ on' = [on EXCEPT ![c] = x]
  /\ by' = [by EXCEPT ![c] = y]
Ends(c, from) ==
  /\ Goes(c, from, "idle")
  /\ on' = [on EXCEPT ![c] = None]
  /\ by' = [by EXCEPT ![c] = None]

(* Unconditional writes of a payment's and of a session's status.          *)
SetPayment(p, st) == payment' = [payment EXCEPT ![p] = st]
SetSession(s, st) == session' = [session EXCEPT ![s] = st]
-----------------------------------------------------------------------------
(* Creation, by the merchant's server                                      *)

createPayment(p) ==
  /\ payment[p] = "ABSENT"
  /\ SetPayment(p, "PENDING")
  /\ UNCHANGED <<txHash, told, overdue, sessVars, memVars, callVars,
                 listed, credits, runVars>>

createCheckoutSession(s) ==
  /\ session[s] = "ABSENT"
  /\ SetSession(s, "PENDING")
  /\ UNCHANGED <<payVars, overdue, customer, memVars, callVars, listed,
                 credits, runVars>>

(* retryPayment: the status is read at one await and written at the next.  *)
RetryRead(p) ==
  /\ payment[p] = "FAILED"
  /\ Moves(p, "idle", "reset")
  /\ UNCHANGED <<payVars, overdue, sessVars, memVars, listed, credits, runVars>>

RetryReset(p) ==
  /\ Moves(p, "reset", "done")
  /\ SetPayment(p, "PENDING")
  /\ UNCHANGED <<txHash, told, overdue, sessVars, memVars, listed,
                 credits, runVars>>
-----------------------------------------------------------------------------
(* The checkout page: getCheckoutSession, createCheckoutNonce,             *)
(* verifyCheckoutSignature, executeCheckoutPayment                         *)

Open(s) == session[s] \in {"PENDING", "AWAITING_PAYMENT"}

(* A page view that finds a session out of time expires it at its next     *)
(* await, whatever the session is by then, unless the database fails.      *)
View(v, s) ==
  /\ Starts(v, "expire", s, None)
  /\ session[s] = "PENDING" /\ s \in overdue
  /\ UNCHANGED <<payVars, overdue, sessVars, memVars, listed, credits, runVars>>

ExpireSeen(v) ==
  /\ Ends(v, "expire")
  /\ SetSession(on[v], "EXPIRED") \/ UNCHANGED session
  /\ UNCHANGED <<payVars, overdue, customer, memVars, listed, credits, runVars>>

(* A challenge is kept in memory under the session and the wallet.         *)
createCheckoutNonce(s, w) ==
  /\ Open(s) /\ s \notin overdue
  /\ <<s, w>> \notin nonces
  /\ nonces' = nonces \cup {<<s, w>>}
  /\ UNCHANGED <<payVars, overdue, sessVars, proven, tokens, seen, callVars,
                 listed, credits, runVars>>

NonceExpires(s, w) ==
  /\ <<s, w>> \in nonces
  /\ nonces' = nonces \ {<<s, w>>}
  /\ UNCHANGED <<payVars, overdue, sessVars, proven, tokens, seen, callVars,
                 listed, credits, runVars>>

(* The signature is checked, the nonce spent and the token issued without  *)
(* an await in between; the wallet is stored at the next, in memory alone  *)
(* if the database fails.                                                  *)
VerifyProof(v, s, w) ==
  /\ Starts(v, "persist", s, w)
  /\ Open(s) /\ s \notin overdue
  /\ <<s, w>> \in nonces
  /\ nonces' = nonces \ {<<s, w>>}
  /\ tokens' = tokens \cup {<<s, w>>}
  /\ UNCHANGED <<payVars, overdue, sessVars, proven, seen, listed, credits,
                 runVars>>

VerifyPersist(v) ==
  /\ Moves(v, "persist", "remember")
  /\ \/ customer' = [customer EXCEPT ![on[v]] = by[v]]
     \/ UNCHANGED customer
  /\ UNCHANGED <<payVars, overdue, session, memVars, listed, credits, runVars>>

VerifyRemember(v) ==
  /\ Ends(v, "remember")
  /\ proven' = [proven EXCEPT ![on[v]] = by[v]]
  /\ UNCHANGED <<payVars, overdue, sessVars, nonces, tokens, seen, listed,
                 credits, runVars>>

(* Defect: any wallet will do once one is verified. *)
BugAuthenticated(s, w) == proven[s] # None
(* What counts as proof of a wallet: the copy in memory, a token, or that  *)
(* the row names the wallet and some wallet is verified in memory.         *)
Authenticated(s, w) ==
  \/ proven[s] = w
  \/ <<s, w>> \in tokens
  \/ customer[s] = w /\ proven[s] # None
ExecuteRead(v, s, w) ==
  /\ Authenticated(s, w)
  /\ Open(s)
  /\ \/ s \notin overdue /\ Starts(v, "quote", s, w)
     \/ s \in overdue /\ Starts(v, "expire", s, w)
  /\ UNCHANGED <<payVars, overdue, sessVars, memVars, listed, credits, runVars>>

(* After the quote, the token accounts and the swap have been awaited the  *)
(* session is locked for a swap or opened for a direct transfer; an error  *)
(* on the way leaves it as it was.                                         *)
ExecuteWrite(v) ==
  /\ Ends(v, "quote")
  /\ \/ /\ \E st \in {"SWAPPING", "AWAITING_PAYMENT"} : SetSession(on[v], st)
        /\ customer' = [customer EXCEPT ![on[v]] = by[v]]
     \/ UNCHANGED sessVars
  /\ UNCHANGED <<payVars, overdue, memVars, listed, credits, runVars>>
-----------------------------------------------------------------------------
(* confirmCheckoutPayment, called by the page or by a feed delivery        *)

(* A session that is COMPLETED is left alone.  Where the lookup fails the  *)
(* copy in memory stands in for the row, whatever it says.                 *)
MayConfirm(s) == customer[s] # None \/ proven[s] # None
AfterLookup(s) == IF session[s] = "COMPLETED" THEN "done" ELSE "sConfirm"

PageConfirm(c, s, t) ==
  /\ session[s] # "ABSENT" /\ MayConfirm(s)
  /\ \/ Starts(c, AfterLookup(s), s, t)
     \/ \E to \in {"done", "sConfirm"} : Starts(c, to, s, t)
  /\ UNCHANGED <<payVars, overdue, sessVars, memVars, listed, credits, runVars>>

(* With no copy either it throws, and the feed looks for a payment.        *)
ConfirmRead(c) ==
  /\ \/ Moves(c, "sCheck", AfterLookup(on[c]))
     \/ \E to \in {"done", "sConfirm", "match"} : Moves(c, "sCheck", to)
  /\ UNCHANGED <<payVars, overdue, sessVars, memVars, listed, credits, runVars>>

(* The writes share one try: the first that fails ends them, and the       *)
(* merchant is told of the payment all the same.                           *)
ConfirmSession(c) ==
  /\ \/ Moves(c, "sConfirm", "sPayment") /\ SetSession(on[c], "COMPLETED")
     \/ Moves(c, "sConfirm", "done") /\ UNCHANGED session
  /\ UNCHANGED <<payVars, overdue, customer, memVars, listed, credits, runVars>>

(* Defect: the payment is not recorded. *)
BugConfirmPayment(c) ==
  /\ Moves(c, "sPayment", "sCredit")
  /\ UNCHANGED <<payVars, overdue, sessVars, memVars, listed, credits, runVars>>
ConfirmPayment(c) ==
  /\ \/ /\ Moves(c, "sPayment", "sCredit")
        /\ SetPayment(c, "COMPLETED")
        /\ txHash' = [txHash EXCEPT ![c] = by[c]]
     \/ Moves(c, "sPayment", "skipped") /\ UNCHANGED <<payment, txHash>>
  /\ UNCHANGED <<told, overdue, sessVars, memVars, listed, credits,
                 runVars>>

(* The escrow balance is credited, for any merchant.                       *)
ConfirmCredit(c) ==
  /\ Moves(c, "sCredit", "done")
  /\ \/ credits' = [credits EXCEPT ![by[c]] = @ \cup {c}]
     \/ UNCHANGED credits
  /\ UNCHANGED <<payVars, overdue, sessVars, memVars, listed, runVars>>
-----------------------------------------------------------------------------
(* processHeliusWebhook                                                    *)

(* Helius delivers a transfer again when it saw no answer to the last time. *)
Undelivered(t) ==
  \A f \in FeedHooks : by[f] = t => pc[f] \in {"done", "skipped", "dead"}

FeedDelivered(f, t) ==
  /\ router = "helius"
  /\ Undelivered(t)
  /\ Starts(f, IF \E p \in Rows : txHash[p] = t THEN "done" ELSE "session",
            None, t)
  /\ UNCHANGED <<payVars, overdue, sessVars, memVars, listed, credits, runVars>>

(* A session that waits for the sender's payment is looked for first.      *)
Awaiting(w) ==
  {s \in Sessions : session[s] = "AWAITING_PAYMENT" /\ customer[s] = w}

FeedSession(f) ==
  /\ \/ /\ Goes(f, "session", "sCheck")
        /\ \E s \in Awaiting(Sender[by[f]]) : on' = [on EXCEPT ![f] = s]
        /\ UNCHANGED by
     \/ /\ Moves(f, "session", "match")
        /\ Awaiting(Sender[by[f]]) = {}
  /\ UNCHANGED <<payVars, overdue, sessVars, memVars, listed, credits, runVars>>

Pending == {p \in Intents : payment[p] = "PENDING"}

(* Defect: the amount is not compared. *)
BugFeedMatch(f) ==
  /\ \/ /\ Goes(f, "match", "confirm")
        /\ \E p \in Pending : on' = [on EXCEPT ![f] = p]
        /\ UNCHANGED by
     \/ Moves(f, "match", "done") /\ Pending = {}
  /\ UNCHANGED <<payVars, overdue, sessVars, memVars, listed, credits, runVars>>
(* Otherwise any PENDING payment to the merchant's wallet is taken.        *)
FeedMatch(f) ==
  /\ \/ /\ Goes(f, "match", IF by[f] \in Exact THEN "confirm" ELSE "fail")
        /\ \E p \in Pending : on' = [on EXCEPT ![f] = p]
        /\ UNCHANGED by
     \/ Moves(f, "match", "done") /\ Pending = {}
  /\ UNCHANGED <<payVars, overdue, sessVars, memVars, listed, credits, runVars>>

FeedFail(f) ==
  /\ Moves(f, "fail", "done")
  /\ SetPayment(on[f], "FAILED")
  /\ UNCHANGED <<txHash, told, overdue, sessVars, memVars, listed,
                 credits, runVars>>

(* Another token: the payment stays CONFIRMED, its swap is up to the page. *)
FeedConfirm(f) ==
  /\ Moves(f, "confirm", IF by[f] \in SameToken THEN "complete" ELSE "done")
  /\ SetPayment(on[f], "CONFIRMED")
  /\ txHash' = [txHash EXCEPT ![on[f]] = by[f]]
  /\ UNCHANGED <<told, overdue, sessVars, memVars, listed, credits,
                 runVars>>

FeedComplete(f) ==
  /\ Moves(f, "complete", "credit")
  /\ SetPayment(on[f], "COMPLETED")
  /\ UNCHANGED <<txHash, told, overdue, sessVars, memVars, listed,
                 credits, runVars>>

(* For merchants settled in fiat only.                                     *)
FeedCredit(f) ==
  /\ Moves(f, "credit", "done")
  /\ credits' = [credits EXCEPT ![by[f]] = @ \cup {f}]
  /\ UNCHANGED <<payVars, overdue, sessVars, memVars, listed, runVars>>

(* An error of the database on the way ends the delivery: it is caught and *)
(* listed in the answer.                                                   *)
FeedThrows(f) ==
  /\ pc[f] \in {"session", "match", "confirm", "fail", "complete", "credit"}
  /\ Moves(f, pc[f], "done")
  /\ UNCHANGED <<payVars, overdue, sessVars, memVars, listed, credits, runVars>>
-----------------------------------------------------------------------------
(* handleHeliusWebhook: the payment named by the transfer, or already      *)
(* known by its hash, becomes CONFIRMED whatever it was.  The database may *)
(* fail at either await; the delivery is answered with 200 all the same.   *)

(* Defect: the signature is not remembered. *)
BugRefSeen(r, t) ==
  /\ router = "webhooks"
  /\ Starts(r, IF t \in seen THEN "done" ELSE "lookup", None, t)
  /\ UNCHANGED <<payVars, overdue, sessVars, memVars, listed, credits, runVars>>
(* The signatures seen, processedTxHashes, are kept before the handling.   *)
RefSeen(r, t) ==
  /\ router = "webhooks"
  /\ Starts(r, IF t \in seen THEN "done" ELSE "lookup", None, t)
  /\ seen' = seen \cup {t}
  /\ UNCHANGED <<payVars, overdue, sessVars, nonces, proven, tokens, listed,
                 credits, runVars>>

(* A confirmation's payment names its session's order. *)
Named(t) ==
  {p \in Rows : /\ payment[p] # "ABSENT"
                /\ \/ p = Reference[t] \/ txHash[p] = t
                   \/ p \in Calls /\ on[p] = Reference[t]}

RefLookup(r) ==
  /\ \/ /\ Goes(r, "lookup", "write")
        /\ \E p \in Named(by[r]) : on' = [on EXCEPT ![r] = p]
        /\ UNCHANGED by
     \/ Moves(r, "lookup", "done")
  /\ UNCHANGED <<payVars, overdue, sessVars, memVars, listed, credits, runVars>>

(* Defect: the status of the comment beside the write, which the schema    *)
(* does not have.                                                          *)
BugRefWrite(r) ==
  /\ Moves(r, "write", "done")
  /\ SetPayment(on[r], "DETECTED")
  /\ txHash' = [txHash EXCEPT ![on[r]] = by[r]]
  /\ UNCHANGED <<told, overdue, sessVars, memVars, listed, credits, runVars>>
RefWrite(r) ==
  /\ Moves(r, "write", "done")
  /\ \/ /\ SetPayment(on[r], "CONFIRMED")
        /\ txHash' = [txHash EXCEPT ![on[r]] = by[r]]
     \/ UNCHANGED <<payment, txHash>>
  /\ UNCHANGED <<told, overdue, sessVars, memVars, listed, credits, runVars>>
-----------------------------------------------------------------------------
(* runExpirePayments, every hour                                           *)

(* Defect: a payment whose merchant has been told is not looked at again. *)
BugDue == {p \in Intents : payment[p] = "PENDING" /\ p \in overdue \ told}
Due == {p \in Intents : payment[p] = "PENDING" /\ p \in overdue}

JobScan ==
  /\ Moves(ExpiryJob, "idle", "update")
  /\ listed' = Due
  /\ UNCHANGED <<payVars, overdue, sessVars, memVars, credits, runVars>>

(* One statement expires whatever is due by now.  Only if there was any    *)
(* are merchants told.                                                     *)
JobExpire ==
  /\ Moves(ExpiryJob, "update", IF Due = {} THEN "sessions" ELSE "tell")
  /\ payment' = [p \in Rows |-> IF p \in Due THEN "EXPIRED" ELSE payment[p]]
  /\ UNCHANGED <<txHash, told, overdue, sessVars, memVars, listed,
                 credits, runVars>>

(* The merchants told are those of the first list.                         *)
JobTell ==
  /\ \/ /\ Moves(ExpiryJob, "tell", "tell")
        /\ \E p \in listed : told' = told \cup {p} /\ listed' = listed \ {p}
     \/ /\ Moves(ExpiryJob, "tell", "sessions")
        /\ listed = {}
        /\ UNCHANGED <<told, listed>>
  /\ UNCHANGED <<payment, txHash, overdue, sessVars, memVars, credits,
                 runVars>>

(* Defect: a session that was opened for payment never expires. *)
BugJobSessions ==
  /\ Moves(ExpiryJob, "sessions", "idle")
  /\ session' = [s \in Sessions |->
                   IF session[s] = "PENDING" /\ s \in overdue
                   THEN "EXPIRED" ELSE session[s]]
  /\ listed' = {}
  /\ UNCHANGED <<payVars, overdue, customer, memVars, credits, runVars>>
(* expireCheckoutSessions *)
JobSessions ==
  /\ Moves(ExpiryJob, "sessions", "idle")
  /\ session' = [s \in Sessions |->
                   IF Open(s) /\ s \in overdue THEN "EXPIRED" ELSE session[s]]
  /\ listed' = {}
  /\ UNCHANGED <<payVars, overdue, customer, memVars, credits, runVars>>
-----------------------------------------------------------------------------
(* The world                                                               *)

(* Twenty-four hours for an intent, one for a session, have gone by.       *)
TimePasses(x) ==
  /\ x \notin overdue
  /\ overdue' = overdue \cup {x}
  /\ UNCHANGED <<payVars, sessVars, memVars, callVars, listed, credits,
                 runVars>>

(* The process dies and is started again.                                  *)
Running(c) == pc[c] \notin {"idle", "done", "skipped"}
Crash ==
  /\ crashes < MaxCrashes
  /\ crashes' = crashes + 1
  /\ pc' = [c \in Procs |-> IF c \in Visits \cup {ExpiryJob} THEN "idle"
                            ELSE IF Running(c) THEN "dead" ELSE pc[c]]
  /\ on' = [c \in Procs |-> IF c \in Visits THEN None ELSE on[c]]
  /\ by' = [c \in Procs |-> IF c \in Visits THEN None ELSE by[c]]
  /\ nonces' = {}
  /\ seen' = {}
  /\ proven' = [s \in Sessions |-> None]
  /\ listed' = {}
  /\ UNCHANGED <<payVars, overdue, sessVars, tokens, credits, router>>
-----------------------------------------------------------------------------
JobStep == JobScan \/ JobExpire \/ JobTell \/ JobSessions

PageStep(v) ==
  \/ ExpireSeen(v) \/ VerifyPersist(v) \/ VerifyRemember(v) \/ ExecuteWrite(v)

ConfirmStep(c) ==
  \/ ConfirmRead(c) \/ ConfirmSession(c) \/ ConfirmPayment(c)
  \/ ConfirmCredit(c)

FeedStep(f) ==
  \/ FeedSession(f) \/ FeedMatch(f) \/ FeedFail(f) \/ FeedConfirm(f)
  \/ FeedComplete(f) \/ FeedCredit(f) \/ FeedThrows(f)

RefStep(r) == RefLookup(r) \/ RefWrite(r)

(* What the merchant's server and the customer's page ask for; the         *)
(* controllers check the form of a request and call the service.           *)
MerchantRequests ==
  \/ \E p \in Intents : createPayment(p) \/ RetryRead(p)
  \/ \E s \in Sessions : createCheckoutSession(s)

PageRequests ==
  \E s \in Sessions :
    \/ \E w \in Wallets : createCheckoutNonce(s, w)
    \/ \E v \in Visits : View(v, s)
    \/ \E v \in Visits, w \in Wallets : VerifyProof(v, s, w)
    \/ \E v \in Visits, w \in Wallets : ExecuteRead(v, s, w)
    \/ \E c \in Confirms, t \in Transfers : PageConfirm(c, s, t)

Reports ==
  \E t \in Transfers :
    \/ \E f \in FeedHooks : FeedDelivered(f, t)
    \/ \E r \in RefHooks : RefSeen(r, t)

Clock ==
  \/ \E x \in Intents \cup Sessions : TimePasses(x)
  \/ \E s \in Sessions, w \in Wallets : NonceExpires(s, w)

Next ==
  \/ MerchantRequests \/ PageRequests \/ Reports \/ Clock
  \/ \E p \in Intents : RetryReset(p)
  \/ \E v \in Visits : PageStep(v)
  \/ \E c \in Calls : ConfirmStep(c)
  \/ \E f \in FeedHooks : FeedStep(f)
  \/ \E r \in RefHooks : RefStep(r)
  \/ JobStep
  \/ Crash

Spec == Init /\ [][Next]_vars

(* A handler that has begun goes on, and the job runs every hour.  What     *)
(* customers, merchants and Helius do is not fair.                         *)
Fairness ==
  /\ \A p \in Intents : WF_vars(RetryReset(p))
  /\ \A v \in Visits : WF_vars(PageStep(v))
  /\ \A c \in Calls : WF_vars(ConfirmStep(c))
  /\ \A f \in FeedHooks : WF_vars(FeedStep(f))
  /\ \A r \in RefHooks : WF_vars(RefStep(r))
  /\ WF_vars(JobStep)

FairSpec == Spec /\ Fairness
=============================================================================
