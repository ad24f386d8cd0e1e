-------------------------- MODULE NonCustodialSwap --------------------------
(***************************************************************************)
(* A payment made in another token than the merchant wants: the customer's *)
(* signed swap is sent, and if that does not end well the server builds    *)
(* swaps of its own, one per attempt.  The chain tells whether a swap has  *)
(* landed in a separate call, which may give up before the chain decides.  *)
(*                                                                         *)
(* One action is what the code does at one await.  A call is named by the  *)
(* payment it is about (the repository's only callers are a unit test and  *)
(* a script, one call a payment).  Swap 0 of a payment is the customer's,  *)
(* swap a the one of attempt a.  Amounts, slippage and waits between       *)
(* attempts are left out.                                                  *)
(***************************************************************************)
EXTENDS Naturals, FiniteSets

CONSTANTS
  Payments,
  SameToken,    \* payments in the token the merchant wants
  Presigned,    \* payments that come with a swap the customer has signed
  OneSigner,    \* payments whose swaps the gas wallet alone can sign
  MaxAttempts,  \* MAX_SWAP_RETRIES, 5 in the code
  MaxFaults,    \* database writes that fail
  MaxCrashes    \* how often the server process may die

Swaps == 0..MaxAttempts

ASSUME NonCustodialSwapAssumption ==
  /\ SameToken \subseteq Payments /\ Presigned \subseteq Payments
  /\ OneSigner \subseteq Payments
  /\ MaxAttempts \in Nat \ {0} /\ MaxFaults \in Nat /\ MaxCrashes \in Nat

VARIABLES
  status,   \* payment.status
  tx,       \* payment.swapTxHash: a swap, or MaxAttempts + 1 for none
  retried,  \* payment.swapRetries
  events,   \* the payment's timeline, as how often each status is in it
  pc, try,  \* where the call is, and its attempt
  chain,    \* what has become of each swap
  doubt,    \* swaps whose outcome or record the call has lost
  account,  \* does the merchant's token account exist?
  faults, crashes

paymentVars == <<status, tx, retried, events>>
vars == <<paymentVars, pc, try, chain, doubt, account, faults, crashes>>

NoTx == MaxAttempts + 1
Waiting == {"start", "same", "sameEvent", "mark", "balance", "presend"}
Trying == {"build", "send", "confirm", "record", "recordEvent", "caught"}
Ending == {"poor", "fail", "failEvent", "complete", "completeEvent"}

TypeOK ==
  /\ status \in [Payments -> {"CONFIRMED", "COMPLETED", "FAILED"}]
  /\ tx \in [Payments -> 0..NoTx]
  /\ retried \in [Payments -> 0..MaxAttempts]
  /\ events \in [Payments -> [{"COMPLETED", "FAILED"} -> 0..2]]
  /\ pc \in [Payments -> Waiting \cup Trying \cup Ending \cup {"done"}]
  /\ try \in [Payments -> Swaps]
  /\ chain \in [Payments -> [Swaps -> {"unsent", "sent", "landed", "failed"}]]
  /\ doubt \in [Payments -> SUBSET Swaps]
  /\ \A p \in Payments, a \in Swaps :
       chain[p][a] # "unsent" => a <= try[p] /\ (a > 0 => p \in OneSigner)
  /\ account \in BOOLEAN
  /\ faults \in 0..MaxFaults /\ crashes \in 0..MaxCrashes

Init ==
  /\ status = [p \in Payments |-> "CONFIRMED"]
  /\ tx = [p \in Payments |-> NoTx]
  /\ retried = [p \in Payments |-> 0]
  /\ events = [p \in Payments |-> [s \in {"COMPLETED", "FAILED"} |-> 0]]
  /\ pc = [p \in Payments |-> "start"]
  /\ try = [p \in Payments |-> 0]
  /\ chain = [p \in Payments |-> [a \in Swaps |-> "unsent"]]
  /\ doubt = [p \in Payments |-> {}]
  /\ account \in BOOLEAN
  /\ faults = 0 /\ crashes = 0
-----------------------------------------------------------------------------
Goes(p, from, to) == pc[p] = from /\ pc' = [pc EXCEPT ![p] = to]
Doubts(p) == doubt' = [doubt EXCEPT ![p] = @ \cup {try[p]}]

(* A write goes from one step to the next, or throws to the handler. *)
Writes(p, from, to, handler) ==
  \/ Goes(p, from, to) /\ UNCHANGED faults
  \/ /\ faults < MaxFaults /\ faults' = faults + 1
     /\ Goes(p, from, handler)
Written == faults' = faults
SetStatus(p, st) ==
  status' = IF Written THEN [status EXCEPT ![p] = st] ELSE status
Logs(p, st) ==
  events' = IF Written THEN [events EXCEPT ![p][st] = @ + 1] ELSE events
-----------------------------------------------------------------------------
(* processNonCustodialSwapIfNeeded *)

Process(p) ==
  /\ Goes(p, "start", IF p \in SameToken THEN "same" ELSE "mark")
  /\ UNCHANGED <<paymentVars, try, chain, doubt, account, faults, crashes>>

CompleteSame(p) ==
  /\ Writes(p, "same", "sameEvent", "done")
  /\ SetStatus(p, "COMPLETED")
  /\ UNCHANGED <<tx, retried, events, try, chain, doubt, account, crashes>>

LogSame(p) ==
  /\ Writes(p, "sameEvent", "done", "done")
  /\ Logs(p, "COMPLETED")
  /\ UNCHANGED <<status, tx, retried, try, chain, doubt, account, crashes>>

MarkSwap(p) ==
  /\ Writes(p, "mark", "balance", "done")
  /\ UNCHANGED <<paymentVars, try, chain, doubt, account, crashes>>

(* checkMerchantSolBalance: too little, or no answer from any endpoint,    *)
(* fails the payment before anything is sent.                              *)
CheckBalance(p) ==
  /\ \/ Goes(p, "balance", "poor")
     \/ Goes(p, "balance", IF p \in Presigned THEN "presend" ELSE "build")
  /\ try' = [try EXCEPT ![p] = IF p \in Presigned THEN 0 ELSE 1]
  /\ UNCHANGED <<paymentVars, chain, doubt, account, faults, crashes>>

FailPoor(p) ==
  /\ Writes(p, "poor", "done", "done")
  /\ SetStatus(p, "FAILED")
  /\ UNCHANGED <<tx, retried, events, try, chain, doubt, account, crashes>>
-----------------------------------------------------------------------------
(* The next attempt, or the end of them. *)
Again(p, from) ==
  /\ pc[p] = from
  /\ IF try[p] < MaxAttempts
     THEN /\ try' = [try EXCEPT ![p] = @ + 1]
          /\ pc' = [pc EXCEPT ![p] = "build"]
     ELSE try' = try /\ pc' = [pc EXCEPT ![p] = "fail"]

(* What the catch of an attempt does; the customer's swap has a catch of   *)
(* its own, which writes nothing.                                          *)
Caught(p, from) == IF try[p] = 0 THEN Again(p, from)
                   ELSE Goes(p, from, "caught") /\ try' = try

SendPresigned(p) ==
  /\ pc[p] = "presend"
  /\ \/ /\ chain' = [chain EXCEPT ![p][0] = "sent"]
        /\ \/ Goes(p, "presend", "confirm") /\ UNCHANGED <<try, doubt>>
           \/ Doubts(p) /\ Again(p, "presend")
     \/ Again(p, "presend") /\ UNCHANGED <<chain, doubt>>
  /\ UNCHANGED <<paymentVars, account, faults, crashes>>

(* buildSwapTransaction, with the token account created on the way: no     *)
(* quote or no transaction is a failed attempt, dust ends them.            *)
Build(p) ==
  /\ \/ Goes(p, "build", "send") /\ UNCHANGED try
     \/ Goes(p, "build", "fail") /\ UNCHANGED try
     \/ Again(p, "build")
  /\ UNCHANGED <<paymentVars, chain, doubt, account, faults, crashes>>

(* ensureTokenAccountExists: an account that exists, or that another call  *)
(* has created meanwhile, is left alone; a failure is not fatal.           *)
EnsureAccount(p) ==
  /\ pc[p] = "build" /\ ~account
  /\ account' = TRUE
  /\ UNCHANGED <<paymentVars, pc, try, chain, doubt, faults, crashes>>

BugSend(p) ==
  /\ pc[p] = "send"
  /\ \/ /\ chain' = [chain EXCEPT ![p][try[p] + 1] = "sent"]
        /\ Goes(p, "send", "confirm") /\ UNCHANGED <<try, doubt>>
     \/ Caught(p, "send") /\ UNCHANGED <<chain, doubt>>
  /\ UNCHANGED <<paymentVars, account, faults, crashes>>

(* Signing throws when the gas wallet is not a signer of the swap. *)
Send(p) ==
  /\ pc[p] = "send"
  /\ \/ /\ p \in OneSigner
        /\ chain' = [chain EXCEPT ![p][try[p]] = "sent"]
        /\ \/ Goes(p, "send", "confirm") /\ UNCHANGED <<try, doubt>>
           \/ Doubts(p) /\ Caught(p, "send")
     \/ Caught(p, "send") /\ UNCHANGED <<chain, doubt>>
  /\ UNCHANGED <<paymentVars, account, faults, crashes>>

BugConfirm(p) ==
  /\ pc[p] = "confirm"
  /\ \/ Goes(p, "confirm", "record") /\ UNCHANGED <<try, doubt>>
     \/ Doubts(p) /\ Caught(p, "confirm")
  /\ UNCHANGED <<paymentVars, chain, account, faults, crashes>>

(* Confirmed, failed on chain, or given up while it may still land. *)
Confirm(p) ==
  /\ pc[p] = "confirm"
  /\ \/ /\ chain[p][try[p]] = "landed"
        /\ Goes(p, "confirm", "record") /\ UNCHANGED <<try, doubt>>
     \/ chain[p][try[p]] = "failed" /\ Again(p, "confirm") /\ UNCHANGED doubt
     \/ Doubts(p) /\ Caught(p, "confirm")
  /\ UNCHANGED <<paymentVars, chain, account, faults, crashes>>

(* updatePaymentSuccess throws into the attempt it was called from. *)
RecordSuccess(p) ==
  /\ pc[p] = "record"
  /\ \/ /\ Goes(p, "record", "recordEvent")
        /\ status' = [status EXCEPT ![p] = "COMPLETED"]
        /\ tx' = [tx EXCEPT ![p] = try[p]]
        /\ retried' = [retried EXCEPT ![p] = IF try[p] = 0 THEN 1 ELSE try[p]]
        /\ UNCHANGED <<try, doubt, faults>>
     \/ /\ faults < MaxFaults /\ faults' = faults + 1
        /\ Doubts(p) /\ Caught(p, "record")
        /\ UNCHANGED <<status, tx, retried>>
  /\ UNCHANGED <<events, chain, account, crashes>>

BugRecordEvent(p) ==
  /\ Again(p, "recordEvent")
  /\ events' = [events EXCEPT ![p]["COMPLETED"] = @ + 1]
  /\ UNCHANGED <<status, tx, retried, chain, doubt, account, faults, crashes>>

RecordEvent(p) ==
  /\ pc[p] = "recordEvent"
  /\ \/ /\ Goes(p, "recordEvent", "complete")
        /\ events' = [events EXCEPT ![p]["COMPLETED"] = @ + 1]
        /\ UNCHANGED <<try, doubt, faults>>
     \/ /\ faults < MaxFaults /\ faults' = faults + 1
        /\ Doubts(p) /\ Caught(p, "recordEvent")
        /\ UNCHANGED events
  /\ UNCHANGED <<status, tx, retried, chain, account, crashes>>

(* The catch writes the error down; if that fails the call is over and the *)
(* payment stays as it is.                                                 *)
NoteError(p) ==
  /\ pc[p] = "caught"
  /\ \/ Again(p, "caught") /\ UNCHANGED faults
        /\ retried' = [retried EXCEPT ![p] = try[p]]
     \/ /\ faults < MaxFaults /\ faults' = faults + 1
        /\ Goes(p, "caught", "done") /\ UNCHANGED <<try, retried>>
  /\ UNCHANGED <<status, tx, events, chain, doubt, account, crashes>>
-----------------------------------------------------------------------------
BugFail(p) ==
  /\ Goes(p, "fail", "failEvent")
  /\ UNCHANGED <<paymentVars, try, chain, doubt, account, faults, crashes>>

Fail(p) ==
  /\ Writes(p, "fail", "failEvent", "done")
  /\ SetStatus(p, "FAILED")
  /\ retried' = IF Written THEN [retried EXCEPT ![p] = MaxAttempts]
                ELSE retried
  /\ UNCHANGED <<tx, events, try, chain, doubt, account, crashes>>

LogFail(p) ==
  /\ Writes(p, "failEvent", "done", "done")
  /\ Logs(p, "FAILED")
  /\ UNCHANGED <<status, tx, retried, try, chain, doubt, account, crashes>>

(* The caller of a swap that succeeded completes the payment once more. *)
Complete(p) ==
  /\ Writes(p, "complete", "completeEvent", "done")
  /\ SetStatus(p, "COMPLETED")
  /\ UNCHANGED <<tx, retried, events, try, chain, doubt, account, crashes>>

LogComplete(p) ==
  /\ Writes(p, "completeEvent", "done", "done")
  /\ Logs(p, "COMPLETED")
  /\ UNCHANGED <<status, tx, retried, try, chain, doubt, account, crashes>>
-----------------------------------------------------------------------------
(* The chain: the merchant's token account has to exist for a swap. *)
Lands(p, a) ==
  /\ chain[p][a] = "sent" /\ account
  /\ chain' = [chain EXCEPT ![p][a] = "landed"]
  /\ UNCHANGED <<paymentVars, pc, try, doubt, account, faults, crashes>>

FailsOnChain(p, a) ==
  /\ chain[p][a] = "sent"
  /\ chain' = [chain EXCEPT ![p][a] = "failed"]
  /\ UNCHANGED <<paymentVars, pc, try, doubt, account, faults, crashes>>

Crash ==
  /\ crashes < MaxCrashes
  /\ crashes' = crashes + 1
  /\ pc' = [p \in Payments |-> IF pc[p] = "start" THEN "start" ELSE "done"]
  /\ UNCHANGED <<paymentVars, try, chain, doubt, account, faults>>

Call(p) ==
  \/ Process(p) \/ CompleteSame(p) \/ LogSame(p) \/ MarkSwap(p)
  \/ CheckBalance(p) \/ FailPoor(p)
  \/ SendPresigned(p) \/ Build(p) \/ Send(p) \/ Confirm(p)
  \/ RecordSuccess(p) \/ RecordEvent(p) \/ NoteError(p)
  \/ Fail(p) \/ LogFail(p) \/ Complete(p) \/ LogComplete(p)

Next ==
  \/ \E p \in Payments :
       \/ Call(p) \/ EnsureAccount(p)
       \/ \E a \in Swaps : Lands(p, a) \/ FailsOnChain(p, a)
  \/ Crash

Spec == Init /\ [][Next]_vars

(* A call goes on: every request to the chain or to Jupiter ends, at the   *)
(* latest with its timeout.                                                *)
FairSpec == Spec /\ \A p \in Payments : WF_vars(Call(p))
=============================================================================
