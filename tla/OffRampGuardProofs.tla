------------------------- MODULE OffRampGuardProofs -------------------------
(***************************************************************************)
(* Proofs that what a handler of OffRamp checks at one await guards what   *)
(* it does at later ones: a quote's admission, a transaction's signing,    *)
(* and the refund.  Each adds an invariant of its own to that of           *)
(* OffRampProofs.                                                          *)
(***************************************************************************)
EXTENDS OffRampProofs

(* A call that has marked its quote leaves it used or out of date; and the *)
(* rows the cleanup job may release belong to quotes that are out of date. *)
AdmissionInv ==
  /\ \A t \in Txs : /\ exec[t] = "idle" => quoteOf[t] = None
                    /\ exec[t] # "idle" => quoteOf[t] \in Quotes
                    /\ exec[t] \in {"build", "done"} =>
                         used[quoteOf[t]] \/ phase[quoteOf[t]] # "live"
  /\ \A t \in stale : exec[t] # "idle" /\ phase[quoteOf[t]] # "live"
  /\ sweep \subseteq stale /\ release \in stale \cup {None}

(* A submit call that is done leaves its transaction launched. *)
SigningInv ==
  \A s \in Submits :
    /\ subPc[s] = "idle" => subTx[s] = None
    /\ subPc[s] = "done" => subTx[s] \in Txs /\ Launched(subTx[s])

(* A submit call that made an order and was told of it has no refund ahead *)
(* of it; Monnify's webhook refunds only what has failed; and whoever      *)
(* marked a transaction REFUNDED whose order has not failed is a submit    *)
(* call that is past its refund and did not make the order.                *)
PayerInv ==
  \A r \in Hashes :
    payer[r] \in Submits => subPc[payer[r]] \in {"complete", "done", "dead"}
ReportInv ==
  \A w \in Hooks :
    /\ hookPc[w] \in {"fail", "refund", "sendRefund"} =>
         order[hookTx[w]] = "failed"
    /\ hookPc[w] = "write" => hookArg[w] # "REFUNDED"
RefunderInv ==
  \A t \in Txs :
    status[t] = "REFUNDED" =>
      \/ order[t] = "failed"
      \/ /\ refunder[t] \in Submits /\ refunder[t] # payer[t]
         /\ subPc[refunder[t]] \in {"sendRefund", "done", "dead"}
RefundInv == PayerInv /\ ReportInv /\ RefunderInv
-----------------------------------------------------------------------------
(* Quotes are marked and released, and no quote comes back to life.        *)

LEMMA InitAdmission == Init => AdmissionInv
BY DEF Init, AdmissionInv

(* A step of an execute call. *)
LEMMA ExecuteAdmission ==
  ASSUME IInv, AdmissionInv, NEW e \in Txs, Execute(e)
  PROVE  AdmissionInv'
<1>1. TypeOK
  BY DEF IInv
<1>2. UNCHANGED <<phase, stale, sweep, release>>
  BY DEF Execute, ExecuteRead, ExecuteCreate, ExecuteMark, ExecuteBuild, quoteVars,
         sweepVars, worldVars
<1>3. /\ \A t \in Txs \ {e} : exec'[t] = exec[t] /\ quoteOf'[t] = quoteOf[t]
      /\ exec'[e] \in {"create", "mark", "build", "done"}
      /\ exec[e] = "idle" => quoteOf'[e] \in Quotes /\ exec'[e] = "create"
      /\ exec[e] # "idle" => quoteOf'[e] = quoteOf[e]
  <2>1. CASE ExecuteRead(e)
    BY <1>1, <2>1 DEF ExecuteRead, ExecGoes, TypeOK
  <2>2. CASE ExecuteCreate(e)
    BY <1>1, <2>2 DEF ExecuteCreate, ExecGoes, TypeOK
  <2>3. CASE ExecuteMark(e)
    BY <1>1, <2>3 DEF ExecuteMark, ExecGoes, TypeOK, rowVars
  <2>4. CASE ExecuteBuild(e)
    BY <1>1, <2>4 DEF ExecuteBuild, ExecGoes, TypeOK
  <2>5. QED
    BY <2>1, <2>2, <2>3, <2>4 DEF Execute
<1>4. /\ \A q \in Quotes : used[q] /\ phase[q] = "live" => used'[q]
      /\ exec'[e] \in {"build", "done"} =>
           used'[quoteOf[e]] \/ phase[quoteOf[e]] # "live"
  <2>1. CASE ExecuteMark(e)
    <3>1. /\ quoteOf[e] \in Quotes
          /\ used' = [used EXCEPT ![quoteOf[e]] = phase[quoteOf[e]] # "deleted"]
      BY <2>1 DEF ExecuteMark, ExecGoes, AdmissionInv
    <3>2. used'[quoteOf[e]] = (phase[quoteOf[e]] # "deleted")
      BY <1>1, <3>1 DEF TypeOK
    <3>3. \A q \in Quotes \ {quoteOf[e]} : used'[q] = used[q]
      BY <1>1, <3>1 DEF TypeOK
    <3>4. QED
      BY <3>1, <3>2, <3>3
  <2>2. CASE ExecuteBuild(e)
    BY <2>2 DEF ExecuteBuild, ExecGoes, AdmissionInv, quoteVars
  <2>3. CASE ExecuteRead(e) \/ ExecuteCreate(e)
    BY <1>1, <2>3 DEF ExecuteRead, ExecuteCreate, ExecGoes, TypeOK, quoteVars
  <2>4. QED
    BY <2>1, <2>2, <2>3 DEF Execute
<1>5. exec[e] = "idle" => e \notin stale
  BY DEF AdmissionInv
<1>6. \A t \in Txs :
        /\ exec'[t] = "idle" => quoteOf'[t] = None
        /\ exec'[t] # "idle" => quoteOf'[t] \in Quotes
        /\ exec'[t] \in {"build", "done"} =>
             used'[quoteOf'[t]] \/ phase'[quoteOf'[t]] # "live"
  <2>1. ASSUME NEW t \in Txs \ {e}
        PROVE  /\ exec'[t] = "idle" => quoteOf'[t] = None
               /\ exec'[t] # "idle" => quoteOf'[t] \in Quotes
               /\ exec'[t] \in {"build", "done"} =>
                    used'[quoteOf'[t]] \/ phase'[quoteOf'[t]] # "live"
    BY <1>2, <1>3, <1>4 DEF AdmissionInv
  <2>2. /\ exec'[e] # "idle" /\ quoteOf'[e] \in Quotes
        /\ exec'[e] \in {"build", "done"} =>
             used'[quoteOf'[e]] \/ phase'[quoteOf'[e]] # "live"
    BY <1>2, <1>3, <1>4 DEF AdmissionInv
  <2>3. QED
    BY <2>1, <2>2
<1>7. \A t \in stale : exec'[t] # "idle" /\ phase'[quoteOf'[t]] # "live"
  BY <1>1, <1>2, <1>3, <1>5 DEF AdmissionInv, TypeOK
<1>8. QED
  BY <1>2, <1>6, <1>7 DEF AdmissionInv

(* A step that starts no execute call and only lets quotes expire, be      *)
(* deleted or be released.                                                 *)
LEMMA QuietAdmission ==
  ASSUME TypeOK, AdmissionInv, quoteOf' = quoteOf,
         \A t \in Txs : /\ exec'[t] \in {exec[t], "dead"}
                        /\ exec[t] = "idle" => exec'[t] = "idle",
         \A q \in Quotes : /\ phase[q] # "live" => phase'[q] # "live"
                           /\ used[q] => used'[q] \/ phase'[q] # "live",
         stale' \subseteq Txs,
         \A t \in stale' \ stale : exec'[t] # "idle" /\ phase'[quoteOf[t]] # "live",
         stale \subseteq stale', sweep' \subseteq stale',
         release' \in stale' \cup {None}
  PROVE  AdmissionInv'
<1>1. \A t \in stale : t \in Txs /\ quoteOf[t] \in Quotes
  BY DEF AdmissionInv, TypeOK
<1>2. \A t \in stale : exec'[t] # "idle" /\ phase'[quoteOf[t]] # "live"
  BY <1>1 DEF AdmissionInv
<1>3. QED
  BY <1>2 DEF AdmissionInv

LEMMA SweepAdmission ==
  ASSUME IInv, AdmissionInv, Sweep
  PROVE  AdmissionInv'
<1>1. /\ TypeOK /\ stale \subseteq Txs
      /\ sweep \subseteq stale /\ release \in stale \cup {None}
  BY DEF IInv, AdmissionInv, TypeOK
<1>2. CASE SweepScan
  BY <1>1, <1>2, QuietAdmission DEF SweepScan, quoteVars, rowVars, worldVars
<1>3. ASSUME NEW t \in Txs, SweepFail(t) PROVE AdmissionInv'
  BY <1>1, <1>3, QuietAdmission DEF SweepFail, quoteVars, rowVars, worldVars
<1>4. CASE SweepRelease
  <2>1. /\ release \in stale /\ release' = None
        /\ used' = [used EXCEPT ![quoteOf[release]] = FALSE]
        /\ UNCHANGED <<phase, quoteOf, exec, sweep, stale>>
    BY <1>1, <1>4 DEF SweepRelease, rowVars, worldVars
  <2>2. phase[quoteOf[release]] # "live"
    BY <2>1 DEF AdmissionInv
  <2>3. \A q \in Quotes : used[q] => used'[q] \/ phase'[q] # "live"
    BY <1>1, <2>1, <2>2 DEF TypeOK
  <2>4. QED
    BY <1>1, <2>1, <2>3, QuietAdmission
<1>5. QED
  BY <1>2, <1>3, <1>4 DEF Sweep

LEMMA WorldAdmission ==
  ASSUME IInv, AdmissionInv, World
  PROVE  AdmissionInv'
<1>1. /\ TypeOK /\ stale \subseteq Txs
      /\ sweep \subseteq stale /\ release \in stale \cup {None}
  BY DEF IInv, AdmissionInv, TypeOK
<1>2. ASSUME NEW q \in Quotes, QuoteExpires(q) \/ QuoteDeleted(q) PROVE AdmissionInv'
  <2>1. /\ UNCHANGED <<quoteOf, exec, sweep, release, stale>>
        /\ \/ phase' = [phase EXCEPT ![q] = "expired"] /\ used' = used
           \/ /\ phase' = [phase EXCEPT ![q] = "deleted"]
              /\ used' = [used EXCEPT ![q] = FALSE]
    BY <1>2 DEF QuoteExpires, QuoteDeleted, rowVars, sweepVars, worldVars
  <2>2. \A r \in Quotes : /\ phase[r] # "live" => phase'[r] # "live"
                          /\ used[r] => used'[r] \/ phase'[r] # "live"
    BY <1>1, <2>1 DEF TypeOK
  <2>3. QED
    BY <1>1, <2>1, <2>2, QuietAdmission
<1>3. ASSUME NEW t \in Txs, TenMinutes(t) PROVE AdmissionInv'
  <2>1. /\ UNCHANGED <<phase, used, quoteOf, exec, sweep, release>>
        /\ stale' = stale \cup {t} /\ phase[quoteOf[t]] # "live"
        /\ status[t] # "ABSENT"
    BY <1>3 DEF TenMinutes, Rows, quoteVars, rowVars, sweepVars
  <2>2. exec[t] # "idle"
    BY <2>1 DEF IInv, ExecInv
  <2>3. QED
    BY <1>1, <2>1, <2>2, QuietAdmission
<1>4. ASSUME \/ \E t \in Txs : SwapLands(t) \/ AccountCloses(t)
             \/ \E ref \in Hashes : MonnifyResolves(ref)
      PROVE  AdmissionInv'
  <2>1. UNCHANGED <<phase, used, quoteOf, exec, sweep, release, stale>>
    BY <1>4 DEF SwapLands, AccountCloses, MonnifyResolves, quoteVars, rowVars,
                sweepVars, worldVars
  <2>2. QED
    BY <1>1, <2>1, QuietAdmission
<1>5. CASE Crash
  <2>1. /\ UNCHANGED <<phase, used, quoteOf, stale>>
        /\ sweep' = {} /\ release' = None
        /\ \A t \in Txs : /\ exec'[t] \in {exec[t], "dead"}
                          /\ exec[t] = "idle" => exec'[t] = "idle"
    BY <1>5 DEF Crash, quoteVars, rowVars
  <2>2. QED
    BY <1>1, <2>1, QuietAdmission
<1>6. QED
  BY <1>2, <1>3, <1>4, <1>5 DEF World

LEMMA NextAdmission ==
  ASSUME IInv, AdmissionInv, [Next]_vars
  PROVE  AdmissionInv'
<1>1. ASSUME UNCHANGED <<quoteVars, quoteOf, exec, sweepVars, stale>>
      PROVE  AdmissionInv'
  BY <1>1 DEF AdmissionInv, quoteVars, sweepVars
<1>2. ASSUME NEW s \in Submits, Submit(s) PROVE AdmissionInv'
  BY <1>1, <1>2 DEF Submit, SubmitRead, SubmitWrites, SubmitSigned, SubmitSwapping,
     SubmitBroadcast, SubmitSwapFailed, SubmitSwapRefund, SubmitSwapped, SubmitQueue,
     SubmitProcess, SubmitAccount, SubmitPay, SubmitComplete, SubmitPayFailed,
     SubmitPayRefund, SubmitSendRefund, rowVars, worldVars
<1>3. ASSUME NEW w \in SolanaHooks, Solana(w) PROVE AdmissionInv'
  BY <1>1, <1>3 DEF Solana, SolanaLookup, SolanaGuess, SolanaReceive, SolanaAccount,
     SolanaFiat, SolanaDisburse, SolanaComplete, HookWrites, rowVars, worldVars
<1>4. ASSUME NEW m \in MonnifyHooks, Monnify(m) PROVE AdmissionInv'
  BY <1>1, <1>4 DEF Monnify, MonnifyRead, MonnifyComplete, MonnifyFail,
     MonnifyRefund, MonnifySendRefund, HookWrites, rowVars, worldVars
<1>5. ASSUME NEW p \in ProviderHooks, Provider(p) PROVE AdmissionInv'
  BY <1>1, <1>5 DEF Provider, ProviderRead, ProviderWrite, rowVars,
     worldVars
<1>6. CASE UNCHANGED vars
  BY <1>1, <1>6 DEF vars, rowVars, worldVars
<1>7. QED
  BY <1>2, <1>3, <1>4, <1>5, <1>6, ExecuteAdmission, SweepAdmission, WorldAdmission
     DEF Next

(* A call is let in only while its quote is live and unmarked. *)
LEMMA LetIn ==
  ASSUME IInv, [Next]_vars, NEW e \in Txs, exec[e] = "idle", exec'[e] = "create"
  PROVE  /\ quoteOf'[e] \in Quotes
         /\ phase[quoteOf'[e]] = "live" /\ ~used[quoteOf'[e]]
<1>1. TypeOK
  BY DEF IInv
<1>2. ASSUME NEW d \in Txs, Execute(d)
      PROVE  ExecuteRead(e)
  BY <1>1, <1>2 DEF Execute, ExecuteRead, ExecuteCreate, ExecuteMark, ExecuteBuild,
                    ExecGoes, TypeOK
<1>3. exec' # exec
  OBVIOUS
<1>4. ASSUME NEW s \in Submits, Submit(s) PROVE FALSE
  BY <1>3, <1>4 DEF Submit, SubmitRead, SubmitWrites, SubmitSigned, SubmitSwapping,
     SubmitBroadcast, SubmitSwapFailed, SubmitSwapRefund, SubmitSwapped, SubmitQueue,
     SubmitProcess, SubmitAccount, SubmitPay, SubmitComplete, SubmitPayFailed,
     SubmitPayRefund, SubmitSendRefund
<1>5. ASSUME NEW w \in SolanaHooks, Solana(w) PROVE FALSE
  BY <1>3, <1>5 DEF Solana, SolanaLookup, SolanaGuess, SolanaReceive, SolanaAccount,
     SolanaFiat, SolanaDisburse, SolanaComplete, HookWrites
<1>6. ASSUME NEW m \in MonnifyHooks, Monnify(m) PROVE FALSE
  BY <1>3, <1>6 DEF Monnify, MonnifyRead, MonnifyComplete, MonnifyFail,
     MonnifyRefund, MonnifySendRefund, HookWrites
<1>7. ASSUME NEW p \in ProviderHooks, Provider(p) PROVE FALSE
  BY <1>3, <1>7 DEF Provider, ProviderRead, ProviderWrite
<1>8. CASE Sweep
  BY <1>3, <1>8 DEF Sweep, SweepScan, SweepFail, SweepRelease
<1>9. CASE World
  BY <1>9 DEF World, QuoteExpires, QuoteDeleted, TenMinutes, SwapLands,
     AccountCloses, MonnifyResolves, Crash
<1>10. CASE UNCHANGED vars
  BY <1>3, <1>10 DEF vars
<1>11. CASE ExecuteRead(e)
  BY <1>1, <1>11 DEF ExecuteRead, TypeOK
<1>12. QED
  BY <1>2, <1>4, <1>5, <1>6, <1>7, <1>8, <1>9, <1>10, <1>11 DEF Next

(* Once one call has marked a quote, no later call is let in, even after   *)
(* the cleanup job has released the quote or the quote was deleted.        *)
THEOREM MarkClosesQuote == Spec => AdmissionClosedByMark
<1>1. Init => AdmissionInv
  BY InitAdmission
<1>2. IInv /\ AdmissionInv /\ [Next]_vars => AdmissionInv'
  BY NextAdmission
<1>3. ASSUME IInv, AdmissionInv, [Next]_vars
      PROVE  \A e, f \in Txs :
               /\ exec[e] = "idle" /\ exec'[e] = "create"
               /\ f # e /\ quoteOf[f] = quoteOf'[e]
               => exec[f] \in {"create", "mark", "dead"}
  <2>1. SUFFICES ASSUME NEW e \in Txs, NEW f \in Txs,
                        exec[e] = "idle", exec'[e] = "create",
                        quoteOf[f] = quoteOf'[e]
                 PROVE  exec[f] \in {"create", "mark", "dead"}
    OBVIOUS
  <2>2. /\ quoteOf[f] \in Quotes
        /\ phase[quoteOf[f]] = "live" /\ ~used[quoteOf[f]]
    BY <1>3, <2>1, LetIn
  <2>3. exec[f] # "idle"
    BY <1>3, <2>2, OffRampAssumption DEF AdmissionInv
  <2>4. exec[f] \notin {"build", "done"}
    BY <1>3, <2>2 DEF AdmissionInv
  <2>5. QED
    BY <1>3, <2>3, <2>4 DEF IInv, TypeOK
<1>4. QED
  BY <1>1, <1>2, <1>3, Invariance, PTL DEF Spec, AdmissionClosedByMark
-----------------------------------------------------------------------------
(* Signing. *)

(* What a step may do to a submit call. *)
LEMMA SubmitMoves ==
  ASSUME IInv, [Next]_vars, NEW s \in Submits
  PROVE  \/ subPc'[s] = subPc[s] /\ subTx'[s] = subTx[s]
         \/ /\ subPc[s] = "idle" /\ subPc'[s] = "sign"
            /\ subTx'[s] \in Target[s] \cap Txs
            /\ status[subTx'[s]] = "AWAITING_SIGNATURE"
         \/ /\ subPc[s] \in SubmitLate \cup {"sign"} /\ subTx'[s] = subTx[s]
            /\ subPc'[s] \in SubmitLate \cup {"done", "dead"}
            /\ subPc'[s] = "done" => subPc[s] \in SubmitLate
            /\ subPc[s] \in {"sendRefund", "complete"} =>
                 subPc'[s] \in {"done", "dead"}
<1>1. TypeOK
  BY DEF IInv
<1>2. CASE SubmitRead(s)
  <2>1. PICK t \in Rows \cap Target[s] :
          /\ CanTransition(status[t], "SIGNED")
          /\ subTx' = [subTx EXCEPT ![s] = t]
    BY <1>2 DEF SubmitRead
  <2>2. t \in Txs /\ status[t] = "AWAITING_SIGNATURE"
    BY <2>1 DEF Rows, CanTransition, VALID_TRANSITIONS, Statuses
  <2>3. QED
    BY <1>1, <1>2, <2>1, <2>2 DEF SubmitRead, SubmitGoes, TypeOK
<1>3. CASE Submit(s) /\ ~SubmitRead(s)
  <2>1. subTx' = subTx
    BY <1>3 DEF Submit, SubmitWrites, SubmitSigned, SubmitSwapping,
     SubmitBroadcast, SubmitSwapFailed, SubmitSwapRefund, SubmitSwapped, SubmitQueue,
     SubmitProcess, SubmitAccount, SubmitPay, SubmitComplete, SubmitPayFailed,
     SubmitPayRefund, SubmitSendRefund
  <2>2. /\ subPc[s] \in SubmitLate \cup {"sign"}
        /\ subPc'[s] \in SubmitLate \cup {"done"}
        /\ subPc'[s] = "done" => subPc[s] # "sign"
        /\ subPc[s] \in {"sendRefund", "complete"} => subPc'[s] = "done"
    BY <1>1, <1>3 DEF Submit, SubmitWrites, SubmitSigned, SubmitSwapping,
     SubmitBroadcast, SubmitSwapFailed, SubmitSwapRefund, SubmitSwapped, SubmitQueue,
     SubmitProcess, SubmitAccount, SubmitPay, SubmitComplete, SubmitPayFailed,
     SubmitPayRefund, SubmitSendRefund, SubmitLate, SubmitGoes, TypeOK
  <2>3. QED
    BY <2>1, <2>2
<1>4. ASSUME NEW z \in Submits \ {s}, Submit(z)
      PROVE  subPc'[s] = subPc[s] /\ subTx'[s] = subTx[s]
  <2>1. \E to : subPc' = [subPc EXCEPT ![z] = to]
    BY <1>4 DEF Submit, SubmitRead, SubmitWrites, SubmitSigned, SubmitSwapping,
     SubmitBroadcast, SubmitSwapFailed, SubmitSwapRefund, SubmitSwapped, SubmitQueue,
     SubmitProcess, SubmitAccount, SubmitPay, SubmitComplete, SubmitPayFailed,
     SubmitPayRefund, SubmitSendRefund, SubmitGoes
  <2>2. \/ subTx' = subTx
        \/ \E t : subTx' = [subTx EXCEPT ![z] = t]
    BY <1>4 DEF Submit, SubmitRead, SubmitWrites, SubmitSigned, SubmitSwapping,
     SubmitBroadcast, SubmitSwapFailed, SubmitSwapRefund, SubmitSwapped, SubmitQueue,
     SubmitProcess, SubmitAccount, SubmitPay, SubmitComplete, SubmitPayFailed,
     SubmitPayRefund, SubmitSendRefund
  <2>3. QED
    BY <1>1, <2>1, <2>2 DEF TypeOK
<1>5. CASE Crash
  BY <1>1, <1>5 DEF Crash, TypeOK, SubmitLate
<1>6. CASE /\ ~Crash
           /\ \A z \in Submits : ~Submit(z)
  <2>1. UNCHANGED <<subPc, subTx>>
    <3>1. ASSUME NEW e \in Txs, Execute(e) PROVE UNCHANGED subVars
      BY <3>1 DEF Execute, ExecuteRead, ExecuteCreate, ExecuteMark, ExecuteBuild
    <3>2. ASSUME NEW w \in SolanaHooks, Solana(w) PROVE UNCHANGED subVars
      BY <3>2 DEF Solana, SolanaLookup, SolanaGuess, SolanaReceive, SolanaAccount,
         SolanaFiat, SolanaDisburse, SolanaComplete, HookWrites
    <3>3. ASSUME NEW m \in MonnifyHooks, Monnify(m) PROVE UNCHANGED subVars
      BY <3>3 DEF Monnify, MonnifyRead, MonnifyComplete, MonnifyFail,
         MonnifyRefund, MonnifySendRefund, HookWrites
    <3>4. ASSUME NEW p \in ProviderHooks, Provider(p) PROVE UNCHANGED subVars
      BY <3>4 DEF Provider, ProviderRead, ProviderWrite
    <3>5. CASE Sweep
      BY <3>5 DEF Sweep, SweepScan, SweepFail, SweepRelease, subVars
    <3>6. CASE World
      BY <1>6, <3>6 DEF World, QuoteExpires, QuoteDeleted, TenMinutes, SwapLands,
         AccountCloses, MonnifyResolves, subVars
    <3>7. CASE UNCHANGED vars
      BY <3>7 DEF vars, subVars
    <3>8. QED
      BY <1>6, <3>1, <3>2, <3>3, <3>4, <3>5, <3>6, <3>7 DEF Next, subVars
  <2>2. QED
    BY <2>1
<1>7. QED
  BY <1>2, <1>3, <1>4, <1>5, <1>6 DEF Next

(* A launched transaction stays launched. *)
LEMMA LaunchedStays ==
  ASSUME IInv, [Next]_vars, NEW t \in Txs, Launched(t)
  PROVE  Launched(t)'
<1>1. Effect
  BY NextEffect
<1>2. CASE \E u \in Txs, st \in Statuses : WritesStatus(u, st)
  BY <1>2 DEF WritesStatus, SetStatus, Launched, Unsigned, Statuses, IInv, TypeOK
<1>3. CASE UNCHANGED status
  BY <1>3 DEF Launched
<1>4. QED
  BY <1>1, <1>2, <1>3 DEF Effect, MonnifyResolves, rowVars

LEMMA NextSigning ==
  ASSUME IInv, SigningInv, [Next]_vars
  PROVE  SigningInv'
<1>1. SUFFICES ASSUME NEW s \in Submits
               PROVE  /\ subPc'[s] = "idle" => subTx'[s] = None
                      /\ subPc'[s] = "done" =>
                           subTx'[s] \in Txs /\ Launched(subTx[s])'
  BY DEF SigningInv
<1>2. subPc'[s] = "idle" => subTx'[s] = None
  BY SubmitMoves DEF SigningInv, SubmitLate
<1>3. ASSUME subPc'[s] = "done"
      PROVE  subTx'[s] \in Txs /\ Launched(subTx[s])'
  <2>1. /\ subTx'[s] = subTx[s]
        /\ subTx[s] \in Txs /\ Launched(subTx[s])
    BY <1>3, SubmitMoves DEF SigningInv, IInv, SubmitInv
  <2>2. PICK t \in Txs : t = subTx[s]
    BY <2>1
  <2>3. Launched(t)'
    BY <2>1, <2>2, LaunchedStays
  <2>4. QED
    BY <2>1, <2>2, <2>3 DEF Launched
<1>4. QED
  BY <1>2, <1>3

(* Two submit calls may both sign a transaction, but none is let in after  *)
(* another has stored SIGNED, however the row was overwritten since.       *)
THEOREM SignedByOneWave == Spec => SignedOnce
<1>1. Init => SigningInv
  BY DEF Init, SigningInv
<1>2. IInv /\ SigningInv /\ [Next]_vars => SigningInv'
  BY NextSigning
<1>3. ASSUME IInv, SigningInv, [Next]_vars
      PROVE  \A s, z \in Submits :
               /\ subPc[s] = "idle" /\ subPc'[s] = "sign"
               /\ z # s /\ subTx[z] = subTx'[s]
               => subPc[z] \in {"sign", "dead"}
  <2>1. SUFFICES ASSUME NEW s \in Submits, NEW z \in Submits,
                        subPc[s] = "idle", subPc'[s] = "sign",
                        subTx[z] = subTx'[s]
                 PROVE  subPc[z] \in {"sign", "dead"}
    OBVIOUS
  <2>2. subTx[z] \in Txs /\ status[subTx[z]] = "AWAITING_SIGNATURE"
    BY <1>3, <2>1, SubmitMoves DEF SubmitLate
  <2>3. ~Launched(subTx[z])
    BY <2>2 DEF Launched, Unsigned
  <2>4. subPc[z] \notin SubmitLate \cup {"idle", "done"}
    BY <1>3, <2>2, <2>3, OffRampAssumption DEF SigningInv, IInv, SubmitInv, Hashes
  <2>5. QED
    BY <1>3, <2>4 DEF IInv, TypeOK, SubmitLate
<1>4. QED
  BY <1>1, <1>2, <1>3, Invariance, PTL DEF Spec, SignedOnce
-----------------------------------------------------------------------------
(* Refunds. *)

(* A submit call is recorded as the payer only when it is told so.         *)
LEMMA PayerMoves ==
  ASSUME IInv, [Next]_vars, NEW r \in Hashes,
         payer'[r] # payer[r], payer'[r] \in Submits
  PROVE  subPc[payer'[r]] = "pay" /\ subPc'[payer'[r]] = "complete"
<1>1. TypeOK /\ ~UNCHANGED orderVars
  BY DEF IInv, orderVars
<1>2. ASSUME NEW s \in Submits, SubmitPay(s)
      PROVE  subPc[payer'[r]] = "pay" /\ subPc'[payer'[r]] = "complete"
  <2>1. PICK result \in {"pending", "paid"}, h \in {s, None} :
          /\ Disburse(subTx[s], subTx[s], result, h)
          /\ h = s => SubmitGoes(s, "pay", "complete")
    BY <1>1, <1>2, OffRampAssumption DEF SubmitPay, SubmitReference
  <2>2. payer'[r] = h
    BY <1>1, <2>1 DEF Disburse, orderVars, TypeOK
  <2>3. h = s
    BY <2>1, <2>2, OffRampAssumption
  <2>4. QED
    BY <1>1, <2>1, <2>2, <2>3 DEF SubmitGoes, TypeOK
<1>3. ASSUME NEW s \in Submits, Submit(s), ~SubmitPay(s) PROVE FALSE
  BY <1>1, <1>3 DEF Submit, SubmitRead, SubmitWrites, SubmitSigned,
     SubmitSwapping, SubmitBroadcast, SubmitSwapFailed, SubmitSwapRefund,
     SubmitSwapped, SubmitQueue, SubmitProcess, SubmitAccount, SubmitComplete,
     SubmitPayFailed, SubmitPayRefund, SubmitSendRefund
<1>4. ASSUME NEW w \in SolanaHooks, SolanaDisburse(w) PROVE FALSE
  <2>1. PICK result \in {"pending", "paid"}, h \in {w, None} :
          Disburse(hookTx[w], hookTx[w], result, h)
    BY <1>1, <1>4 DEF SolanaDisburse, WebhookReference
  <2>2. payer'[r] = h
    BY <1>1, <2>1 DEF Disburse, orderVars, TypeOK
  <2>3. QED
    BY <2>1, <2>2, OffRampAssumption DEF Hooks
<1>5. ASSUME NEW w \in SolanaHooks, Solana(w), ~SolanaDisburse(w) PROVE FALSE
  BY <1>1, <1>5 DEF Solana, SolanaLookup, SolanaGuess, SolanaReceive,
     SolanaAccount, SolanaFiat, SolanaComplete, HookWrites
<1>6. ASSUME NEW m \in MonnifyHooks, Monnify(m) PROVE FALSE
  BY <1>1, <1>6 DEF Monnify, MonnifyRead, MonnifyComplete, MonnifyFail,
     MonnifyRefund, MonnifySendRefund, HookWrites
<1>7. ASSUME NEW p \in ProviderHooks, Provider(p) PROVE FALSE
  BY <1>1, <1>7 DEF Provider, ProviderRead, ProviderWrite
<1>8. ASSUME NEW e \in Txs, Execute(e) PROVE FALSE
  BY <1>1, <1>8 DEF Execute, ExecuteRead, ExecuteCreate, ExecuteMark,
     ExecuteBuild
<1>9. ASSUME Sweep PROVE FALSE
  BY <1>1, <1>9 DEF Sweep, SweepScan, SweepFail, SweepRelease
<1>10. ASSUME World PROVE FALSE
  BY <1>1, <1>10 DEF World, QuoteExpires, QuoteDeleted, TenMinutes, SwapLands,
     AccountCloses, MonnifyResolves, Crash, orderVars
<1>11. ASSUME UNCHANGED vars PROVE FALSE
  BY <1>1, <1>11 DEF vars
<1>12. QED
  BY <1>2, <1>3, <1>4, <1>5, <1>6, <1>7, <1>8, <1>9, <1>10, <1>11 DEF Next

(* What a step does that leaves a transaction REFUNDED: nothing to it, or  *)
(* it is the report of a failed order, or a failure path of submit.        *)
RefundStep(t) ==
  \/ status[t] = "REFUNDED" /\ refunder'[t] = refunder[t]
  \/ \E w \in Hooks : hookTx[w] = t /\ hookPc[w] = "refund"
  \/ \E s \in Submits : /\ refunder'[t] = s
                        /\ subPc[s] \in {"swapRefund", "payRefund"}
                        /\ subPc'[s] \in {"sendRefund", "done"}

LEMMA RefundMoves ==
  ASSUME IInv, RefundInv, [Next]_vars, NEW t \in Txs, status'[t] = "REFUNDED"
  PROVE  RefundStep(t)
<1>1. TypeOK
  BY DEF IInv
<1>2. ASSUME UNCHANGED <<status, refunder>> PROVE RefundStep(t)
  BY <1>2 DEF RefundStep
<1>3. ASSUME NEW st \in Statuses \ {"REFUNDED"}, NEW u \in Txs,
             SetStatus(u, st), UNCHANGED refunder
      PROVE  RefundStep(t)
  BY <1>1, <1>3 DEF SetStatus, TypeOK, RefundStep
<1>4. ASSUME NEW s \in Submits, NEW from \in SubmitLate \cup {"sign"},
             NEW to \in SubmitLate \cup {"done"}, NEW st \in Statuses,
             SubmitWrites(s, from, st, to),
             st = "REFUNDED" => /\ from \in {"swapRefund", "payRefund"}
                                /\ to \in {"sendRefund", "done"}
      PROVE  RefundStep(t)
  <2>1. subTx[s] \in Txs
    BY <1>4 DEF SubmitWrites, SubmitGoes, IInv, SubmitInv
  <2>2. CASE st # "REFUNDED"
    <3>1. SetStatus(subTx[s], st) /\ UNCHANGED refunder
      BY <1>4, <2>2 DEF SubmitWrites, updateTransaction, RecordRefunder
    <3>2. QED
      BY <1>3, <2>1, <2>2, <3>1
  <2>3. CASE st = "REFUNDED"
    <3>1. /\ status' = [status EXCEPT ![subTx[s]] = "REFUNDED"]
          /\ refunder' = [refunder EXCEPT ![subTx[s]] = s]
          /\ subPc[s] \in {"swapRefund", "payRefund"}
          /\ subPc'[s] \in {"sendRefund", "done"}
      BY <1>1, <1>4, <2>3 DEF SubmitWrites, updateTransaction, SetStatus,
         RecordRefunder, SubmitGoes, TypeOK
    <3>2. QED
      BY <1>1, <2>1, <3>1 DEF TypeOK, RefundStep
  <2>4. QED
    BY <2>2, <2>3
<1>5. ASSUME NEW w \in Hooks, NEW from \in HookLate \cup {"receive"}, NEW to,
             NEW st \in Statuses, HookWrites(w, from, st, to),
             st = "REFUNDED" => from = "refund"
      PROVE  RefundStep(t)
  <2>1. hookTx[w] \in Txs
    BY <1>5 DEF HookWrites, HookGoes, IInv, HookInv
  <2>2. CASE st # "REFUNDED"
    <3>1. SetStatus(hookTx[w], st) /\ UNCHANGED refunder
      BY <1>5, <2>2 DEF HookWrites, updateTransaction, RecordRefunder
    <3>2. QED
      BY <1>3, <2>1, <2>2, <3>1
  <2>3. CASE st = "REFUNDED"
    <3>1. /\ status' = [status EXCEPT ![hookTx[w]] = "REFUNDED"]
          /\ refunder' = [refunder EXCEPT ![hookTx[w]] = w]
          /\ hookPc[w] = "refund"
      BY <1>5, <2>3 DEF HookWrites, updateTransaction, SetStatus,
         RecordRefunder, HookGoes
    <3>2. QED
      BY <1>1, <2>1, <3>1 DEF TypeOK, RefundStep
  <2>4. QED
    BY <2>2, <2>3
<1>6. ASSUME NEW s \in Submits, Submit(s) PROVE RefundStep(t)
  <2>1. CASE \/ SubmitRead(s) \/ SubmitBroadcast(s) \/ SubmitAccount(s)
             \/ SubmitPay(s) \/ SubmitSendRefund(s)
    BY <1>2, <2>1 DEF SubmitRead, SubmitBroadcast, SubmitAccount, SubmitPay,
       SubmitSendRefund, rowVars, refundVars
  <2>2. CASE SubmitSwapped(s)
    <3>1. subTx[s] \in Txs
      BY <2>2 DEF SubmitSwapped, SubmitGoes, IInv, SubmitInv, SubmitLate
    <3>2. SetStatus(subTx[s], "SWAPPED") /\ UNCHANGED refunder
      BY <2>2 DEF SubmitSwapped, updateTransaction, refundVars
    <3>3. QED
      BY <1>3, <3>1, <3>2 DEF Statuses
  <2>3. CASE SubmitSwapRefund(s) \/ SubmitPayRefund(s)
    BY <1>4, <2>3 DEF SubmitSwapRefund, SubmitPayRefund, SubmitLate, Statuses
  <2>4. CASE \/ SubmitSigned(s) \/ SubmitSwapping(s) \/ SubmitSwapFailed(s)
             \/ SubmitQueue(s) \/ SubmitProcess(s) \/ SubmitComplete(s)
             \/ SubmitPayFailed(s)
    BY <1>4, <2>4 DEF SubmitSigned, SubmitSwapping, SubmitSwapFailed,
       SubmitQueue, SubmitProcess, SubmitComplete, SubmitPayFailed, SubmitLate,
       Statuses
  <2>5. QED
    BY <1>6, <2>1, <2>2, <2>3, <2>4 DEF Submit
<1>7. ASSUME NEW w \in SolanaHooks, Solana(w) PROVE RefundStep(t)
  <2>0. w \in Hooks
    BY DEF Hooks
  <2>1. CASE \/ SolanaLookup(w) \/ SolanaGuess(w) \/ SolanaAccount(w)
             \/ SolanaDisburse(w)
    BY <1>2, <2>1 DEF SolanaLookup, SolanaGuess, SolanaAccount, SolanaDisburse,
       rowVars, refundVars
  <2>2. CASE SolanaReceive(w)
    <3>1. hookTx[w] \in Txs
      BY <2>0, <2>2 DEF SolanaReceive, HookGoes, IInv, HookInv
    <3>2. SetStatus(hookTx[w], "CRYPTO_RECEIVED") /\ UNCHANGED refunder
      BY <2>2 DEF SolanaReceive, updateTransaction, refundVars
    <3>3. QED
      BY <1>3, <3>1, <3>2 DEF Statuses
  <2>3. CASE SolanaFiat(w) \/ SolanaComplete(w)
    BY <1>5, <2>0, <2>3 DEF SolanaFiat, SolanaComplete, HookLate, Statuses
  <2>4. QED
    BY <1>7, <2>1, <2>2, <2>3 DEF Solana
<1>8. ASSUME NEW m \in MonnifyHooks, Monnify(m) PROVE RefundStep(t)
  <2>0. m \in Hooks
    BY DEF Hooks
  <2>1. CASE MonnifyRead(m) \/ MonnifySendRefund(m)
    BY <1>2, <2>1 DEF MonnifyRead, MonnifySendRefund, rowVars, refundVars
  <2>2. CASE MonnifyComplete(m) \/ MonnifyFail(m) \/ MonnifyRefund(m)
    BY <1>5, <2>0, <2>2 DEF MonnifyComplete, MonnifyFail, MonnifyRefund,
       HookLate, Statuses
  <2>3. QED
    BY <1>8, <2>1, <2>2 DEF Monnify
<1>9. ASSUME NEW p \in ProviderHooks, Provider(p) PROVE RefundStep(t)
  <2>0. p \in Hooks
    BY DEF Hooks
  <2>1. CASE ProviderRead(p)
    BY <1>2, <2>1 DEF ProviderRead, rowVars, refundVars
  <2>2. CASE ProviderWrite(p)
    <3>1. /\ hookTx[p] \in Txs
          /\ hookArg[p] \in Statuses \ {"REFUNDED"}
      BY <2>0, <2>2 DEF ProviderWrite, HookGoes, IInv, HookInv, HookLate,
         RefundInv, ReportInv
    <3>2. SetStatus(hookTx[p], hookArg[p]) /\ UNCHANGED refunder
      BY <2>2 DEF ProviderWrite, refundVars
    <3>3. QED
      BY <1>3, <3>1, <3>2
  <2>3. QED
    BY <1>9, <2>1, <2>2 DEF Provider
<1>10. ASSUME NEW e \in Txs, Execute(e) PROVE RefundStep(t)
  <2>1. \/ UNCHANGED <<status, refunder>>
        \/ \E st \in {"PENDING", "AWAITING_SIGNATURE", "FAILED"} :
             SetStatus(e, st) /\ UNCHANGED refunder
    BY <1>10 DEF Execute, ExecuteRead, ExecuteCreate, ExecuteMark, ExecuteBuild,
       updateTransaction, rowVars, refundVars
  <2>2. QED
    BY <1>2, <1>3, <2>1 DEF Statuses
<1>11. ASSUME Sweep PROVE RefundStep(t)
  <2>1. \/ UNCHANGED <<status, refunder>>
        \/ \E u \in Txs : SetStatus(u, "FAILED") /\ UNCHANGED refunder
    BY <1>11 DEF Sweep, SweepScan, SweepFail, SweepRelease, updateTransaction,
       rowVars, refundVars
  <2>2. QED
    BY <1>2, <1>3, <2>1 DEF Statuses
<1>12. ASSUME World \/ UNCHANGED vars PROVE RefundStep(t)
  BY <1>2, <1>12 DEF World, QuoteExpires, QuoteDeleted, TenMinutes, SwapLands,
     AccountCloses, MonnifyResolves, Crash, rowVars, refundVars, vars
<1>13. QED
  BY <1>6, <1>7, <1>8, <1>9, <1>10, <1>11, <1>12 DEF Next

(* A report of a failure is about an order that had failed, and no report  *)
(* says that a transaction was refunded.                                   *)
LEMMA HookMoves ==
  ASSUME IInv, RefundInv, [Next]_vars, NEW w \in Hooks
  PROVE  /\ hookPc'[w] \in {"fail", "refund", "sendRefund"} =>
              hookTx'[w] \in Txs /\ order[hookTx'[w]] = "failed"
         /\ hookPc'[w] = "write" => hookArg'[w] # "REFUNDED"
<1>1. TypeOK
  BY DEF IInv
<1> DEFINE Reports(pc, tx, arg) ==
             /\ pc \in {"fail", "refund", "sendRefund"} =>
                  tx \in Txs /\ order[tx] = "failed"
             /\ pc = "write" => arg # "REFUNDED"
<1>2. Reports(hookPc[w], hookTx[w], hookArg[w])
  BY DEF RefundInv, ReportInv, IInv, HookInv, HookLate
<1>3. SUFFICES Reports(hookPc'[w], hookTx'[w], hookArg'[w])
  OBVIOUS
<1>4. ASSUME UNCHANGED <<hookPc, hookTx, hookArg>>
      PROVE  Reports(hookPc'[w], hookTx'[w], hookArg'[w])
  BY <1>2, <1>4
<1>5. ASSUME NEW m \in MonnifyHooks, Monnify(m)
      PROVE  Reports(hookPc'[w], hookTx'[w], hookArg'[w])
  <2>1. CASE MonnifyRead(m)
    <3>1. PICK t \in Rows : /\ \/ HookGoes(m, "idle", "complete")
                               \/ HookGoes(m, "idle", "fail") /\ order[t] = "failed"
                            /\ hookTx' = [hookTx EXCEPT ![m] = t]
                            /\ hookArg' = hookArg
      BY <2>1 DEF MonnifyRead
    <3>2. CASE w = m
      BY <1>1, <3>1, <3>2 DEF HookGoes, TypeOK, Rows
    <3>3. CASE w # m
      BY <1>1, <1>2, <3>1, <3>3 DEF HookGoes, TypeOK
    <3>4. QED
      BY <3>2, <3>3
  <2>2. CASE ~MonnifyRead(m)
    <3>1. /\ hookTx' = hookTx /\ hookArg' = hookArg
          /\ \/ HookGoes(m, "fail", "refund")
             \/ HookGoes(m, "refund", "sendRefund")
             \/ HookGoes(m, "complete", "done") \/ HookGoes(m, "sendRefund", "done")
      BY <1>5, <2>2 DEF Monnify, MonnifyComplete, MonnifyFail, MonnifyRefund,
         MonnifySendRefund, HookWrites
    <3>2. CASE w = m
      BY <1>1, <1>2, <3>1, <3>2 DEF HookGoes, TypeOK
    <3>3. CASE w # m
      BY <1>1, <1>2, <3>1, <3>3 DEF HookGoes, TypeOK
    <3>4. QED
      BY <3>2, <3>3
  <2>3. QED
    BY <2>1, <2>2
<1>6. ASSUME NEW p \in ProviderHooks, Provider(p)
      PROVE  Reports(hookPc'[w], hookTx'[w], hookArg'[w])
  <2>1. CASE ProviderRead(p)
    <3>1. PICK t \in Rows : /\ order[t] # "none"
                            /\ hookTx' = [hookTx EXCEPT ![p] = t]
                            /\ hookArg' = [hookArg EXCEPT ![p] = ReportedStatus(order[t])]
      BY <2>1 DEF ProviderRead
    <3>2. ReportedStatus(order[t]) # "REFUNDED"
      <4>1. order[t] \in {"pending", "paid", "failed"}
        BY <1>1, <3>1 DEF TypeOK, Rows, Hashes, OrderStates
      <4>2. QED
        BY <4>1 DEF ReportedStatus
    <3>3. HookGoes(p, "idle", "write")
      BY <2>1 DEF ProviderRead
    <3>4. CASE w = p
      <4>1. hookPc'[w] = "write" /\ hookArg'[w] = ReportedStatus(order[t])
        BY <1>1, <3>1, <3>3, <3>4 DEF HookGoes, TypeOK
      <4>2. QED
        BY <3>2, <4>1
    <3>5. CASE w # p
      <4>1. /\ hookPc'[w] = hookPc[w] /\ hookArg'[w] = hookArg[w]
            /\ hookTx'[w] = hookTx[w]
        BY <1>1, <3>1, <3>3, <3>5 DEF HookGoes, TypeOK
      <4>2. QED
        BY <1>2, <4>1
    <3>6. QED
      BY <3>4, <3>5
  <2>2. CASE ProviderWrite(p)
    <3>1. /\ hookTx' = hookTx /\ hookArg' = hookArg
          /\ HookGoes(p, "write", "done")
      BY <2>2 DEF ProviderWrite
    <3>2. QED
      BY <1>1, <1>2, <3>1 DEF HookGoes, TypeOK
  <2>3. QED
    BY <1>6, <2>1, <2>2 DEF Provider
<1>7. ASSUME NEW e \in Txs, Execute(e) PROVE UNCHANGED <<hookPc, hookTx, hookArg>>
  BY <1>7 DEF Execute, ExecuteRead, ExecuteCreate, ExecuteMark, ExecuteBuild,
     hookVars
<1>8. ASSUME NEW s \in Submits, Submit(s) PROVE UNCHANGED <<hookPc, hookTx, hookArg>>
  <2>1. UNCHANGED hookVars
    BY <1>8 DEF Submit, SubmitRead, SubmitWrites, SubmitSigned, SubmitSwapping,
     SubmitBroadcast, SubmitSwapFailed, SubmitSwapRefund, SubmitSwapped, SubmitQueue,
     SubmitProcess, SubmitAccount, SubmitPay, SubmitComplete, SubmitPayFailed,
     SubmitPayRefund, SubmitSendRefund
  <2>2. QED
    BY <2>1 DEF hookVars
<1>9. ASSUME Sweep PROVE UNCHANGED <<hookPc, hookTx, hookArg>>
  BY <1>9 DEF Sweep, SweepScan, SweepFail, SweepRelease, hookVars
<1>10. CASE Crash
  <2>1. /\ hookPc'[w] \in {"done", "idle"}
    BY <1>10 DEF Crash
  <2>2. QED
    BY <2>1
<1>11. ASSUME World, ~Crash PROVE UNCHANGED <<hookPc, hookTx, hookArg>>
  BY <1>11 DEF World, QuoteExpires, QuoteDeleted, TenMinutes, SwapLands,
     AccountCloses, MonnifyResolves, hookVars
<1>12. ASSUME UNCHANGED vars PROVE UNCHANGED <<hookPc, hookTx, hookArg>>
  BY <1>12 DEF vars, hookVars
<1>13. ASSUME NEW z \in SolanaHooks, Solana(z)
       PROVE  Reports(hookPc'[w], hookTx'[w], hookArg'[w])
  <2>1. /\ \E to \in {"idle", "guess", "receive", "account", "fiat", "disburse",
                      "complete"} : hookPc' = [hookPc EXCEPT ![z] = to]
        /\ \E t : hookTx' = [hookTx EXCEPT ![z] = t]
        /\ \E h : hookArg' = [hookArg EXCEPT ![z] = h]
    <3>1. hookTx = [hookTx EXCEPT ![z] = hookTx[z]]
          /\ hookArg = [hookArg EXCEPT ![z] = hookArg[z]]
      BY <1>1 DEF TypeOK
    <3>2. CASE SolanaLookup(z)
      BY <3>1, <3>2 DEF SolanaLookup, HookGoes
    <3>3. CASE SolanaGuess(z)
      BY <3>1, <3>3 DEF SolanaGuess, HookGoes
    <3>4. CASE \/ SolanaReceive(z) \/ SolanaAccount(z) \/ SolanaFiat(z)
               \/ SolanaDisburse(z) \/ SolanaComplete(z)
      BY <3>1, <3>4 DEF SolanaReceive, SolanaAccount, SolanaFiat,
         SolanaDisburse, SolanaComplete, HookWrites, HookGoes
    <3>5. QED
      BY <1>13, <3>2, <3>3, <3>4 DEF Solana
  <2>2. QED
    BY <1>1, <1>2, <2>1 DEF TypeOK
<1> HIDE DEF Reports
<1>14. QED
  BY <1>4, <1>5, <1>6, <1>7, <1>8, <1>9, <1>10, <1>11, <1>12, <1>13 DEF Next

(* An order that has failed is final. *)
LEMMA FailureStays ==
  ASSUME IInv, [Next]_vars, NEW r \in Hashes, order[r] = "failed"
  PROVE  order'[r] = "failed"
BY NextEffect
   DEF Effect, WritesStatus, Disburse, MonnifyResolves, orderVars, IInv, TypeOK

LEMMA NextRefund ==
  ASSUME IInv, RefundInv, [Next]_vars
  PROVE  RefundInv'
<1>1. TypeOK
  BY DEF IInv
<1>2. \A s \in Submits :
        /\ subPc[s] \in {"complete", "done", "dead"} =>
             subPc'[s] \in {"complete", "done", "dead"}
        /\ subPc[s] \in {"sendRefund", "done", "dead"} =>
             subPc'[s] \in {"sendRefund", "done", "dead"}
  BY SubmitMoves DEF SubmitLate
<1>3. ASSUME NEW r \in Hashes, payer'[r] \in Submits
      PROVE  subPc'[payer'[r]] \in {"complete", "done", "dead"}
  <2>1. CASE payer'[r] = payer[r]
    BY <1>2, <1>3, <2>1 DEF RefundInv, PayerInv
  <2>2. CASE payer'[r] # payer[r]
    BY <1>3, <2>2, PayerMoves
  <2>3. QED
    BY <2>1, <2>2
<1>4. ReportInv'
  <2>1. ASSUME NEW w \in Hooks, hookPc'[w] \in {"fail", "refund", "sendRefund"}
        PROVE  order'[hookTx'[w]] = "failed"
    <3>1. PICK t \in Txs : t = hookTx'[w] /\ order[t] = "failed"
      BY <2>1, HookMoves
    <3>2. QED
      BY <3>1, FailureStays DEF Hashes
  <2>2. QED
    BY <2>1, HookMoves DEF ReportInv
<1>5. ASSUME NEW t \in Txs, status'[t] = "REFUNDED"
      PROVE  \/ order'[t] = "failed"
             \/ /\ refunder'[t] \in Submits /\ refunder'[t] # payer'[t]
                /\ subPc'[refunder'[t]] \in {"sendRefund", "done", "dead"}
  <2>0. t \in Hashes
    BY DEF Hashes
  <2>1. CASE order[t] = "failed"
    BY <2>0, <2>1, FailureStays
  <2>2. CASE /\ order[t] # "failed"
             /\ status[t] = "REFUNDED" /\ refunder'[t] = refunder[t]
    <3>1. PICK s \in Submits : /\ s = refunder[t] /\ s # payer[t]
                               /\ subPc[s] \in {"sendRefund", "done", "dead"}
      BY <2>2 DEF RefundInv, RefunderInv
    <3>2. payer'[t] # s
      BY <2>0, <3>1, PayerMoves
    <3>3. QED
      BY <1>2, <2>2, <3>1, <3>2
  <2>3. ASSUME NEW w \in Hooks, hookTx[w] = t, hookPc[w] = "refund"
        PROVE  order[t] = "failed"
    BY <2>3 DEF RefundInv, ReportInv
  <2>4. ASSUME NEW s \in Submits, refunder'[t] = s,
               subPc[s] \in {"swapRefund", "payRefund"},
               subPc'[s] \in {"sendRefund", "done"}
        PROVE  payer'[t] # s
    <3>1. payer[t] # s
      BY <2>0, <2>4 DEF RefundInv, PayerInv
    <3>2. QED
      BY <2>0, <2>4, <3>1, PayerMoves
  <2>5. QED
    BY <1>5, <2>1, <2>2, <2>3, <2>4, RefundMoves DEF RefundStep
<1>6. PayerInv'
  BY <1>3 DEF PayerInv
<1>7. RefunderInv'
  BY <1>5 DEF RefunderInv
<1>8. QED
  BY <1>4, <1>6, <1>7 DEF RefundInv

(* A transaction marked REFUNDED has no order under way or paid, except    *)
(* when a submit call marked it whose own swap or payout call had thrown   *)
(* and that did not make the order, or was not told of it; whatever the    *)
(* providers report and however often, wherever the process dies.          *)
THEOREM RefundedIsUnpaid == Spec => []RefundedOnlyIfUnpaid
<1>1. Init => RefundInv
  BY OffRampAssumption
     DEF Init, RefundInv, PayerInv, ReportInv, RefunderInv, Hooks
<1>2. IInv /\ RefundInv /\ [Next]_vars => RefundInv'
  BY NextRefund
<1>3. RefundInv => RefundedOnlyIfUnpaid
  BY DEF RefundInv, RefunderInv, RefundedOnlyIfUnpaid
<1>4. QED
  BY <1>1, <1>2, <1>3, Invariance, PTL DEF Spec
=============================================================================
