---------------------------- MODULE OffRampProofs ----------------------------
(***************************************************************************)
(* Proofs about OffRamp, for every number of quotes, transactions, calls,  *)
(* deliveries and crashes.                                                 *)
(***************************************************************************)
EXTENDS OffRampProperties, TLAPS

(* A row past execute's own writes; a row past signing. *)
Matured(t) == status[t] \notin {"ABSENT", "PENDING"}
Launched(t) == status[t] \notin Unsigned \cup {"ABSENT"}

SubmitLate ==
  {"swap", "broadcast", "swapFailed", "swapRefund", "swapped", "queue",
   "process", "account", "pay", "payFailed", "payRefund", "sendRefund",
   "complete"}
HookLate ==
  {"account", "fiat", "disburse", "complete", "fail", "refund", "sendRefund",
   "write"}

(* Until execute has made its last write, the row is exactly where execute *)
(* left it.                                                                *)
ExecInv ==
  \A e \in Txs :
    /\ exec[e] \in {"idle", "create"} => status[e] = "ABSENT"
    /\ exec[e] \in {"mark", "build"} => status[e] = "PENDING"

(* Whoever holds a row read it when it was mature, and once the holder has *)
(* written to it, or found an order for it, it is launched.                *)
SubmitInv ==
  \A s \in Submits :
    /\ subPc[s] \in SubmitLate \cup {"sign"} =>
         subTx[s] \in Txs /\ Matured(subTx[s])
    /\ subPc[s] \in SubmitLate => Launched(subTx[s])
HookInv ==
  \A w \in Hooks :
    /\ hookPc[w] \in HookLate \cup {"receive"} =>
         hookTx[w] \in Txs /\ Matured(hookTx[w])
    /\ hookPc[w] \in HookLate => Launched(hookTx[w])
    /\ hookPc[w] \in {"guess", "receive"} => hookArg[w] \in Hashes
    /\ hookPc[w] = "write" => hookArg[w] \in Statuses \ Unsigned
SweepInv ==
  /\ \A t \in sweep : Matured(t)

(* A disbursement is known by its transaction's id, and was ordered after  *)
(* the launch.                                                             *)
OrderInv ==
  \A r \in Hashes :
    order[r] # "none" => r \in Txs /\ orderFor[r] = r /\ Launched(r)

(* Only a mature row has the hash of a deposit. *)
HashInv == \A t \in Txs : hash[t] # None => Matured(t)

(* A copy in memory may be older than its row, but not by so much.         *)
MemInv ==
  \A t \in Txs : memory[t] \notin {"ABSENT", "PENDING"} => Matured(t)

IInv ==
  TypeOK /\ ExecInv /\ SubmitInv /\ HookInv /\ SweepInv /\ OrderInv /\ HashInv
  /\ MemInv
-----------------------------------------------------------------------------
(* It holds initially. *)
LEMMA InitIInv == Init => IInv
BY OffRampAssumption, SMT
   DEF Init, IInv, TypeOK, ExecInv, SubmitInv, HookInv, SweepInv, OrderInv,
       HashInv, MemInv,
       SubmitLate, HookLate, Hashes, OrderStates, Statuses

(* A status write by a submit call, by a webhook handler. *)
LEMMA SubmitWritesIInv ==
  ASSUME IInv, NEW s \in Submits,
         NEW from \in SubmitLate \cup {"sign"},
         NEW st \in Statuses \ Unsigned,
         NEW to \in SubmitLate \cup {"done"},
         SubmitWrites(s, from, st, to)
  PROVE  IInv'
<1> USE DEF SubmitWrites, SubmitGoes, updateTransaction, SetStatus, SetCopy,
            RecordRefunder, quoteVars, sweepVars,
            hookVars, worldVars, orderVars, Matured, Launched, SubmitLate,
            HookLate, Unsigned
<1>1. subTx[s] \in Txs /\ Matured(subTx[s])
  BY DEF IInv, SubmitInv
<1>2. TypeOK'
  BY <1>1 DEF IInv, TypeOK
<1>3. st \notin {"ABSENT", "PENDING", "AWAITING_SIGNATURE"}
  BY DEF Statuses
<1>4. ExecInv'
  BY <1>1, <1>3 DEF IInv, ExecInv, TypeOK
<1>5. SubmitInv'
  BY <1>1, <1>3 DEF IInv, SubmitInv, TypeOK
<1>6. HookInv'
  BY <1>1, <1>3 DEF IInv, HookInv, TypeOK
<1>7. SweepInv' /\ OrderInv' /\ HashInv' /\ MemInv'
  BY <1>1, <1>3 DEF IInv, SweepInv, OrderInv, HashInv, MemInv, TypeOK
<1>8. QED
  BY <1>2, <1>4, <1>5, <1>6, <1>7 DEF IInv

(* A status write by a webhook handler, with its copy or without. *)
LEMMA HookStatusIInv ==
  ASSUME IInv, NEW w \in Hooks,
         NEW from \in HookLate \cup {"receive"},
         NEW st \in Statuses \ Unsigned,
         NEW to \in (HookLate \ {"write"}) \cup {"idle", "done"},
         HookGoes(w, from, to), SetStatus(hookTx[w], st),
         SetCopy(hookTx[w], st) \/ UNCHANGED <<memory, ahead>>,
         refunder' \in [Txs -> Submits \cup Hooks \cup {None}],
         UNCHANGED <<quoteVars, quoteOf, older, hash, exec, subVars, sweepVars,
                     hookTx, hookArg, seen, worldVars, orderVars, refunds>>
  PROVE  IInv'
<1> USE DEF HookGoes, SetStatus, SetCopy, quoteVars, sweepVars, subVars,
            worldVars, orderVars, Matured, Launched, SubmitLate, HookLate,
            Unsigned
<1>1. hookTx[w] \in Txs /\ Matured(hookTx[w])
  BY DEF IInv, HookInv
<1>2. TypeOK'
  <2>1. /\ status' \in [Txs -> Statuses \cup {"ABSENT"}]
        /\ memory' \in [Txs -> Statuses \cup {"ABSENT"}]
        /\ ahead' \in [Txs -> SUBSET Txs]
    BY <1>1 DEF IInv, TypeOK
  <2>2. QED
    BY <1>1, <2>1 DEF IInv, TypeOK
<1>3. st \notin {"ABSENT", "PENDING", "AWAITING_SIGNATURE"}
  BY DEF Statuses
<1>4. ExecInv'
  BY <1>1, <1>3 DEF IInv, ExecInv, TypeOK
<1>5. SubmitInv'
  BY <1>1, <1>3 DEF IInv, SubmitInv, TypeOK
<1>6. HookInv'
  BY <1>1, <1>3 DEF IInv, HookInv, TypeOK
<1>7. SweepInv' /\ OrderInv' /\ HashInv' /\ MemInv'
  BY <1>1, <1>3 DEF IInv, SweepInv, OrderInv, HashInv, MemInv, TypeOK
<1>8. QED
  BY <1>2, <1>4, <1>5, <1>6, <1>7 DEF IInv

LEMMA HookWritesIInv ==
  ASSUME IInv, NEW w \in Hooks,
         NEW from \in HookLate \cup {"receive"},
         NEW st \in Statuses \ Unsigned,
         NEW to \in (HookLate \ {"write"}) \cup {"idle", "done"},
         HookWrites(w, from, st, to)
  PROVE  IInv'
<1>1. refunder' \in [Txs -> Submits \cup Hooks \cup {None}]
  BY DEF HookWrites, RecordRefunder, IInv, TypeOK
<1>2. QED
  BY <1>1, HookStatusIInv DEF HookWrites, updateTransaction
-----------------------------------------------------------------------------
(* A step of an execute call. *)
LEMMA ExecuteIInv == ASSUME IInv, NEW e \in Txs, Execute(e) PROVE IInv'
<1> USE DEF ExecGoes, updateTransaction, SetStatus, SetCopy, refundVars,
            quoteVars, rowVars, subVars, sweepVars,
            hookVars, worldVars, orderVars, Matured, Launched, Unsigned
<1>1. CASE ExecuteRead(e)
  <2>1. TypeOK'
    BY <1>1 DEF ExecuteRead, IInv, TypeOK
  <2>2. QED
    BY <1>1, <2>1 DEF ExecuteRead, IInv, TypeOK, ExecInv, SubmitInv, HookInv,
                      SweepInv, OrderInv, HashInv, MemInv
<1>2. CASE ExecuteCreate(e)
  <2>1. TypeOK'
    BY <1>2 DEF ExecuteCreate, IInv, TypeOK, Rows, Statuses
  <2>2. QED
    BY <1>2, <2>1 DEF ExecuteCreate, IInv, TypeOK, ExecInv, SubmitInv, HookInv,
                      SweepInv, OrderInv, HashInv, MemInv
<1>3. CASE ExecuteMark(e)
  <2>1. TypeOK'
    BY <1>3 DEF ExecuteMark, IInv, TypeOK
  <2>2. QED
    BY <1>3, <2>1 DEF ExecuteMark, IInv, TypeOK, ExecInv, SubmitInv, HookInv,
                      SweepInv, OrderInv, HashInv, MemInv
<1>4. CASE ExecuteBuild(e)
  <2>1. TypeOK'
    <3>1. PICK st \in {"AWAITING_SIGNATURE", "FAILED"} :
            /\ status' = [status EXCEPT ![e] = st]
            /\ SetCopy(e, st)
      BY <1>4 DEF ExecuteBuild
    <3>2. /\ status' \in [Txs -> Statuses \cup {"ABSENT"}]
          /\ memory' \in [Txs -> Statuses \cup {"ABSENT"}]
      BY <3>1 DEF IInv, TypeOK, Statuses
    <3>3. ahead' \in [Txs -> SUBSET Txs]
      BY <3>1 DEF IInv, TypeOK
    <3>4. QED
      BY <1>4, <3>2, <3>3 DEF ExecuteBuild, IInv, TypeOK
  <2>2. QED
    BY <1>4, <2>1 DEF ExecuteBuild, IInv, TypeOK, ExecInv, SubmitInv, HookInv,
                      SweepInv, OrderInv, HashInv, MemInv
<1>5. QED
  BY <1>1, <1>2, <1>3, <1>4 DEF Execute

(* A step of the expiry job. *)
LEMMA SweepIInv == ASSUME IInv, Sweep PROVE IInv'
<1> USE DEF updateTransaction, SetStatus, SetCopy, refundVars, quoteVars,
            rowVars, subVars, sweepVars, hookVars,
            worldVars, orderVars, Matured, Launched, Unsigned
<1>1. CASE SweepScan
  BY <1>1 DEF SweepScan, IInv, TypeOK, ExecInv, SubmitInv, HookInv,
              SweepInv, OrderInv, HashInv, MemInv
<1>2. ASSUME NEW t \in Txs, SweepFail(t) PROVE IInv'
  <2>1. TypeOK'
    BY <1>2 DEF SweepFail, IInv, TypeOK, Statuses
  <2>2. QED
    BY <1>2, <2>1 DEF SweepFail, IInv, TypeOK, ExecInv, SubmitInv, HookInv,
                      SweepInv, OrderInv, HashInv, MemInv
<1>3. CASE SweepRelease
  BY <1>3 DEF SweepRelease, IInv, TypeOK, ExecInv, SubmitInv, HookInv,
              SweepInv, OrderInv, HashInv, MemInv
<1>4. QED
  BY <1>1, <1>2, <1>3 DEF Sweep

(* Placing an order for a launched transaction under its own id. *)
LEMMA DisburseOrderInv ==
  ASSUME IInv, NEW t \in Txs, Launched(t),
         NEW result \in {"pending", "paid"},
         NEW h \in Submits \cup SolanaHooks \cup {None},
         Disburse(t, t, result, h)
  PROVE  /\ order' \in [Hashes -> OrderStates]
         /\ orderFor' \in [Hashes -> Txs \cup {None}]
         /\ payer' \in [Hashes -> Submits \cup SolanaHooks \cup {None}]
         /\ \A r \in Hashes :
              order'[r] # "none" => r \in Txs /\ orderFor'[r] = r /\ Launched(r)
<1> USE DEF Disburse, orderVars, IInv, TypeOK, OrderInv, Hashes, OrderStates
<1>1. CASE order[t] = "none"
  BY <1>1
<1>2. CASE order[t] # "none"
  BY <1>2
<1>3. QED
  BY <1>1, <1>2

(* A step of a submit call. *)
LEMMA SubmitIInv == ASSUME IInv, NEW s \in Submits, Submit(s) PROVE IInv'
<1> USE DEF SubmitGoes, updateTransaction, SetStatus, SetCopy, refundVars,
            quoteVars, rowVars, sweepVars, hookVars,
            worldVars, orderVars, Matured, Launched, SubmitLate, HookLate,
            Unsigned
<1>1. CASE SubmitRead(s)
  <2>1. PICK t \in Rows : /\ CanTransition(status[t], "SIGNED")
                          /\ subTx' = [subTx EXCEPT ![s] = t]
    BY <1>1, OffRampAssumption DEF SubmitRead
  <2>2. t \in Txs /\ Matured(t)
    BY <2>1 DEF Rows, CanTransition, VALID_TRANSITIONS
  <2>3. TypeOK'
    BY <1>1, <2>1, <2>2 DEF SubmitRead, IInv, TypeOK
  <2>4. SubmitInv'
    BY <1>1, <2>1, <2>2 DEF SubmitRead, IInv, TypeOK, SubmitInv
  <2>5. QED
    BY <1>1, <2>3, <2>4 DEF SubmitRead, IInv, ExecInv, HookInv, SweepInv,
                            OrderInv, HashInv, MemInv
<1>2. CASE SubmitBroadcast(s)
  <2>1. subTx[s] \in Txs /\ Launched(subTx[s])
    BY <1>2 DEF SubmitBroadcast, IInv, SubmitInv
  <2>2. TypeOK'
    BY <1>2, <2>1 DEF SubmitBroadcast, IInv, TypeOK
  <2>3. QED
    BY <1>2, <2>1, <2>2 DEF SubmitBroadcast, IInv, TypeOK, ExecInv, SubmitInv,
                            HookInv, SweepInv, OrderInv, HashInv, MemInv
<1>3. CASE SubmitSwapped(s)
  <2>1. subTx[s] \in Txs /\ Launched(subTx[s])
    BY <1>3 DEF SubmitSwapped, IInv, SubmitInv
  <2>2. TypeOK'
    BY <1>3, <2>1 DEF SubmitSwapped, IInv, TypeOK, Statuses, Hashes
  <2>3. ExecInv' /\ SubmitInv'
    BY <1>3, <2>1 DEF SubmitSwapped, IInv, TypeOK, ExecInv, SubmitInv
  <2>4. HookInv'
    BY <1>3, <2>1 DEF SubmitSwapped, IInv, TypeOK, HookInv
  <2>5. SweepInv' /\ OrderInv' /\ HashInv' /\ MemInv'
    BY <1>3, <2>1 DEF SubmitSwapped, IInv, TypeOK, SweepInv, OrderInv, HashInv,
                      MemInv
  <2>6. QED
    BY <2>2, <2>3, <2>4, <2>5 DEF IInv
<1>4. CASE SubmitAccount(s)
  <2>1. TypeOK'
    BY <1>4 DEF SubmitAccount, IInv, TypeOK
  <2>2. SubmitInv'
    BY <1>4 DEF SubmitAccount, IInv, TypeOK, SubmitInv
  <2>3. QED
    BY <1>4, <2>1, <2>2 DEF SubmitAccount, IInv, ExecInv, HookInv, SweepInv,
                            OrderInv, HashInv, MemInv
<1>5. CASE SubmitPay(s)
  <2>1. subPc[s] = "pay" /\ subTx[s] \in Txs /\ Launched(subTx[s])
    BY <1>5 DEF SubmitPay, IInv, SubmitInv
  <2>2. /\ order' \in [Hashes -> OrderStates]
        /\ orderFor' \in [Hashes -> Txs \cup {None}]
        /\ payer' \in [Hashes -> Submits \cup SolanaHooks \cup {None}]
        /\ \A r \in Hashes :
             order'[r] # "none" => r \in Txs /\ orderFor'[r] = r /\ Launched(r)
    <3>1. CASE UNCHANGED orderVars
      BY <3>1 DEF IInv, TypeOK, OrderInv
    <3>2. CASE \E result \in {"pending", "paid"}, h \in {s, None} :
                 Disburse(subTx[s], subTx[s], result, h)
      BY <3>2, <2>1, DisburseOrderInv DEF Launched
    <3>3. QED
      BY <1>5, <3>1, <3>2 DEF SubmitPay, SubmitReference
  <2>3. subPc' \in [Submits -> {"complete", "payFailed", "idle", "sign", "swap",
           "broadcast", "swapFailed", "swapRefund", "swapped", "queue",
           "process", "account", "pay", "payRefund", "sendRefund", "done",
           "dead"}]
    BY <1>5 DEF SubmitPay, IInv, TypeOK
  <2>4. TypeOK'
    BY <1>5, <2>2, <2>3 DEF SubmitPay, IInv, TypeOK
  <2>5. SubmitInv'
    BY <1>5, <2>1 DEF SubmitPay, IInv, TypeOK, SubmitInv
  <2>6. OrderInv'
    BY <1>5, <2>2 DEF SubmitPay, OrderInv
  <2>7. QED
    BY <1>5, <2>4, <2>5, <2>6 DEF SubmitPay, IInv, ExecInv, HookInv, SweepInv,
                                  HashInv, MemInv
<1>6. CASE SubmitSendRefund(s)
  <2>1. subTx[s] \in Txs
    BY <1>6 DEF SubmitSendRefund, IInv, SubmitInv
  <2>2. TypeOK'
    BY <1>6, <2>1 DEF SubmitSendRefund, SendRefund, IInv, TypeOK
  <2>3. SubmitInv'
    BY <1>6 DEF SubmitSendRefund, IInv, TypeOK, SubmitInv
  <2>4. QED
    BY <1>6, <2>2, <2>3 DEF SubmitSendRefund, IInv, ExecInv, HookInv, SweepInv,
                            OrderInv, HashInv, MemInv
<1>7. ASSUME SubmitSigned(s) \/ SubmitSwapping(s) \/ SubmitSwapFailed(s)
             \/ SubmitSwapRefund(s) \/ SubmitQueue(s) \/ SubmitProcess(s)
             \/ SubmitComplete(s) \/ SubmitPayFailed(s) \/ SubmitPayRefund(s)
      PROVE  IInv'
  <2>1. {"SIGNED", "SWAPPING", "FAILED", "REFUNDED", "PAYOUT_PENDING",
         "PAYOUT_PROCESSING", "COMPLETED"} \subseteq Statuses \ Unsigned
    BY DEF Statuses
  <2>2. PICK from \in SubmitLate \cup {"sign"}, st \in Statuses \ Unsigned,
             to \in SubmitLate \cup {"done"} : SubmitWrites(s, from, st, to)
    BY <1>7, <2>1, Zenon
       DEF SubmitSigned, SubmitSwapping, SubmitSwapFailed, SubmitSwapRefund,
           SubmitQueue, SubmitProcess, SubmitComplete, SubmitPayFailed,
           SubmitPayRefund
  <2>3. QED
    BY <2>2, SubmitWritesIInv
<1>8. QED
  BY <1>1, <1>2, <1>3, <1>4, <1>5, <1>6, <1>7 DEF Submit
-----------------------------------------------------------------------------
(* A step of a delivery of the Solana webhook. *)
LEMMA SolanaIInv == ASSUME IInv, NEW w \in SolanaHooks, Solana(w) PROVE IInv'
<1> USE DEF HookGoes, updateTransaction, SetStatus, SetCopy, refundVars,
            quoteVars, rowVars, subVars, sweepVars,
            worldVars, orderVars, Matured, Launched, SubmitLate, HookLate,
            Unsigned
<1>0. w \in Hooks
  BY DEF Hooks
<1>1. CASE SolanaLookup(w)
  <2>1. PICK h \in landed \ seen :
          /\ seen' = seen \cup {h}
          /\ hookArg' = [hookArg EXCEPT ![w] = h]
          /\ \/ /\ hookPc' = [hookPc EXCEPT ![w] = "receive"]
                /\ \E t \in {u \in Rows : hash[u] = h} :
                     hookTx' = [hookTx EXCEPT ![w] = t]
             \/ /\ hookPc' = [hookPc EXCEPT ![w] = "guess"]
                /\ UNCHANGED hookTx
    BY <1>1 DEF SolanaLookup
  <2>2. h \in Hashes
    BY DEF IInv, TypeOK
  <2>3. \A t \in Rows : hash[t] = h => t \in Txs /\ Matured(t)
    <3>1. SUFFICES ASSUME NEW t \in Rows, hash[t] = h
                   PROVE  t \in Txs /\ Matured(t)
      OBVIOUS
    <3>2. QED
      BY <2>2, <3>1, OffRampAssumption DEF Rows, IInv, HashInv, MemInv
  <2>4. TypeOK'
    BY <1>0, <1>1, <2>1, <2>2, <2>3 DEF SolanaLookup, IInv, TypeOK
  <2>5. HookInv'
    BY <1>0, <1>1, <2>1, <2>2, <2>3 DEF SolanaLookup, IInv, TypeOK, HookInv
  <2>6. QED
    BY <1>1, <2>4, <2>5 DEF SolanaLookup, IInv, ExecInv, SubmitInv, SweepInv,
                            OrderInv, HashInv, MemInv
<1>2. CASE SolanaGuess(w)
  <2>1. \A t \in Txs :
          \/ Guessable(status[t]) \/ Guessable(memory[t])
          \/ hash[t] = hookArg[w]
          => Matured(t)
    BY <1>0, <1>2, OffRampAssumption
       DEF SolanaGuess, Guessable, IInv, HashInv, MemInv, HookInv
  <2>2. TypeOK'
    BY <1>0, <1>2 DEF SolanaGuess, IInv, TypeOK
  <2>3. HookInv'
    BY <1>0, <1>2, <2>1 DEF SolanaGuess, IInv, TypeOK, HookInv
  <2>4. QED
    BY <1>2, <2>2, <2>3 DEF SolanaGuess, IInv, ExecInv, SubmitInv, SweepInv,
                            OrderInv, HashInv, MemInv
<1>3. CASE SolanaReceive(w)
  <2>1. hookTx[w] \in Txs /\ Matured(hookTx[w]) /\ hookArg[w] \in Hashes
    BY <1>0, <1>3 DEF SolanaReceive, IInv, HookInv
  <2>2. TypeOK'
    BY <1>0, <1>3, <2>1 DEF SolanaReceive, IInv, TypeOK, Statuses
  <2>3. ExecInv' /\ SubmitInv'
    BY <1>3, <2>1 DEF SolanaReceive, IInv, TypeOK, ExecInv, SubmitInv
  <2>4. HookInv'
    BY <1>0, <1>3, <2>1 DEF SolanaReceive, IInv, TypeOK, HookInv
  <2>5. SweepInv' /\ OrderInv' /\ HashInv' /\ MemInv'
    BY <1>3, <2>1 DEF SolanaReceive, IInv, TypeOK, SweepInv, OrderInv, HashInv,
                      MemInv
  <2>6. QED
    BY <2>2, <2>3, <2>4, <2>5 DEF IInv
<1>4. CASE SolanaAccount(w)
  <2>1. TypeOK'
    BY <1>0, <1>4 DEF SolanaAccount, IInv, TypeOK
  <2>2. HookInv'
    BY <1>0, <1>4 DEF SolanaAccount, IInv, TypeOK, HookInv
  <2>3. QED
    BY <1>4, <2>1, <2>2 DEF SolanaAccount, IInv, ExecInv, SubmitInv, SweepInv,
                            OrderInv, HashInv, MemInv
<1>5. CASE SolanaDisburse(w)
  <2>1. hookPc[w] = "disburse" /\ hookTx[w] \in Txs /\ Launched(hookTx[w])
    BY <1>0, <1>5 DEF SolanaDisburse, IInv, HookInv
  <2>2. /\ order' \in [Hashes -> OrderStates]
        /\ orderFor' \in [Hashes -> Txs \cup {None}]
        /\ payer' \in [Hashes -> Submits \cup SolanaHooks \cup {None}]
        /\ \A r \in Hashes :
             order'[r] # "none" => r \in Txs /\ orderFor'[r] = r /\ Launched(r)
    <3>1. CASE UNCHANGED orderVars
      BY <3>1 DEF IInv, TypeOK, OrderInv
    <3>2. CASE \E result \in {"pending", "paid"}, h \in {w, None} :
                 Disburse(hookTx[w], hookTx[w], result, h)
      BY <3>2, <2>1, DisburseOrderInv DEF Launched
    <3>3. QED
      BY <1>5, <3>1, <3>2 DEF SolanaDisburse, WebhookReference
  <2>3. \E to \in {"complete", "idle"} : hookPc' = [hookPc EXCEPT ![w] = to]
    BY <1>5 DEF SolanaDisburse
  <2>4. TypeOK'
    BY <1>0, <1>5, <2>2, <2>3 DEF SolanaDisburse, IInv, TypeOK
  <2>5. HookInv'
    BY <1>0, <1>5, <2>1, <2>3 DEF SolanaDisburse, IInv, TypeOK, HookInv
  <2>6. OrderInv'
    BY <1>5, <2>2 DEF SolanaDisburse, OrderInv
  <2>7. QED
    BY <1>5, <2>4, <2>5, <2>6 DEF SolanaDisburse, IInv, ExecInv, SubmitInv,
                                  SweepInv, HashInv, MemInv
<1>6. CASE SolanaFiat(w) \/ SolanaComplete(w)
  <2>1. {"FIAT_PROCESSING", "COMPLETED"} \subseteq Statuses \ Unsigned
    BY DEF Statuses
  <2>2. QED
    BY <1>0, <1>6, <2>1, HookWritesIInv DEF SolanaFiat, SolanaComplete
<1>7. QED
  BY <1>1, <1>2, <1>3, <1>4, <1>5, <1>6 DEF Solana

(* A step of a delivery of the Monnify webhook. *)
LEMMA MonnifyIInv == ASSUME IInv, NEW m \in MonnifyHooks, Monnify(m) PROVE IInv'
<1> USE DEF HookGoes, refundVars, quoteVars, rowVars, subVars, sweepVars,
            worldVars, orderVars, Matured, Launched, HookLate, Unsigned
<1>0. m \in Hooks
  BY DEF Hooks
<1>1. CASE MonnifyRead(m)
  <2>1. PICK t \in Rows :
          /\ \/ HookGoes(m, "idle", "complete") /\ order[t] = "paid"
             \/ HookGoes(m, "idle", "fail") /\ order[t] = "failed"
          /\ hookTx' = [hookTx EXCEPT ![m] = t]
    BY <1>1 DEF MonnifyRead
  <2>2. t \in Txs /\ Launched(t)
    BY <2>1 DEF Rows, IInv, OrderInv, Hashes
  <2>3. TypeOK'
    BY <1>0, <1>1, <2>1, <2>2 DEF MonnifyRead, IInv, TypeOK
  <2>4. HookInv'
    BY <1>0, <1>1, <2>1, <2>2 DEF MonnifyRead, IInv, TypeOK, HookInv
  <2>5. QED
    BY <1>1, <2>3, <2>4 DEF MonnifyRead, IInv, ExecInv, SubmitInv, SweepInv,
                            OrderInv, HashInv, MemInv
<1>2. CASE MonnifySendRefund(m)
  <2>1. hookTx[m] \in Txs
    BY <1>0, <1>2 DEF MonnifySendRefund, IInv, HookInv
  <2>2. TypeOK'
    BY <1>0, <1>2, <2>1 DEF MonnifySendRefund, SendRefund, IInv, TypeOK
  <2>3. HookInv'
    BY <1>0, <1>2 DEF MonnifySendRefund, IInv, TypeOK, HookInv
  <2>4. QED
    BY <1>2, <2>2, <2>3 DEF MonnifySendRefund, IInv, ExecInv, SubmitInv,
                            SweepInv, OrderInv, HashInv, MemInv
<1>3. CASE MonnifyComplete(m) \/ MonnifyFail(m) \/ MonnifyRefund(m)
  <2>1. {"COMPLETED", "FAILED", "REFUNDED"} \subseteq Statuses \ Unsigned
    BY DEF Statuses
  <2>2. QED
    BY <1>0, <1>3, <2>1, HookWritesIInv
       DEF MonnifyComplete, MonnifyFail, MonnifyRefund
<1>4. QED
  BY <1>1, <1>2, <1>3 DEF Monnify

(* A step of a delivery of a payout provider's webhook. *)
LEMMA ProviderIInv ==
  ASSUME IInv, NEW p \in ProviderHooks, Provider(p) PROVE IInv'
<1> USE DEF HookGoes, refundVars, quoteVars, rowVars, subVars, sweepVars,
            worldVars, orderVars, Matured, Launched, HookLate, Unsigned
<1>0. p \in Hooks
  BY DEF Hooks
<1>1. CASE ProviderRead(p)
  <2>1. PICK t \in Rows :
          /\ order[t] # "none"
          /\ hookTx' = [hookTx EXCEPT ![p] = t]
          /\ hookArg' = [hookArg EXCEPT ![p] = ReportedStatus(order[t])]
    BY <1>1 DEF ProviderRead
  <2>2. t \in Txs /\ Launched(t)
    BY <2>1 DEF Rows, IInv, OrderInv, Hashes
  <2>3. ReportedStatus(order[t]) \in Statuses \ Unsigned
    <3>1. order[t] \in {"pending", "paid", "failed"}
      BY <2>1, <2>2 DEF IInv, TypeOK, OrderStates, Hashes
    <3>2. QED
      BY <3>1 DEF ReportedStatus, Statuses
  <2>4. TypeOK'
    BY <1>0, <1>1, <2>1, <2>2, <2>3 DEF ProviderRead, IInv, TypeOK
  <2>5. HookInv'
    BY <1>0, <1>1, <2>1, <2>2, <2>3 DEF ProviderRead, IInv, TypeOK, HookInv
  <2>6. QED
    BY <1>1, <2>4, <2>5 DEF ProviderRead, IInv, ExecInv, SubmitInv, SweepInv,
                            OrderInv, HashInv, MemInv
<1>2. CASE ProviderWrite(p)
  <2>1. hookArg[p] \in Statuses \ Unsigned
    BY <1>0, <1>2 DEF ProviderWrite, IInv, HookInv
  <2>2. QED
    <3>1. /\ HookGoes(p, "write", "done") /\ SetStatus(hookTx[p], hookArg[p])
          /\ UNCHANGED <<memory, ahead, refunder>>
          /\ UNCHANGED <<quoteVars, quoteOf, older, hash, exec, subVars,
                         sweepVars, hookTx, hookArg, seen, worldVars, orderVars,
                         refunds>>
      BY <1>2 DEF ProviderWrite
    <3>2. refunder' \in [Txs -> Submits \cup Hooks \cup {None}]
      BY <3>1 DEF IInv, TypeOK
    <3>3. QED
      BY <1>0, <2>1, <3>1, <3>2, HookStatusIInv DEF HookLate
<1>3. QED
  BY <1>1, <1>2 DEF Provider

(* A step of time, chain, provider or a crash. *)
LEMMA WorldIInv == ASSUME IInv, World PROVE IInv'
<1> USE DEF refundVars, quoteVars, rowVars, subVars, sweepVars, hookVars,
            worldVars, orderVars, Matured, Launched, Unsigned
<1>1. ASSUME NEW q \in Quotes, QuoteExpires(q) \/ QuoteDeleted(q) PROVE IInv'
  <2>1. TypeOK'
    <3>1. /\ phase' \in [Quotes -> {"live", "expired", "deleted"}]
          /\ used' \in [Quotes -> BOOLEAN]
      BY <1>1 DEF QuoteExpires, QuoteDeleted, IInv, TypeOK
    <3>2. QED
      BY <1>1, <3>1 DEF QuoteExpires, QuoteDeleted, IInv, TypeOK
  <2>2. QED
    BY <1>1, <2>1 DEF QuoteExpires, QuoteDeleted, IInv, ExecInv, SubmitInv,
                      HookInv, SweepInv, OrderInv, HashInv, MemInv
<1>2. ASSUME NEW t \in Txs, TenMinutes(t) \/ SwapLands(t) \/ AccountCloses(t)
      PROVE  IInv'
  <2>1. TypeOK'
    BY <1>2 DEF TenMinutes, SwapLands, AccountCloses, IInv, TypeOK, Hashes
  <2>2. QED
    BY <1>2, <2>1 DEF TenMinutes, SwapLands, AccountCloses, IInv, ExecInv,
                      SubmitInv, HookInv, SweepInv, OrderInv, HashInv, MemInv
<1>3. ASSUME NEW ref \in Hashes, MonnifyResolves(ref) PROVE IInv'
  <2>1. TypeOK'
    BY <1>3 DEF MonnifyResolves, IInv, TypeOK, OrderStates
  <2>2. OrderInv'
    BY <1>3 DEF MonnifyResolves, IInv, TypeOK, OrderInv
  <2>3. QED
    BY <1>3, <2>1, <2>2 DEF MonnifyResolves, IInv, ExecInv, SubmitInv, HookInv,
                            SweepInv, HashInv, MemInv
<1>4. CASE Crash
  <2>1. TypeOK'
    BY <1>4 DEF Crash, IInv, TypeOK, Hooks
  <2>2. ExecInv' /\ SubmitInv' /\ HookInv'
    BY <1>4 DEF Crash, IInv, TypeOK, ExecInv, SubmitInv, HookInv, SubmitLate,
                HookLate
  <2>3. QED
    BY <1>4, <2>1, <2>2 DEF Crash, IInv, SweepInv, OrderInv, HashInv, MemInv
<1>5. QED
  BY <1>1, <1>2, <1>3, <1>4 DEF World

(* Every step keeps the invariant. *)
LEMMA NextIInv == ASSUME IInv, [Next]_vars PROVE IInv'
<1>1. CASE Next
  BY <1>1, ExecuteIInv, SubmitIInv, SweepIInv, SolanaIInv, MonnifyIInv,
     ProviderIInv, WorldIInv DEF Next
<1>2. CASE UNCHANGED vars
  BY <1>2 DEF vars, refundVars, quoteVars, rowVars, subVars, sweepVars, hookVars,
              worldVars, orderVars, IInv, TypeOK, ExecInv, SubmitInv, HookInv, SweepInv,
              OrderInv, HashInv, MemInv, Matured, Launched, Unsigned
<1>3. QED
  BY <1>1, <1>2

(* The inductive invariant holds of every behaviour of the off-ramp. *)
THEOREM Invariance == Spec => []IInv
<1>1. Init => IInv
  BY InitIInv
<1>2. IInv /\ [Next]_vars => IInv'
  BY NextIInv
<1>3. QED
  BY <1>1, <1>2, PTL DEF Spec

(* Every variable keeps its type: no handler ever acts on a transaction it *)
(* has not found, whatever was overwritten or lost meanwhile.              *)
THEOREM TypeCorrect == Spec => []TypeOK
<1>1. IInv => TypeOK
  BY DEF IInv
<1>2. QED
  BY <1>1, Invariance, PTL

(* Fiat is ordered at most once for a transaction, however many submit     *)
(* calls and webhook deliveries try to.                                    *)
THEOREM PaidOnce == Spec => []OneOrderPerTransaction
<1>1. IInv => OneOrderPerTransaction
  BY DEF IInv, OrderInv, OneOrderPerTransaction
<1>2. QED
  BY <1>1, Invariance, PTL
-----------------------------------------------------------------------------
(* The refinement.  A step writes the status of one row, orders a payout,  *)
(* settles one, or does neither; each maps to a step of OffRampPromise or  *)
(* to none.                                                                *)
WritesStatus(t, st) ==
  /\ SetStatus(t, st)
  /\ UNCHANGED order
  /\ \/ status[t] = "ABSENT" /\ st = "PENDING"
     \/ status[t] = "PENDING" /\ st = "AWAITING_SIGNATURE"
     \/ status[t] # "ABSENT" /\ st \notin Unsigned

Effect ==
  \/ UNCHANGED <<status, order>>
  \/ \E t \in Txs, st \in Statuses : WritesStatus(t, st)
  \/ \E t \in Txs, result \in {"pending", "paid"} :
       \E h \in Submits \cup SolanaHooks \cup {None} :
         Launched(t) /\ Disburse(t, t, result, h) /\ UNCHANGED status
  \/ \E ref \in Hashes : MonnifyResolves(ref)

(* Initial states map to initial states. *)
LEMMA InitPromise == Init => Promise!Init
BY DEF Init, Promise!Init, StageOf, Hashes

(* Each effect is a step of the promise, or none. *)
LEMMA EffectPromise == ASSUME IInv, Effect PROVE [Promise!Next]_(Promise!pvars)
<1> DEFINE stage == [t \in Txs |-> StageOf(t)]
           payout == [t \in Txs |-> order[t]]
<1>1. CASE UNCHANGED <<status, order>>
  BY <1>1 DEF Promise!pvars, StageOf
<1>2. ASSUME NEW t \in Txs, NEW st \in Statuses, WritesStatus(t, st)
      PROVE  [Promise!Next]_(Promise!pvars)
  <2> DEFINE now == IF st \in Unsigned THEN "unsigned" ELSE "launched"
  <2>1. payout' = payout
    BY <1>2 DEF WritesStatus
  <2>2. stage' = [stage EXCEPT ![t] = now]
    <3>1. /\ status' = [status EXCEPT ![t] = st]
          /\ status \in [Txs -> Statuses \cup {"ABSENT"}]
          /\ st # "ABSENT"
      BY <1>2 DEF WritesStatus, SetStatus, IInv, TypeOK, Statuses
    <3>2. \A u \in Txs : StageOf(u)' = IF u = t THEN now ELSE StageOf(u)
      BY <3>1 DEF StageOf
    <3>3. QED
      BY <3>2
  <2> HIDE DEF now
  <2>3. CASE status[t] = "ABSENT" /\ st = "PENDING"
    <3>1. stage[t] = "absent" /\ now = "unsigned"
      BY <2>3 DEF StageOf, Unsigned, now
    <3>2. Promise!Create(t)
      BY <2>1, <2>2, <3>1 DEF Promise!Create
    <3>3. QED
      BY <3>2 DEF Promise!Next
  <2>4. CASE status[t] = "PENDING" /\ st = "AWAITING_SIGNATURE"
    <3>1. stage[t] = "unsigned" /\ now = "unsigned"
      BY <2>4 DEF StageOf, Unsigned, now
    <3>2. stage' = stage
      BY <2>2, <3>1
    <3>3. QED
      BY <2>1, <3>2 DEF Promise!pvars
  <2>5. CASE status[t] \in Unsigned /\ st \notin Unsigned
    <3>1. stage[t] = "unsigned" /\ now = "launched"
      BY <2>5 DEF StageOf, Unsigned, now
    <3>2. Promise!Launch(t)
      BY <2>1, <2>2, <3>1 DEF Promise!Launch
    <3>3. QED
      BY <3>2 DEF Promise!Next
  <2>6. CASE Launched(t) /\ st \notin Unsigned
    <3>1. stage[t] = "launched" /\ now = "launched"
      BY <2>6 DEF StageOf, Launched, now
    <3>2. stage' = stage
      BY <2>2, <3>1
    <3>3. QED
      BY <2>1, <3>2 DEF Promise!pvars
  <2>7. QED
    BY <1>2, <2>3, <2>4, <2>5, <2>6 DEF WritesStatus, Launched
<1>3. ASSUME NEW t \in Txs, NEW result \in {"pending", "paid"}, Launched(t),
             NEW h \in Submits \cup SolanaHooks \cup {None},
             Disburse(t, t, result, h), UNCHANGED status
      PROVE  [Promise!Next]_(Promise!pvars)
  <2>1. stage' = stage /\ stage[t] = "launched"
    BY <1>3 DEF StageOf, Launched
  <2>2. CASE order[t] = "none"
    <3>1. payout[t] = "none" /\ payout' = [payout EXCEPT ![t] = result]
      BY <1>3, <2>2 DEF Disburse, IInv, TypeOK, Hashes
    <3>2. Promise!Place(t, result)
      BY <2>1, <3>1 DEF Promise!Place
    <3>3. QED
      BY <3>2 DEF Promise!Next
  <2>3. CASE order[t] # "none"
    BY <1>3, <2>1, <2>3 DEF Disburse, orderVars, Promise!pvars
  <2>4. QED
    BY <2>2, <2>3
<1>4. ASSUME NEW ref \in Hashes, MonnifyResolves(ref)
      PROVE  [Promise!Next]_(Promise!pvars)
  <2>1. ref \in Txs
    BY <1>4 DEF MonnifyResolves, IInv, OrderInv
  <2>2. PICK result \in {"paid", "failed"} :
          order' = [order EXCEPT ![ref] = result]
    BY <1>4 DEF MonnifyResolves
  <2>3. payout[ref] = "pending" /\ payout' = [payout EXCEPT ![ref] = result]
    BY <1>4, <2>1, <2>2 DEF MonnifyResolves, IInv, TypeOK, Hashes
  <2>4. stage' = stage
    BY <1>4 DEF MonnifyResolves, rowVars, StageOf
  <2>5. Promise!Resolve(ref, result)
    BY <2>3, <2>4 DEF Promise!Resolve
  <2>6. QED
    BY <2>1, <2>2, <2>5 DEF Promise!Next
<1>5. QED
  BY <1>1, <1>2, <1>3, <1>4 DEF Effect

(* A step of an execute call has such an effect. *)
LEMMA ExecuteEffect == ASSUME IInv, NEW e \in Txs, Execute(e) PROVE Effect
<1>1. CASE ExecuteRead(e) \/ ExecuteMark(e)
  BY <1>1 DEF ExecuteRead, ExecuteMark, rowVars, orderVars, Effect
<1>2. CASE ExecuteCreate(e)
  <2>1. WritesStatus(e, "PENDING")
    BY <1>2 DEF ExecuteCreate, ExecGoes, updateTransaction, WritesStatus, orderVars,
                IInv, ExecInv
  <2>2. QED
    BY <2>1 DEF Effect, Statuses
<1>3. CASE ExecuteBuild(e)
  <2>1. WritesStatus(e, "AWAITING_SIGNATURE") \/ WritesStatus(e, "FAILED")
    BY <1>3 DEF ExecuteBuild, ExecGoes, updateTransaction, WritesStatus, orderVars,
                IInv, ExecInv,
                Unsigned
  <2>2. QED
    BY <2>1 DEF Effect, Statuses
<1>4. QED
  BY <1>1, <1>2, <1>3 DEF Execute

(* A step of a submit call has such an effect. *)
LEMMA SubmitEffect == ASSUME IInv, NEW s \in Submits, Submit(s) PROVE Effect
<1>1. CASE \/ SubmitRead(s) \/ SubmitBroadcast(s) \/ SubmitAccount(s)
           \/ SubmitSendRefund(s)
  BY <1>1 DEF SubmitRead, SubmitBroadcast, SubmitAccount, SubmitSendRefund,
              rowVars, orderVars, Effect
<1>2. CASE SubmitPay(s)
  <2>1. subTx[s] \in Txs /\ Launched(subTx[s])
    BY <1>2 DEF SubmitPay, SubmitGoes, IInv, SubmitInv, SubmitLate
  <2>2. UNCHANGED status
    BY <1>2 DEF SubmitPay, rowVars
  <2>3. \/ UNCHANGED order
        \/ \E result \in {"pending", "paid"}, h \in {s, None} :
             Disburse(subTx[s], subTx[s], result, h)
    BY <1>2 DEF SubmitPay, SubmitReference, orderVars
  <2>4. QED
    BY <2>1, <2>2, <2>3 DEF Effect
<1>3. ASSUME ~(\/ SubmitRead(s) \/ SubmitBroadcast(s) \/ SubmitAccount(s)
               \/ SubmitSendRefund(s) \/ SubmitPay(s))
      PROVE  Effect
  <2>1. PICK st \in {"SIGNED", "SWAPPING", "FAILED", "REFUNDED", "SWAPPED",
                     "PAYOUT_PENDING", "PAYOUT_PROCESSING", "COMPLETED"} :
          /\ subPc[s] \in SubmitLate \cup {"sign"}
          /\ SetStatus(subTx[s], st)
          /\ UNCHANGED orderVars
    BY <1>3 DEF Submit, SubmitWrites, updateTransaction, SubmitGoes,
                SubmitLate, SubmitSigned,
                SubmitSwapping, SubmitSwapFailed, SubmitSwapRefund,
                SubmitSwapped, SubmitQueue, SubmitProcess, SubmitComplete,
                SubmitPayFailed, SubmitPayRefund
  <2>2. subTx[s] \in Txs /\ Matured(subTx[s])
    BY <2>1 DEF IInv, SubmitInv
  <2>3. WritesStatus(subTx[s], st)
    BY <2>1, <2>2 DEF WritesStatus, orderVars, Matured, Unsigned
  <2>4. QED
    BY <2>2, <2>3 DEF Effect, Statuses
<1>4. QED
  BY <1>1, <1>2, <1>3

(* A step of the expiry job has such an effect. *)
LEMMA SweepEffect == ASSUME IInv, Sweep PROVE Effect
<1>1. CASE SweepScan \/ SweepRelease
  BY <1>1 DEF SweepScan, SweepRelease, rowVars, orderVars, Effect
<1>2. ASSUME NEW t \in Txs, SweepFail(t) PROVE Effect
  <2>1. Matured(t)
    BY <1>2 DEF SweepFail, IInv, SweepInv
  <2>2. WritesStatus(t, "FAILED")
    BY <1>2, <2>1 DEF SweepFail, updateTransaction, WritesStatus, orderVars,
                     Matured, Unsigned
  <2>3. QED
    BY <2>2 DEF Effect, Statuses
<1>3. QED
  BY <1>1, <1>2 DEF Sweep

(* A status write by a webhook handler has such an effect. *)
LEMMA HookWritesEffect ==
  ASSUME IInv, NEW w \in Hooks, NEW st \in Statuses \ Unsigned,
         hookPc[w] \in HookLate \cup {"receive"},
         SetStatus(hookTx[w], st), UNCHANGED orderVars
  PROVE  Effect
<1>1. hookTx[w] \in Txs /\ Matured(hookTx[w])
  BY DEF IInv, HookInv
<1>2. WritesStatus(hookTx[w], st)
  BY <1>1 DEF WritesStatus, orderVars, Matured
<1>3. QED
  BY <1>1, <1>2 DEF Effect

(* A step of the Solana webhook has such an effect. *)
LEMMA SolanaEffect == ASSUME IInv, NEW w \in SolanaHooks, Solana(w) PROVE Effect
<1>0. w \in Hooks
  BY DEF Hooks
<1>1. CASE SolanaLookup(w) \/ SolanaGuess(w) \/ SolanaAccount(w)
  BY <1>1 DEF SolanaLookup, SolanaGuess, SolanaAccount, rowVars, orderVars,
              Effect
<1>2. CASE SolanaDisburse(w)
  <2>1. hookTx[w] \in Txs /\ Launched(hookTx[w])
    BY <1>0, <1>2 DEF SolanaDisburse, IInv, HookInv, HookLate
  <2>2. UNCHANGED status
    BY <1>2 DEF SolanaDisburse, rowVars
  <2>3. \/ UNCHANGED order
        \/ \E result \in {"pending", "paid"}, h \in {w, None} :
             Disburse(hookTx[w], hookTx[w], result, h)
    BY <1>2 DEF SolanaDisburse, WebhookReference, orderVars
  <2>4. QED
    BY <2>1, <2>2, <2>3 DEF Effect
<1>3. CASE SolanaReceive(w) \/ SolanaFiat(w) \/ SolanaComplete(w)
  <2>1. PICK st \in {"CRYPTO_RECEIVED", "FIAT_PROCESSING", "COMPLETED"} :
          /\ hookPc[w] \in HookLate \cup {"receive"}
          /\ SetStatus(hookTx[w], st)
          /\ UNCHANGED orderVars
    BY <1>3 DEF SolanaReceive, SolanaFiat, SolanaComplete, HookWrites, HookGoes,
                updateTransaction,
                HookLate
  <2>2. st \in Statuses \ Unsigned
    BY DEF Statuses, Unsigned
  <2>3. QED
    BY <1>0, <2>1, <2>2, HookWritesEffect
<1>4. QED
  BY <1>1, <1>2, <1>3 DEF Solana

(* A step of a fiat provider's webhook has such an effect. *)
LEMMA FiatEffect ==
  ASSUME IInv, \/ \E m \in MonnifyHooks : Monnify(m)
               \/ \E p \in ProviderHooks : Provider(p)
  PROVE  Effect
<1>1. ASSUME NEW m \in MonnifyHooks, Monnify(m) PROVE Effect
  <2>0. m \in Hooks
    BY DEF Hooks
  <2>1. CASE MonnifyRead(m) \/ MonnifySendRefund(m)
    BY <2>1 DEF MonnifyRead, MonnifySendRefund, rowVars, orderVars, Effect
  <2>2. CASE MonnifyComplete(m) \/ MonnifyFail(m) \/ MonnifyRefund(m)
    <3>1. PICK st \in {"COMPLETED", "FAILED", "REFUNDED"} :
            /\ hookPc[m] \in HookLate
            /\ SetStatus(hookTx[m], st)
            /\ UNCHANGED orderVars
      BY <2>2 DEF MonnifyComplete, MonnifyFail, MonnifyRefund, HookWrites,
                  updateTransaction,
                  HookGoes, HookLate
    <3>2. st \in Statuses \ Unsigned
      BY DEF Statuses, Unsigned
    <3>3. QED
      BY <2>0, <3>1, <3>2, HookWritesEffect
  <2>3. QED
    BY <1>1, <2>1, <2>2 DEF Monnify
<1>2. ASSUME NEW p \in ProviderHooks, Provider(p) PROVE Effect
  <2>0. p \in Hooks
    BY DEF Hooks
  <2>1. CASE ProviderRead(p)
    BY <2>1 DEF ProviderRead, rowVars, orderVars, Effect
  <2>2. CASE ProviderWrite(p)
    <3>1. hookPc[p] = "write" /\ hookArg[p] \in Statuses \ Unsigned
      BY <2>0, <2>2 DEF ProviderWrite, HookGoes, IInv, HookInv
    <3>2. SetStatus(hookTx[p], hookArg[p]) /\ UNCHANGED orderVars
      BY <2>2 DEF ProviderWrite
    <3>3. QED
      BY <2>0, <3>1, <3>2, HookWritesEffect DEF HookLate
  <2>3. QED
    BY <1>2, <2>1, <2>2 DEF Provider
<1>3. QED
  BY <1>1, <1>2

(* Every step has such an effect. *)
LEMMA NextEffect == ASSUME IInv, [Next]_vars PROVE Effect
<1>1. CASE World
  BY <1>1 DEF World, QuoteExpires, QuoteDeleted, TenMinutes, SwapLands,
              AccountCloses, Crash, rowVars, orderVars, Effect
<1>2. CASE UNCHANGED vars
  BY <1>2 DEF vars, rowVars, orderVars, Effect
<1>3. QED
  BY <1>1, <1>2, ExecuteEffect, SubmitEffect, SweepEffect, SolanaEffect,
     FiatEffect DEF Next

(* The off-ramp implements OffRampPromise: whatever the handlers overwrite *)
(* of each other, a launched transaction (one that waits for a signature   *)
(* no longer: submitted, given a deposit, or failed) never becomes         *)
(* signable again, and fiat is ordered for it at most once and only after  *)
(* the launch.                                                             *)
THEOREM Implements == Spec => KeepsPromise
<1>1. Init => Promise!Init
  BY InitPromise
<1>2. IInv /\ [Next]_vars => [Promise!Next]_(Promise!pvars)
  BY NextEffect, EffectPromise
<1>3. QED
  BY <1>1, <1>2, Invariance, PTL DEF Spec, KeepsPromise, Promise!Spec
=============================================================================
