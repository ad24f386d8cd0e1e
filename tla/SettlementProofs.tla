-------------------------- MODULE SettlementProofs --------------------------
(***************************************************************************)
(* Proofs about Settlement, for every number of payments, calls, jobs'     *)
(* rounds, deliveries and crashes.                                         *)
(***************************************************************************)
EXTENDS SettlementProperties, FiniteSetTheorems, TLAPS

Fresh == {"idle", "gather", "create"}
Booking == {"complete", "debit", "debited", "settle"}

(* Before a call has made its row, nobody knows of the row. *)
FreshInv ==
  \A c \in Calls : pc[c] \in Fresh =>
    /\ status[c] = "ABSENT" /\ order[c] = "none"
    /\ c \notin batch /\ c # current
    /\ \A h \in ProviderHooks : hookPc[h] = "write" => hookRow[h] # c

(* The retry job at work has a row, and so has a webhook that will write.  *)
JobInv == pc[RetryJob] # "idle" => current \in Calls
HookInv ==
  \A h \in ProviderHooks :
    hookPc[h] = "write" => hookRow[h] \in Calls /\ hookTo[h] \in SettlementStatus

(* A payout that is being booked has been accepted. *)
BookInv ==
  \A w \in Workers :
    pc[w] \in Booking => ContractErrors \/ order[Row(w)] # "none"

(* Only completed payments are gathered, and only accepted ones settled.   *)
EarnedInv == \A c \in Calls : paymentIds[c] \subseteq completed
PaidInv == ContractErrors \/ SettledMeansPaid

IInv ==
  TypeOK /\ FreshInv /\ JobInv /\ HookInv /\ BookInv /\ EarnedInv /\ PaidInv
-----------------------------------------------------------------------------
(* It holds initially. *)
LEMMA InitIInv == Init => IInv
BY SettlementAssumption, SMT
   DEF Init, IInv, TypeOK, FreshInv, JobInv, HookInv, BookInv, EarnedInv,
       PaidInv, SettledMeansPaid, PaidOut, Workers, Calls, SettlementStatus,
       Booking

(* A worker that is past gathering has a row, and the row is known.        *)
LEMMA RowKnown ==
  ASSUME IInv, NEW w \in Workers,
         pc[w] \notin Fresh \/ (w = RetryJob /\ pc[w] # "idle")
  PROVE  Row(w) \in Calls /\ pc[Row(w)] \notin Fresh
BY SettlementAssumption DEF IInv, JobInv, FreshInv, Row, Workers, Fresh, Calls

(* A status write by a worker. *)
LEMMA WritesIInv ==
  ASSUME IInv, NEW w \in Workers,
         NEW from \in {"process", "complete", "fail"},
         NEW st \in SettlementStatus,
         NEW to \in {"pay", "debit", "done", "idle"},
         Writes(w, from, st, to),
         to = "debit" => from = "complete",
         to = "idle" <=> (w = RetryJob /\ from = "fail")
  PROVE  IInv'
<1> USE DEF Writes, Goes, SetStatus, payVars, jobVars, hookVars
<1>1. Row(w) \in Calls /\ pc[Row(w)] \notin Fresh
  BY RowKnown DEF Fresh
<1>2. TypeOK'
  BY <1>1 DEF IInv, TypeOK, Workers
<1>3. FreshInv'
  BY <1>1, SettlementAssumption DEF IInv, TypeOK, FreshInv, Workers, Fresh
<1>4. JobInv' /\ HookInv'
  BY SettlementAssumption DEF IInv, TypeOK, JobInv, HookInv, Workers
<1>5. BookInv'
  BY <1>1, SettlementAssumption
     DEF IInv, TypeOK, BookInv, Workers, Booking, Row
<1>6. EarnedInv' /\ PaidInv'
  BY DEF IInv, EarnedInv, PaidInv, SettledMeansPaid, PaidOut
<1>7. QED
  BY <1>2, <1>3, <1>4, <1>5, <1>6 DEF IInv
-----------------------------------------------------------------------------
(* A step of a payment's handler. *)
LEMMA PaymentIInv == ASSUME IInv, NEW p \in Payments, Payment(p) PROVE IInv'
<1> USE DEF Goes, payVars, rowVars, jobVars, hookVars
<1>1. CASE CompletePayment(p)
  <2>1. TypeOK'
    BY <1>1 DEF CompletePayment, IInv, TypeOK
  <2>2. FreshInv' /\ JobInv' /\ HookInv' /\ BookInv'
    BY <1>1, SettlementAssumption
       DEF CompletePayment, IInv, TypeOK, FreshInv, JobInv, HookInv, BookInv,
           Fresh, Booking, Workers, Row
  <2>3. EarnedInv' /\ PaidInv'
    BY <1>1 DEF CompletePayment, IInv, EarnedInv, PaidInv, SettledMeansPaid,
                PaidOut
  <2>4. QED
    BY <2>1, <2>2, <2>3 DEF IInv
<1>2. CASE CreditRead(p)
  <2>1. TypeOK'
    BY <1>2 DEF CreditRead, IInv, TypeOK
  <2>2. FreshInv' /\ JobInv' /\ HookInv' /\ BookInv'
    BY <1>2, SettlementAssumption
       DEF CreditRead, IInv, TypeOK, FreshInv, JobInv, HookInv, BookInv,
           Fresh, Booking, Workers, Row
  <2>3. EarnedInv' /\ PaidInv'
    BY <1>2 DEF CreditRead, IInv, EarnedInv, PaidInv, SettledMeansPaid, PaidOut
  <2>4. QED
    BY <2>1, <2>2, <2>3 DEF IInv
<1>3. CASE CreditWrite(p)
  <2>1. TypeOK'
    BY <1>3 DEF CreditWrite, IInv, TypeOK
  <2>2. FreshInv' /\ JobInv' /\ HookInv' /\ BookInv'
    BY <1>3, SettlementAssumption
       DEF CreditWrite, IInv, TypeOK, FreshInv, JobInv, HookInv, BookInv,
           Fresh, Booking, Workers, Row
  <2>3. EarnedInv' /\ PaidInv'
    BY <1>3 DEF CreditWrite, IInv, EarnedInv, PaidInv, SettledMeansPaid, PaidOut
  <2>4. QED
    BY <2>1, <2>2, <2>3 DEF IInv
<1>4. QED
  BY <1>1, <1>2, <1>3 DEF Payment
-----------------------------------------------------------------------------
(* The steps of a call up to its payout. *)
LEMMA DailyIInv ==
  ASSUME IInv, NEW d \in Dailies, DailyCheck(d) \/ DailySkip(d) PROVE IInv'
<1> USE DEF DailyCheck, DailySkip, Goes, payVars, rowVars, jobVars, hookVars
<1>1. d \in Calls /\ d \in Workers /\ d # RetryJob /\ pc[d] \in Fresh
  BY SettlementAssumption DEF Calls, Workers, Fresh
<1>2. TypeOK'
  BY <1>1 DEF IInv, TypeOK
<1>3. FreshInv'
  BY <1>1 DEF IInv, TypeOK, FreshInv, Fresh, Workers
<1>4. JobInv' /\ HookInv' /\ BookInv'
  BY <1>1 DEF IInv, TypeOK, JobInv, HookInv, BookInv, Workers, Booking, Row
<1>5. EarnedInv' /\ PaidInv'
  BY DEF IInv, EarnedInv, PaidInv, SettledMeansPaid, PaidOut
<1>6. QED
  BY <1>2, <1>3, <1>4, <1>5 DEF IInv

(* A call gathers what is unsettled. *)
LEMMA GatherIInv == ASSUME IInv, NEW c \in Calls, Gather(c) PROVE IInv'
<1> USE DEF Gather, Goes, payVars, rowVars, jobVars, hookVars
<1>1. c \in Workers /\ c # RetryJob /\ pc[c] \in Fresh
  BY SettlementAssumption DEF Workers, Fresh
<1>2. TypeOK'
  BY <1>1 DEF IInv, TypeOK, Unsettled
<1>3. FreshInv'
  BY <1>1 DEF IInv, TypeOK, FreshInv, Fresh, Workers
<1>4. JobInv' /\ HookInv' /\ BookInv'
  BY <1>1 DEF IInv, TypeOK, JobInv, HookInv, BookInv, Workers, Booking, Row
<1>5. EarnedInv'
  BY DEF IInv, TypeOK, EarnedInv, Unsettled
<1>6. order[c] = "none"
  BY <1>1 DEF IInv, FreshInv
<1>7. PaidOut' = PaidOut
  BY <1>6 DEF IInv, TypeOK, PaidOut
<1>8. PaidInv'
  BY <1>7 DEF IInv, PaidInv, SettledMeansPaid
<1>9. QED
  BY <1>2, <1>3, <1>4, <1>5, <1>8 DEF IInv

(* A call makes its row. *)
LEMMA CreateIInv == ASSUME IInv, NEW c \in Calls, Create(c) PROVE IInv'
<1> USE DEF Create, Goes, SetStatus, payVars, rowVars, jobVars, hookVars
<1>1. c \in Workers /\ c # RetryJob
  BY SettlementAssumption DEF Workers
<1>2. TypeOK'
  BY <1>1 DEF IInv, TypeOK, SettlementStatus
<1>3. FreshInv'
  BY <1>1 DEF IInv, TypeOK, FreshInv, Fresh, Workers
<1>4. JobInv' /\ HookInv' /\ BookInv'
  BY <1>1 DEF IInv, TypeOK, JobInv, HookInv, BookInv, Workers, Booking, Row
<1>5. EarnedInv' /\ PaidInv'
  BY DEF IInv, EarnedInv, PaidInv, SettledMeansPaid, PaidOut
<1>6. QED
  BY <1>2, <1>3, <1>4, <1>5 DEF IInv
-----------------------------------------------------------------------------
(* What a payout call does to the orders. *)
LEMMA DisburseOrders ==
  ASSUME TypeOK, NEW c \in Calls, Disburse(c)
  PROVE  /\ order' \in [Calls -> {"none", "pending", "paid", "failed"}]
         /\ order'[c] # "none"
         /\ \A d \in Calls : d # c => order'[d] = order[d]
         /\ \A d \in Calls : order[d] # "none" => order'[d] # "none"
BY DEF Disburse, TypeOK

(* A worker calls the provider. *)
LEMMA PayIInv == ASSUME IInv, NEW w \in Workers, Pay(w) PROVE IInv'
<1> USE DEF payVars, rowVars, jobVars, hookVars
<1>1. pc[w] = "pay"
  BY DEF Pay, Answered, ContractRefused, Goes
<1>2. Row(w) \in Calls /\ pc[Row(w)] \notin Fresh
  BY <1>1, RowKnown DEF Fresh
<1>3. PICK to \in {"pay", "complete", "fail"} :
        /\ pc' = [pc EXCEPT ![w] = to]
        /\ UNCHANGED order \/ Disburse(Row(w))
        /\ to = "complete" => ContractErrors \/ Disburse(Row(w))
  BY DEF Pay, Answered, ContractRefused, Threw, Goes
<1>4. /\ order' \in [Calls -> {"none", "pending", "paid", "failed"}]
      /\ \A d \in Calls : d # Row(w) => order'[d] = order[d]
      /\ \A d \in Calls : order[d] # "none" => order'[d] # "none"
      /\ to = "complete" => ContractErrors \/ order'[Row(w)] # "none"
  BY <1>2, <1>3, DisburseOrders DEF IInv, TypeOK
<1>5. tries' \in [Workers -> 0 .. MaxAttempts]
  BY SettlementAssumption DEF Pay, IInv, TypeOK
<1>6. TypeOK'
  BY <1>3, <1>4, <1>5 DEF Pay, IInv, TypeOK
<1>7. FreshInv'
  BY <1>1, <1>2, <1>3, <1>4 DEF Pay, IInv, TypeOK, FreshInv, Fresh, Workers
<1>8. JobInv' /\ HookInv'
  BY <1>1, <1>3 DEF Pay, IInv, TypeOK, JobInv, HookInv, Workers
<1>9. BookInv'
  <2> SUFFICES ASSUME NEW v \in Workers, pc'[v] \in Booking, ~ContractErrors
               PROVE  order'[Row(v)'] # "none"
    BY DEF BookInv
  <2>1. Row(v)' = Row(v)
    BY DEF Row, Pay
  <2>2. CASE v = w
    BY <1>3, <1>4, <2>1, <2>2 DEF IInv, TypeOK, Booking, Workers
  <2>3. CASE v # w
    <3>1. pc[v] \in Booking
      BY <1>3, <2>3 DEF IInv, TypeOK, Workers
    <3>2. order[Row(v)] # "none" /\ Row(v) \in Calls
      BY <3>1, RowKnown DEF IInv, BookInv, Booking, Fresh
    <3>3. QED
      BY <1>4, <2>1, <3>2
  <2>4. QED
    BY <2>2, <2>3
<1>10. EarnedInv'
  BY DEF Pay, IInv, EarnedInv
<1>11. PaidInv'
  BY <1>4 DEF Pay, IInv, PaidInv, SettledMeansPaid, PaidOut
<1>12. QED
  BY <1>6, <1>7, <1>8, <1>9, <1>10, <1>11 DEF IInv
-----------------------------------------------------------------------------
(* A worker debits the escrow balance. *)
LEMMA DebitIInv ==
  ASSUME IInv, NEW w \in Workers, DebitRead(w) \/ DebitWrite(w) PROVE IInv'
<1> USE DEF DebitRead, DebitWrite, Goes, payVars, rowVars, jobVars, hookVars
<1>1. Row(w) \in Calls /\ pc[Row(w)] \notin Fresh
  BY RowKnown DEF Fresh
<1>2. Cardinality(paymentIds[Row(w)]) \in Nat
  <2>1. paymentIds[Row(w)] \subseteq Payments
    BY <1>1 DEF IInv, TypeOK
  <2>2. QED
    BY <2>1, SettlementAssumption, FS_Subset, FS_CardinalityType
<1>3. TypeOK'
  BY <1>2 DEF IInv, TypeOK, Workers
<1>4. FreshInv' /\ JobInv' /\ HookInv'
  BY DEF IInv, TypeOK, FreshInv, JobInv, HookInv, Fresh, Workers
<1>5. BookInv'
  BY DEF IInv, TypeOK, BookInv, Workers, Booking, Row
<1>6. EarnedInv' /\ PaidInv'
  BY DEF IInv, EarnedInv, PaidInv, SettledMeansPaid, PaidOut
<1>7. QED
  BY <1>3, <1>4, <1>5, <1>6 DEF IInv

(* A worker marks the payments of its row as settled. *)
LEMMA SettleIInv == ASSUME IInv, NEW w \in Workers, Settle(w) PROVE IInv'
<1> USE DEF Settle, Goes, Over, rowVars, jobVars, hookVars
<1>1. Row(w) \in Calls /\ pc[Row(w)] \notin Fresh
  BY RowKnown DEF Fresh
<1>2. TypeOK'
  BY <1>1 DEF IInv, TypeOK, Workers
<1>3. FreshInv' /\ JobInv' /\ HookInv'
  BY SettlementAssumption
     DEF IInv, TypeOK, FreshInv, JobInv, HookInv, Fresh, Workers
<1>4. BookInv'
  BY DEF IInv, TypeOK, BookInv, Workers, Booking, Row
<1>5. EarnedInv'
  BY DEF IInv, EarnedInv
<1>6. ContractErrors \/ paymentIds[Row(w)] \subseteq PaidOut
  BY <1>1 DEF IInv, BookInv, Booking, PaidOut
<1>7. PaidInv'
  BY <1>6 DEF IInv, PaidInv, SettledMeansPaid, PaidOut
<1>8. QED
  BY <1>2, <1>3, <1>4, <1>5, <1>7 DEF IInv

(* A step in paying and booking a row. *)
LEMMA PayOutIInv == ASSUME IInv, NEW w \in Workers, PayOut(w) PROVE IInv'
<1>1. CASE Complete(w)
  BY <1>1, WritesIInv DEF Complete, SettlementStatus
<1>2. CASE Fail(w)
  BY <1>2, WritesIInv DEF Fail, SettlementStatus, Over
<1>3. QED
  BY <1>1, <1>2, PayIInv, DebitIInv, SettleIInv DEF PayOut
-----------------------------------------------------------------------------
(* A step of the retry job before it pays. *)
LEMMA RetryIInv ==
  ASSUME IInv, RetryScan \/ (\E c \in Calls : RetryMark(c)) PROVE IInv'
<1> USE DEF Goes, SetStatus, payVars, rowVars, workVars, hookVars
<1>0. RetryJob \in Workers /\ RetryJob \notin Calls
  BY SettlementAssumption DEF Workers
<1>1. CASE RetryScan
  <2>1. TypeOK'
    BY <1>1, SettlementAssumption DEF RetryScan, IInv, TypeOK
  <2>2. FreshInv'
    BY <1>1 DEF RetryScan, IInv, TypeOK, FreshInv
  <2>3. JobInv' /\ HookInv' /\ BookInv' /\ EarnedInv' /\ PaidInv'
    BY <1>1 DEF RetryScan, IInv, JobInv, HookInv, BookInv, EarnedInv, PaidInv,
                SettledMeansPaid, PaidOut, Row
  <2>4. QED
    BY <2>1, <2>2, <2>3 DEF IInv
<1>2. ASSUME NEW c \in Calls, RetryMark(c) PROVE IInv'
  <2>1. pc[c] \notin Fresh
    BY <1>2 DEF RetryMark, IInv, FreshInv
  <2>2. TypeOK'
    BY <1>0, <1>2 DEF RetryMark, IInv, TypeOK, SettlementStatus
  <2>3. FreshInv'
    BY <1>0, <1>2, <2>1 DEF RetryMark, IInv, TypeOK, FreshInv
  <2>4. JobInv' /\ HookInv' /\ EarnedInv' /\ PaidInv'
    BY <1>2 DEF RetryMark, IInv, JobInv, HookInv, EarnedInv, PaidInv,
                SettledMeansPaid, PaidOut
  <2>5. BookInv'
    BY <1>0, <1>2 DEF RetryMark, IInv, TypeOK, BookInv, Booking, Row
  <2>6. QED
    BY <2>2, <2>3, <2>4, <2>5 DEF IInv
<1>3. QED
  BY <1>1, <1>2

(* A step of a delivery of the provider's webhook. *)
LEMMA ProviderIInv ==
  ASSUME IInv, NEW h \in ProviderHooks, Provider(h) PROVE IInv'
<1> USE DEF SetStatus, payVars, rowVars, workVars, jobVars
<1>1. CASE HookRead(h)
  <2>1. PICK c \in Settlements :
          /\ order[c] # "none"
          /\ hookRow' = [hookRow EXCEPT ![h] = c]
          /\ hookTo' = [hookTo EXCEPT ![h] = ReportedStatus(order[c])]
          /\ hookCount' = [hookCount EXCEPT ![h] = retryCount[c] + 1]
    BY <1>1 DEF HookRead
  <2>2. c \in Calls /\ status[c] # "ABSENT" /\ pc[c] \notin Fresh
    BY <2>1 DEF Settlements, IInv, FreshInv
  <2>3. ReportedStatus(order[c]) \in SettlementStatus
    BY <2>1, <2>2 DEF IInv, TypeOK, ReportedStatus, SettlementStatus
  <2>4. TypeOK'
    BY <1>1, <2>1, <2>2, <2>3 DEF HookRead, IInv, TypeOK
  <2>5. FreshInv' /\ HookInv'
    BY <1>1, <2>1, <2>2, <2>3 DEF HookRead, IInv, TypeOK, FreshInv, HookInv
  <2>6. JobInv' /\ BookInv' /\ EarnedInv' /\ PaidInv'
    BY <1>1 DEF HookRead, IInv, JobInv, BookInv, EarnedInv, PaidInv,
                SettledMeansPaid, PaidOut, Row
  <2>7. QED
    BY <2>4, <2>5, <2>6 DEF IInv
<1>2. CASE HookWrite(h)
  <2>1. hookRow[h] \in Calls /\ hookTo[h] \in SettlementStatus
    BY <1>2 DEF HookWrite, IInv, HookInv
  <2>2. TypeOK'
    BY <1>2, <2>1 DEF HookWrite, IInv, TypeOK
  <2>3. FreshInv' /\ HookInv'
    BY <1>2, <2>1 DEF HookWrite, IInv, TypeOK, FreshInv, HookInv
  <2>4. JobInv' /\ BookInv' /\ EarnedInv' /\ PaidInv'
    BY <1>2 DEF HookWrite, IInv, JobInv, BookInv, EarnedInv, PaidInv,
                SettledMeansPaid, PaidOut, Row
  <2>5. QED
    BY <2>2, <2>3, <2>4 DEF IInv
<1>3. QED
  BY <1>1, <1>2 DEF Provider

(* Midnight, the provider's verdict, or a crash. *)
LEMMA WorldIInv == ASSUME IInv, World PROVE IInv'
<1> USE DEF payVars, rowVars, workVars, jobVars, hookVars
<1>1. CASE Midnight
  BY <1>1 DEF Midnight, IInv, TypeOK, FreshInv, JobInv, HookInv, BookInv,
              EarnedInv, PaidInv, SettledMeansPaid, PaidOut, Row
<1>2. ASSUME NEW ref \in Calls, ProviderResolves(ref) PROVE IInv'
  <2>1. PICK result \in {"paid", "failed"} :
          order' = [order EXCEPT ![ref] = result]
    BY <1>2 DEF ProviderResolves
  <2>2. TypeOK'
    BY <1>2, <2>1 DEF ProviderResolves, IInv, TypeOK
  <2>3. \A c \in Calls : order'[c] = "none" <=> order[c] = "none"
    BY <1>2, <2>1 DEF ProviderResolves, IInv, TypeOK
  <2>4. FreshInv' /\ JobInv' /\ HookInv' /\ EarnedInv' /\ PaidInv'
    BY <1>2, <2>3 DEF ProviderResolves, IInv, FreshInv, JobInv, HookInv,
                      EarnedInv, PaidInv, SettledMeansPaid, PaidOut
  <2>5. BookInv'
    <3> SUFFICES ASSUME NEW w \in Workers, pc[w] \in Booking, ~ContractErrors
                 PROVE  order'[Row(w)] # "none"
      BY <1>2 DEF ProviderResolves, BookInv, Row
    <3>1. Row(w) \in Calls
      BY RowKnown DEF Booking, Fresh
    <3>2. QED
      BY <2>3, <3>1 DEF IInv, BookInv
  <2>6. QED
    BY <2>2, <2>4, <2>5 DEF IInv
<1>3. CASE Crash
  <2>1. TypeOK'
    BY <1>3, SettlementAssumption DEF Crash, IInv, TypeOK, Workers
  <2>2. \A w \in Workers : pc'[w] \in {"idle", "done", "dead"}
    BY <1>3 DEF Crash
  <2>3. \A c \in Calls : pc'[c] \in Fresh => pc[c] \in Fresh
    BY <1>3, SettlementAssumption DEF Crash, Fresh, Workers
  <2>4. FreshInv' /\ HookInv'
    BY <1>3, <2>3 DEF Crash, IInv, TypeOK, FreshInv, HookInv
  <2>5. JobInv' /\ BookInv' /\ EarnedInv' /\ PaidInv'
    BY <1>3, <2>2, SettlementAssumption
       DEF Crash, IInv, JobInv, BookInv, EarnedInv, PaidInv, SettledMeansPaid,
           PaidOut, Booking, Workers
  <2>6. QED
    BY <2>1, <2>4, <2>5 DEF IInv
<1>4. QED
  BY <1>1, <1>2, <1>3 DEF World
-----------------------------------------------------------------------------
(* Every step keeps the invariant. *)
LEMMA NextIInv == ASSUME IInv, [Next]_vars PROVE IInv'
<1>1. CASE UNCHANGED vars
  BY <1>1 DEF vars, payVars, rowVars, workVars, jobVars, hookVars, IInv,
     TypeOK, FreshInv, JobInv, HookInv, BookInv, EarnedInv, PaidInv,
     SettledMeansPaid, PaidOut, Row
<1>2. ASSUME NEW c \in Calls, Process(c) PROVE IInv'
  <2>1. c \in Workers /\ c # RetryJob
    BY SettlementAssumption DEF Workers
  <2>2. QED
    BY <1>2, <2>1, WritesIInv DEF Process, SettlementStatus
<1>3. ASSUME NEW c \in Triggers, triggerSettlement(c) PROVE IInv'
  BY <1>2, <1>3, GatherIInv, CreateIInv, PayOutIInv
     DEF triggerSettlement, Calls, Workers
<1>4. ASSUME NEW d \in Dailies, DailyJob(d) PROVE IInv'
  BY <1>2, <1>4, DailyIInv, GatherIInv, CreateIInv, PayOutIInv
     DEF DailyJob, Calls, Workers
<1>5. CASE RetryFailed
  BY <1>5, RetryIInv, PayOutIInv DEF RetryFailed, Workers
<1>6. QED
  BY <1>1, <1>3, <1>4, <1>5, PaymentIInv, ProviderIInv, WorldIInv DEF Next

(* The invariant: who knows of a row, and what has been paid for what.     *)
THEOREM Invariance == Spec => []IInv
<1>1. IInv /\ [Next]_vars => IInv'
  BY NextIInv
<1>2. QED
  BY InitIInv, <1>1, PTL DEF Spec

(* Every variable keeps its type. *)
THEOREM TypeCorrect == Spec => []TypeOK
<1>1. IInv => TypeOK
  BY DEF IInv
<1>2. QED
  BY Invariance, <1>1, PTL

(* Unless the provider's contract errors are taken for success, a payment  *)
(* is marked settled only if a payout that includes it was accepted.       *)
THEOREM BookedIsPaid ==
  ASSUME ~ContractErrors PROVE Spec => []SettledMeansPaid
<1>1. IInv => SettledMeansPaid
  BY DEF IInv, PaidInv
<1>2. QED
  BY Invariance, <1>1, PTL
-----------------------------------------------------------------------------
(* Implementation of SettlementPromise: every step earns a payment, pays   *)
(* out what was earned, books what was paid out, or changes none of these. *)

Kept == UNCHANGED <<completed, settled, PaidOut>>
Promised == [Promise!Next]_(Promise!pvars)

(* No change is a stutter of the promise. *)
LEMMA KeptPromised == ASSUME Kept PROVE Promised
BY DEF Kept, Promised, Promise!pvars

(* What neither pays, gathers nor books changes nothing the promise sees.  *)
LEMMA QuietKept ==
  ASSUME UNCHANGED <<completed, settled, paymentIds>>,
         order' = order
           \/ \A c \in Calls : order'[c] = "none" <=> order[c] = "none"
  PROVE  Kept
<1>1. PaidOut' = PaidOut
  BY DEF PaidOut
<1>2. QED
  BY <1>1 DEF Kept

(* A payment that completes is earned. *)
LEMMA PaymentPromised ==
  ASSUME NEW p \in Payments, Payment(p) PROVE Promised
<1>1. CASE CompletePayment(p)
  <2>1. PaidOut' = PaidOut
    BY <1>1 DEF CompletePayment, rowVars, PaidOut
  <2>2. Promise!Earn(p)
    BY <1>1, <2>1 DEF CompletePayment, Promise!Earn
  <2>3. QED
    BY <2>2 DEF Promised, Promise!Next
<1>2. CASE CreditRead(p) \/ CreditWrite(p)
  BY <1>2, QuietKept, KeptPromised DEF CreditRead, CreditWrite, payVars, rowVars
<1>3. QED
  BY <1>1, <1>2 DEF Payment

(* Gathering rewrites the payments of a call that has no payout yet.       *)
LEMMA GatherPromised == ASSUME IInv, NEW c \in Calls, Gather(c) PROVE Promised
<1>1. pc[c] \in Fresh
  BY DEF Gather, Goes, Fresh
<1>2. order[c] = "none"
  BY <1>1 DEF IInv, FreshInv
<1>3. PaidOut' = PaidOut
  BY <1>2 DEF Gather, IInv, TypeOK, PaidOut
<1>4. QED
  BY <1>3, KeptPromised DEF Gather, Kept, payVars

(* A payout call pays out the payments of the row, all of them completed.  *)
LEMMA PayPromised == ASSUME IInv, NEW w \in Workers, Pay(w) PROVE Promised
<1>1. pc[w] = "pay"
  BY DEF Pay, Answered, ContractRefused, Goes
<1>2. Row(w) \in Calls
  BY <1>1, RowKnown DEF Fresh
<1>3. UNCHANGED <<completed, settled, paymentIds>>
  BY DEF Pay, payVars, rowVars
<1>4. CASE order' = order
  BY <1>3, <1>4, QuietKept, KeptPromised
<1>5. CASE Disburse(Row(w)) /\ order' # order
  <2>1. /\ order'[Row(w)] # "none"
        /\ \A d \in Calls : d # Row(w) => order'[d] = order[d]
    BY <1>2, <1>5, DisburseOrders DEF IInv
  <2>2. PaidOut' = PaidOut \cup paymentIds[Row(w)]
    BY <1>2, <1>3, <2>1, <1>5 DEF Disburse, PaidOut
  <2>3. paymentIds[Row(w)] \in SUBSET Payments
    BY <1>2 DEF IInv, TypeOK
  <2>4. paymentIds[Row(w)] \subseteq completed
    BY <1>2 DEF IInv, EarnedInv
  <2>5. Promise!PayOut(paymentIds[Row(w)])
    BY <1>3, <2>2, <2>4 DEF Promise!PayOut
  <2>6. QED
    BY <2>3, <2>5 DEF Promised, Promise!Next
<1>6. QED
  BY <1>4, <1>5 DEF Pay, Answered, ContractRefused, Threw

(* What is booked was accepted, unless contract errors pass for success.   *)
LEMMA SettlePromised ==
  ASSUME IInv, ~ContractErrors, NEW w \in Workers, Settle(w) PROVE Promised
<1>1. pc[w] = "settle"
  BY DEF Settle, Goes
<1>2. Row(w) \in Calls
  BY <1>1, RowKnown DEF Fresh
<1>3. order[Row(w)] # "none"
  BY <1>1 DEF IInv, BookInv, Booking
<1>4. paymentIds[Row(w)] \subseteq PaidOut
  BY <1>2, <1>3 DEF PaidOut
<1>5. paymentIds[Row(w)] \in SUBSET Payments
  BY <1>2 DEF IInv, TypeOK
<1>6. PaidOut' = PaidOut
  BY DEF Settle, rowVars, PaidOut
<1>7. Promise!Book(paymentIds[Row(w)])
  BY <1>4, <1>6 DEF Settle, Promise!Book
<1>8. QED
  BY <1>5, <1>7 DEF Promised, Promise!Next

(* A step in paying and booking a row keeps the promise. *)
LEMMA PayOutPromised ==
  ASSUME IInv, ~ContractErrors, NEW w \in Workers, PayOut(w) PROVE Promised
<1>1. CASE Complete(w) \/ Fail(w)
  BY <1>1, QuietKept, KeptPromised DEF Complete, Fail, Writes, payVars
<1>2. CASE DebitRead(w) \/ DebitWrite(w)
  BY <1>2, QuietKept, KeptPromised DEF DebitRead, DebitWrite, payVars, rowVars
<1>3. QED
  BY <1>1, <1>2, PayPromised, SettlePromised DEF PayOut

(* Every step keeps the promise. *)
LEMMA NextPromised ==
  ASSUME IInv, ~ContractErrors, [Next]_vars PROVE Promised
<1> USE DEF payVars, rowVars
<1>1. CASE UNCHANGED vars
  BY <1>1, QuietKept, KeptPromised DEF vars
<1>2. ASSUME NEW c \in Calls, Create(c) \/ Process(c) PROVE Promised
  BY <1>2, QuietKept, KeptPromised DEF Create, Process, Writes
<1>3. ASSUME NEW c \in Triggers, triggerSettlement(c) PROVE Promised
  BY <1>2, <1>3, GatherPromised, PayOutPromised
     DEF triggerSettlement, Calls, Workers
<1>4. ASSUME NEW d \in Dailies, DailyJob(d) PROVE Promised
  <2>1. CASE DailyCheck(d) \/ DailySkip(d)
    BY <2>1, QuietKept, KeptPromised DEF DailyCheck, DailySkip
  <2>2. QED
    BY <1>2, <1>4, <2>1, GatherPromised, PayOutPromised
       DEF DailyJob, Calls, Workers
<1>5. CASE RetryFailed
  <2>1. CASE RetryScan \/ \E c \in Calls : RetryMark(c)
    BY <2>1, QuietKept, KeptPromised DEF RetryScan, RetryMark
  <2>2. QED
    BY <1>5, <2>1, PayOutPromised DEF RetryFailed, Workers
<1>6. ASSUME NEW h \in ProviderHooks, Provider(h) PROVE Promised
  BY <1>6, QuietKept, KeptPromised DEF Provider, HookRead, HookWrite
<1>7. CASE World
  <2>1. CASE Midnight \/ Crash
    BY <2>1, QuietKept, KeptPromised DEF Midnight, Crash
  <2>2. ASSUME NEW ref \in Calls, ProviderResolves(ref) PROVE Promised
    <3>1. \A c \in Calls : order'[c] = "none" <=> order[c] = "none"
      BY <2>2 DEF ProviderResolves, IInv, TypeOK
    <3>2. QED
      BY <2>2, <3>1, QuietKept, KeptPromised DEF ProviderResolves
  <2>3. QED
    BY <1>7, <2>1, <2>2 DEF World
<1>8. QED
  BY <1>1, <1>3, <1>4, <1>5, <1>6, <1>7, PaymentPromised DEF Next

(* Settlement implements SettlementPromise, unless the provider's contract *)
(* errors are taken for success: overwritten rows, overlapping calls, lost *)
(* answers and crashes never make it pay out what was not completed or     *)
(* book what was not paid out.                                             *)
THEOREM Implements ==
  ASSUME ~ContractErrors PROVE Spec => KeepsPromise
<1>1. Init => Promise!Init
  BY DEF Init, Promise!Init, PaidOut
<1>2. IInv /\ [Next]_vars => [Promise!Next]_(Promise!pvars)
  BY NextPromised DEF Promised
<1>3. QED
  BY <1>1, <1>2, Invariance, PTL DEF Spec, KeepsPromise, Promise!Spec
=============================================================================
