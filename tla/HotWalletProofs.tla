--------------------------- MODULE HotWalletProofs ---------------------------
(***************************************************************************)
(* Proofs about HotWallet, for every number of payments, calls, reviews,   *)
(* endpoints, retries and crashes.                                         *)
(***************************************************************************)
EXTENDS HotWalletProperties, TLAPS

(* A review has approved refund r, and the review is never taken back.     *)
Reviewed(r) == \E v \in Reviews : on[v] = r /\ pc[v] = "approved"

(* A refund that exists is of a call that is over and has named a payment, *)
(* and one that is APPROVED has been reviewed.                             *)
RequestInv ==
  \A r \in Requests :
    /\ pc[r] \in {"idle", "read", "find", "insert", "done"}
    /\ pc[r] # "idle" => on[r] \in Payments
    /\ refund[r] # "ABSENT" => pc[r] = "done"
    /\ refund[r] = "APPROVED" => Reviewed(r)

(* A review is of a refund that exists.                                    *)
ReviewInv ==
  \A v \in Reviews :
    /\ pc[v] \in {"idle", "approve", "reject", "approved", "done"}
    /\ pc[v] \in {"approve", "reject", "approved"} =>
         on[v] \in Requests /\ refund[on[v]] # "ABSENT"

(* A process call works on a refund that exists; past the look at its      *)
(* status the refund has been reviewed, and once the transfer is confirmed *)
(* tokens have gone out, whatever the row says by now.                     *)
Paying == {"mark", "send", "complete", "flag", "fail"}
Paid == {"complete", "flag"}
ProcessInv ==
  \A x \in Processes :
    /\ pc[x] \in Paying \cup {"idle", "load", "done"}
    /\ pc[x] \in Paying \cup {"load"} =>
         on[x] \in Requests /\ refund[on[x]] # "ABSENT"
    /\ pc[x] \in Paying => Reviewed(on[x])
    /\ pc[x] \in Paid => sent[on[x]] > 0
BatchInv ==
  \A b \in Batches :
    /\ pc[b] \in Paid \cup {"idle", "insert", "send", "fail", "retry", "done"}
    /\ pc[b] \in Paid => sent[b] > 0

(* Nothing has been sent for a row that does not exist yet.                *)
SentInv ==
  /\ \A r \in Requests : sent[r] > 0 => refund[r] # "ABSENT"
  /\ \A b \in Batches : sent[b] > 0 => pc[b] # "idle"

IInv ==
  /\ TypeOK /\ RequestInv /\ ReviewInv /\ ProcessInv /\ BatchInv /\ SentInv
  /\ RecordedMeansSent /\ SentMeansApproved
-----------------------------------------------------------------------------
(* It holds initially. *)
LEMMA InitIInv == Init => IInv
<1> SUFFICES ASSUME Init PROVE IInv
  OBVIOUS
<1>1. TypeOK
  BY HotWalletAssumption DEF Init, TypeOK, SettlementStatus, RefundStatus, Senders
<1>2. RequestInv /\ ReviewInv /\ ProcessInv /\ BatchInv /\ SentInv
  BY DEF Init, RequestInv, ReviewInv, ProcessInv, BatchInv, SentInv, Paying,
         Paid, Callers, Senders, Rows
<1>3. RecordedMeansSent /\ SentMeansApproved
  BY DEF Init, RecordedMeansSent, SentMeansApproved, Rows
<1>4. QED
  BY <1>1, <1>2, <1>3 DEF IInv

(* No kind of call or row is another. *)
LEMMA Kinds ==
  /\ Requests \subseteq Callers /\ Reviews \subseteq Callers
  /\ Processes \subseteq Callers /\ Batches \subseteq Callers
  /\ \A r \in Requests : r \notin Reviews \cup Processes \cup Batches
  /\ \A v \in Reviews : v \notin Requests \cup Processes \cup Batches
  /\ \A x \in Processes : x \notin Requests \cup Reviews \cup Batches
  /\ \A b \in Batches : b \notin Requests \cup Reviews \cup Processes
BY HotWalletAssumption DEF Callers

(* A review that has approved a refund has done so for good: no step of a  *)
(* call makes it another review, or one of another refund.                 *)
LEMMA ReviewedStays ==
  ASSUME TypeOK, NEW c \in Callers, NEW to, NEW y,
         pc[c] # "approved", pc' = [pc EXCEPT ![c] = to],
         on' = on \/ on' = [on EXCEPT ![c] = y],
         NEW r, Reviewed(r)
  PROVE  Reviewed(r)'
<1>1. PICK v \in Reviews : on[v] = r /\ pc[v] = "approved"
  BY DEF Reviewed
<1>2. v # c /\ v \in Callers
  BY <1>1, Kinds
<1>3. on'[v] = r /\ pc'[v] = "approved"
  BY <1>1, <1>2 DEF TypeOK
<1>4. QED
  BY <1>3 DEF Reviewed
-----------------------------------------------------------------------------
(* A step of a refund request. *)
LEMMA RequestIInv ==
  ASSUME IInv, NEW r \in Requests,
         RequestStep(r) \/ \E p \in Payments : RequestArrives(r, p)
  PROVE  IInv'
<1> USE Kinds DEF Goes
<1>1. TypeOK /\ pc[r] \in {"idle", "read", "find", "insert"}
      /\ refund[r] = "ABSENT" /\ pc[r] # "approved" /\ sent[r] = 0
  BY DEF IInv, RequestInv, SentInv, TypeOK, Rows, RequestStep, RequestArrives, Starts, RequestRead,
         RequestFind, RequestInsert
<1>2. PICK to \in {"read", "find", "insert", "done"} :
        /\ pc' = [pc EXCEPT ![r] = to]
        /\ \/ refund' = refund
           \/ to = "done" /\ refund' = [refund EXCEPT ![r] = "PENDING"]
  BY DEF RequestStep, RequestArrives, Starts, Unless, RequestRead, RequestFind,
         RequestInsert, SetRefund, rowVars
<1>3. /\ UNCHANGED <<refunded, settled, batch, retries, sent, got, tries,
                     crashes>>
      /\ \/ on' = on /\ pc[r] # "idle"
         \/ \E p \in Payments : on' = [on EXCEPT ![r] = p] /\ pc[r] = "idle"
  BY DEF RequestStep, RequestArrives, Starts, RequestRead, RequestFind,
         RequestInsert, rowVars
<1>4. stale' \subseteq Requests /\ cache' \subseteq (Requests \cup {None}) \X Keys
  BY <1>1 DEF TypeOK, RequestStep, RequestArrives, RequestRead, RequestFind,
         RequestInsert, Answers, CacheKey, Keys
<1>5. TypeOK'
  BY <1>1, <1>2, <1>3, <1>4 DEF TypeOK, RefundStatus
<1>6. \A q \in Requests : Reviewed(q) => Reviewed(q)'
  BY <1>1, <1>2, <1>3, ReviewedStays
<1>7. RequestInv'
  BY <1>1, <1>2, <1>3, <1>6 DEF IInv, RequestInv, TypeOK
<1>8. ReviewInv' /\ ProcessInv' /\ BatchInv' /\ SentInv'
  BY <1>1, <1>2, <1>3, <1>6
     DEF IInv, ReviewInv, ProcessInv, BatchInv, SentInv, TypeOK, Paying, Paid
<1>9. RecordedMeansSent'
  BY <1>1, <1>2, <1>3 DEF IInv, RecordedMeansSent, TypeOK
<1>10. SentMeansApproved'
  BY <1>3, <1>6 DEF IInv, SentMeansApproved, Reviewed
<1>11. QED
  BY <1>5, <1>7, <1>8, <1>9, <1>10 DEF IInv

(* A step of a review. *)
LEMMA ReviewIInv ==
  ASSUME IInv, NEW v \in Reviews,
         \/ ReviewStep(v)
         \/ \E r \in Requests : Review(v, r, "approve") \/ Review(v, r, "reject")
  PROVE  IInv'
<1> USE Kinds DEF Goes
<1>1. TypeOK /\ pc[v] # "approved"
  BY DEF IInv, ReviewStep, Review, Starts, Approve, Reject
<1>2. UNCHANGED <<refunded, settled, batch, retries, sent, stale, got, tries,
                  cache, crashes>>
  BY DEF ReviewStep, Review, Approve, Reject, rowVars
<1>3. PICK r \in Requests, st \in {"PENDING", "APPROVED", "REJECTED"},
           to \in {"approve", "reject", "approved", "done"} :
        /\ pc' = [pc EXCEPT ![v] = to]
        /\ \/ on' = on /\ on[v] = r
           \/ on' = [on EXCEPT ![v] = r]
        /\ refund[r] # "ABSENT"
        /\ refund' = [refund EXCEPT ![r] = st]
        /\ st = "APPROVED" => to = "approved"
  <2>1. CASE ReviewStep(v)
    BY <2>1 DEF ReviewStep, Approve, Reject, SetRefund, IInv, ReviewInv
  <2>2. ASSUME NEW r \in Requests, NEW to \in {"approve", "reject"},
               Review(v, r, to)
        PROVE  /\ pc' = [pc EXCEPT ![v] = to]
               /\ on' = [on EXCEPT ![v] = r]
               /\ refund[r] = "PENDING"
               /\ refund' = [refund EXCEPT ![r] = "PENDING"]
    BY <1>1, <2>2 DEF Review, Starts, TypeOK, rowVars
  <2>3. QED
    BY <2>1, <2>2
<1>4. TypeOK'
  BY <1>1, <1>2, <1>3 DEF TypeOK, RefundStatus
<1>5. \A q \in Requests : Reviewed(q) => Reviewed(q)'
  BY <1>1, <1>3, ReviewedStays
<1>6. RequestInv'
  <2>1. st = "APPROVED" => Reviewed(r)'
    BY <1>1, <1>3 DEF Reviewed, TypeOK
  <2>2. QED
    BY <1>1, <1>3, <1>5, <2>1 DEF IInv, RequestInv, TypeOK
<1>7. ReviewInv' /\ ProcessInv' /\ BatchInv' /\ SentInv'
  BY <1>1, <1>2, <1>3, <1>5
     DEF IInv, ReviewInv, ProcessInv, BatchInv, SentInv, TypeOK, Paying, Paid
<1>8. RecordedMeansSent'
  BY <1>1, <1>2, <1>3 DEF IInv, RecordedMeansSent, TypeOK
<1>9. SentMeansApproved'
  BY <1>2, <1>5 DEF IInv, SentMeansApproved, Reviewed
<1>10. QED
  BY <1>4, <1>6, <1>7, <1>8, <1>9 DEF IInv
-----------------------------------------------------------------------------
(* What a transfer changes, for a refund or for a settlement. *)
LEMMA SendIInv ==
  ASSUME IInv, NEW c \in Senders, Send(c) PROVE IInv'
<1> USE Kinds DEF Goes, rowVars
<1>1. TypeOK /\ pc[c] = "send" /\ c \in Callers
  BY DEF IInv, Send, Confirmed, Threw, Senders
<1>2. /\ Row(c) \in Rows
      /\ c \in Processes => /\ Row(c) = on[c] /\ on[c] \in Requests
                            /\ refund[on[c]] # "ABSENT" /\ Reviewed(on[c])
      /\ c \in Batches => Row(c) = c
  BY <1>1 DEF Row, Rows, Senders, IInv, ProcessInv, Paying
<1>3. UNCHANGED <<rowVars, on, stale, got, cache, crashes>>
  BY DEF Send
<1>4. PICK to \in {"send", "complete", "fail"} :
        /\ pc' = [pc EXCEPT ![c] = to]
        /\ \/ sent' = [sent EXCEPT ![Row(c)] = @ + 1]
           \/ sent' = sent /\ to # "complete"
  BY DEF Send, Confirmed, Threw, Lands
<1>5. tries' \in [Senders -> 0..(Endpoints - 1)]
  BY <1>1, HotWalletAssumption DEF TypeOK, Send, Confirmed, Threw
<1>6. sent' \in [Rows -> Nat] /\ \A row \in Rows : sent[row] > 0 => sent'[row] > 0
  BY <1>1, <1>2, <1>4 DEF TypeOK
<1>7. to = "complete" => sent'[Row(c)] > 0
  BY <1>1, <1>2, <1>4 DEF TypeOK
<1>8. TypeOK'
  BY <1>1, <1>3, <1>4, <1>5, <1>6 DEF TypeOK
<1>9. \A q \in Requests : Reviewed(q) => Reviewed(q)'
  BY <1>1, <1>3, <1>4, ReviewedStays
<1>10. RequestInv' /\ ReviewInv'
  BY <1>1, <1>3, <1>4, <1>9
     DEF IInv, RequestInv, ReviewInv, TypeOK, Senders
<1>11. ProcessInv'
  BY <1>1, <1>2, <1>3, <1>4, <1>6, <1>7, <1>9
     DEF IInv, ProcessInv, TypeOK, Paying, Paid, Rows
<1>12. BatchInv'
  BY <1>1, <1>2, <1>3, <1>4, <1>6, <1>7 DEF IInv, BatchInv, TypeOK, Paid, Rows
<1>13. SentInv'
  BY <1>1, <1>2, <1>3, <1>4 DEF IInv, SentInv, TypeOK, Senders, Rows
<1>14. RecordedMeansSent'
  BY <1>3, <1>6 DEF IInv, RecordedMeansSent, Rows
<1>15. SentMeansApproved'
  <2> SUFFICES ASSUME NEW q \in Requests, sent'[q] > 0
               PROVE  Reviewed(q)'
    BY DEF SentMeansApproved, Reviewed
  <2>1. CASE sent[q] > 0
    BY <1>9, <2>1 DEF IInv, SentMeansApproved, Reviewed
  <2>2. CASE ~(sent[q] > 0)
    <3>1. Row(c) = q
      BY <1>1, <1>2, <1>4, <2>2 DEF TypeOK, Rows
    <3>2. c \in Processes
      BY <1>2, <3>1 DEF Senders
    <3>3. QED
      BY <1>2, <1>9, <3>1, <3>2
  <2>3. QED
    BY <2>1, <2>2
<1>16. QED
  BY <1>8, <1>10, <1>11, <1>12, <1>13, <1>14, <1>15 DEF IInv
-----------------------------------------------------------------------------
(* The other steps of a process call. *)
LEMMA ProcessIInv ==
  ASSUME IInv, NEW x \in Processes,
         \/ ProcessLoad(x) \/ ProcessMark(x) \/ ProcessComplete(x)
         \/ ProcessFlag(x) \/ ProcessFail(x)
         \/ \E r \in Requests : ProcessArrives(x, r)
  PROVE  IInv'
<1> USE Kinds DEF Goes, rowVars
<1>1. TypeOK /\ pc[x] # "approved" /\ pc[x] # "done"
  BY DEF IInv, ProcessLoad, ProcessMark, ProcessComplete, ProcessFlag,
         ProcessFail, ProcessArrives, Starts
<1>2. UNCHANGED <<settled, batch, retries, sent, stale, got, tries, crashes>>
  BY DEF ProcessLoad, ProcessMark, ProcessComplete, ProcessFlag, ProcessFail,
         ProcessArrives
<1>3. cache' \subseteq (Requests \cup {None}) \X Keys
  <2>1. \A r \in Requests : CacheKey(x, r) \in (Requests \cup {None}) \X Keys
    BY DEF CacheKey, Keys
  <2>2. on[x] \in Requests \/ pc[x] \notin Paying \cup {"load"}
    BY DEF IInv, ProcessInv
  <2>3. QED
    BY <1>1, <2>1, <2>2
       DEF ProcessLoad, ProcessMark, ProcessComplete, ProcessFlag, ProcessFail,
           ProcessArrives, Starts, Answers, TypeOK, Paying
(* Where the call goes, the refund it is about, and the status of its row. *)
<1> DEFINE Effect(r, st, to) ==
        /\ pc' = [pc EXCEPT ![x] = to]
        /\ \/ on' = on /\ on[x] = r
           \/ on' = [on EXCEPT ![x] = r] /\ to \in {"load", "done"}
        /\ refund[r] # "ABSENT"
        /\ refund' = refund \/ refund' = [refund EXCEPT ![r] = st]
        /\ st = "COMPLETED" => pc[x] \in Paid /\ on[x] = r
        /\ to \in Paid => pc[x] \in Paid
        /\ to \in Paying => /\ pc[x] \in Paying \/ refund[r] = "APPROVED"
                            /\ on[x] = r
        /\ \/ refunded' = refunded
           \/ /\ refunded' = refunded \cup {on[r]}
              /\ pc[x] \in Paid /\ on[x] = r
<1>4. PICK r \in Requests,
           st \in {"PROCESSING", "COMPLETED", "FAILED"},
           to \in Paying \cup {"load", "done"} : Effect(r, st, to)
  <2> USE DEF Paying, Paid
  <2>1. pc[x] \in Paying \cup {"load"} =>
          on[x] \in Requests /\ refund[on[x]] # "ABSENT"
    BY DEF IInv, ProcessInv
  <2>2. ASSUME ProcessLoad(x)
        PROVE  \/ Effect(on[x], "FAILED", "mark")
               \/ Effect(on[x], "FAILED", "done")
    BY <2>1, <2>2 DEF ProcessLoad
  <2>3. ASSUME ProcessMark(x)
        PROVE  Effect(on[x], "PROCESSING", "send")
    BY <2>1, <2>3 DEF ProcessMark, SetRefund
  <2>4. ASSUME ProcessComplete(x)
        PROVE  \/ Effect(on[x], "COMPLETED", "flag")
               \/ Effect(on[x], "COMPLETED", "fail")
    BY <2>1, <2>4 DEF ProcessComplete, SetRefund
  <2>5. ASSUME ProcessFlag(x)
        PROVE  \/ Effect(on[x], "FAILED", "done")
               \/ Effect(on[x], "FAILED", "fail")
    BY <2>1, <2>5 DEF ProcessFlag
  <2>6. ASSUME ProcessFail(x)
        PROVE  Effect(on[x], "FAILED", "done")
    BY <2>1, <2>6 DEF ProcessFail, SetRefund
  <2>7. ASSUME NEW r \in Requests, ProcessArrives(x, r)
        PROVE  Effect(r, "FAILED", "load") \/ Effect(r, "FAILED", "done")
    BY <2>7 DEF ProcessArrives, Starts, Unless
  <2> HIDE DEF Effect
  <2>8. CASE \E r \in Requests : ProcessArrives(x, r)
    BY <2>7, <2>8
  <2>9. CASE pc[x] \in Paying \cup {"load"}
    BY <2>1, <2>2, <2>3, <2>4, <2>5, <2>6, <2>7, <2>9
  <2>10. QED
    BY <2>8, <2>9 DEF ProcessLoad, ProcessMark, ProcessComplete, ProcessFlag,
                      ProcessFail
<1>5. on[r] \in Payments /\ on'[r] = on[r]
  BY <1>1, <1>4 DEF IInv, RequestInv, TypeOK
<1>6. TypeOK'
  BY <1>1, <1>2, <1>3, <1>4, <1>5 DEF TypeOK, RefundStatus, Paying
<1>7. \A q \in Requests : Reviewed(q) => Reviewed(q)'
  BY <1>1, <1>4, ReviewedStays
<1>8. RequestInv' /\ ReviewInv'
  BY <1>1, <1>4, <1>7 DEF IInv, RequestInv, ReviewInv, TypeOK
<1>9. ProcessInv'
  <2>1. to \in Paying => Reviewed(r)'
    BY <1>4, <1>7 DEF IInv, ProcessInv, RequestInv
  <2>2. to \in Paid => sent[r] > 0
    BY <1>4 DEF IInv, ProcessInv, Paid, Paying
  <2>3. QED
    BY <1>1, <1>2, <1>4, <1>7, <2>1, <2>2
       DEF IInv, ProcessInv, TypeOK, Paying, Paid
<1>10. BatchInv' /\ SentInv'
  BY <1>1, <1>2, <1>4 DEF IInv, BatchInv, SentInv, TypeOK
<1>11. RecordedMeansSent'
  <2>1. pc[x] \in Paid /\ on[x] = r => sent[r] > 0
    BY DEF IInv, ProcessInv
  <2>2. \A q \in Requests : refund'[q] = "COMPLETED" => sent[q] > 0
    BY <1>1, <1>4, <2>1 DEF IInv, RecordedMeansSent, TypeOK
  <2>3. \A q \in Requests : on'[q] = on[q]
    BY <1>1, <1>4 DEF TypeOK
  <2>4. \A p \in refunded' : \E q \in Requests : on'[q] = p /\ sent[q] > 0
    BY <1>4, <2>1, <2>3 DEF IInv, RecordedMeansSent, Paid
  <2>5. QED
    BY <1>2, <2>2, <2>4 DEF IInv, RecordedMeansSent
<1>12. SentMeansApproved'
  BY <1>2, <1>7 DEF IInv, SentMeansApproved, Reviewed
<1>13. QED
  BY <1>6, <1>8, <1>9, <1>10, <1>11, <1>12 DEF IInv
-----------------------------------------------------------------------------
(* The other steps of a settlement, by a call or by the retry job. *)
LEMMA BatchIInv ==
  ASSUME IInv, NEW b \in Batches,
         \/ Gather(b) \/ BatchCreate(b) \/ BatchComplete(b) \/ BatchFlag(b)
         \/ BatchFail(b) \/ RetryMark(b) \/ RetryRefused(b)
  PROVE  IInv'
<1> USE Kinds DEF Goes, SetBatch, rowVars
<1> USE DEF Gather, BatchCreate, BatchComplete, BatchFlag, BatchFail,
            RetryMark, RetryRefused
<1>1. TypeOK /\ pc[b] # "approved"
  BY DEF IInv
<1>2. UNCHANGED <<refund, refunded, sent, on, stale, tries, cache, crashes>>
  OBVIOUS
<1>3. PICK to \in Paid \cup {"insert", "send", "fail", "retry", "done"} :
        /\ pc' = [pc EXCEPT ![b] = to]
        /\ to \in Paid => pc[b] \in Paid
  BY DEF Paid
<1>4. /\ batch' \in [Batches -> SettlementStatus \cup {"ABSENT"}]
      /\ \A d \in Batches :
           batch'[d] = "COMPLETED" =>
             batch[d] = "COMPLETED" \/ (d = b /\ pc[b] \in Paid)
  BY <1>1 DEF TypeOK, SettlementStatus, Paid
<1>5. retries' \in [Batches -> 0..MaxRetries]
  BY <1>1, HotWalletAssumption DEF TypeOK
<1>6. /\ got' \in [Batches -> SUBSET Payments]
      /\ \A d \in Batches : d # b \/ pc[b] # "idle" => got'[d] = got[d]
  BY <1>1 DEF TypeOK
<1>7. settled' = settled \/ (pc[b] \in Paid /\ settled' = settled \cup got[b])
  BY DEF Paid
<1>8. TypeOK'
  BY <1>1, <1>2, <1>3, <1>4, <1>5, <1>6, <1>7 DEF TypeOK, Paid
<1>9. \A q \in Requests : Reviewed(q) => Reviewed(q)'
  BY <1>1, <1>2, <1>3, ReviewedStays
<1>10. RequestInv' /\ ReviewInv' /\ ProcessInv'
  BY <1>1, <1>2, <1>3, <1>9
     DEF IInv, RequestInv, ReviewInv, ProcessInv, TypeOK
<1>11. BatchInv' /\ SentInv'
  BY <1>1, <1>2, <1>3 DEF IInv, BatchInv, SentInv, TypeOK, Paid
<1>12. RecordedMeansSent'
  <2>1. pc[b] \in Paid => sent[b] > 0 /\ got'[b] = got[b]
    BY <1>6 DEF IInv, BatchInv, Paid
  <2>2. \A d \in Batches : batch'[d] = "COMPLETED" => sent[d] > 0
    BY <1>4, <2>1 DEF IInv, RecordedMeansSent
  <2>3. \A d \in Batches : sent[d] > 0 => got'[d] = got[d]
    BY <1>6 DEF IInv, SentInv
  <2>4. \A p \in settled' : \E d \in Batches : p \in got'[d] /\ sent[d] > 0
    BY <1>7, <2>1, <2>3 DEF IInv, RecordedMeansSent
  <2>5. QED
    BY <1>2, <2>2, <2>4 DEF IInv, RecordedMeansSent
<1>13. SentMeansApproved'
  BY <1>2, <1>9 DEF IInv, SentMeansApproved, Reviewed
<1>14. QED
  BY <1>8, <1>10, <1>11, <1>12, <1>13 DEF IInv

(* An answer is forgotten; the process dies. *)
LEMMA ForgetIInv ==
  ASSUME IInv, NEW key \in cache, CacheForgets(key) PROVE IInv'
BY DEF CacheForgets, rowVars, callVars, IInv, TypeOK, RequestInv, ReviewInv,
       ProcessInv, BatchInv, SentInv, RecordedMeansSent, SentMeansApproved,
       Reviewed

LEMMA CrashIInv == ASSUME IInv, Crash PROVE IInv'
<1> USE Kinds DEF Crash, rowVars
<1>1. TypeOK
  BY DEF IInv
<1>2. TypeOK'
  BY <1>1 DEF TypeOK
<1>3. \A c \in Callers :
        \/ pc[c] \in {"idle", "approved"} /\ pc'[c] = pc[c]
        \/ pc[c] \notin {"idle", "approved"} /\ pc'[c] = "done"
  BY <1>1 DEF TypeOK
<1>4. \A q \in Requests : Reviewed(q) => Reviewed(q)'
  BY <1>3 DEF Reviewed
<1>5. RequestInv' /\ ReviewInv'
  BY <1>3, <1>4 DEF IInv, RequestInv, ReviewInv
<1>6. ProcessInv' /\ BatchInv' /\ SentInv'
  BY <1>3 DEF IInv, ProcessInv, BatchInv, SentInv, Paying, Paid
<1>7. RecordedMeansSent' /\ SentMeansApproved'
  BY <1>4 DEF IInv, RecordedMeansSent, SentMeansApproved, Reviewed
<1>8. QED
  BY <1>2, <1>5, <1>6, <1>7 DEF IInv
-----------------------------------------------------------------------------
(* Every step keeps it. *)
LEMMA NextIInv == IInv /\ [Next]_vars => IInv'
<1> SUFFICES ASSUME IInv, [Next]_vars PROVE IInv'
  OBVIOUS
<1>1. ASSUME NEW r \in Requests,
             RequestStep(r) \/ \E p \in Payments : RequestArrives(r, p)
      PROVE  IInv'
  BY <1>1, RequestIInv
<1>2. ASSUME NEW v \in Reviews,
             \/ ReviewStep(v)
             \/ \E r \in Requests :
                  Review(v, r, "approve") \/ Review(v, r, "reject")
      PROVE  IInv'
  BY <1>2, ReviewIInv
<1>3. ASSUME NEW x \in Processes,
             ProcessStep(x) \/ \E r \in Requests : ProcessArrives(x, r)
      PROVE  IInv'
  <2>1. x \in Senders
    BY DEF Senders
  <2>2. QED
    BY <1>3, <2>1, ProcessIInv, SendIInv DEF ProcessStep
<1>4. ASSUME NEW b \in Batches,
             SettlementRound(b) \/ RetryMark(b) \/ RetryRefused(b)
      PROVE  IInv'
  <2>1. b \in Senders
    BY DEF Senders
  <2>2. QED
    BY <1>4, <2>1, BatchIInv, SendIInv DEF SettlementRound, BatchStep
<1>5. CASE Crash \/ \E key \in cache : CacheForgets(key)
  BY <1>5, CrashIInv, ForgetIInv
<1>6. CASE UNCHANGED vars
  BY <1>6 DEF vars, rowVars, callVars, IInv, TypeOK, RequestInv, ReviewInv,
              ProcessInv, BatchInv, SentInv, RecordedMeansSent,
              SentMeansApproved, Reviewed
<1>7. QED
  BY <1>1, <1>2, <1>3, <1>4, <1>5, <1>6 DEF Next

(* Who may work on a refund, what must have happened before it is paid and *)
(* what has been sent when a row says so hold in every reachable state.    *)
THEOREM Invariance == Spec => []IInv
BY InitIInv, NextIInv, PTL DEF Spec

(* Every variable of HotWallet keeps its type. *)
THEOREM TypeCorrect == Spec => []TypeOK
<1>1. IInv => TypeOK
  BY DEF IInv
<1>2. QED
  BY <1>1, Invariance, PTL

(* What the books call refunded or settled has a transfer on chain behind  *)
(* it, through failover, retries, stale writes and crashes.                *)
THEOREM RecordedIsSent == Spec => []RecordedMeansSent
<1>1. IInv => RecordedMeansSent
  BY DEF IInv
<1>2. QED
  BY <1>1, Invariance, PTL

(* No tokens go out for a refund that no review has approved, however      *)
(* reviews and process calls overlap.                                      *)
THEOREM SentIsApproved == Spec => []SentMeansApproved
<1>1. IInv => SentMeansApproved
  BY DEF IInv
<1>2. QED
  BY <1>1, Invariance, PTL
=============================================================================
