----------------------- MODULE NonCustodialSwapProofs -----------------------
(***************************************************************************)
(* Proofs about NonCustodialSwap, for every set of payments and number of  *)
(* attempts, writes that fail and crashes.                                 *)
(***************************************************************************)
EXTENDS NonCustodialSwapProperties, FiniteSetTheorems, TLAPS

(* Nothing of the payment has been sent. *)
Before == Waiting \cup {"poor"}

(* A call that is here has a swap that may not be in doubt. *)
Holding == {"confirm", "record", "recordEvent", "complete", "completeEvent",
            "done"}

(* A swap may have happened. *)
Live(p, a) == chain[p][a] \in {"sent", "landed"}

(* The swap an attempt is about to send has not been sent before, so what  *)
(* has landed is never overwritten.                                        *)
UnsentInv(p) ==
  /\ pc[p] \in Before => \A a \in Swaps : chain[p][a] = "unsent"
  /\ pc[p] \in {"build", "send"} => chain[p][try[p]] = "unsent"
  /\ pc[p] = "presend" => try[p] = 0

(* Only the swap of the attempt under way may have happened without being  *)
(* in doubt, and only from its sending on.                                 *)
HoldInv(p) ==
  \A a \in Swaps :
    Live(p, a) /\ a \notin doubt[p] => a = try[p] /\ pc[p] \in Holding

(* What is recorded has landed, and once FAILED is written no swap is      *)
(* under way but those in doubt.                                           *)
RecordInv(p) ==
  /\ pc[p] \in {"record", "recordEvent", "complete", "completeEvent"}
       => chain[p][try[p]] = "landed"
  /\ pc[p] \in {"recordEvent", "complete", "completeEvent"}
       => status[p] = "COMPLETED"
  /\ pc[p] \in {"same", "sameEvent"} => p \in SameToken
  /\ status[p] = "COMPLETED" /\ p \notin SameToken
       => tx[p] \in Swaps /\ chain[p][tx[p]] = "landed"
  /\ status[p] = "FAILED" =>
       /\ pc[p] \in {"failEvent", "done"}
       /\ \A a \in Swaps : Live(p, a) => a \in doubt[p]

(* A timeline says COMPLETED at most twice: the second time by the caller  *)
(* of a swap that has been recorded.                                       *)
TimelineInv(p) ==
  /\ pc[p] \notin {"complete", "completeEvent", "done"}
       => events[p]["COMPLETED"] = 0 /\ events[p]["FAILED"] = 0
  /\ pc[p] \in {"complete", "completeEvent"} => events[p]["COMPLETED"] <= 1

PayInv(p) == UnsentInv(p) /\ HoldInv(p) /\ RecordInv(p) /\ TimelineInv(p)

IInv == TypeOK /\ \A p \in Payments : PayInv(p)
-----------------------------------------------------------------------------
(* It holds initially. *)
LEMMA InitIInv == Init => IInv
<1> SUFFICES ASSUME Init PROVE IInv
  OBVIOUS
<1>1. account \in BOOLEAN
  BY DEF Init
<1>2. TypeOK
  BY <1>1, NonCustodialSwapAssumption
     DEF Init, TypeOK, Swaps, NoTx, Waiting, Trying, Ending
<1>3. \A p \in Payments : PayInv(p)
  BY DEF Init, PayInv, UnsentInv, HoldInv, RecordInv, TimelineInv, Live
<1>4. QED
  BY <1>2, <1>3 DEF IInv

(* The attempts and swaps of a payment. *)
LEMMA Attempts ==
  /\ MaxAttempts \in Nat \ {0} /\ Swaps \subseteq Nat
  /\ 0 \in Swaps /\ 1 \in Swaps /\ Swaps \subseteq 0..NoTx
  /\ \A a \in Swaps : a < MaxAttempts => a + 1 \in Swaps
<1>1. MaxAttempts \in Nat \ {0}
  BY NonCustodialSwapAssumption
<1>2. \A a \in Swaps : a \in Nat /\ a <= MaxAttempts
  BY <1>1 DEF Swaps
<1>3. \A a \in Nat : a <= MaxAttempts => a \in Swaps
  BY <1>1 DEF Swaps
<1>4. QED
  BY <1>1, <1>2, <1>3 DEF NoTx

(* Where a call can go. *)
Places == Waiting \cup Trying \cup Ending \cup {"done"}

(* A step of the call of p: the others stay where they are. *)
Moved(p) ==
  /\ pc' \in [Payments -> Places] /\ try' \in [Payments -> Swaps]
  /\ \A q \in Payments \ {p} : pc'[q] = pc[q] /\ try'[q] = try[q]

(* What follows an attempt that failed. *)
NextAttempt(p) ==
  \/ try[p] < MaxAttempts /\ try'[p] = try[p] + 1 /\ pc'[p] = "build"
  \/ try'[p] = try[p] /\ pc'[p] = "fail"

LEMMA GoesOn ==
  ASSUME TypeOK, NEW p \in Payments, NEW from, NEW to \in Places,
         Goes(p, from, to), try' = try
  PROVE  pc[p] = from /\ pc'[p] = to /\ Moved(p)
BY DEF Goes, TypeOK, Moved, Places

LEMMA AgainTries ==
  ASSUME TypeOK, NEW p \in Payments, NEW from, Again(p, from)
  PROVE  pc[p] = from /\ Moved(p) /\ NextAttempt(p)
<1>1. try[p] \in Swaps /\ try \in [Payments -> Swaps] /\ pc \in [Payments -> Places]
  BY DEF TypeOK, Places
<1>2. "build" \in Places /\ "fail" \in Places
  BY DEF Places, Trying, Ending
<1>3. CASE try[p] < MaxAttempts
  <2>1. try[p] + 1 \in Swaps
    BY <1>1, <1>3, Attempts
  <2>2. QED
    BY <1>1, <1>2, <1>3, <2>1 DEF Again, Moved, NextAttempt
<1>4. CASE ~(try[p] < MaxAttempts)
  BY <1>1, <1>2, <1>4 DEF Again, Moved, NextAttempt
<1>5. QED
  BY <1>3, <1>4 DEF Again

LEMMA CaughtTries ==
  ASSUME TypeOK, NEW p \in Payments, NEW from, Caught(p, from)
  PROVE  /\ pc[p] = from /\ Moved(p)
         /\ \/ NextAttempt(p)
            \/ try'[p] = try[p] /\ pc'[p] = "caught"
<1>1. "caught" \in Places
  BY DEF Places, Trying
<1>2. QED
  BY <1>1, AgainTries, GoesOn DEF Caught

LEMMA WritesGo ==
  ASSUME TypeOK, NEW p \in Payments, NEW from, NEW to \in Places,
         Writes(p, from, to, "done"), try' = try
  PROVE  /\ pc[p] = from /\ Moved(p) /\ faults' \in 0..MaxFaults
         /\ \/ pc'[p] = to /\ Written
            \/ pc'[p] = "done" /\ ~Written
<1>1. "done" \in Places
  BY DEF Places
<1>2. faults' \in 0..MaxFaults /\ faults \in Nat
  BY NonCustodialSwapAssumption DEF Writes, TypeOK
<1>3. QED
  BY <1>1, <1>2, GoesOn DEF Writes, Written
-----------------------------------------------------------------------------
(* A step of one payment leaves the record and the swaps of the others.    *)
SameFor(q) ==
  /\ status'[q] = status[q] /\ tx'[q] = tx[q] /\ events'[q] = events[q]
  /\ pc'[q] = pc[q] /\ try'[q] = try[q]
  /\ chain'[q] = chain[q] /\ doubt'[q] = doubt[q]

LEMMA SameKeeps ==
  ASSUME NEW q \in Payments, PayInv(q), SameFor(q)
  PROVE  PayInv(q)'
BY DEF PayInv, SameFor, UnsentInv, HoldInv, RecordInv, TimelineInv, Live

(* So it is enough to know the types, and the invariant for the one that   *)
(* takes the step.                                                         *)
LEMMA OnePayment ==
  ASSUME IInv, NEW p \in Payments, TypeOK', PayInv(p)',
         \A q \in Payments \ {p} : SameFor(q)
  PROVE  IInv'
BY SameKeeps DEF IInv

(* What a step may do to the record of its payment, and how the swap it    *)
(* has sent or lost sight of changes; the rest of the types follows.       *)
StepType(p) ==
  /\ Moved(p)
  /\ \/ status' = status
     \/ \E st \in {"COMPLETED", "FAILED"} : status' = [status EXCEPT ![p] = st]
  /\ \/ tx' = tx
     \/ tx' = [tx EXCEPT ![p] = try[p]]
  /\ \/ retried' = retried
     \/ \E n \in Swaps : retried' = [retried EXCEPT ![p] = n]
  /\ \/ events' = events
     \/ \E st \in {"COMPLETED", "FAILED"} :
          /\ events[p][st] <= 1
          /\ events' = [events EXCEPT ![p][st] = @ + 1]
  /\ \/ chain' = chain
     \/ \E st \in {"sent", "landed", "failed"}, a \in Swaps :
          /\ a <= try'[p] /\ (a > 0 => p \in OneSigner)
          /\ chain' = [chain EXCEPT ![p][a] = st]
  /\ doubt' = doubt \/ doubt' = [doubt EXCEPT ![p] = @ \cup {try[p]}]
  /\ try'[p] >= try[p] \/ \A a \in Swaps : chain'[p][a] = "unsent"
  /\ account' \in BOOLEAN
  /\ faults' \in 0..MaxFaults /\ crashes' = crashes

LEMMA StepTypes ==
  ASSUME TypeOK, NEW p \in Payments, StepType(p)
  PROVE  TypeOK' /\ \A q \in Payments \ {p} : SameFor(q)
<1>1. pc' \in [Payments -> Places] /\ try' \in [Payments -> Swaps]
  BY DEF StepType, Moved
<1>2. /\ status' \in [Payments -> {"CONFIRMED", "COMPLETED", "FAILED"}]
      /\ \A q \in Payments \ {p} : status'[q] = status[q]
  <2>1. \/ status' = status
        \/ \E st \in {"COMPLETED", "FAILED"} :
             status' = [status EXCEPT ![p] = st]
    BY DEF StepType
  <2>2. QED
    BY <2>1 DEF TypeOK
<1>3. /\ tx' \in [Payments -> 0..NoTx]
      /\ \A q \in Payments \ {p} : tx'[q] = tx[q]
  <2>1. tx' = tx \/ tx' = [tx EXCEPT ![p] = try[p]]
    BY DEF StepType
  <2>2. try[p] \in 0..NoTx
    BY Attempts DEF TypeOK
  <2>3. QED
    BY <2>1, <2>2 DEF TypeOK
<1>4. retried' \in [Payments -> 0..MaxAttempts]
  <2>1. \/ retried' = retried
        \/ \E n \in Swaps : retried' = [retried EXCEPT ![p] = n]
    BY DEF StepType
  <2>2. QED
    BY <2>1 DEF TypeOK, Swaps
<1>5. /\ events' \in [Payments -> [{"COMPLETED", "FAILED"} -> 0..2]]
      /\ \A q \in Payments \ {p} : events'[q] = events[q]
  <2>1. CASE events' = events
    BY <2>1 DEF TypeOK
  <2>2. CASE events' # events
    <3>1. PICK st \in {"COMPLETED", "FAILED"} :
            /\ events[p][st] <= 1
            /\ events' = [events EXCEPT ![p][st] = @ + 1]
      BY <2>2 DEF StepType
    <3>2. events[p] \in [{"COMPLETED", "FAILED"} -> 0..2]
      BY DEF TypeOK
    <3>3. [events[p] EXCEPT ![st] = @ + 1] \in [{"COMPLETED", "FAILED"} -> 0..2]
      BY <3>1, <3>2
    <3>4. events' = [events EXCEPT ![p] = [events[p] EXCEPT ![st] = @ + 1]]
      BY <3>1
    <3>5. QED
      BY <3>3, <3>4 DEF TypeOK
  <2>3. QED
    BY <2>1, <2>2
<1>6. /\ chain' \in [Payments -> [Swaps -> {"unsent", "sent", "landed", "failed"}]]
      /\ \A q \in Payments \ {p} : chain'[q] = chain[q]
  <2>1. CASE chain' = chain
    BY <2>1 DEF TypeOK
  <2>2. CASE chain' # chain
    <3>1. PICK st \in {"sent", "landed", "failed"}, a \in Swaps :
            chain' = [chain EXCEPT ![p][a] = st]
      BY <2>2 DEF StepType
    <3>2. QED
      BY <3>1 DEF TypeOK
  <2>3. QED
    BY <2>1, <2>2
<1>7. /\ doubt' \in [Payments -> SUBSET Swaps]
      /\ \A q \in Payments \ {p} : doubt'[q] = doubt[q]
  <2>1. doubt' = doubt \/ doubt' = [doubt EXCEPT ![p] = @ \cup {try[p]}]
    BY DEF StepType
  <2>2. doubt \in [Payments -> SUBSET Swaps] /\ try[p] \in Swaps
    BY DEF TypeOK
  <2>3. doubt[p] \cup {try[p]} \in SUBSET Swaps
    BY <2>2
  <2>4. QED
    BY <2>1, <2>2, <2>3
<1>8. ASSUME NEW q \in Payments, NEW a \in Swaps, chain'[q][a] # "unsent"
      PROVE  a <= try'[q] /\ (a > 0 => q \in OneSigner)
  <2>1. /\ chain[q][a] # "unsent" => a <= try[q] /\ (a > 0 => q \in OneSigner)
        /\ a \in Nat /\ try[q] \in Nat /\ try'[q] \in Nat
    BY <1>1, Attempts DEF TypeOK
  <2>2. try'[q] >= try[q]
    <3>1. q # p => try'[q] = try[q]
      BY DEF StepType, Moved
    <3>2. q = p => try'[q] >= try[q]
      BY <1>8 DEF StepType
    <3>3. QED
      BY <2>1, <3>1, <3>2
  <2>3. CASE chain'[q][a] = chain[q][a]
    BY <1>8, <2>1, <2>2, <2>3
  <2>4. CASE chain'[q][a] # chain[q][a]
    <3>1. q = p /\ chain' # chain
      BY <1>6, <2>4
    <3>2. PICK st \in {"sent", "landed", "failed"}, b \in Swaps :
            /\ b <= try'[p] /\ (b > 0 => p \in OneSigner)
            /\ chain' = [chain EXCEPT ![p][b] = st]
      BY <3>1 DEF StepType
    <3>3. a = b
      BY <2>4, <3>1, <3>2 DEF TypeOK
    <3>4. QED
      BY <3>1, <3>2, <3>3
  <2>5. QED
    BY <2>3, <2>4
<1>9. account' \in BOOLEAN
  BY DEF StepType
<1>10. TypeOK'
  <2>1. faults' \in 0..MaxFaults /\ crashes' = crashes
    BY DEF StepType
  <2>2. QED
    BY <1>1, <1>2, <1>3, <1>4, <1>5, <1>6, <1>7, <1>8, <1>9, <2>1
       DEF TypeOK, Places
<1>11. QED
  BY <1>2, <1>3, <1>5, <1>6, <1>7, <1>10 DEF SameFor, StepType, Moved
-----------------------------------------------------------------------------
(* The steps that send nothing and do not try anew. *)
LEMMA QuietInv ==
  ASSUME IInv, NEW p \in Payments,
         \/ Process(p) \/ CompleteSame(p) \/ LogSame(p) \/ MarkSwap(p)
         \/ FailPoor(p) \/ Fail(p) \/ LogFail(p)
         \/ Complete(p) \/ LogComplete(p)
  PROVE  StepType(p) /\ PayInv(p)'
<1>1. TypeOK /\ PayInv(p) /\ status \in [Payments -> {"CONFIRMED", "COMPLETED", "FAILED"}]
  BY DEF IInv, TypeOK
<1>2. UNCHANGED <<tx, try, chain, doubt, account, crashes>>
  BY DEF Process, CompleteSame, LogSame, MarkSwap, FailPoor, Fail, LogFail,
         Complete, LogComplete, paymentVars
<1>3. /\ {"same", "sameEvent", "mark", "balance", "failEvent", "completeEvent",
          "done"} \subseteq Places
      /\ try[p] \in Nat /\ faults \in 0..MaxFaults /\ account \in BOOLEAN
      /\ MaxAttempts \in Swaps
      /\ events[p]["COMPLETED"] \in Nat /\ events[p]["FAILED"] \in Nat
  <2>1. {"same", "sameEvent", "mark", "balance", "failEvent", "completeEvent",
         "done"} \subseteq Places
    BY DEF Places, Waiting, Ending
  <2>2. try[p] \in Swaps /\ faults \in 0..MaxFaults /\ account \in BOOLEAN
    BY <1>1 DEF TypeOK
  <2>3. MaxAttempts \in Swaps
    BY Attempts DEF Swaps
  <2>4. events[p] \in [{"COMPLETED", "FAILED"} -> 0..2]
    BY <1>1 DEF TypeOK
  <2>5. events[p]["COMPLETED"] \in 0..2 /\ events[p]["FAILED"] \in 0..2
    BY <2>4
  <2>6. try[p] \in Nat
    BY <2>2, Attempts
  <2>7. QED
    BY <2>1, <2>2, <2>3, <2>5, <2>6
<1>4. ASSUME Moved(p), faults' \in 0..MaxFaults,
             \/ status' = status
             \/ status' = [status EXCEPT ![p] = "COMPLETED"]
             \/ status' = [status EXCEPT ![p] = "FAILED"],
             \/ retried' = retried
             \/ retried' = [retried EXCEPT ![p] = MaxAttempts],
             \/ events' = events
             \/ /\ events[p]["COMPLETED"] <= 1
                /\ events' = [events EXCEPT ![p]["COMPLETED"] = @ + 1]
             \/ /\ events[p]["FAILED"] <= 1
                /\ events' = [events EXCEPT ![p]["FAILED"] = @ + 1]
      PROVE  StepType(p)
  <2>1. \/ status' = status
        \/ \E st \in {"COMPLETED", "FAILED"} :
             status' = [status EXCEPT ![p] = st]
    BY <1>4
  <2>2. \/ retried' = retried
        \/ \E n \in Swaps : retried' = [retried EXCEPT ![p] = n]
    BY <1>3, <1>4
  <2>3. \/ events' = events
        \/ \E st \in {"COMPLETED", "FAILED"} :
             /\ events[p][st] <= 1
             /\ events' = [events EXCEPT ![p][st] = @ + 1]
    BY <1>4
  <2>4. QED
    BY <1>2, <1>3, <1>4, <2>1, <2>2, <2>3 DEF StepType
<1>5. CASE Process(p)
  <2>1. /\ pc[p] = "start" /\ Moved(p)
        /\ pc'[p] = IF p \in SameToken THEN "same" ELSE "mark"
    BY <1>1, <1>2, <1>3, <1>5, GoesOn DEF Process
  <2>2. UNCHANGED <<status, retried, events, faults>>
    BY <1>5 DEF Process, paymentVars
  <2>3. StepType(p)
    BY <1>3, <1>4, <2>1, <2>2
  <2>4. QED
    BY <1>1, <1>2, <2>1, <2>2, <2>3
       DEF PayInv, UnsentInv, HoldInv, RecordInv, TimelineInv, Live, Before,
           Holding, Waiting
<1>6. CASE CompleteSame(p)
  <2>1. /\ pc[p] = "same" /\ Moved(p) /\ faults' \in 0..MaxFaults
        /\ \/ pc'[p] = "sameEvent" /\ Written
           \/ pc'[p] = "done" /\ ~Written
    BY <1>1, <1>2, <1>3, <1>6, WritesGo DEF CompleteSame
  <2>2. /\ status' = IF Written THEN [status EXCEPT ![p] = "COMPLETED"] ELSE status
        /\ events' = events
        /\ retried' = retried
    BY <1>6 DEF CompleteSame, SetStatus
  <2>3. StepType(p)
    BY <1>1, <1>3, <1>4, <2>1, <2>2 DEF PayInv, TimelineInv
  <2>4. PayInv(p)'
    BY <1>1, <1>2, <1>3, <2>1, <2>2
       DEF PayInv, UnsentInv, HoldInv, RecordInv, TimelineInv, Live, Before,
           Holding, Waiting
  <2>5. QED
    BY <2>3, <2>4
<1>7. CASE LogSame(p)
  <2>1. /\ pc[p] = "sameEvent" /\ Moved(p) /\ faults' \in 0..MaxFaults
        /\ \/ pc'[p] = "done" /\ Written
           \/ pc'[p] = "done" /\ ~Written
    BY <1>1, <1>2, <1>3, <1>7, WritesGo DEF LogSame
  <2>2. /\ status' = status
        /\ events' = IF Written THEN [events EXCEPT ![p]["COMPLETED"] = @ + 1] ELSE events
        /\ retried' = retried
    BY <1>7 DEF LogSame, Logs
  <2>3. StepType(p)
    BY <1>1, <1>3, <1>4, <2>1, <2>2 DEF PayInv, TimelineInv
  <2>4. PayInv(p)'
    BY <1>1, <1>2, <1>3, <2>1, <2>2
       DEF PayInv, UnsentInv, HoldInv, RecordInv, TimelineInv, Live, Before,
           Holding, Waiting
  <2>5. QED
    BY <2>3, <2>4
<1>8. CASE MarkSwap(p)
  <2>1. /\ pc[p] = "mark" /\ Moved(p) /\ faults' \in 0..MaxFaults
        /\ \/ pc'[p] = "balance" /\ Written
           \/ pc'[p] = "done" /\ ~Written
    BY <1>1, <1>2, <1>3, <1>8, WritesGo DEF MarkSwap
  <2>2. /\ status' = status
        /\ events' = events
        /\ retried' = retried
    BY <1>8 DEF MarkSwap, paymentVars
  <2>3. StepType(p)
    BY <1>1, <1>3, <1>4, <2>1, <2>2 DEF PayInv, TimelineInv
  <2>4. PayInv(p)'
    BY <1>1, <1>2, <1>3, <2>1, <2>2
       DEF PayInv, UnsentInv, HoldInv, RecordInv, TimelineInv, Live, Before,
           Holding, Waiting
  <2>5. QED
    BY <2>3, <2>4
<1>9. CASE FailPoor(p)
  <2>1. /\ pc[p] = "poor" /\ Moved(p) /\ faults' \in 0..MaxFaults
        /\ \/ pc'[p] = "done" /\ Written
           \/ pc'[p] = "done" /\ ~Written
    BY <1>1, <1>2, <1>3, <1>9, WritesGo DEF FailPoor
  <2>2. /\ status' = IF Written THEN [status EXCEPT ![p] = "FAILED"] ELSE status
        /\ events' = events
        /\ retried' = retried
    BY <1>9 DEF FailPoor, SetStatus
  <2>3. StepType(p)
    BY <1>1, <1>3, <1>4, <2>1, <2>2 DEF PayInv, TimelineInv
  <2>4. PayInv(p)'
    BY <1>1, <1>2, <1>3, <2>1, <2>2
       DEF PayInv, UnsentInv, HoldInv, RecordInv, TimelineInv, Live, Before,
           Holding, Waiting
  <2>5. QED
    BY <2>3, <2>4
<1>10. CASE Fail(p)
  <2>1. /\ pc[p] = "fail" /\ Moved(p) /\ faults' \in 0..MaxFaults
        /\ \/ pc'[p] = "failEvent" /\ Written
           \/ pc'[p] = "done" /\ ~Written
    BY <1>1, <1>2, <1>3, <1>10, WritesGo DEF Fail
  <2>2. /\ status' = IF Written THEN [status EXCEPT ![p] = "FAILED"] ELSE status
        /\ events' = events
        /\ retried' = IF Written THEN [retried EXCEPT ![p] = MaxAttempts]
                    ELSE retried
    BY <1>10 DEF Fail, SetStatus
  <2>3. StepType(p)
    BY <1>1, <1>3, <1>4, <2>1, <2>2 DEF PayInv, TimelineInv
  <2>4. PayInv(p)'
    BY <1>1, <1>2, <1>3, <2>1, <2>2
       DEF PayInv, UnsentInv, HoldInv, RecordInv, TimelineInv, Live, Before,
           Holding, Waiting
  <2>5. QED
    BY <2>3, <2>4
<1>11. CASE LogFail(p)
  <2>1. /\ pc[p] = "failEvent" /\ Moved(p) /\ faults' \in 0..MaxFaults
        /\ \/ pc'[p] = "done" /\ Written
           \/ pc'[p] = "done" /\ ~Written
    BY <1>1, <1>2, <1>3, <1>11, WritesGo DEF LogFail
  <2>2. /\ status' = status
        /\ events' = IF Written THEN [events EXCEPT ![p]["FAILED"] = @ + 1] ELSE events
        /\ retried' = retried
    BY <1>11 DEF LogFail, Logs
  <2>3. StepType(p)
    BY <1>1, <1>3, <1>4, <2>1, <2>2 DEF PayInv, TimelineInv
  <2>4. PayInv(p)'
    BY <1>1, <1>2, <1>3, <2>1, <2>2
       DEF PayInv, UnsentInv, HoldInv, RecordInv, TimelineInv, Live, Before,
           Holding, Waiting
  <2>5. QED
    BY <2>3, <2>4
<1>12. CASE Complete(p)
  <2>1. /\ pc[p] = "complete" /\ Moved(p) /\ faults' \in 0..MaxFaults
        /\ \/ pc'[p] = "completeEvent" /\ Written
           \/ pc'[p] = "done" /\ ~Written
    BY <1>1, <1>2, <1>3, <1>12, WritesGo DEF Complete
  <2>2. /\ status' = IF Written THEN [status EXCEPT ![p] = "COMPLETED"] ELSE status
        /\ events' = events
        /\ retried' = retried
    BY <1>12 DEF Complete, SetStatus
  <2>3. StepType(p)
    BY <1>1, <1>3, <1>4, <2>1, <2>2 DEF PayInv, TimelineInv
  <2>4. PayInv(p)'
    BY <1>1, <1>2, <1>3, <2>1, <2>2
       DEF PayInv, UnsentInv, HoldInv, RecordInv, TimelineInv, Live, Before,
           Holding, Waiting
  <2>5. QED
    BY <2>3, <2>4
<1>13. CASE LogComplete(p)
  <2>1. /\ pc[p] = "completeEvent" /\ Moved(p) /\ faults' \in 0..MaxFaults
        /\ \/ pc'[p] = "done" /\ Written
           \/ pc'[p] = "done" /\ ~Written
    BY <1>1, <1>2, <1>3, <1>13, WritesGo DEF LogComplete
  <2>2. /\ status' = status
        /\ events' = IF Written THEN [events EXCEPT ![p]["COMPLETED"] = @ + 1] ELSE events
        /\ retried' = retried
    BY <1>13 DEF LogComplete, Logs
  <2>3. StepType(p)
    BY <1>1, <1>3, <1>4, <2>1, <2>2 DEF PayInv, TimelineInv
  <2>4. PayInv(p)'
    BY <1>1, <1>2, <1>3, <2>1, <2>2
       DEF PayInv, UnsentInv, HoldInv, RecordInv, TimelineInv, Live, Before,
           Holding, Waiting
  <2>5. QED
    BY <2>3, <2>4
<1>14. QED
  BY <1>5, <1>6, <1>7, <1>8, <1>9, <1>10, <1>11, <1>12, <1>13
-----------------------------------------------------------------------------
(* An attempt that failed is left behind with nothing that may have        *)
(* happened outside of doubt, and the next one finds its swap unsent.      *)
Left(p) ==
  \/ doubt' = [doubt EXCEPT ![p] = @ \cup {try[p]}]
  \/ /\ doubt' = doubt /\ chain' = chain
     /\ pc[p] = "confirm" => chain[p][try[p]] = "failed"
     /\ pc[p] \notin {"record", "recordEvent"}

LEMMA LeaveInv ==
  ASSUME IInv, NEW p \in Payments, pc[p] \in Trying \cup {"presend"},
         \/ NextAttempt(p)
         \/ try'[p] = try[p] /\ pc'[p] = "caught",
         status' = status, tx' = tx, events' = events,
         \/ chain' = chain
         \/ /\ pc[p] \in {"presend", "send"}
            /\ chain' = [chain EXCEPT ![p][try[p]] = "sent"],
         Left(p)
  PROVE  PayInv(p)'
<1>1. TypeOK /\ PayInv(p) /\ try[p] \in Swaps
  BY DEF IInv, TypeOK
<1>2. /\ \A a \in Swaps \ {try[p]} : chain'[p][a] = chain[p][a]
      /\ chain'[p][try[p]] = chain[p][try[p]] \/ chain[p][try[p]] = "unsent"
  BY <1>1 DEF TypeOK, PayInv, UnsentInv, Before, Waiting
<1>3. ASSUME NEW a \in Swaps, Live(p, a)' PROVE a \in doubt'[p]
  <2>1. doubt[p] \subseteq doubt'[p]
    BY <1>1 DEF Left, TypeOK
  <2>2. CASE a # try[p]
    BY <1>1, <1>2, <1>3, <2>1, <2>2 DEF PayInv, HoldInv, Live
  <2>3. CASE a = try[p]
    <3>1. CASE doubt' = [doubt EXCEPT ![p] = @ \cup {try[p]}]
      BY <1>1, <2>3, <3>1 DEF TypeOK
    <3>2. CASE doubt' = doubt /\ chain' = chain
      <4>1. Live(p, a) /\ (a \notin doubt[p] => pc[p] \in Holding)
        BY <1>1, <1>3, <3>2 DEF PayInv, HoldInv, Live
      <4>2. CASE pc[p] \in {"confirm", "record", "recordEvent"}
        <5>1. doubt' = [doubt EXCEPT ![p] = @ \cup {try[p]}]
          BY <2>3, <4>1, <4>2 DEF Left, Live
        <5>2. QED
          BY <3>1, <5>1
      <4>3. CASE pc[p] \notin {"confirm", "record", "recordEvent"}
        BY <3>2, <4>1, <4>3 DEF Holding, Trying
      <4>4. QED
        BY <4>2, <4>3
    <3>3. QED
      BY <3>1, <3>2 DEF Left
  <2>4. QED
    BY <2>2, <2>3
<1>4. pc'[p] \in {"build", "fail", "caught"}
  BY DEF NextAttempt
<1>5. HoldInv(p)'
  BY <1>3 DEF HoldInv
<1>6. RecordInv(p)'
  BY <1>1, <1>2, <1>4 DEF PayInv, RecordInv, Trying
<1>7. TimelineInv(p)'
  BY <1>1, <1>4 DEF PayInv, TimelineInv, Trying
<1>8. UnsentInv(p)'
  <2>1. CASE pc'[p] = "build"
    <3>1. try'[p] = try[p] + 1 /\ try'[p] \in Swaps
      BY <1>1, <2>1, Attempts DEF NextAttempt
    <3>2. try[p] \in Nat /\ ~(try'[p] <= try[p]) /\ try'[p] # try[p]
      BY <1>1, <3>1, Attempts
    <3>3. chain[p][try'[p]] = "unsent"
      BY <1>1, <3>1, <3>2 DEF TypeOK
    <3>4. QED
      BY <1>2, <2>1, <3>1, <3>2, <3>3 DEF UnsentInv, Before, Waiting
  <2>2. QED
    BY <1>4, <2>1 DEF UnsentInv, Before, Waiting
<1>9. QED
  BY <1>5, <1>6, <1>7, <1>8 DEF PayInv

(* The type of a step that writes no event, fails no write and moves the   *)
(* call forward.                                                           *)
LEMMA ForwardTypes ==
  ASSUME TypeOK, NEW p \in Payments, Moved(p),
         try'[p] = try[p] \/ NextAttempt(p),
         UNCHANGED <<status, tx, events, crashes>>,
         retried' = retried \/ retried' = [retried EXCEPT ![p] = try[p]],
         \/ chain' = chain
         \/ /\ p \in OneSigner \/ try[p] = 0
            /\ chain' = [chain EXCEPT ![p][try[p]] = "sent"],
         doubt' = doubt \/ doubt' = [doubt EXCEPT ![p] = @ \cup {try[p]}],
         account' \in BOOLEAN, faults' \in 0..MaxFaults
  PROVE  StepType(p)
<1>1. try[p] \in Swaps /\ try[p] \in Nat /\ try'[p] \in Nat
  BY Attempts DEF TypeOK, Moved
<1>2. try'[p] >= try[p]
  BY <1>1 DEF NextAttempt
<1>3. \/ chain' = chain
      \/ \E st \in {"sent", "landed", "failed"}, a \in Swaps :
           /\ a <= try'[p] /\ (a > 0 => p \in OneSigner)
           /\ chain' = [chain EXCEPT ![p][a] = st]
  <2>1. CASE chain' # chain
    <3>1. /\ try[p] <= try'[p] /\ (try[p] > 0 => p \in OneSigner)
          /\ chain' = [chain EXCEPT ![p][try[p]] = "sent"]
      BY <1>1, <1>2, <2>1
    <3>2. QED
      BY <1>1, <3>1
  <2>2. QED
    BY <2>1
<1>4. \/ retried' = retried
      \/ \E n \in Swaps : retried' = [retried EXCEPT ![p] = n]
  BY <1>1
<1>5. QED
  BY <1>2, <1>3, <1>4 DEF StepType

(* A swap is sent and the call goes on to ask for it. *)
LEMMA SentInv ==
  ASSUME IInv, NEW p \in Payments, pc[p] \in {"presend", "send"},
         pc'[p] = "confirm", try' = try, UNCHANGED <<status, tx, events, doubt>>,
         chain' = [chain EXCEPT ![p][try[p]] = "sent"]
  PROVE  PayInv(p)'
<1>1. TypeOK /\ PayInv(p) /\ try[p] \in Swaps
  BY DEF IInv, TypeOK
<1>2. /\ \A a \in Swaps \ {try[p]} : chain'[p][a] = chain[p][a]
      /\ chain[p][try[p]] = "unsent"
  BY <1>1 DEF TypeOK, PayInv, UnsentInv, Before, Waiting
<1>3. HoldInv(p)'
  BY <1>1, <1>2 DEF PayInv, HoldInv, Live, Holding
<1>4. UnsentInv(p)' /\ TimelineInv(p)'
  BY <1>1 DEF PayInv, UnsentInv, TimelineInv, Before, Waiting
<1>5. RecordInv(p)'
  BY <1>1, <1>2 DEF PayInv, RecordInv
<1>6. QED
  BY <1>3, <1>4, <1>5 DEF PayInv

LEMMA SendStep ==
  ASSUME IInv, NEW p \in Payments, SendPresigned(p) \/ Send(p)
  PROVE  StepType(p) /\ PayInv(p)'
<1>1. /\ TypeOK /\ PayInv(p) /\ "confirm" \in Places
      /\ account \in BOOLEAN /\ faults \in 0..MaxFaults
  BY DEF IInv, TypeOK, Places, Trying
<1>2. UNCHANGED <<status, tx, retried, events, account, faults, crashes>>
  BY DEF SendPresigned, Send, paymentVars
<1>3. CASE SendPresigned(p)
  <2>1. pc[p] = "presend" /\ try[p] = 0
    BY <1>1, <1>3 DEF SendPresigned, PayInv, UnsentInv
  <2>2. CASE Goes(p, "presend", "confirm") /\ UNCHANGED <<try, doubt>>
    <3>1. pc'[p] = "confirm" /\ Moved(p)
      BY <1>1, <2>2, GoesOn
    <3>2. chain' = [chain EXCEPT ![p][try[p]] = "sent"]
      BY <1>3, <2>1, <2>2, <3>1 DEF SendPresigned, Again, Goes
    <3>3. QED
      BY <1>1, <1>2, <2>1, <2>2, <3>1, <3>2, ForwardTypes, SentInv
  <2>3. CASE Again(p, "presend")
    <3>1. Moved(p) /\ NextAttempt(p)
      BY <1>1, <2>3, AgainTries
    <3>2. /\ Left(p)
          /\ \/ chain' = chain
             \/ chain' = [chain EXCEPT ![p][try[p]] = "sent"]
      BY <1>1, <1>3, <2>1, <3>1
         DEF SendPresigned, Left, Doubts, NextAttempt, Goes, TypeOK
    <3>3. QED
      BY <1>1, <1>2, <2>1, <3>1, <3>2, ForwardTypes, LeaveInv DEF Left
  <2>4. QED
    BY <1>3, <2>2, <2>3 DEF SendPresigned
<1>4. CASE Send(p)
  <2>1. pc[p] = "send"
    BY <1>4 DEF Send
  <2>2. CASE Goes(p, "send", "confirm") /\ UNCHANGED <<try, doubt>>
    <3>1. pc'[p] = "confirm" /\ Moved(p)
      BY <1>1, <2>2, GoesOn
    <3>2. p \in OneSigner /\ chain' = [chain EXCEPT ![p][try[p]] = "sent"]
      BY <1>1, <1>4, <2>2, <3>1, CaughtTries DEF Send, NextAttempt
    <3>3. QED
      BY <1>1, <1>2, <2>1, <2>2, <3>1, <3>2, ForwardTypes, SentInv
  <2>3. CASE Caught(p, "send")
    <3>1. /\ Moved(p)
          /\ \/ NextAttempt(p)
             \/ try'[p] = try[p] /\ pc'[p] = "caught"
      BY <1>1, <2>3, CaughtTries
    <3>2. /\ Left(p)
          /\ \/ chain' = chain
             \/ /\ p \in OneSigner
                /\ chain' = [chain EXCEPT ![p][try[p]] = "sent"]
      BY <1>1, <1>4, <2>1, <3>1 DEF Send, Left, Doubts, NextAttempt, Goes, TypeOK
    <3>3. QED
      BY <1>1, <1>2, <2>1, <3>1, <3>2, ForwardTypes, LeaveInv DEF Left, Trying
  <2>4. QED
    BY <1>4, <2>2, <2>3 DEF Send
<1>5. QED
  BY <1>3, <1>4

(* The rest of an attempt, up to the record of its swap. *)
LEMMA AttemptStep ==
  ASSUME IInv, NEW p \in Payments,
         CheckBalance(p) \/ Build(p) \/ Confirm(p) \/ NoteError(p)
  PROVE  StepType(p) /\ PayInv(p)'
<1>1. /\ TypeOK /\ PayInv(p)
      /\ {"poor", "presend", "build", "send", "fail", "record", "done"}
           \subseteq Places
      /\ account \in BOOLEAN /\ faults \in 0..MaxFaults
  BY DEF IInv, TypeOK, Places, Waiting, Trying, Ending
<1>2. UNCHANGED <<status, tx, events, chain, account, crashes>>
  BY DEF CheckBalance, Build, Confirm, NoteError, paymentVars
<1>3. CASE CheckBalance(p)
  <2>1. /\ pc[p] = "balance" /\ UNCHANGED <<retried, doubt, faults>>
        /\ pc'[p] \in {"poor", "presend", "build"}
        /\ pc'[p] = "presend" => try'[p] = 0
        /\ try'[p] \in Swaps /\ Moved(p)
    BY <1>1, <1>3, Attempts
       DEF CheckBalance, Goes, Moved, TypeOK, Places, paymentVars
  <2>2. \A a \in Swaps : chain[p][a] = "unsent"
    BY <1>1, <2>1 DEF PayInv, UnsentInv, Before, Waiting
  <2>3. StepType(p)
    BY <1>1, <1>2, <2>1, <2>2 DEF StepType
  <2>4. PayInv(p)'
    BY <1>1, <1>2, <2>1, <2>2
       DEF PayInv, UnsentInv, HoldInv, RecordInv, TimelineInv, Live, Before,
           Holding, Waiting
  <2>5. QED
    BY <2>3, <2>4
<1>4. CASE Build(p)
  <2>1. pc[p] = "build" /\ UNCHANGED <<retried, doubt, faults>>
    BY <1>4 DEF Build, Goes, Again, paymentVars
  <2>2. CASE \E to \in {"send", "fail"} : Goes(p, "build", to) /\ try' = try
    <3>1. pc'[p] \in {"send", "fail"} /\ Moved(p) /\ try' = try
      BY <1>1, <2>2, GoesOn
    <3>2. PayInv(p)'
      BY <1>1, <1>2, <2>1, <3>1
         DEF PayInv, UnsentInv, HoldInv, RecordInv, TimelineInv, Live, Before,
           Holding, Waiting
    <3>3. QED
      BY <1>1, <1>2, <2>1, <3>1, <3>2, ForwardTypes
  <2>3. CASE Again(p, "build")
    <3>1. Moved(p) /\ NextAttempt(p) /\ Left(p)
      BY <1>1, <1>2, <2>1, <2>3, AgainTries DEF Left
    <3>2. QED
      BY <1>1, <1>2, <2>1, <3>1, ForwardTypes, LeaveInv DEF Trying
  <2>4. QED
    BY <1>4, <2>2, <2>3 DEF Build
<1>5. CASE Confirm(p)
  <2>1. pc[p] = "confirm" /\ UNCHANGED <<retried, faults>>
    BY <1>5 DEF Confirm, paymentVars
  <2>2. CASE /\ chain[p][try[p]] = "landed"
             /\ Goes(p, "confirm", "record") /\ UNCHANGED <<try, doubt>>
    <3>1. pc'[p] = "record" /\ Moved(p) /\ UNCHANGED <<try, doubt>>
      BY <1>1, <2>2, GoesOn
    <3>2. PayInv(p)'
      BY <1>1, <1>2, <2>1, <2>2, <3>1
         DEF PayInv, UnsentInv, HoldInv, RecordInv, TimelineInv, Live, Before,
           Holding, Waiting
    <3>3. QED
      BY <1>1, <1>2, <2>1, <3>1, <3>2, ForwardTypes
  <2>3. CASE /\ chain[p][try[p]] = "failed" /\ Again(p, "confirm")
             /\ UNCHANGED doubt
    <3>1. Moved(p) /\ NextAttempt(p) /\ Left(p)
      BY <1>1, <1>2, <2>1, <2>3, AgainTries DEF Left
    <3>2. QED
      BY <1>1, <1>2, <2>1, <2>3, <3>1, ForwardTypes, LeaveInv DEF Trying
  <2>4. CASE Doubts(p) /\ Caught(p, "confirm")
    <3>1. /\ Moved(p) /\ Left(p)
          /\ \/ NextAttempt(p)
             \/ try'[p] = try[p] /\ pc'[p] = "caught"
      BY <1>1, <2>4, CaughtTries DEF Left, Doubts
    <3>2. QED
      BY <1>1, <1>2, <2>1, <2>4, <3>1, ForwardTypes, LeaveInv
         DEF Trying, Doubts
  <2>5. QED
    BY <1>5, <2>2, <2>3, <2>4 DEF Confirm
<1>6. CASE NoteError(p)
  <2>1. pc[p] = "caught" /\ UNCHANGED doubt /\ faults' \in 0..MaxFaults
    BY <1>1, <1>6, NonCustodialSwapAssumption DEF NoteError
  <2>2. CASE Again(p, "caught") /\ retried' = [retried EXCEPT ![p] = try[p]]
    <3>1. Moved(p) /\ NextAttempt(p) /\ Left(p)
      BY <1>1, <1>2, <2>1, <2>2, AgainTries DEF Left
    <3>2. QED
      BY <1>1, <1>2, <2>1, <2>2, <3>1, ForwardTypes, LeaveInv DEF Trying
  <2>3. CASE Goes(p, "caught", "done") /\ UNCHANGED <<try, retried>>
    <3>1. pc'[p] = "done" /\ Moved(p) /\ UNCHANGED <<try, retried>>
      BY <1>1, <2>3, GoesOn
    <3>2. PayInv(p)'
      BY <1>1, <1>2, <2>1, <3>1
         DEF PayInv, UnsentInv, HoldInv, RecordInv, TimelineInv, Live, Before,
           Holding, Waiting
    <3>3. QED
      BY <1>1, <1>2, <2>1, <3>1, <3>2, ForwardTypes
  <2>4. QED
    BY <1>6, <2>2, <2>3 DEF NoteError
<1>7. QED
  BY <1>3, <1>4, <1>5, <1>6

(* The record of a swap that has landed, and the event of it. *)
LEMMA RecordStep ==
  ASSUME IInv, NEW p \in Payments, RecordSuccess(p) \/ RecordEvent(p)
  PROVE  StepType(p) /\ PayInv(p)'
<1>1. /\ TypeOK /\ PayInv(p) /\ {"recordEvent", "complete"} \subseteq Places
      /\ account \in BOOLEAN /\ faults \in 0..MaxFaults
  BY DEF IInv, TypeOK, Places, Trying, Ending
<1>2. UNCHANGED <<chain, account, crashes>> /\ try[p] \in Swaps /\ try[p] \in Nat
  BY <1>1, Attempts DEF RecordSuccess, RecordEvent, TypeOK
<1>3. CASE \/ Goes(p, "record", "recordEvent") /\ RecordSuccess(p)
           \/ Goes(p, "recordEvent", "complete") /\ RecordEvent(p)
  <2>1. CASE Goes(p, "record", "recordEvent") /\ RecordSuccess(p)
    <3>1. pc[p] = "record" /\ pc'[p] = "recordEvent"
      BY <1>1, <2>1 DEF Goes, TypeOK
    <3>2. /\ status' = [status EXCEPT ![p] = "COMPLETED"]
          /\ tx' = [tx EXCEPT ![p] = try[p]]
          /\ retried' = [retried EXCEPT ![p] = IF try[p] = 0 THEN 1 ELSE try[p]]
          /\ UNCHANGED <<events, try, doubt, faults>>
      BY <1>1, <2>1, <3>1, CaughtTries DEF RecordSuccess, NextAttempt
    <3>3. Moved(p)
      BY <1>1, <2>1, <3>2, GoesOn
    <3>4. \E n \in Swaps : retried' = [retried EXCEPT ![p] = n]
      BY <1>2, <3>2, Attempts
    <3>5. StepType(p)
      <4>1. \E st \in {"COMPLETED", "FAILED"} : status' = [status EXCEPT ![p] = st]
        BY <3>2
      <4>2. try'[p] >= try[p]
        BY <1>2, <3>2
      <4>3. QED
        BY <1>1, <1>2, <3>2, <3>3, <3>4, <4>1, <4>2 DEF StepType
    <3>6. status'[p] = "COMPLETED" /\ tx'[p] = try[p]
      BY <1>1, <3>2 DEF TypeOK
    <3>7. PayInv(p)'
      BY <1>1, <1>2, <3>1, <3>2, <3>6
         DEF PayInv, UnsentInv, HoldInv, RecordInv, TimelineInv, Live, Before,
           Holding, Waiting
    <3>8. QED
      BY <3>5, <3>7
  <2>2. CASE Goes(p, "recordEvent", "complete") /\ RecordEvent(p)
    <3>1. pc[p] = "recordEvent" /\ pc'[p] = "complete"
      BY <1>1, <2>2 DEF Goes, TypeOK
    <3>2. /\ events' = [events EXCEPT ![p]["COMPLETED"] = @ + 1]
          /\ UNCHANGED <<status, tx, retried, try, doubt, faults>>
      BY <1>1, <2>2, <3>1, CaughtTries DEF RecordEvent, NextAttempt
    <3>3. Moved(p)
      BY <1>1, <2>2, <3>2, GoesOn
    <3>4. events[p]["COMPLETED"] = 0
      BY <1>1, <3>1 DEF PayInv, TimelineInv
    <3>5. events'[p]["COMPLETED"] = 1
      BY <1>1, <3>2, <3>4 DEF TypeOK
    <3>6. StepType(p)
      <4>1. \E st \in {"COMPLETED", "FAILED"} :
              /\ events[p][st] <= 1
              /\ events' = [events EXCEPT ![p][st] = @ + 1]
        <5>1. events[p]["COMPLETED"] <= 1
          BY <3>4
        <5>2. QED
          BY <3>2, <5>1
      <4>2. try'[p] >= try[p]
        BY <1>2, <3>2
      <4>3. QED
        BY <1>1, <1>2, <3>2, <3>3, <4>1, <4>2 DEF StepType
    <3>7. PayInv(p)'
      BY <1>1, <1>2, <3>1, <3>2, <3>5
         DEF PayInv, UnsentInv, HoldInv, RecordInv, TimelineInv, Live, Before,
           Holding, Waiting
    <3>8. QED
      BY <3>6, <3>7
  <2>3. QED
    BY <1>3, <2>1, <2>2
<1>4. CASE /\ Doubts(p)
           /\ Caught(p, "record") \/ Caught(p, "recordEvent")
           /\ UNCHANGED <<status, tx, retried, events>>
           /\ faults < MaxFaults /\ faults' = faults + 1
  <2>1. /\ pc[p] \in {"record", "recordEvent"} /\ Moved(p) /\ Left(p)
        /\ \/ NextAttempt(p)
           \/ try'[p] = try[p] /\ pc'[p] = "caught"
    BY <1>1, <1>4, CaughtTries DEF Left, Doubts
  <2>2. faults' \in 0..MaxFaults
    BY <1>1, <1>4, NonCustodialSwapAssumption
  <2>3. QED
    BY <1>1, <1>2, <1>4, <2>1, <2>2, ForwardTypes, LeaveInv DEF Trying, Doubts
<1>5. QED
  BY <1>3, <1>4 DEF RecordSuccess, RecordEvent
-----------------------------------------------------------------------------
(* The chain and the token account: a swap that was sent is decided, and   *)
(* nothing else changes.                                                   *)
LEMMA ChainStep ==
  ASSUME IInv, NEW p \in Payments,
         \/ EnsureAccount(p)
         \/ \E a \in Swaps : Lands(p, a) \/ FailsOnChain(p, a)
  PROVE  StepType(p) /\ PayInv(p)'
<1>1. /\ TypeOK /\ PayInv(p) /\ try[p] \in Nat
      /\ account' \in BOOLEAN /\ faults \in 0..MaxFaults
  BY Attempts DEF IInv, TypeOK, EnsureAccount, Lands, FailsOnChain
<1>2. /\ UNCHANGED <<status, tx, retried, events, pc, try, doubt, faults, crashes>>
      /\ Moved(p)
  BY <1>1 DEF EnsureAccount, Lands, FailsOnChain, paymentVars, Moved, TypeOK, Places
<1>3. CASE EnsureAccount(p)
  <2>1. chain' = chain
    BY <1>3 DEF EnsureAccount
  <2>2. StepType(p)
    BY <1>1, <1>2, <2>1 DEF StepType
  <2>3. PayInv(p)'
    BY <1>1, <1>2, <2>1
       DEF PayInv, UnsentInv, HoldInv, RecordInv, TimelineInv, Live
  <2>4. QED
    BY <2>2, <2>3
<1>4. ASSUME NEW a \in Swaps, Lands(p, a) \/ FailsOnChain(p, a)
      PROVE  StepType(p) /\ PayInv(p)'
  <2>1. PICK st \in {"landed", "failed"} :
          chain[p][a] = "sent" /\ chain' = [chain EXCEPT ![p][a] = st]
    BY <1>4 DEF Lands, FailsOnChain
  <2>2. a <= try[p] /\ (a > 0 => p \in OneSigner)
    BY <1>1, <2>1 DEF TypeOK
  <2>3. StepType(p)
    <3>1. \E t \in {"sent", "landed", "failed"}, b \in Swaps :
            /\ b <= try'[p] /\ (b > 0 => p \in OneSigner)
            /\ chain' = [chain EXCEPT ![p][b] = t]
      BY <1>2, <2>1, <2>2
    <3>2. try'[p] >= try[p]
      BY <1>1, <1>2
    <3>3. QED
      BY <1>1, <1>2, <3>1, <3>2 DEF StepType
  <2>4. /\ \A b \in Swaps \ {a} : chain'[p][b] = chain[p][b]
        /\ chain'[p][a] = st
    BY <1>1, <2>1 DEF TypeOK
  <2>5. UnsentInv(p)'
    BY <1>1, <1>2, <2>1, <2>4 DEF PayInv, UnsentInv, TypeOK
  <2>6. HoldInv(p)' /\ TimelineInv(p)'
    BY <1>1, <1>2, <2>1, <2>4 DEF PayInv, HoldInv, TimelineInv, Live
  <2>7. RecordInv(p)'
    BY <1>1, <1>2, <2>1, <2>4 DEF PayInv, RecordInv, Live, TypeOK
  <2>8. QED
    BY <2>3, <2>5, <2>6, <2>7 DEF PayInv
<1>5. QED
  BY <1>3, <1>4

LEMMA CrashInv == IInv /\ Crash => IInv'
<1> SUFFICES ASSUME IInv, Crash PROVE IInv'
  OBVIOUS
<1>1. TypeOK /\ UNCHANGED <<status, tx, retried, events, try, chain, doubt, account, faults>>
  BY DEF IInv, Crash, paymentVars
<1>2. TypeOK'
  <2>1. crashes' \in 0..MaxCrashes
    BY <1>1, NonCustodialSwapAssumption DEF Crash, TypeOK
  <2>2. pc' \in [Payments -> Places]
    BY DEF Crash, Places, Waiting
  <2>3. QED
    BY <1>1, <2>1, <2>2 DEF TypeOK, Places
<1>3. ASSUME NEW p \in Payments PROVE PayInv(p)'
  <2>1. pc'[p] = IF pc[p] = "start" THEN "start" ELSE "done"
    BY DEF Crash
  <2>2. PayInv(p)
    BY DEF IInv
  <2>3. QED
    BY <1>1, <2>1, <2>2
       DEF PayInv, UnsentInv, HoldInv, RecordInv, TimelineInv, Live, Before,
           Holding, Waiting
<1>4. QED
  BY <1>2, <1>3 DEF IInv

LEMMA NextIInv == IInv /\ [Next]_vars => IInv'
<1> SUFFICES ASSUME IInv, [Next]_vars PROVE IInv'
  OBVIOUS
<1>1. ASSUME NEW p \in Payments, StepType(p), PayInv(p)' PROVE IInv'
  BY <1>1, StepTypes, OnePayment DEF IInv
<1>2. ASSUME NEW p \in Payments, Call(p) \/ EnsureAccount(p) PROVE IInv'
  <2>1. StepType(p) /\ PayInv(p)'
    BY <1>2, QuietInv, SendStep, AttemptStep, RecordStep, ChainStep DEF Call
  <2>2. QED
    BY <1>1, <2>1
<1>3. ASSUME NEW p \in Payments, NEW a \in Swaps, Lands(p, a) \/ FailsOnChain(p, a)
      PROVE  IInv'
  BY <1>1, <1>3, ChainStep
<1>4. CASE UNCHANGED vars
  <2>1. \A p \in Payments : PayInv(p)'
    BY <1>4 DEF IInv, PayInv, UnsentInv, HoldInv, RecordInv, TimelineInv, Live,
                vars, paymentVars
  <2>2. QED
    BY <1>4, <2>1 DEF IInv, TypeOK, vars, paymentVars
<1>5. QED
  BY <1>2, <1>3, <1>4, CrashInv DEF Next
-----------------------------------------------------------------------------
(* The inductive invariant holds in every reachable state. *)
THEOREM Invariance == Spec => []IInv
<1>1. QED
  BY InitIInv, NextIInv, PTL DEF Spec

(* Every variable keeps its type: a payment's timeline is written at most  *)
(* twice, no swap is sent before its attempt or without the signer it      *)
(* needs, and no counter passes its bound.                                 *)
THEOREM TypeCorrect == Spec => []TypeOK
<1>1. IInv => TypeOK
  BY DEF IInv
<1>2. QED
  BY <1>1, Invariance, PTL

(* However confirmations, writes and the process fail, at most one swap of *)
(* a payment has landed that the retry loop has not lost sight of.         *)
THEOREM OneSwap == Spec => []OneSwapBeyondDoubt
<1>1. IInv => OneSwapBeyondDoubt
  <2> SUFFICES ASSUME IInv, NEW p \in Payments
               PROVE  Cardinality(Landed(p) \ doubt[p]) <= 1
    BY DEF OneSwapBeyondDoubt
  <2>1. Landed(p) \ doubt[p] \subseteq {try[p]}
    BY DEF IInv, PayInv, HoldInv, Live, Landed
  <2>2. IsFiniteSet({try[p]}) /\ Cardinality({try[p]}) = 1
    BY FS_Singleton
  <2>3. QED
    BY <2>1, <2>2, FS_Subset, FS_CardinalityType
<1>2. QED
  BY <1>1, Invariance, PTL

(* What updatePaymentSuccess and updatePaymentFailed record agrees with    *)
(* the chain, now and after every swap that is still to land.              *)
THEOREM StatusIsTrue == Spec => []StatusAgreesWithChain
<1>1. IInv => StatusAgreesWithChain
  BY DEF IInv, PayInv, RecordInv, Live, Landed, StatusAgreesWithChain
<1>2. QED
  BY <1>1, Invariance, PTL
=============================================================================
