------------------------ MODULE WebhookDeliveryProofs ------------------------
(***************************************************************************)
(* Proofs about WebhookDelivery, for every number of events, attempts,     *)
(* refused writes and ends of the process, with or without Redis.          *)
(***************************************************************************)
EXTENDS WebhookDeliveryProperties, TLAPS

(* An attempt is under way. *)
Working == {"post", "ok", "refused", "caught", "return", "throw"}

(* A job found stalled is given out once more. *)
Bonus(e) == IF e \in stalled THEN 1 ELSE 0

(* Where an event is and where its job is agree, and the two ways of       *)
(* trying an event again, the job and the timer, exclude each other.       *)
PlaceInv(e) ==
  /\ job[e] = "none" => made[e] = 0
  /\ job[e] # "none" => timer[e] = 0
  /\ job[e] = "waiting" => pc[e] = "wait"
  /\ job[e] = "active" => pc[e] \in Working
  /\ job[e] \in {"completed", "failed"} => pc[e] = "done"
  /\ timer[e] > 0 => pc[e] = "wait"
  /\ pc[e] \in {"idle", "add"} => log[e] \in {"ABSENT", "PENDING"}

(* An attempt that has not reached the merchant yet does not count.        *)
Count(e) == IF pc[e] = "post" THEN 0 ELSE 1

(* What has reached the merchant of an event in Redis is bounded by the    *)
(* attempts BullMQ has counted.                                            *)
JobInv(e) ==
  /\ job[e] \in {"waiting", "active"} => made[e] < MaxAttempts[e]
  /\ job[e] = "waiting" => posts[e] <= made[e] + Bonus(e)
  /\ job[e] = "active" => /\ try[e] = made[e] + 1
                          /\ posts[e] <= made[e] + Count(e) + Bonus(e)

(* Of an event in memory, by the attempt that is under way or set.         *)
TimerInv(e) ==
  job[e] = "none" =>
    /\ pc[e] \in {"idle", "add"} => posts[e] = 0
    /\ timer[e] > 0 => posts[e] < timer[e] /\ timer[e] <= MaxAttempts[e]
    /\ pc[e] \in Working => /\ posts[e] < try[e] + Count(e)
                            /\ try[e] \in 1..MaxAttempts[e]
    /\ pc[e] = "throw" => try[e] < MaxAttempts[e]

(* A log that is FAILED is of a last attempt, and the event is given up;   *)
(* one that is SUCCESS stays so until the process ends.                    *)
LogInv(e) ==
  /\ pc[e] = "ok" => e \in acked
  /\ log[e] = "FAILED" =>
       /\ made[e] + 1 >= MaxAttempts[e] \/ job[e] = "none"
       /\ job[e] = "none" => pc[e] \in {"return", "done"} /\ timer[e] = 0
  /\ log[e] = "SUCCESS" /\ crashes = 0 => pc[e] \in {"return", "done"}

Bounded(e) == posts[e] <= MaxAttempts[e] + Bonus(e)
Honest(e) == /\ log[e] = "SUCCESS" => e \in acked
             /\ log[e] = "FAILED" => try[e] >= MaxAttempts[e]

EventInv(e) ==
  /\ PlaceInv(e) /\ JobInv(e) /\ TimerInv(e) /\ LogInv(e)
  /\ Bounded(e) /\ Honest(e)

IInv == TypeOK /\ (closing => crashes > 0) /\ \A e \in Events : EventInv(e)
-----------------------------------------------------------------------------
(* It holds initially. *)
LEMMA InitIInv == Init => IInv
<1> SUFFICES ASSUME Init PROVE IInv
  OBVIOUS
<1>1. TypeOK
  <2>1. redis \in BOOLEAN /\ closing \in BOOLEAN
    BY DEF Init
  <2>2. faults \in 0..MaxFaults /\ crashes \in 0..MaxCrashes
    BY WebhookAssumption DEF Init
  <2>3. QED
    BY <2>1, <2>2 DEF Init, TypeOK, LogStatus
<1>2. \A e \in Events : EventInv(e)
  BY WebhookAssumption
     DEF Init, EventInv, PlaceInv, JobInv, TimerInv, LogInv, Bounded, Honest,
         Bonus, Count, Working
<1>3. QED
  BY <1>1, <1>2 DEF IInv, Init

(* Constants and the counts of an event. *)
LEMMA Counts ==
  ASSUME TypeOK, NEW e \in Events
  PROVE  /\ MaxAttempts[e] \in Nat \ {0} /\ Bonus(e) \in 0..1 /\ Count(e) \in 0..1
         /\ made[e] \in Nat /\ try[e] \in Nat /\ timer[e] \in Nat
         /\ posts[e] \in Nat /\ crashes \in Nat /\ faults \in Nat
BY WebhookAssumption DEF TypeOK, Bonus, Count

(* The step of an event leaves the others alone. *)
SameFor(d) ==
  /\ log'[d] = log[d] /\ kept'[d] = kept[d] /\ job'[d] = job[d]
  /\ made'[d] = made[d] /\ timer'[d] = timer[d] /\ pc'[d] = pc[d]
  /\ try'[d] = try[d] /\ posts'[d] = posts[d]
  /\ (d \in acked' <=> d \in acked) /\ (d \in stalled' <=> d \in stalled)

LEMMA SameKeeps ==
  ASSUME NEW d \in Events, EventInv(d), SameFor(d), crashes' = crashes
  PROVE  EventInv(d)'
BY DEF EventInv, SameFor, PlaceInv, JobInv, TimerInv, LogInv, Bounded, Honest,
       Bonus, Count

(* What the ways of writing a log can do to it. *)
LEMMA LogWrites ==
  ASSUME TypeOK, NEW e \in Events, NEW st \in LogStatus,
         Written(e, st) \/ NotWritten(e) \/ Updated(e, st)
  PROVE  /\ log' \in [Events -> LogStatus \cup {"ABSENT"}]
         /\ faults' \in 0..MaxFaults
         /\ \A d \in Events \ {e} : log'[d] = log[d]
         /\ log'[e] \in {st, log[e]}
<1> USE WebhookAssumption DEF TypeOK, Works, Fails
<1>1. CASE Written(e, st)
  BY <1>1 DEF Written
<1>2. CASE NotWritten(e)
  BY <1>2 DEF NotWritten
<1>3. CASE Updated(e, st)
  <2>1. CASE kept[e] = "memory"
    BY <1>3, <2>1 DEF Updated, Written
  <2>2. CASE kept[e] # "memory"
    BY <1>1, <1>2, <1>3, <2>2 DEF Updated
  <2>3. QED
    BY <2>1, <2>2
<1>4. QED
  BY <1>1, <1>2, <1>3

LEMMA StepFrame ==
  ASSUME TypeOK, NEW e \in Events, LogCreate(e) \/ Step(e)
  PROVE  /\ TypeOK'
         /\ UNCHANGED <<stalled, redis, closing, crashes>>
         /\ \A d \in Events \ {e} : SameFor(d)
<1> USE WebhookAssumption DEF Goes, logVars, redisVars, TypeOK, SameFor
<1>1. CASE LogCreate(e)
  BY <1>1 DEF LogCreate, LogStatus, Works, Fails
<1>2. CASE AddJob(e)
  BY <1>2 DEF AddJob, Works, Fails
<1>3. CASE StartInMemory(e) \/ TakeJob(e) \/ TimerFires(e)
  BY <1>3 DEF StartInMemory, TakeJob, TimerFires
<1>4. CASE Post(e)
  BY <1>4 DEF Post, Reaches
<1>5. CASE WriteOk(e)
  <2>1. /\ log' \in [Events -> LogStatus \cup {"ABSENT"}]
        /\ faults' \in 0..MaxFaults
        /\ \A d \in Events \ {e} : log'[d] = log[d]
    BY <1>5, LogWrites DEF WriteOk, LogStatus
  <2>2. QED
    BY <1>5, <2>1 DEF WriteOk
<1>6. CASE WriteRefused(e)
  <2>1. /\ log' \in [Events -> LogStatus \cup {"ABSENT"}]
        /\ faults' \in 0..MaxFaults
        /\ \A d \in Events \ {e} : log'[d] = log[d]
    BY <1>6, LogWrites DEF WriteRefused, LogStatus
  <2>2. QED
    BY <1>6, <2>1 DEF WriteRefused
<1>7. CASE CatchInJob(e)
  <2>1. /\ log' \in [Events -> LogStatus \cup {"ABSENT"}]
        /\ faults' \in 0..MaxFaults
        /\ \A d \in Events \ {e} : log'[d] = log[d]
    BY <1>7, LogWrites DEF CatchInJob, LogStatus
  <2>2. QED
    BY <1>7, <2>1 DEF CatchInJob
<1>8. CASE CatchInMemory(e)
  <2>1. /\ log' \in [Events -> LogStatus \cup {"ABSENT"}]
        /\ faults' \in 0..MaxFaults
        /\ \A d \in Events \ {e} : log'[d] = log[d]
    BY <1>8, LogWrites DEF CatchInMemory, LogStatus
  <2>2. QED
    BY <1>8, <2>1 DEF CatchInMemory
<1>9. CASE JobReturns(e) \/ JobThrows(e) \/ TimerThrows(e)
  BY <1>9 DEF JobReturns, JobThrows, TimerThrows
<1>10. QED
  BY <1>1, <1>2, <1>3, <1>4, <1>5, <1>6, <1>7, <1>8, <1>9 DEF Step
-----------------------------------------------------------------------------
(* A step that establishes the invariant of its own event keeps it all. *)
LEMMA StepIInv ==
  ASSUME IInv, NEW e \in Events, LogCreate(e) \/ Step(e), EventInv(e)'
  PROVE  IInv'
<1>1. /\ TypeOK' /\ UNCHANGED <<closing, crashes>>
      /\ \A d \in Events \ {e} : SameFor(d)
  BY StepFrame DEF IInv
<1>2. \A d \in Events \ {e} : EventInv(d)'
  BY <1>1, SameKeeps DEF IInv
<1>3. QED
  BY <1>1, <1>2 DEF IInv

(* The steps that begin an event, and those that begin an attempt. *)
LEMMA BeginInv ==
  ASSUME IInv, NEW e \in Events,
         LogCreate(e) \/ AddJob(e) \/ StartInMemory(e)
  PROVE  EventInv(e)'
<1>1. /\ TypeOK /\ EventInv(e) /\ TypeOK'
      /\ UNCHANGED <<stalled, crashes>>
  BY StepFrame DEF Step, IInv
<1>2. UNCHANGED <<made, posts, acked>>
  BY DEF LogCreate, AddJob, StartInMemory, redisVars
<1>3. CASE LogCreate(e)
  <2>1. /\ pc[e] = "idle" /\ pc'[e] = "add" /\ log'[e] \in {"PENDING", log[e]}
        /\ job'[e] = job[e] /\ timer'[e] = timer[e] /\ try'[e] = try[e]
    BY <1>1, <1>3 DEF LogCreate, Goes, TypeOK, logVars, redisVars
  <2>2. QED
    BY <1>1, <1>2, <2>1, Counts
       DEF EventInv, PlaceInv, JobInv, TimerInv, LogInv, Bounded, Honest,
           Bonus, Count, Working
<1>4. CASE AddJob(e)
  <2>1. /\ pc[e] = "add" /\ log'[e] = log[e]
        /\ timer'[e] = timer[e] /\ try'[e] = try[e]
        /\ \/ pc'[e] = "wait" /\ job'[e] = "waiting"
           \/ pc'[e] = "done" /\ job'[e] = job[e]
    BY <1>1, <1>4 DEF AddJob, Goes, TypeOK, logVars
  <2>2. job[e] = "none" /\ made[e] = 0 /\ posts[e] = 0 /\ timer[e] = 0
    BY <1>1, <2>1, Counts
       DEF EventInv, PlaceInv, TimerInv, TypeOK, Working
  <2>3. QED
    BY <1>1, <1>2, <2>1, <2>2, Counts
       DEF EventInv, PlaceInv, JobInv, TimerInv, LogInv, Bounded, Honest,
           Bonus, Count, Working
<1>5. CASE StartInMemory(e)
  <2>1. /\ pc[e] = "add" /\ log'[e] = log[e] /\ job'[e] = job[e]
        /\ \/ pc'[e] = "post" /\ try'[e] = 1 /\ timer'[e] = timer[e]
           \/ pc'[e] = "wait" /\ timer'[e] = 1 /\ try'[e] = try[e]
    BY <1>1, <1>5 DEF StartInMemory, Goes, TypeOK, logVars, redisVars
  <2>2. job[e] = "none" /\ made[e] = 0 /\ posts[e] = 0 /\ timer[e] = 0
    BY <1>1, <2>1, Counts
       DEF EventInv, PlaceInv, TimerInv, TypeOK, Working
  <2>3. QED
    BY <1>1, <1>2, <2>1, <2>2, Counts
       DEF EventInv, PlaceInv, JobInv, TimerInv, LogInv, Bounded, Honest,
           Bonus, Count, Working
<1>6. QED
  BY <1>3, <1>4, <1>5

LEMMA AttemptInv ==
  ASSUME IInv, NEW e \in Events, TakeJob(e) \/ TimerFires(e) \/ Post(e)
  PROVE  EventInv(e)'
<1>1. /\ TypeOK /\ EventInv(e) /\ TypeOK'
      /\ UNCHANGED <<log, made, stalled, crashes>>
  BY StepFrame DEF Step, IInv, TakeJob, TimerFires, Post, logVars, redisVars
<1>2. CASE TakeJob(e)
  <2>1. /\ pc[e] = "wait" /\ pc'[e] = "post"
        /\ job[e] = "waiting" /\ job'[e] = "active"
        /\ try'[e] = made[e] + 1 /\ timer'[e] = timer[e]
        /\ posts' = posts /\ acked' = acked
    BY <1>1, <1>2 DEF TakeJob, Goes, TypeOK
  <2>2. QED
    BY <1>1, <2>1, Counts
       DEF EventInv, PlaceInv, JobInv, TimerInv, LogInv, Bounded, Honest,
           Bonus, Count, Working
<1>3. CASE TimerFires(e)
  <2>1. /\ pc[e] = "wait" /\ pc'[e] = "post" /\ job'[e] = job[e]
        /\ timer[e] > 0 /\ timer'[e] = 0 /\ try'[e] = timer[e]
        /\ posts' = posts /\ acked' = acked
    BY <1>1, <1>3 DEF TimerFires, Goes, TypeOK, redisVars
  <2>2. QED
    BY <1>1, <2>1, Counts
       DEF EventInv, PlaceInv, JobInv, TimerInv, LogInv, Bounded, Honest,
           Bonus, Count, Working
<1>4. CASE Post(e)
  <2>1. /\ pc[e] = "post" /\ pc'[e] \in {"ok", "refused", "caught"}
        /\ job'[e] = job[e] /\ timer'[e] = timer[e] /\ try'[e] = try[e]
        /\ posts'[e] \in {posts[e], posts[e] + 1}
        /\ e \in acked => e \in acked'
        /\ pc'[e] = "ok" => e \in acked'
    BY <1>1, <1>4 DEF Post, Goes, Reaches, TypeOK, redisVars
  <2>2. Count(e) = 0 /\ Count(e)' = 1 /\ Bonus(e)' = Bonus(e)
    BY <1>1, <2>1 DEF Count, Bonus
  <2>3. job[e] \in {"none", "active"} /\ ~(timer[e] > 0)
    BY <1>1, <2>1 DEF EventInv, PlaceInv, TypeOK
  <2>4. PlaceInv(e)' /\ LogInv(e)' /\ Honest(e)'
    BY <1>1, <2>1, <2>3, Counts
       DEF EventInv, PlaceInv, LogInv, Honest, Working
  <2>5. JobInv(e)' /\ TimerInv(e)' /\ Bounded(e)'
    BY <1>1, <2>1, <2>2, <2>3, Counts
       DEF EventInv, JobInv, TimerInv, Bounded, Working
  <2>6. QED
    BY <2>4, <2>5 DEF EventInv
<1>5. QED
  BY <1>2, <1>3, <1>4

(* The steps that write the result of an attempt; each of them only moves  *)
(* the event on, sets its log and, in memory, a timer.                     *)
LEMMA AnswerInv ==
  ASSUME IInv, NEW e \in Events, WriteOk(e) \/ WriteRefused(e)
  PROVE  EventInv(e)'
<1>1. /\ TypeOK /\ EventInv(e) /\ TypeOK'
      /\ UNCHANGED <<stalled, crashes>>
      /\ UNCHANGED <<job, made, timer, try, posts, acked>>
  BY StepFrame DEF Step, IInv, WriteOk, WriteRefused, redisVars
<1>2. CASE WriteOk(e)
  <2>1. /\ pc[e] = "ok"
        /\ \/ pc'[e] \in {"return", "done"} /\ log'[e] \in {"SUCCESS", log[e]}
           \/ pc'[e] = "caught" /\ log'[e] = log[e]
        /\ pc'[e] = "done" => job[e] = "none"
    BY <1>1, <1>2, LogWrites
       DEF WriteOk, Goes, TypeOK, LogStatus, Persistent, Written, NotWritten
  <2>2. QED
    BY <1>1, <2>1, Counts
       DEF EventInv, PlaceInv, JobInv, TimerInv, LogInv, Bounded, Honest,
           Bonus, Count, Working
<1>3. CASE WriteRefused(e)
  <2>1. /\ pc[e] = "refused"
        /\ \/ pc'[e] = "caught" /\ log'[e] \in {"RETRYING", log[e]}
           \/ /\ pc'[e] = "return" /\ log'[e] \in {"FAILED", log[e]}
              /\ try[e] >= MaxAttempts[e]
    BY <1>1, <1>3, LogWrites
       DEF WriteRefused, Goes, TypeOK, LogStatus, Written, NotWritten, Final
  <2>2. job[e] \in {"none", "active"} /\ ~(timer[e] > 0)
    BY <1>1, <2>1 DEF EventInv, PlaceInv, TypeOK
  <2>3. PlaceInv(e)' /\ LogInv(e)' /\ Honest(e)'
    BY <1>1, <2>1, <2>2, Counts
       DEF EventInv, PlaceInv, JobInv, LogInv, Honest, Working
  <2>4. JobInv(e)' /\ TimerInv(e)' /\ Bounded(e)'
    BY <1>1, <2>1, <2>2, Counts
       DEF EventInv, JobInv, TimerInv, Bounded, Bonus, Count, Working
  <2>5. QED
    BY <2>3, <2>4 DEF EventInv
<1>4. QED
  BY <1>2, <1>3

LEMMA CatchInv ==
  ASSUME IInv, NEW e \in Events, CatchInJob(e) \/ CatchInMemory(e)
  PROVE  EventInv(e)'
<1>1. /\ TypeOK /\ EventInv(e) /\ TypeOK'
      /\ UNCHANGED <<stalled, crashes>>
      /\ UNCHANGED <<job, made, try, posts, acked>>
  BY StepFrame DEF Step, IInv, CatchInJob, CatchInMemory, redisVars
<1>2. CASE CatchInJob(e)
  <2>1. /\ pc[e] = "caught" /\ timer'[e] = timer[e]
        /\ \/ /\ pc'[e] = "return" /\ log'[e] \in {"FAILED", log[e]}
              /\ try[e] >= MaxAttempts[e]
           \/ /\ pc'[e] = "throw" /\ log'[e] \in {"RETRYING", log[e]}
              /\ job[e] # "none" \/ try[e] < MaxAttempts[e]
    <3>1. CASE Final(e) /\ Goes(e, "caught", "return")
      BY <1>1, <1>2, <3>1, LogWrites
         DEF CatchInJob, Goes, TypeOK, LogStatus, Final, NotWritten
    <3>2. CASE ~Final(e) /\ Goes(e, "caught", "throw")
      BY <1>1, <1>2, <3>2, LogWrites, Counts
         DEF CatchInJob, Goes, TypeOK, LogStatus, Final, NotWritten
    <3>3. CASE e \in Direct /\ Goes(e, "caught", "throw") /\ NotWritten(e)
      BY <1>1, <1>2, <3>3, WebhookAssumption
         DEF CatchInJob, Goes, TypeOK, NotWritten, Persistent
    <3>4. QED
      BY <1>2, <3>1, <3>2, <3>3 DEF CatchInJob
  <2>2. job[e] \in {"none", "active"} /\ ~(timer[e] > 0)
    BY <1>1, <2>1 DEF EventInv, PlaceInv, TypeOK
  <2>3. PlaceInv(e)' /\ LogInv(e)' /\ Honest(e)'
    BY <1>1, <2>1, <2>2, Counts
       DEF EventInv, PlaceInv, JobInv, LogInv, Honest, Working
  <2>4. JobInv(e)' /\ TimerInv(e)' /\ Bounded(e)'
    BY <1>1, <2>1, <2>2, Counts
       DEF EventInv, JobInv, TimerInv, Bounded, Bonus, Count, Working
  <2>5. QED
    BY <2>3, <2>4 DEF EventInv
<1>3. CASE CatchInMemory(e)
  <2>1. /\ pc[e] = "caught" /\ job[e] = "none"
        /\ \/ /\ pc'[e] = "done" /\ log'[e] \in {"FAILED", log[e]}
              /\ try[e] >= MaxAttempts[e] /\ timer'[e] = timer[e]
           \/ /\ pc'[e] = "wait" /\ log'[e] \in {"RETRYING", log[e]}
              /\ try[e] < MaxAttempts[e] /\ timer'[e] = try[e] + 1
    BY <1>1, <1>3, LogWrites, Counts
       DEF CatchInMemory, Goes, TypeOK, LogStatus, Final, Persistent
  <2>2. QED
    BY <1>1, <2>1, Counts
       DEF EventInv, PlaceInv, JobInv, TimerInv, LogInv, Bounded, Honest,
           Bonus, Count, Working
<1>4. QED
  BY <1>2, <1>3

LEMMA EndInv ==
  ASSUME IInv, NEW e \in Events, JobReturns(e) \/ JobThrows(e) \/ TimerThrows(e)
  PROVE  EventInv(e)'
<1>1. /\ TypeOK /\ EventInv(e) /\ TypeOK'
      /\ UNCHANGED <<stalled, crashes>>
      /\ UNCHANGED <<log, try, posts, acked>>
  BY StepFrame DEF Step, IInv, JobReturns, JobThrows, TimerThrows, logVars
<1>2. CASE JobReturns(e)
  <2>1. /\ pc[e] = "return" /\ pc'[e] = "done"
        /\ made'[e] = made[e] /\ timer'[e] = timer[e]
        /\ job'[e] = IF job[e] = "none" THEN "none" ELSE "completed"
    BY <1>1, <1>2 DEF JobReturns, Goes, TypeOK, Persistent
  <2>2. QED
    BY <1>1, <2>1, Counts
       DEF EventInv, PlaceInv, JobInv, TimerInv, LogInv, Bounded, Honest,
           Bonus, Count, Working
<1>3. CASE JobThrows(e)
  <2>1. /\ pc[e] = "throw" /\ job[e] # "none"
        /\ made'[e] = made[e] + 1 /\ timer'[e] = timer[e]
        /\ \/ /\ made[e] + 1 < MaxAttempts[e]
              /\ pc'[e] = "wait" /\ job'[e] = "waiting"
           \/ /\ made[e] + 1 >= MaxAttempts[e]
              /\ pc'[e] = "done" /\ job'[e] = "failed"
    BY <1>1, <1>3 DEF JobThrows, Goes, TypeOK, Persistent
  <2>2. job[e] = "active"
    BY <1>1, <2>1 DEF EventInv, PlaceInv, TypeOK
  <2>3. QED
    BY <1>1, <2>1, <2>2, Counts
       DEF EventInv, PlaceInv, JobInv, TimerInv, LogInv, Bounded, Honest,
           Bonus, Count, Working
<1>4. CASE TimerThrows(e)
  <2>1. /\ pc[e] = "throw" /\ pc'[e] = "wait" /\ job[e] = "none"
        /\ job'[e] = job[e] /\ made'[e] = made[e] /\ timer'[e] = try[e] + 1
    BY <1>1, <1>4 DEF TimerThrows, Goes, TypeOK, Persistent, redisVars
  <2>2. QED
    BY <1>1, <2>1, Counts
       DEF EventInv, PlaceInv, JobInv, TimerInv, LogInv, Bounded, Honest,
           Bonus, Count, Working
<1>5. QED
  BY <1>2, <1>3, <1>4
-----------------------------------------------------------------------------
(* A process that ends takes what is in memory with it. *)
LEMMA NewProcessInv ==
  ASSUME IInv, NewProcess, crashes' \in 0..MaxCrashes, crashes' > 0
  PROVE  IInv'
<1>1. TypeOK /\ \A e \in Events : EventInv(e)
  BY DEF IInv
<1>2. TypeOK'
  <2>1. redis' \in BOOLEAN /\ closing' \in BOOLEAN
    BY DEF NewProcess
  <2>2. stalled' \subseteq Events
    BY <1>1 DEF NewProcess, TypeOK
  <2>3. QED
    BY <1>1, <2>1, <2>2 DEF NewProcess, TypeOK, LogStatus
<1>3. ASSUME NEW e \in Events PROVE EventInv(e)'
  <2>1. /\ timer'[e] = 0 /\ made'[e] = made[e] /\ try'[e] = try[e]
        /\ posts'[e] = posts[e] /\ acked' = acked
        /\ log'[e] \in {"ABSENT", log[e]}
    BY <1>1 DEF NewProcess, TypeOK
  <2>2. /\ job[e] # "active" => job'[e] = job[e] /\ Bonus(e)' = Bonus(e)
        /\ job[e] = "active" =>
             \/ job'[e] = "failed" /\ Bonus(e)' = Bonus(e)
             \/ job'[e] = "waiting" /\ Bonus(e) = 0 /\ Bonus(e)' = 1
    BY <1>1 DEF NewProcess, TypeOK, Bonus
  <2>3. pc'[e] = IF pc[e] = "idle" THEN "idle"
                 ELSE IF job'[e] = "waiting" THEN "wait" ELSE "done"
    BY <1>1 DEF NewProcess, TypeOK
  <2>4. PlaceInv(e)' /\ LogInv(e)' /\ Honest(e)'
    BY <1>1, <2>1, <2>2, <2>3, Counts
       DEF EventInv, PlaceInv, LogInv, Honest, Working, TypeOK
  <2>5. JobInv(e)' /\ TimerInv(e)' /\ Bounded(e)'
    BY <1>1, <2>1, <2>2, <2>3, Counts
       DEF EventInv, PlaceInv, JobInv, TimerInv, Bounded, Count, Working
  <2>6. QED
    BY <2>4, <2>5 DEF EventInv
<1>4. QED
  BY <1>2, <1>3 DEF IInv

LEMMA ShutdownInv == IInv /\ Shutdown => IInv'
<1> SUFFICES ASSUME IInv, Shutdown PROVE IInv'
  OBVIOUS
<1>1. TypeOK /\ \A e \in Events : EventInv(e)
  BY DEF IInv
<1>2. TypeOK' /\ crashes' > 0
  <2>1. crashes' \in 0..MaxCrashes /\ crashes' > 0
    BY <1>1, WebhookAssumption DEF Shutdown, TypeOK
  <2>2. closing' \in BOOLEAN
    BY DEF Shutdown
  <2>3. QED
    BY <1>1, <2>1, <2>2 DEF Shutdown, ClearTimers, TypeOK, logVars, redisVars
<1>3. ASSUME NEW e \in Events PROVE EventInv(e)'
  <2>1. /\ timer'[e] \in {0, timer[e]}
        /\ UNCHANGED <<log, job, made, stalled, pc, try, posts, acked>>
    BY <1>1 DEF Shutdown, ClearTimers, TypeOK, logVars, redisVars
  <2>2. QED
    BY <1>1, <1>2, <2>1, Counts
       DEF EventInv, PlaceInv, JobInv, TimerInv, LogInv, Bounded, Honest,
           Bonus, Count, Working
<1>4. QED
  BY <1>2, <1>3 DEF IInv

LEMMA NextIInv == IInv /\ [Next]_vars => IInv'
<1> SUFFICES ASSUME IInv, [Next]_vars PROVE IInv'
  OBVIOUS
<1>1. ASSUME NEW e \in Events, LogCreate(e) \/ Step(e) PROVE IInv'
  <2>1. EventInv(e)'
    BY <1>1, BeginInv, AttemptInv, AnswerInv, CatchInv, EndInv DEF Step
  <2>2. QED
    BY <1>1, <2>1, StepIInv
<1>2. CASE Crash \/ Exit
  <2>1. NewProcess /\ crashes' \in 0..MaxCrashes /\ crashes' > 0
    BY <1>2, WebhookAssumption DEF Crash, Exit, IInv, TypeOK
  <2>2. QED
    BY <2>1, NewProcessInv
<1>3. CASE UNCHANGED vars
  <2>1. \A e \in Events : EventInv(e)'
    BY <1>3 DEF IInv, EventInv, PlaceInv, JobInv, TimerInv, LogInv, Bounded,
                Honest, Bonus, Count, vars, logVars, redisVars, procVars
  <2>2. QED
    BY <1>3, <2>1 DEF IInv, TypeOK, vars, logVars, redisVars, procVars
<1>4. QED
  BY <1>1, <1>2, <1>3, ShutdownInv DEF Next
-----------------------------------------------------------------------------
(* The inductive invariant holds in every reachable state. *)
THEOREM Invariance == Spec => []IInv
<1>1. QED
  BY InitIInv, NextIInv, PTL DEF Spec

(* Every variable keeps its type: no counter of refused writes or ends of  *)
(* the process passes its bound.                                           *)
THEOREM TypeCorrect == Spec => []TypeOK
<1>1. IInv => TypeOK
  BY DEF IInv
<1>2. QED
  BY <1>1, Invariance, PTL

(* A log that says SUCCESS is of an event the merchant has accepted, and   *)
(* one that is FAILED of an event that was tried to its last attempt,      *)
(* through every write processWebhookJob and deliverRequest make of it.    *)
THEOREM SuccessIsAccepted == Spec => []SuccessMeansAccepted
<1>1. IInv => SuccessMeansAccepted
  BY DEF IInv, EventInv, Honest, SuccessMeansAccepted
<1>2. QED
  BY <1>1, Invariance, PTL

(* The merchant gets an event no more often than it may be tried, plus     *)
(* once if BullMQ found its job stalled.                                   *)
THEOREM AttemptsAreBounded == Spec => []AttemptsBounded
<1>1. IInv => AttemptsBounded
  BY DEF IInv, EventInv, Bounded, Bonus, AttemptsBounded
<1>2. QED
  BY <1>1, Invariance, PTL

(* While the process lives, a delivery recorded as SUCCESS is not made     *)
(* again and not recorded otherwise.                                       *)
THEOREM SuccessIsFinal == Spec => SuccessStays
<1>1. ASSUME IInv, [Next]_vars, NEW e \in Events,
             log[e] = "SUCCESS", crashes' = 0
      PROVE  log'[e] = "SUCCESS" /\ posts'[e] = posts[e]
  <2>1. TypeOK /\ EventInv(e)
    BY <1>1 DEF IInv
  <2>2. ASSUME NEW d \in Events, LogCreate(d) \/ Step(d)
        PROVE  log'[e] = "SUCCESS" /\ posts'[e] = posts[e]
    <3>1. UNCHANGED crashes /\ (d # e => SameFor(e))
      BY <2>1, <2>2, StepFrame
    <3>2. CASE d # e
      BY <1>1, <3>1, <3>2 DEF SameFor
    <3>3. CASE d = e
      <4>1. pc[e] \in {"return", "done"}
        BY <1>1, <2>1, <3>1 DEF EventInv, LogInv
      <4>2. ~LogCreate(e) /\ (Step(e) => JobReturns(e))
        BY <4>1 DEF LogCreate, Step, AddJob, StartInMemory, TakeJob, TimerFires,
                    Post, WriteOk, WriteRefused, CatchInJob, CatchInMemory,
                    JobThrows, TimerThrows, Goes
      <4>3. QED
        BY <1>1, <2>2, <3>3, <4>2 DEF JobReturns, logVars
    <3>4. QED
      BY <3>2, <3>3
  <2>3. ~(Crash \/ Shutdown \/ Exit)
    BY <1>1 DEF Crash, Shutdown, Exit, IInv, TypeOK
  <2>4. CASE UNCHANGED vars
    BY <1>1, <2>4 DEF vars, logVars
  <2>5. QED
    BY <1>1, <2>2, <2>3, <2>4 DEF Next
<1>2. IInv /\ [Next]_vars =>
        [\A e \in Events :
           log[e] = "SUCCESS" /\ crashes' = 0
             => log'[e] = "SUCCESS" /\ posts'[e] = posts[e]]_vars
  BY <1>1
<1>3. QED
  BY <1>2, Invariance, PTL DEF Spec, SuccessStays
=============================================================================
