-------------------------- MODULE WebhookDelivery --------------------------
(***************************************************************************)
(* How an event reaches a merchant's webhook: deliverWebhook               *)
(* (utils/webhook.ts) and WebhookQueueService.enqueue.  Each writes a log  *)
(* row, then hands the event to a BullMQ job in Redis or, if Redis could   *)
(* not be reached when the process started, to a timer in memory.          *)
(*                                                                         *)
(* An event is one call of either; a call for a merchant without a URL (or *)
(* a secret) ends at once and is no event here.  Payloads, signatures,     *)
(* response bodies and delays are left out: an attempt may begin at any    *)
(* time after the one before it has failed.                                *)
(***************************************************************************)
EXTENDS Naturals, FiniteSets

CONSTANTS
  Direct,      \* calls of deliverWebhook
  Queued,      \* calls of WebhookQueueService.enqueue
  MaxAttempts, \* attempts for each event, 5 for Direct and 6 for Queued
  MaxFaults,   \* how often the database or Redis may refuse a write
  MaxCrashes   \* how often the process may end and start again

Events == Direct \cup Queued

ASSUME WebhookAssumption ==
  /\ Direct \cap Queued = {}
  /\ MaxAttempts \in [Events -> Nat \ {0}]
  /\ MaxFaults \in Nat /\ MaxCrashes \in Nat

VARIABLES
  redis,    \* useRedis
  closing,  \* the queues have been shut down, the server has not
  log,      \* status of the event's log
  kept,     \* where its log is
  job,      \* the event's job in Redis
  made,     \* job.attemptsMade
  stalled,  \* jobs that were active when a process ended
  timer,    \* the attempt a timer will begin, 0 if there is none
  pc,       \* what is being done for the event
  try,      \* the attempt under way
  posts,    \* requests that have reached the merchant
  acked,    \* events the merchant has accepted, whether we heard of it or not
  faults,
  crashes

logVars == <<log, kept>>
redisVars == <<job, made, stalled>>
procVars == <<redis, closing, timer, pc, try>>
vars == <<logVars, redisVars, procVars, posts, acked, faults, crashes>>

LogStatus == {"PENDING", "SUCCESS", "FAILED", "RETRYING"}

TypeOK ==
  /\ redis \in BOOLEAN /\ closing \in BOOLEAN
  /\ log \in [Events -> LogStatus \cup {"ABSENT"}]
  /\ kept \in [Events -> {"nowhere", "db", "memory"}]
  /\ job \in [Events -> {"none", "waiting", "active", "completed", "failed"}]
  /\ made \in [Events -> Nat]
  /\ stalled \subseteq Events
  /\ timer \in [Events -> Nat]
  /\ pc \in [Events -> {"idle", "add", "post", "ok", "refused", "caught",
                        "return", "throw", "wait", "done"}]
  /\ try \in [Events -> Nat]
  /\ posts \in [Events -> Nat]
  /\ acked \subseteq Events
  /\ faults \in 0..MaxFaults /\ crashes \in 0..MaxCrashes

Init ==
  /\ redis \in BOOLEAN /\ closing = FALSE
  /\ log = [e \in Events |-> "ABSENT"]
  /\ kept = [e \in Events |-> "nowhere"]
  /\ job = [e \in Events |-> "none"]
  /\ made = [e \in Events |-> 0]
  /\ stalled = {}
  /\ timer = [e \in Events |-> 0]
  /\ pc = [e \in Events |-> "idle"]
  /\ try = [e \in Events |-> 0]
  /\ posts = [e \in Events |-> 0]
  /\ acked = {}
  /\ faults = 0 /\ crashes = 0
-----------------------------------------------------------------------------
Goes(e, from, to) == pc[e] = from /\ pc' = [pc EXCEPT ![e] = to]
Persistent(e) == job[e] # "none"
(* Defect: an attempt counts as the last one too late. *)
BugFinal(e) == try[e] > MaxAttempts[e]
Final(e) == try[e] >= MaxAttempts[e]

Works == UNCHANGED faults
Fails == faults < MaxFaults /\ faults' = faults + 1

(* webhookLog.update: it throws if the database does, or has no such row.  *)
Written(e, st) ==
  /\ kept[e] = "db"
  /\ log' = [log EXCEPT ![e] = st]
  /\ Works
NotWritten(e) == UNCHANGED log /\ IF kept[e] = "db" THEN Fails ELSE Works

(* updateLog never throws: it falls back to the log kept in memory.        *)
Updated(e, st) ==
  \/ Written(e, st)
  \/ /\ kept[e] = "memory"
     /\ log' = [log EXCEPT ![e] = st]
     /\ Works
  \/ kept[e] # "memory" /\ NotWritten(e)
-----------------------------------------------------------------------------
(* deliverWebhook and enqueue *)

(* Defect: the log is created with the status of a delivery. *)
BugLogCreate(e) ==
  /\ Goes(e, "idle", "add")
  /\ kept' = [kept EXCEPT ![e] = "db"]
  /\ log' = [log EXCEPT ![e] = "QUEUED"]
  /\ UNCHANGED <<redisVars, redis, closing, timer, try, posts, acked, faults,
                 crashes>>
LogCreate(e) ==
  /\ Goes(e, "idle", "add")
  /\ \/ /\ kept' = [kept EXCEPT ![e] = "db"]
        /\ log' = [log EXCEPT ![e] = "PENDING"]
        /\ Works
     \/ /\ e \in Direct /\ UNCHANGED logVars
        /\ Fails
     \/ /\ e \in Queued
        /\ kept' = [kept EXCEPT ![e] = "memory"]
        /\ log' = [log EXCEPT ![e] = "PENDING"]
        /\ Fails
  /\ UNCHANGED <<redisVars, redis, closing, timer, try, posts, acked, crashes>>

(* A queue that deliverWebhook finds closed refuses; enqueue opens its own *)
(* again (init).  deliverWebhook only logs a refusal.                      *)
AddJob(e) ==
  /\ redis
  /\ \/ /\ Goes(e, "add", "wait")
        /\ ~(closing /\ e \in Direct)
        /\ job' = [job EXCEPT ![e] = "waiting"]
        /\ Works
     \/ /\ Goes(e, "add", "done")
        /\ IF closing /\ e \in Direct THEN Works ELSE Fails
        /\ UNCHANGED job
  /\ UNCHANGED <<logVars, made, stalled, redis, closing, timer, try, posts,
                 acked, crashes>>

(* Without Redis deliverWebhook makes the first attempt itself.            *)
StartInMemory(e) ==
  /\ ~redis
  /\ \/ /\ e \in Direct
        /\ Goes(e, "add", "post")
        /\ try' = [try EXCEPT ![e] = 1]
        /\ UNCHANGED timer
     \/ /\ e \in Queued
        /\ Goes(e, "add", "wait")
        /\ timer' = [timer EXCEPT ![e] = 1]
        /\ UNCHANGED try
  /\ UNCHANGED <<logVars, redisVars, redis, closing, posts, acked, faults,
                 crashes>>
-----------------------------------------------------------------------------
(* The worker takes a job; a timer fires.                                  *)
TakeJob(e) ==
  /\ redis /\ ~closing
  /\ job[e] = "waiting"
  /\ Goes(e, "wait", "post")
  /\ job' = [job EXCEPT ![e] = "active"]
  /\ try' = [try EXCEPT ![e] = made[e] + 1]
  /\ UNCHANGED <<logVars, made, stalled, redis, closing, timer, posts, acked,
                 faults, crashes>>

TimerFires(e) ==
  /\ timer[e] > 0
  /\ Goes(e, "wait", "post")
  /\ try' = [try EXCEPT ![e] = timer[e]]
  /\ timer' = [timer EXCEPT ![e] = 0]
  /\ UNCHANGED <<logVars, redisVars, redis, closing, posts, acked, faults,
                 crashes>>

Reaches(e) == posts' = [posts EXCEPT ![e] = @ + 1]

(* Defect: any answer of the merchant counts as success. *)
BugPost(e) ==
  /\ \/ /\ Goes(e, "post", "ok")
        /\ Reaches(e) /\ acked' \in {acked, acked \cup {e}}
     \/ Goes(e, "post", "caught") /\ UNCHANGED <<posts, acked>>
  /\ UNCHANGED <<logVars, redisVars, redis, closing, timer, try, faults,
                 crashes>>
(* fetch: 2xx; another answer, which the code in memory treats as it does  *)
(* an error; or an error or a timeout, the request having arrived or not.  *)
Post(e) ==
  /\ \/ Goes(e, "post", "ok") /\ Reaches(e) /\ acked' = acked \cup {e}
     \/ /\ Goes(e, "post", IF Persistent(e) \/ e \in Queued
                             THEN "refused" ELSE "caught")
        /\ Reaches(e) /\ UNCHANGED acked
     \/ /\ Goes(e, "post", "caught")
        /\ \/ Reaches(e) /\ acked' \in {acked, acked \cup {e}}
           \/ UNCHANGED <<posts, acked>>
  /\ UNCHANGED <<logVars, redisVars, redis, closing, timer, try, faults,
                 crashes>>

(* Defect: an answer of 2xx is booked, and the job throws all the same. *)
BugWriteOk(e) ==
  /\ Goes(e, "ok", IF Persistent(e) \/ e \in Queued THEN "throw" ELSE "done")
  /\ Updated(e, "SUCCESS")
  /\ UNCHANGED <<kept, redisVars, redis, closing, timer, try, posts, acked,
                 crashes>>
WriteOk(e) ==
  /\ \/ /\ e \in Direct /\ Persistent(e)
        /\ \/ Goes(e, "ok", "return") /\ Written(e, "SUCCESS")
           \/ Goes(e, "ok", "caught") /\ NotWritten(e)
     \/ /\ e \in Direct /\ ~Persistent(e)
        /\ Goes(e, "ok", "done")
        /\ Written(e, "SUCCESS") \/ NotWritten(e)
     \/ /\ e \in Queued
        /\ Goes(e, "ok", "return")
        /\ Updated(e, "SUCCESS")
  /\ UNCHANGED <<kept, redisVars, redis, closing, timer, try, posts, acked,
                 crashes>>

(* Only processWebhookJob and deliverRequest write here; both then throw,  *)
(* the latter not for the last attempt.                                    *)
WriteRefused(e) ==
  /\ \/ /\ e \in Direct
        /\ Goes(e, "refused", "caught")
        /\ Written(e, "RETRYING") \/ NotWritten(e)
     \/ /\ e \in Queued /\ Final(e)
        /\ Goes(e, "refused", "return")
        /\ Updated(e, "FAILED")
     \/ /\ e \in Queued /\ ~Final(e)
        /\ Goes(e, "refused", "caught")
        /\ Updated(e, "RETRYING")
  /\ UNCHANGED <<kept, redisVars, redis, closing, timer, try, posts, acked,
                 crashes>>

(* The catch: the last attempt ends the job without an error.              *)
CatchInJob(e) ==
  /\ Persistent(e) \/ e \in Queued
  /\ \/ /\ Goes(e, "caught", IF Final(e) THEN "return" ELSE "throw")
        /\ LET st == IF Final(e) THEN "FAILED" ELSE "RETRYING"
           IN  IF e \in Direct THEN Written(e, st) ELSE Updated(e, st)
     \/ e \in Direct /\ Goes(e, "caught", "throw") /\ NotWritten(e)
  /\ UNCHANGED <<kept, redisVars, redis, closing, timer, try, posts, acked,
                 crashes>>

(* handleInMemoryRetry *)
CatchInMemory(e) ==
  /\ e \in Direct /\ ~Persistent(e)
  /\ \/ /\ Final(e)
        /\ Goes(e, "caught", "done")
        /\ Written(e, "FAILED") \/ NotWritten(e)
        /\ UNCHANGED timer
     \/ /\ ~Final(e)
        /\ Goes(e, "caught", "wait")
        /\ Written(e, "RETRYING") \/ NotWritten(e)
        /\ timer' = [timer EXCEPT ![e] = try[e] + 1]
  /\ UNCHANGED <<kept, redisVars, redis, closing, try, posts, acked, crashes>>

(* BullMQ: a job that returns is completed; one that throws is tried again *)
(* until it has been tried as often as it may.                             *)
JobReturns(e) ==
  /\ Goes(e, "return", "done")
  /\ job' = IF Persistent(e) THEN [job EXCEPT ![e] = "completed"] ELSE job
  /\ UNCHANGED <<logVars, made, stalled, redis, closing, timer, try, posts,
                 acked, faults, crashes>>

(* Defect: an error ends the job. *)
BugJobThrows(e) ==
  /\ Persistent(e)
  /\ Goes(e, "throw", "done")
  /\ made' = [made EXCEPT ![e] = @ + 1]
  /\ job' = [job EXCEPT ![e] = "failed"]
  /\ UNCHANGED <<logVars, stalled, redis, closing, timer, try, posts, acked,
                 faults, crashes>>
JobThrows(e) ==
  /\ Persistent(e)
  /\ made' = [made EXCEPT ![e] = @ + 1]
  /\ \/ /\ made'[e] < MaxAttempts[e]
        /\ Goes(e, "throw", "wait")
        /\ job' = [job EXCEPT ![e] = "waiting"]
     \/ /\ made'[e] >= MaxAttempts[e]
        /\ Goes(e, "throw", "done")
        /\ job' = [job EXCEPT ![e] = "failed"]
  /\ UNCHANGED <<logVars, stalled, redis, closing, timer, try, posts, acked,
                 faults, crashes>>

(* Defect: no timer is set after an attempt that failed. *)
BugTimerThrows(e) ==
  /\ ~Persistent(e)
  /\ Goes(e, "throw", "wait")
  /\ UNCHANGED <<logVars, redisVars, redis, closing, timer, try, posts, acked,
                 faults, crashes>>
(* scheduleInMemoryDelivery's catch *)
TimerThrows(e) ==
  /\ ~Persistent(e)
  /\ Goes(e, "throw", "wait")
  /\ timer' = [timer EXCEPT ![e] = try[e] + 1]
  /\ UNCHANGED <<logVars, redisVars, redis, closing, try, posts, acked, faults,
                 crashes>>
-----------------------------------------------------------------------------
(* What is in memory is lost; the job that was being worked on is found    *)
(* stalled and given out again, once.  The next process looks for Redis    *)
(* anew.                                                                   *)
NewProcess ==
  /\ redis' \in BOOLEAN /\ closing' = FALSE
  /\ timer' = [e \in Events |-> 0]
  /\ LET active == {e \in Events : job[e] = "active"}
     IN  /\ stalled' = stalled \cup active
         /\ job' = [e \in Events |-> IF e \notin active THEN job[e]
                       ELSE IF e \in stalled THEN "failed" ELSE "waiting"]
  /\ pc' = [e \in Events |-> IF pc[e] = "idle" THEN "idle"
               ELSE IF job'[e] = "waiting" THEN "wait" ELSE "done"]
  /\ LET lost == {e \in Events : kept[e] = "memory"}
     IN  /\ kept' = [e \in Events |-> IF e \in lost THEN "nowhere" ELSE kept[e]]
         /\ log' = [e \in Events |-> IF e \in lost THEN "ABSENT" ELSE log[e]]
  /\ UNCHANGED <<made, try, posts, acked, faults>>

Crash ==
  /\ crashes < MaxCrashes /\ crashes' = crashes + 1
  /\ NewProcess

(* WebhookQueueService.shutdown clears its timers. *)
ClearTimers ==
  timer' = [e \in Events |-> IF e \in Queued THEN 0 ELSE timer[e]]

(* The workers wait for the jobs they have; the server is closed last, so  *)
(* until the process exits requests go on coming in.                       *)
Shutdown ==
  /\ crashes < MaxCrashes /\ crashes' = crashes + 1
  /\ \A e \in Events : job[e] # "active"
  /\ closing' = TRUE
  /\ ClearTimers
  /\ UNCHANGED <<logVars, redisVars, redis, pc, try, posts, acked, faults>>

Exit ==
  /\ closing
  /\ NewProcess
  /\ UNCHANGED crashes

Step(e) ==
  \/ AddJob(e) \/ StartInMemory(e) \/ TakeJob(e) \/ TimerFires(e) \/ Post(e)
  \/ WriteOk(e) \/ WriteRefused(e) \/ CatchInJob(e) \/ CatchInMemory(e)
  \/ JobReturns(e) \/ JobThrows(e) \/ TimerThrows(e)

Next ==
  \/ \E e \in Events : LogCreate(e) \/ Step(e)
  \/ Crash \/ Shutdown \/ Exit

Spec == Init /\ [][Next]_vars

(* Attempts, workers, timers and an exit that has begun go on.             *)
Fairness == WF_vars(Exit) /\ \A e \in Events : WF_vars(Step(e))

FairSpec == Spec /\ Fairness
=============================================================================
