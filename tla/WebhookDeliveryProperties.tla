--------------------- MODULE WebhookDeliveryProperties ---------------------
(* What is claimed of webhook delivery. *)
EXTENDS WebhookDelivery

(* A log that says SUCCESS is of an event the merchant has accepted, and   *)
(* one that is FAILED of an event that was tried.                          *)
SuccessMeansAccepted ==
  \A e \in Events :
    /\ log[e] = "SUCCESS" => e \in acked
    /\ log[e] = "FAILED" => try[e] >= MaxAttempts[e]

(* However the writes of the log fail and wherever the process ends, the   *)
(* merchant gets an event no more often than it may be tried, plus once if *)
(* its job was found stalled.                                              *)
AttemptsBounded ==
  \A e \in Events :
    posts[e] <= MaxAttempts[e] + (IF e \in stalled THEN 1 ELSE 0)

(* A delivery recorded as SUCCESS is not made again or recorded otherwise  *)
(* while the process lives (after a crash between the record and the end   *)
(* of the job it may be).                                                  *)
SuccessStays ==
  [][\A e \in Events :
       log[e] = "SUCCESS" /\ crashes' = 0
         => log'[e] = "SUCCESS" /\ posts'[e] = posts[e]]_vars

(* "Survives server restarts (jobs persist in Redis)" (utils/webhook.ts):  *)
(* an event whose job is in Redis ends SUCCESS or FAILED through a restart *)
(* (a job found stalled twice is given up), unless a write was refused or  *)
(* the new process found no Redis.                                         *)
JobsSurvive ==
  \A e \in Events :
    job[e] = "waiting"
      ~> \/ log[e] \in {"SUCCESS", "FAILED"}
         \/ faults > 0 \/ ~redis \/ crashes > 1

(* Without Redis an event is tried to its end as long as the process lives.*)
TimersEnd ==
  \A e \in Events :
    log[e] = "PENDING"
      ~> log[e] \in {"SUCCESS", "FAILED"} \/ faults > 0 \/ crashes > 0
=============================================================================
