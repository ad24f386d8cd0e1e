------------------------- MODULE MCWebhookDelivery -------------------------
(* One event of each kind, two attempts for each. *)
EXTENDS WebhookDeliveryProperties

MCMaxAttempts == [e \in Events |-> 2]
=============================================================================
