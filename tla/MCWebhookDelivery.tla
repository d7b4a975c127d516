-------------------------- MODULE MCWebhookDelivery --------------------------
(* An instance of WebhookDelivery for TLC: two server processes (the       *)
(* default) and two events of one config.                                 *)
EXTENDS WebhookDelivery, TLC

CONSTANTS e1, e2, c1

OneConfig == (e1 :> c1) @@ (e2 :> c1)
=============================================================================
