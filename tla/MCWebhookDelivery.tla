-------------------------- MODULE MCWebhookDelivery --------------------------
(***************************************************************************)
(* Instances of WebhookDelivery for TLC: every endpoint is subscribed to   *)
(* every event.                                                            *)
(***************************************************************************)
EXTENDS WebhookDelivery

EverySubscription == Endpoint \X Event
=============================================================================
