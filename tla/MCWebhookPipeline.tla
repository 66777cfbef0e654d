------------------------- MODULE MCWebhookPipeline -------------------------
(* WebhookPipeline for TLC: every endpoint wants every event.               *)
EXTENDS WebhookPipeline

MCDeliveries == Endpoint \X Event
MCEndpointOf == [d \in Delivery |-> d[1]]
=============================================================================
