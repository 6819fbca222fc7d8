-------------------------- MODULE MCWebhookDelivery --------------------------
(* Instances of WebhookDelivery for TLC. *)
EXTENDS WebhookDelivery, TLC

Symmetry == Permutations(Requests) \cup Permutations(Deliveries \ Closed)
=============================================================================
