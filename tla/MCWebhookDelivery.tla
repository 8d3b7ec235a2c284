-------------------------- MODULE MCWebhookDelivery ------------------------
(* WebhookDelivery for TLC: the constants are model values set in the .cfg *)
(* files; ids of which only equality matters are interchangeable.          *)
EXTENDS WebhookDelivery, TLC

Symmetry == Permutations(Deliveries) \cup Permutations(Workers) \cup Permutations(Crons)
=============================================================================
