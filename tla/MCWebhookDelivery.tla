-------------------------- MODULE MCWebhookDelivery --------------------------
(***************************************************************************)
(* Instances of the webhook delivery for TLC.                              *)
(***************************************************************************)
EXTENDS WebhookDelivery, TLC

WorkerSymmetry == Permutations(Workers)
=============================================================================
