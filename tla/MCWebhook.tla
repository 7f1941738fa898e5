------------------------------ MODULE MCWebhook ------------------------------
(* Instances of Webhook for TLC. *)
EXTENDS Webhook

CONSTANTS e1, e2
=============================================================================
