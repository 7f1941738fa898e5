------------------------------- MODULE MCMqtt -------------------------------
(* Instances of Mqtt for TLC. *)
EXTENDS Mqtt

CONSTANTS e1, e2
=============================================================================
