---------------------------- MODULE MCLLRPClient ----------------------------
(* Instances of LLRPClient for TLC. *)
EXTENDS LLRPClient

\* One place for reports and for events, two for edges.
MCSmallQueues == [q \in Queues |-> IF q = "edges" THEN 2 ELSE 1]

\* Everything a reader sends of its own accord.
MCAll == {"accepted", "refused", "garbage", "report", "keepalive", "gpi", "event"}
=============================================================================
