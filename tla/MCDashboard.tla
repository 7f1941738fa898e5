---------------------------- MODULE MCDashboard ----------------------------
(* Instances of Dashboard for TLC. *)
EXTENDS Dashboard

CONSTANTS r1, r2, r3
=============================================================================
