---------------------------- MODULE MCUsageQueue ----------------------------
(* Instances of UsageQueue for TLC. *)
EXTENDS UsageQueueLog, TLC

CONSTANTS r1, r2, u1, u2

TwoUsers == (r1 :> u1) @@ (r2 :> u2)
OneUser  == (r1 :> u1)
=============================================================================
