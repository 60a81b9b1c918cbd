---------------------------- MODULE MCRateLimit ----------------------------
(* Instances of RateLimit for TLC. *)
EXTENDS RateLimit, TLC

CONSTANTS c1, c2, i1

TwoCalls == (c1 :> i1) @@ (c2 :> i1)
=============================================================================
