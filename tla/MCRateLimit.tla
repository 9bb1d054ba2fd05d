----------------------------- MODULE MCRateLimit -----------------------------
(* Instances of RateLimit for TLC. *)
EXTENDS RateLimit

CONSTANTS r1, r2, r3, r4

FourCalls == {r1, r2, r3, r4}

=============================================================================
