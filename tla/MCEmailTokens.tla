---------------------------- MODULE MCEmailTokens ----------------------------
(* Instances of EmailTokens for TLC. *)
EXTENDS EmailTokens, TLC

CONSTANTS t1, t2, t3, r1, r2

ThreeTokens == {t1, t2, t3}
TwoRequests == {r1, r2}
Symmetric == Permutations(Tokens) \cup Permutations(Requests)

=============================================================================
