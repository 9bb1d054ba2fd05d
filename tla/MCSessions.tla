----------------------------- MODULE MCSessions -----------------------------
(* Instances of Sessions for TLC. *)
EXTENDS Sessions, TLC

CONSTANTS t1, t2, t3, f1, f2, r1, r2

ThreeTokens == {t1, t2, t3}
TwoFamilies == {f1, f2}
TwoRequests == {r1, r2}

Symmetric == Permutations(Tokens) \cup Permutations(Families)
                \cup Permutations(Requests)

=============================================================================
