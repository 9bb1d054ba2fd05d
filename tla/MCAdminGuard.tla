---------------------------- MODULE MCAdminGuard ----------------------------
(* Instances of AdminGuard for TLC. *)
EXTENDS AdminGuard, TLC

CONSTANTS u1, u2, r1, r2, r3

TwoUsers == {u1, u2}
ThreeCallers == {r1, r2, r3}

Symmetric == Permutations(Users) \cup Permutations(Callers)

=============================================================================
