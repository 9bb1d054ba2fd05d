------------------------------ MODULE MCQuota ------------------------------
(* One user who sends three requests; other users share nothing with them. *)
EXTENDS Quota, TLC

CONSTANTS u1, r1, r2, r3

OneUser == {u1}
ThreeRequests == {r1, r2, r3}
OneSender == [r \in ThreeRequests |-> u1]

Symmetric == Permutations(ThreeRequests)

=============================================================================
