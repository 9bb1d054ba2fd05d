------------------------------- MODULE Lists -------------------------------
(***************************************************************************)
(* Sequences that are sorted, filtered, cut and joined: what the code does *)
(* with sorted, comprehensions, split and join.                            *)
(***************************************************************************)
EXTENDS Integers, FiniteSets, SequencesExt

\* The members of S, those with fewer of S before them first: S sorted by a
\* strict order, given as a set of pairs.
Listing(S, order) ==
    [i \in 1..Cardinality(S) |->
        CHOOSE x \in S : Cardinality({y \in S : <<y, x>> \in order}) = i - 1]

\* What stands at these positions of s.
At(s, positions) == [i \in DOMAIN positions |-> s[positions[i]]]
Sorted(s, order) == At(s, Listing(DOMAIN s, order))

\* The members of S among 1..n, in order; and s without the other positions.
Places(S, n) == FlattenSeq([i \in 1..n |-> IF i \in S THEN <<i>> ELSE <<>>])
Kept(s, S) == At(s, Places(S, Len(s)))

\* The parts of s between the positions in Cuts.
Between(s, Cuts) ==
    LET ends == <<0>> \o Places(Cuts, Len(s)) \o <<Len(s) + 1>>
    IN [k \in 1..(Len(ends) - 1) |-> SubSeq(s, ends[k] + 1, ends[k + 1] - 1)]

\* s in runs, of which each but the first begins at a position in Starts.
Runs(s, Starts) ==
    LET begin == Places({1} \cup Starts, Len(s)) \o <<Len(s) + 1>>
    IN [k \in 1..(Len(begin) - 1) |-> SubSeq(s, begin[k], begin[k + 1] - 1)]

\* Sequences joined, with `glue` before each but the first.
Join(parts, glue) ==
    FlattenSeq([k \in DOMAIN parts |->
                   IF k = 1 THEN parts[k] ELSE glue \o parts[k]])

=============================================================================
