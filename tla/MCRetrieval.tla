----------------------------- MODULE MCRetrieval -----------------------------
(* Instances of Retrieval for TLC. *)
EXTENDS Retrieval

CONSTANTS t1, t2, t3

ThreeTexts == {t1, t2, t3}

\* Two short texts fill the cap exactly, a short and a middle one pass it by
\* one, a long one passes it alone and is cut to leave room or not.
SomeLengths == {2, 3, 6}

TextSymmetry == Permutations(ThreeTexts)

=============================================================================
