----------------------------- MODULE MCIngestion -----------------------------
(* Instances of Ingestion for TLC. *)
EXTENDS Ingestion

CONSTANTS j1, j2, j3, l1

ThreeJobs == {j1, j2, j3}
OneLabel == {l1}

=============================================================================
