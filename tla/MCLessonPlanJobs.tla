------------------------- MODULE MCLessonPlanJobs -------------------------
(* Instances of LessonPlanJobs for TLC. *)
EXTENDS LessonPlanJobs

CONSTANTS p1, m1, m2, m3

OnePlan == {p1}
ThreeMsgs == {m1, m2, m3}

=============================================================================
