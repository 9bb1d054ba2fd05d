---------------------------- MODULE JobContract ----------------------------
(***************************************************************************)
(* What a lesson plan job promises to those who follow it: the status they *)
(* are told (get_job_status, polled or streamed) whatever the broker, the  *)
(* workers and the clock do.  LessonPlanJobs implements it.                *)
(***************************************************************************)
CONSTANT Jobs

VARIABLES
    told,       \* "none" before the request, "gone" after the deletion
    again       \* a job that may be run again although it was completed

vars == <<told, again>>

Init ==
    /\ told = [j \in Jobs |-> "none"]
    /\ again = [j \in Jobs |-> FALSE]

Tell(j, news) == told' = [told EXCEPT ![j] = news] /\ UNCHANGED again

Submit(j) == told[j] = "none" /\ Tell(j, "pending")

\* A worker starts: the first time, or the retry after a failed attempt.
Begin(j) ==
    /\ told[j] \in {"pending", "failed"} \/ (told[j] = "completed" /\ again[j])
    /\ Tell(j, "processing")

Succeed(j) == told[j] \in {"pending", "processing", "failed"} /\ Tell(j, "completed")

\* A run fails; it may even be a run whose result was committed already.
Fail(j) == told[j] \in {"pending", "processing", "completed"} /\ Tell(j, "failed")

\* Several jobs are given up at once when they have lasted too long.
GiveUp(late) ==
    /\ \A j \in late : told[j] \in {"pending", "processing"}
    /\ told' = [j \in Jobs |-> IF j \in late THEN "failed" ELSE told[j]]
    /\ UNCHANGED again

Remove(j) ==
    /\ told[j] \in {"pending", "processing", "completed", "failed"}
    /\ Tell(j, "gone")

\* A message is delivered once more beside its run or its retry.
Redeliver(j) ==
    /\ again' = [again EXCEPT ![j] = TRUE]
    /\ UNCHANGED told

Next ==
    \/ \E j \in Jobs : \/ Submit(j) \/ Begin(j) \/ Succeed(j) \/ Fail(j)
                       \/ Remove(j) \/ Redeliver(j)
    \/ \E late \in SUBSET Jobs : GiveUp(late)

Spec == Init /\ [][Next]_vars

=============================================================================
