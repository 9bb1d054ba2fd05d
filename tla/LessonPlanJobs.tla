--------------------------- MODULE LessonPlanJobs ---------------------------
(***************************************************************************)
(* The life of a lesson plan job: the API request that inserts the row and *)
(* publishes the task (lesson_plan_service.trigger_generation), the Celery *)
(* message with late acknowledgement and one retry, the run of the task in *)
(* a worker (generation_tasks._run_generation and _fail), the owner who    *)
(* edits or deletes the plan meanwhile, and the status the browser is told *)
(* (lesson_plan_service.get_job_status).                                   *)
(*                                                                         *)
(* Every step below is one database commit, one broker operation or one    *)
(* read whose result is used after an await, so that all interleavings of  *)
(* runs of the same plan are explored.  Celery and Redis are external: a   *)
(* message that was not acknowledged is delivered again after its worker   *)
(* dies or loses its connection (and then the run goes on), a message      *)
(* whose pool process is killed (hard time limit) is acknowledged and gone. *)
(***************************************************************************)
EXTENDS Integers, FiniteSets

CONSTANTS
    Plans,          \* lesson_plans rows that may be created
    Msgs,           \* identities for broker messages (one per publication, and
                    \* one per redelivery of a message whose run goes on)
    MAX_RETRIES,    \* generation_tasks.MAX_RETRIES
    STALE_AFTER,    \* lesson_plan_service.STALE_AFTER, in clock ticks
    MaxRedeliveries \* bound: redeliveries of the messages of a plan

ASSUME PlansAssumption == Plans # {}
ASSUME RetriesAssumption == MAX_RETRIES \in Nat
ASSUME BoundsAssumption == STALE_AFTER \in Nat /\ MaxRedeliveries \in Nat

VARIABLES
    status,     \* lesson_plans.status; "absent": not inserted, "deleted": removed
    content,    \* lesson_plans.generated_content: what kind of value it holds
    meta,       \* lesson_plans.generation_meta: the stage, or how the run ended
    age,        \* time since lesson_plans.created_at, up to STALE_AFTER + 1
    request,    \* the trigger request: "none", "committed", then "answered"
    pc,         \* per message: where it is in the broker or in its run
    msg,        \* per message: the plan it is for and Celery's retry count
    seen,       \* per message: the status its run last loaded from the row
    editing,    \* an edit request read the plan as completed, not yet saved
    redelivered,\* per plan: redeliveries so far
    runs,       \* history, per plan: runs of the task that were started
    dup         \* history: a message was redelivered while its run went on, or
                \* after its retry was sent

rowVars == <<status, content, meta>>
brokerVars == <<pc, msg, seen>>
brokerHistory == <<redelivered, runs, dup>>
vars == <<status, content, meta, age, request, pc, msg, seen, editing,
          redelivered, runs, dup>>

-----------------------------------------------------------------------------
TERMINAL_STATUSES == {"completed", "failed"}

RowStatuses == {"pending", "processing"} \cup TERMINAL_STATUSES

Exists(p) == status[p] \in RowStatuses

\* A run between its first load of the row and its outcome.
Working == {"starting", "retrieving", "drafting", "repairing"}

\* A run executing task code, the marking of a failure included.
Running == Working \cup {"loading", "failing", "marking", "raising"}

\* A message the broker still holds or a worker has not acknowledged.  The
\* message of a run that has published its retry is "retried".
Pending(m) == pc[m] \in Running \cup {"queued", "acking"}

\* The identity of the next message: identities mean nothing, so any will do.
Fresh == IF \E m \in Msgs : pc[m] = "unused"
         THEN {CHOOSE m \in Msgs : pc[m] = "unused"} ELSE {}

\* Variant of IsFinalAttempt: the retry bound is compared too late.
IsFinalAttempt_OffByOne(m) == msg[m].retries > MAX_RETRIES

IsFinalAttempt(m) == msg[m].retries >= MAX_RETRIES

PlanOf(m) == msg[m].plan

TypeOK ==
    /\ status \in [Plans -> RowStatuses \cup {"absent", "deleted"}]
    /\ content \in [Plans -> {"null", "error", "module", "edited"}]
    /\ meta \in [Plans -> {"null", "retrieving", "drafting", "repairing",
                           "stats", "failed"}]
    /\ age \in [Plans -> 0..STALE_AFTER + 1]
    /\ request \in [Plans -> {"none", "committed", "answered"}]
    /\ pc \in [Msgs -> Running \cup {"unused", "queued", "retried", "acking",
                                     "done"}]
    /\ msg \in [Msgs -> [plan : Plans, retries : 0..MAX_RETRIES]]
    /\ seen \in [Msgs -> RowStatuses]
    /\ editing \in [Plans -> BOOLEAN]
    /\ redelivered \in [Plans -> Nat]
    /\ runs \in [Plans -> Nat]
    /\ dup \in [Plans -> BOOLEAN]

Init ==
    /\ status = [p \in Plans |-> "absent"]
    /\ content = [p \in Plans |-> "null"]
    /\ meta = [p \in Plans |-> "null"]
    /\ age = [p \in Plans |-> 0]
    /\ request = [p \in Plans |-> "none"]
    /\ pc = [m \in Msgs |-> "unused"]
    /\ msg = [m \in Msgs |-> [plan |-> CHOOSE p \in Plans : TRUE, retries |-> 0]]
    /\ seen = [m \in Msgs |-> "pending"]
    /\ editing = [p \in Plans |-> FALSE]
    /\ redelivered = [p \in Plans |-> 0]
    /\ runs = [p \in Plans |-> 0]
    /\ dup = [p \in Plans |-> FALSE]

-----------------------------------------------------------------------------
(* What get_job_status tells the browser, and what the quota counts.       *)

Stale(p) == age[p] > STALE_AFTER

\* Variant of Report: only a plan a worker has started can go stale.
Report_PendingNeverStale(p) ==
    IF status[p] = "processing" /\ Stale(p) THEN "failed" ELSE status[p]

Report(p) ==
    IF status[p] \notin TERMINAL_STATUSES /\ Stale(p) THEN "failed"
    ELSE status[p]

-----------------------------------------------------------------------------
(* The API: trigger, edit, delete.                                         *)

\* INSERT and COMMIT, before the task is published.
TriggerCommit(p) ==
    /\ request[p] = "none"
    /\ status' = [status EXCEPT ![p] = "pending"]
    /\ request' = [request EXCEPT ![p] = "committed"]
    /\ UNCHANGED <<content, meta, age, brokerVars, editing, brokerHistory>>

\* Variant of Enqueue: the task is published before the row is committed.
Enqueue_BeforeCommit(p) ==
    /\ \E m \in Fresh :
        /\ \A n \in Msgs : pc[n] # "unused" => msg[n].plan # p
        /\ pc' = [pc EXCEPT ![m] = "queued"]
        /\ msg' = [msg EXCEPT ![m] = [plan |-> p, retries |-> 0]]
    /\ UNCHANGED <<rowVars, age, request, seen, editing, brokerHistory>>

\* Variant of Enqueue: the request publishes again when it is repeated.
Enqueue_Repeats(p) ==
    /\ request[p] = "committed"
    /\ \E m \in Fresh :
        /\ pc' = [pc EXCEPT ![m] = "queued"]
        /\ msg' = [msg EXCEPT ![m] = [plan |-> p, retries |-> 0]]
    /\ UNCHANGED <<rowVars, age, request, seen, editing, brokerHistory>>

\* apply_async: a message with retry count 0.
Enqueue(p) ==
    /\ request[p] = "committed"
    /\ request' = [request EXCEPT ![p] = "answered"]
    /\ \E m \in Fresh :
        /\ pc' = [pc EXCEPT ![m] = "queued"]
        /\ msg' = [msg EXCEPT ![m] = [plan |-> p, retries |-> 0]]
    /\ UNCHANGED <<rowVars, age, seen, editing, brokerHistory>>

\* apply_async raises, or the API process dies: the committed row stays.
EnqueueFails(p) ==
    /\ request[p] = "committed"
    /\ request' = [request EXCEPT ![p] = "answered"]
    /\ UNCHANGED <<rowVars, age, brokerVars, editing, brokerHistory>>

\* PUT /lesson-plans/{id}: only a completed plan can be edited; the status is
\* read in one statement and the content written in a later one.
UpdateContentLoad(p) ==
    /\ status[p] = "completed"
    /\ ~editing[p]
    /\ editing' = [editing EXCEPT ![p] = TRUE]
    /\ UNCHANGED <<rowVars, age, request, brokerVars, brokerHistory>>

UpdateContentSave(p) ==
    /\ editing[p]
    /\ editing' = [editing EXCEPT ![p] = FALSE]
    /\ content' = IF Exists(p) THEN [content EXCEPT ![p] = "edited"]
                  ELSE content
    /\ UNCHANGED <<status, meta, age, request, brokerVars, brokerHistory>>

\* DELETE /lesson-plans/{id}: allowed in every status, also while a run works.
DeletePlan(p) ==
    /\ Exists(p)
    /\ status' = [status EXCEPT ![p] = "deleted"]
    /\ UNCHANGED <<content, meta, age, request, brokerVars, editing,
                   brokerHistory>>

-----------------------------------------------------------------------------
(* The run of the task.  A commit through a row that is gone raises, which *)
(* is one of the causes of Fault.                                          *)

Goto(m, label) == pc' = [pc EXCEPT ![m] = label]

RunFrame == UNCHANGED <<age, request, msg, editing, brokerHistory>>

\* A worker takes the message and starts the task.
Deliver(m) ==
    /\ pc[m] = "queued"
    /\ Goto(m, "loading")
    /\ runs' = [runs EXCEPT ![PlanOf(m)] = @ + 1]
    /\ UNCHANGED <<rowVars, age, request, msg, seen, editing, redelivered, dup>>

\* lesson_plan_repo.get: a missing or completed plan ends the run.
Skip(m) ==
    /\ pc[m] = "loading"
    /\ ~Exists(PlanOf(m)) \/ status[PlanOf(m)] = "completed"
    /\ Goto(m, "acking")
    /\ UNCHANGED <<rowVars, seen>>
    /\ RunFrame

\* Variant of Load: a finished plan is generated again.
Load_Anything(m) ==
    /\ pc[m] = "loading"
    /\ Exists(PlanOf(m))
    /\ seen' = [seen EXCEPT ![m] = status[PlanOf(m)]]
    /\ Goto(m, "starting")
    /\ UNCHANGED rowVars
    /\ RunFrame

Load(m) ==
    /\ pc[m] = "loading"
    /\ Exists(PlanOf(m))
    /\ status[PlanOf(m)] # "completed"
    /\ seen' = [seen EXCEPT ![m] = status[PlanOf(m)]]
    /\ Goto(m, "starting")
    /\ UNCHANGED rowVars
    /\ RunFrame

\* status = "processing", stage "retrieving".  The ORM writes the columns whose
\* loaded value changed: a row loaded as "processing" keeps its present status.
Start(m) ==
    LET p == PlanOf(m) IN
    /\ pc[m] = "starting"
    /\ Exists(p)
    /\ status' = IF seen[m] = "processing" THEN status
                 ELSE [status EXCEPT ![p] = "processing"]
    /\ meta' = [meta EXCEPT ![p] = "retrieving"]
    /\ Goto(m, "retrieving")
    /\ UNCHANGED <<content, seen>>
    /\ RunFrame

\* set_stage: the stage alone is committed.
SetStage(m, from, to) ==
    /\ pc[m] = from
    /\ Exists(PlanOf(m))
    /\ meta' = [meta EXCEPT ![PlanOf(m)] = to]
    /\ Goto(m, to)
    /\ UNCHANGED <<status, content, seen>>
    /\ RunFrame

\* Passages were retrieved; on to the draft.
Draft(m) == SetStage(m, "retrieving", "drafting")

\* The first answer had problems; on to the one repair call.
Repair(m) == SetStage(m, "drafting", "repairing")

\* What follows an exception that is none of PERMANENT_ERRORS: the last attempt
\* marks the plan failed, an earlier one lets Celery retry.
AfterFault(m) == IF IsFinalAttempt(m) THEN "failing" ELSE "raising"

\* Variant of Complete: the stage is left on the finished plan.
Complete_KeepsStage(m) ==
    LET p == PlanOf(m) IN
    /\ pc[m] \in {"drafting", "repairing"}
    /\ Exists(p)
    /\ status' = [status EXCEPT ![p] = "completed"]
    /\ content' = [content EXCEPT ![p] = "module"]
    /\ Goto(m, "acking")
    /\ UNCHANGED <<meta, seen>>
    /\ RunFrame

\* A usable answer: the module, its provenance and the status in one commit, after
\* which the run ends unless an exception comes even then.
Complete(m) ==
    LET p == PlanOf(m) IN
    /\ pc[m] \in {"drafting", "repairing"}
    /\ Exists(p)
    /\ status' = [status EXCEPT ![p] = "completed"]
    /\ content' = [content EXCEPT ![p] = "module"]
    /\ meta' = [meta EXCEPT ![p] = "stats"]
    /\ \E next \in {"acking", AfterFault(m)} : Goto(m, next)
    /\ UNCHANGED seen
    /\ RunFrame

\* One of PERMANENT_ERRORS: nothing relevant retrieved, unusable output,
\* blocked content, or the model API down.
StopPermanently(m) ==
    /\ pc[m] \in {"retrieving", "drafting", "repairing"}
    /\ Goto(m, "failing")
    /\ UNCHANGED <<rowVars, seen>>
    /\ RunFrame

\* Variant of Fault: a plan that will be retried waits as "pending" again.
Fault_Requeues(m) ==
    /\ pc[m] \in Working \cup {"loading"}
    /\ Goto(m, AfterFault(m))
    /\ status' = IF IsFinalAttempt(m) \/ ~Exists(PlanOf(m)) THEN status
                 ELSE [status EXCEPT ![PlanOf(m)] = "pending"]
    /\ UNCHANGED <<content, meta, seen>>
    /\ RunFrame

\* Any other exception.
Fault(m) ==
    /\ pc[m] \in Working \cup {"loading"}
    /\ Goto(m, AfterFault(m))
    /\ UNCHANGED <<rowVars, seen>>
    /\ RunFrame

\* An exception leaves _run_generation: self.retry gives up after the last attempt.
AfterEscape(m) == IF IsFinalAttempt(m) THEN "acking" ELSE "raising"

\* _fail, in a session of its own: get, then commit.
FailLoad(m) ==
    LET p == PlanOf(m) IN
    /\ pc[m] = "failing"
    /\ \/ /\ ~Exists(p)
          /\ Goto(m, "acking")
          /\ UNCHANGED seen
       \/ /\ Exists(p)
          /\ seen' = [seen EXCEPT ![m] = status[p]]
          /\ Goto(m, "marking")
    /\ UNCHANGED rowVars
    /\ RunFrame

\* An exception at the commit leaves _fail although the row was written.
FailCommit(m) ==
    LET p == PlanOf(m) IN
    /\ pc[m] = "marking"
    /\ Exists(p)
    /\ status' = IF seen[m] = "failed" THEN status
                 ELSE [status EXCEPT ![p] = "failed"]
    /\ content' = [content EXCEPT ![p] = "error"]
    /\ meta' = [meta EXCEPT ![p] = "failed"]
    /\ \E next \in {"acking", AfterEscape(m)} : Goto(m, next)
    /\ UNCHANGED seen
    /\ RunFrame

\* The exception leaves _run_generation: _fail itself fails, or the soft time
\* limit interrupts the event loop.
Escape(m) ==
    /\ pc[m] \in Running \ {"raising"}
    /\ Goto(m, AfterEscape(m))
    /\ UNCHANGED <<rowVars, seen>>
    /\ RunFrame

\* self.retry publishes the next attempt; this message is acknowledged later.
PublishRetry(m) ==
    /\ pc[m] = "raising"
    /\ \E n \in Fresh :
        /\ pc' = [pc EXCEPT ![m] = "retried", ![n] = "queued"]
        /\ msg' = [msg EXCEPT ![n] = [plan |-> PlanOf(m),
                                      retries |-> msg[m].retries + 1]]
    /\ UNCHANGED <<rowVars, age, request, seen, editing, brokerHistory>>

\* The broker refuses the publication, or the pool process is killed (hard time
\* limit): the message is acknowledged as failed and nothing follows it.
Lose(m) ==
    /\ pc[m] \in Running
    /\ Goto(m, "done")
    /\ UNCHANGED <<rowVars, seen>>
    /\ RunFrame

Ack(m) ==
    /\ pc[m] \in {"acking", "retried"}
    /\ Goto(m, "done")
    /\ UNCHANGED <<rowVars, seen>>
    /\ RunFrame

\* The worker dies before the acknowledgement: the message is delivered again.
WorkerCrash(m) ==
    LET p == PlanOf(m) IN
    /\ redelivered[p] < MaxRedeliveries
    /\ pc[m] \in Running \cup {"acking", "retried"}
    /\ redelivered' = [redelivered EXCEPT ![p] = @ + 1]
    /\ Goto(m, "queued")
    /\ dup' = [dup EXCEPT ![p] = @ \/ pc[m] = "retried"]
    /\ UNCHANGED <<rowVars, age, request, msg, seen, editing, runs>>

\* The worker loses its connection to the broker: the message is delivered again,
\* as n, while the run of m goes on and can no longer acknowledge it.
ConnectionLost(m) ==
    LET p == PlanOf(m) IN
    /\ redelivered[p] < MaxRedeliveries
    /\ pc[m] \in Running \cup {"acking", "retried"}
    /\ \E n \in Fresh :
        /\ pc' = [pc EXCEPT ![n] = "queued"]
        /\ msg' = [msg EXCEPT ![n] = msg[m]]
    /\ redelivered' = [redelivered EXCEPT ![p] = @ + 1]
    /\ dup' = [dup EXCEPT ![p] = TRUE]
    /\ UNCHANGED <<rowVars, age, request, seen, editing, runs>>

\* Time passes; an age above STALE_AFTER need not grow further.
Tick ==
    /\ \E p \in Plans : request[p] # "none" /\ age[p] <= STALE_AFTER
    /\ age' = [p \in Plans |->
                 IF request[p] # "none" /\ age[p] <= STALE_AFTER
                 THEN age[p] + 1 ELSE age[p]]
    /\ UNCHANGED <<rowVars, request, brokerVars, editing, brokerHistory>>

-----------------------------------------------------------------------------
Owner(p) == \/ TriggerCommit(p) \/ Enqueue(p) \/ EnqueueFails(p)
            \/ UpdateContentLoad(p) \/ UpdateContentSave(p) \/ DeletePlan(p)

Run(m) == \/ Deliver(m) \/ Skip(m) \/ Load(m) \/ Start(m) \/ Draft(m)
          \/ Repair(m) \/ Complete(m) \/ StopPermanently(m) \/ Fault(m)
          \/ FailLoad(m) \/ FailCommit(m) \/ Escape(m) \/ PublishRetry(m)
          \/ Lose(m) \/ Ack(m)

Next == \/ \E p \in Plans : Owner(p)
        \/ \E m \in Msgs : Run(m) \/ WorkerCrash(m) \/ ConnectionLost(m)
        \/ Tick

Spec == Init /\ [][Next]_vars

\* Time passes.  Nothing else is assumed: the worker may be down for ever.
FairSpec == Spec /\ WF_vars(Tick)

-----------------------------------------------------------------------------
(* Properties.                                                             *)

\* A run that looks for its row finds it unless the owner deleted it: the row
\* is committed before the task is published (trigger_generation).
WorkerFindsRow ==
    \A m \in Msgs : pc[m] = "loading" => status[PlanOf(m)] # "absent"

\* At most one message of a plan is queued or being worked on, however often
\* runs fault, are killed, are retried or are redelivered, unless a message was
\* redelivered while its run went on, or between the publication of its retry and
\* its acknowledgement.
ExclusiveRun ==
    \A m, n \in Msgs :
        /\ Pending(m)
        /\ Pending(n)
        /\ PlanOf(m) = PlanOf(n)
        /\ ~dup[PlanOf(m)]
        => m = n

\* The task is run at most MAX_RETRIES + 1 times for one request, and once more for
\* every redelivery: a message that is delivered again goes on with the attempts
\* it has left and does not start anew (same exception as ExclusiveRun).
AttemptsBounded ==
    \A p \in Plans : ~dup[p] => runs[p] <= MAX_RETRIES + 1 + redelivered[p]

\* The redelivered message of a completed plan never puts the plan back in
\* progress and never replaces the content the owner has edited by a module
\* generated again (same exception as ExclusiveRun).
NeverRegenerated ==
    [][\A p \in Plans : status[p] = "completed" /\ ~dup[p] =>
          /\ status'[p] # "processing"
          /\ content[p] = "edited" => content'[p] # "module"]_vars

\* A completed plan holds a module with the provenance of the run that made
\* it, never a stage or an error left by another writer of the row (same
\* exception as ExclusiveRun).
CompletedIsWhole ==
    \A p \in Plans : status[p] = "completed" /\ ~dup[p] =>
        content[p] \in {"module", "edited"} /\ meta[p] = "stats"

\* What the followers of a plan are told in its life.
Told == [p \in Plans |-> IF Exists(p) THEN Report(p)
                         ELSE IF status[p] = "absent" THEN "none" ELSE "gone"]

Contract == INSTANCE JobContract WITH Jobs <- Plans, told <- Told, again <- dup

\* Followers are told a legal life of the job: never "pending" again, never a
\* status after the deletion, and "processing" after "completed" only if the
\* plan was redelivered beside another run of it (get_job_status).
KeepsContract == Contract!Spec

\* Every job the browser follows ends: whatever happens to the broker and the
\* workers, the reported status becomes terminal or the plan is deleted.
JobsReported ==
    \A p \in Plans :
        request[p] = "committed" ~>
            Report(p) \in TERMINAL_STATUSES \cup {"deleted"}

=============================================================================
