------------------------ MODULE LessonPlanJobs_proofs ------------------------
(***************************************************************************)
(* Theorems about LessonPlanJobs for any number of plans, messages,        *)
(* retries and redeliveries.  The inductive invariant adds to the exclusive run *)
(* the order of the trigger (row, then message), the retry count of a run  *)
(* that is about to publish its retry, and that no run works on a          *)
(* completed plan.                                                         *)
(***************************************************************************)
EXTENDS LessonPlanJobs, TLAPS

\* Messages are published by an answered request, whose row was inserted.
Published ==
    /\ \A m \in Msgs : pc[m] # "unused" => request[PlanOf(m)] = "answered"
    /\ \A p \in Plans : request[p] # "none" => status[p] # "absent"

RetryAllowed == \A m \in Msgs : pc[m] = "raising" => msg[m].retries < MAX_RETRIES

CompletedIsIdle ==
    \A m \in Msgs : /\ status[PlanOf(m)] = "completed"
                    /\ ~dup[PlanOf(m)]
                    => pc[m] \notin Working

IInv == TypeOK /\ Published /\ RetryAllowed /\ ExclusiveRun /\ CompletedIsIdle

USE RetriesAssumption, BoundsAssumption, PlansAssumption

LEMMA FreshIsUnused == \A n \in Fresh : n \in Msgs /\ pc[n] = "unused"
  BY DEF Fresh

\* A redelivery marks its plan at most, and always when its run goes on or its
\* retry was sent.
LEMMA RedeliveryMarks ==
    ASSUME TypeOK, NEW m \in Msgs, WorkerCrash(m) \/ ConnectionLost(m)
    PROVE  /\ PlanOf(m) \in Plans
           /\ \/ dup' = dup /\ WorkerCrash(m) /\ pc[m] # "retried"
              \/ dup' = [dup EXCEPT ![PlanOf(m)] = TRUE]
           /\ \A p \in Plans : dup[p] => dup'[p]
  <1>1. PlanOf(m) \in Plans
    BY DEF TypeOK, PlanOf
  <1>2. \/ dup' = dup /\ WorkerCrash(m) /\ pc[m] # "retried"
        \/ dup' = [dup EXCEPT ![PlanOf(m)] = TRUE]
    <2>1. CASE ConnectionLost(m)
      BY <2>1 DEF ConnectionLost
    <2>2. CASE WorkerCrash(m) /\ pc[m] = "retried"
      <3>1. (dup[PlanOf(m)] \/ pc[m] = "retried") = TRUE
        BY <2>2
      <3> QED BY <2>2, <3>1, Zenon DEF WorkerCrash
    <2>3. CASE WorkerCrash(m) /\ pc[m] # "retried"
      <3>1. dup[PlanOf(m)] \in BOOLEAN /\ dup = [dup EXCEPT ![PlanOf(m)] = dup[PlanOf(m)]]
        BY <1>1 DEF TypeOK
      <3>2. (dup[PlanOf(m)] \/ pc[m] = "retried") = dup[PlanOf(m)]
        BY <2>3, <3>1, Zenon
      <3>3. dup' = [dup EXCEPT ![PlanOf(m)] = dup[PlanOf(m)]]
        BY <2>3, <3>2, Zenon DEF WorkerCrash
      <3> QED BY <2>3, <3>1, <3>3
    <2> QED BY <2>1, <2>2, <2>3
  <1>3. \A p \in Plans : dup[p] => dup'[p]
    BY <1>1, <1>2 DEF TypeOK
  <1> QED BY <1>1, <1>2, <1>3

\* The ages stay in their range: Tick adds one to an age of at most STALE_AFTER.
LEMMA AgeBound == \A a \in 0..STALE_AFTER + 1 :
                      a <= STALE_AFTER => a + 1 \in 0..STALE_AFTER + 1
  OBVIOUS

LEMMA InitType == Init => TypeOK
  <1>1. (CHOOSE p \in Plans : TRUE) \in Plans
    OBVIOUS
  <1>2. 0 \in 0..MAX_RETRIES /\ 0 \in 0..STALE_AFTER + 1
    OBVIOUS
  <1> QED BY <1>1, <1>2 DEF Init, TypeOK, RowStatuses, TERMINAL_STATUSES,
                           Running, Working

LEMMA InitInv == Init => IInv
  BY InitType DEF Init, IInv, Published, RetryAllowed, ExclusiveRun, Pending,
                  Running, Working, CompletedIsIdle

\* A step of a run that changes only its own pc, and possibly the row and what
\* it has seen of it, keeps everything but the type of what it wrote and the
\* idleness of completed plans.
RunStep(m) == \/ Deliver(m) \/ Skip(m) \/ Load(m) \/ Start(m) \/ Draft(m)
              \/ Repair(m) \/ Complete(m) \/ StopPermanently(m) \/ Fault(m)
              \/ FailLoad(m) \/ FailCommit(m) \/ Escape(m) \/ Lose(m) \/ Ack(m)

\* Every step preserves the types of the variables.
LEMMA StepType == ASSUME TypeOK, RetryAllowed, [Next]_vars PROVE TypeOK'
  <1> USE DEF TypeOK, rowVars, brokerVars, brokerHistory
  <1>1. ASSUME NEW p \in Plans, Owner(p) PROVE TypeOK'
    <2>1. CASE TriggerCommit(p) BY <2>1 DEF TriggerCommit, RowStatuses
    <2>2. CASE Enqueue(p)
      <3>1. [plan |-> p, retries |-> 0] \in [plan : Plans, retries : 0..MAX_RETRIES]
        OBVIOUS
      <3> QED BY <2>2, <3>1, FreshIsUnused DEF Enqueue
    <2>3. CASE EnqueueFails(p) BY <2>3 DEF EnqueueFails
    <2>4. CASE UpdateContentLoad(p) BY <2>4 DEF UpdateContentLoad
    <2>5. CASE UpdateContentSave(p) BY <2>5 DEF UpdateContentSave
    <2>6. CASE DeletePlan(p) BY <2>6 DEF DeletePlan
    <2> QED BY <1>1, <2>1, <2>2, <2>3, <2>4, <2>5, <2>6 DEF Owner
  <1>2. ASSUME NEW m \in Msgs, RunStep(m) PROVE TypeOK'
    <2> USE DEF Running, Working, Goto, RunFrame, RowStatuses, TERMINAL_STATUSES
    <2>0. PlanOf(m) \in Plans BY DEF PlanOf
    <2>1. CASE Deliver(m) BY <2>0, <2>1 DEF Deliver
    <2>2. CASE Skip(m) BY <2>2 DEF Skip
    <2>3. CASE Load(m) BY <2>0, <2>3 DEF Load, Exists
    <2>4. CASE Start(m) BY <2>0, <2>4 DEF Start
    <2>5. CASE Draft(m) BY <2>0, <2>5 DEF Draft, SetStage
    <2>6. CASE Repair(m) BY <2>0, <2>6 DEF Repair, SetStage
    <2>7. CASE Complete(m) BY <2>0, <2>7 DEF Complete, AfterFault
    <2>8. CASE StopPermanently(m) BY <2>8 DEF StopPermanently
    <2>9. CASE Fault(m) BY <2>9 DEF Fault, AfterFault
    <2>10. CASE FailLoad(m) BY <2>0, <2>10 DEF FailLoad, Exists
    <2>11. CASE FailCommit(m) BY <2>0, <2>11 DEF FailCommit, AfterEscape
    <2>12. CASE Escape(m) BY <2>12 DEF Escape, AfterEscape
    <2>13. CASE Lose(m) BY <2>13 DEF Lose
    <2>14. CASE Ack(m) BY <2>14 DEF Ack
    <2> QED BY <1>2, <2>1, <2>2, <2>3, <2>4, <2>5, <2>6, <2>7, <2>8, <2>9,
               <2>10, <2>11, <2>12, <2>13, <2>14 DEF RunStep
  <1>3. ASSUME NEW m \in Msgs, PublishRetry(m) PROVE TypeOK'
    <2>1. msg[m].retries + 1 \in 0..MAX_RETRIES /\ PlanOf(m) \in Plans
      BY <1>3 DEF PublishRetry, RetryAllowed, PlanOf
    <2> QED BY <1>3, <2>1, FreshIsUnused DEF PublishRetry
  <1>4. ASSUME NEW m \in Msgs, WorkerCrash(m) PROVE TypeOK'
    BY <1>4 DEF WorkerCrash, Goto, PlanOf
  <1>7. ASSUME NEW m \in Msgs, ConnectionLost(m) PROVE TypeOK'
    BY <1>7, FreshIsUnused DEF ConnectionLost, PlanOf
  <1>5. CASE Tick BY <1>5, AgeBound DEF Tick
  <1>6. CASE UNCHANGED vars BY <1>6 DEF vars
  <1> QED BY <1>1, <1>2, <1>3, <1>4, <1>5, <1>6, <1>7 DEF Next, Run, RunStep

\* The row is inserted before its message exists, and never un-inserted.
LEMMA StepPublished ==
    ASSUME TypeOK, Published, [Next]_vars PROVE Published'
  <1> USE DEF TypeOK, Published, PlanOf, rowVars, brokerVars, brokerHistory
  <1>1. ASSUME NEW p \in Plans, Owner(p) PROVE Published'
    <2>1. CASE TriggerCommit(p) BY <2>1 DEF TriggerCommit
    <2>2. CASE Enqueue(p) BY <2>2, FreshIsUnused DEF Enqueue
    <2>3. CASE EnqueueFails(p) BY <2>3 DEF EnqueueFails
    <2>4. CASE UpdateContentLoad(p) BY <2>4 DEF UpdateContentLoad
    <2>5. CASE UpdateContentSave(p) BY <2>5 DEF UpdateContentSave
    <2>6. CASE DeletePlan(p) BY <2>6 DEF DeletePlan
    <2> QED BY <1>1, <2>1, <2>2, <2>3, <2>4, <2>5, <2>6 DEF Owner
  <1>2. ASSUME NEW m \in Msgs, RunStep(m) PROVE Published'
    <2>1. msg' = msg /\ request' = request
      BY <1>2 DEF RunStep, RunFrame, Deliver, Skip, Load, Start, Draft, Repair,
                  SetStage, Complete, StopPermanently, Fault, FailLoad,
                  FailCommit, Escape, Lose, Ack, AfterFault, AfterEscape
    <2>2. pc[m] # "unused" /\ \A n \in Msgs \ {m} : pc'[n] = pc[n]
      BY <1>2 DEF RunStep, Goto, Running, Working, Deliver, Skip, Load, Start,
                  Draft, Repair, SetStage, Complete, StopPermanently, Fault,
                  FailLoad, FailCommit, Escape, Lose, Ack, AfterFault, AfterEscape
    <2>3. \A p \in Plans : status'[p] = "absent" => status[p] = "absent"
      BY <1>2 DEF RunStep, Deliver, Skip, Load, Start, Draft, Repair, SetStage,
                  Complete, StopPermanently, Fault, FailLoad, FailCommit,
                  Escape, Lose, Ack, AfterFault, AfterEscape
    <2> QED BY <2>1, <2>2, <2>3
  <1>3. ASSUME NEW m \in Msgs, PublishRetry(m) PROVE Published'
    BY <1>3, FreshIsUnused DEF PublishRetry
  <1>4. ASSUME NEW m \in Msgs, WorkerCrash(m) PROVE Published'
    BY <1>4 DEF WorkerCrash, Goto, Running, Working
  <1>7. ASSUME NEW m \in Msgs, ConnectionLost(m) PROVE Published'
    BY <1>7, FreshIsUnused DEF ConnectionLost, Running, Working
  <1>5. CASE Tick BY <1>5 DEF Tick
  <1>6. CASE UNCHANGED vars BY <1>6 DEF vars
  <1> QED BY <1>1, <1>2, <1>3, <1>4, <1>5, <1>6, <1>7 DEF Next, Run, RunStep

\* Only the last attempt is told that it is final, so a run that raises has a
\* retry left.
LEMMA StepRetryAllowed ==
    ASSUME TypeOK, RetryAllowed, [Next]_vars PROVE RetryAllowed'
  <1> USE DEF TypeOK, RetryAllowed, rowVars, brokerVars, brokerHistory
  <1>1. ASSUME NEW p \in Plans, Owner(p) PROVE RetryAllowed'
    BY <1>1, FreshIsUnused
       DEF Owner, TriggerCommit, Enqueue, EnqueueFails, UpdateContentLoad,
           UpdateContentSave, DeletePlan
  <1>2. ASSUME NEW m \in Msgs, RunStep(m) PROVE RetryAllowed'
    <2>1. msg' = msg /\ \A n \in Msgs \ {m} : pc'[n] = pc[n]
      BY <1>2 DEF RunStep, RunFrame, Goto, Deliver, Skip, Load, Start, Draft,
                  Repair, SetStage, Complete, StopPermanently, Fault, FailLoad,
                  FailCommit, Escape, Lose, Ack, AfterFault, AfterEscape
    <2>2. pc'[m] = "raising" => ~IsFinalAttempt(m)
      BY <1>2 DEF RunStep, Goto, Deliver, Skip, Load, Start, Draft, Repair,
                  SetStage, Complete, StopPermanently, Fault, FailLoad,
                  FailCommit, Escape, Lose, Ack, AfterFault, AfterEscape
    <2> QED BY <2>1, <2>2 DEF IsFinalAttempt
  <1>3. ASSUME NEW m \in Msgs, PublishRetry(m) PROVE RetryAllowed'
    BY <1>3, FreshIsUnused DEF PublishRetry
  <1>4. ASSUME NEW m \in Msgs, WorkerCrash(m) PROVE RetryAllowed'
    BY <1>4 DEF WorkerCrash, Goto
  <1>7. ASSUME NEW m \in Msgs, ConnectionLost(m) PROVE RetryAllowed'
    BY <1>7, FreshIsUnused DEF ConnectionLost
  <1>5. CASE Tick BY <1>5 DEF Tick
  <1>6. CASE UNCHANGED vars BY <1>6 DEF vars
  <1> QED BY <1>1, <1>2, <1>3, <1>4, <1>5, <1>6, <1>7 DEF Next, Run, RunStep

\* A plan gets its first message from its one request, and another one only in
\* exchange for the message of the run that publishes it.
LEMMA StepExclusive ==
    ASSUME TypeOK, Published, ExclusiveRun, [Next]_vars PROVE ExclusiveRun'
  <1> USE DEF TypeOK, ExclusiveRun, Pending, PlanOf, Running, Working, rowVars,
              brokerVars, brokerHistory
  <1>1. ASSUME NEW p \in Plans, Owner(p) PROVE ExclusiveRun'
    <2>1. CASE Enqueue(p)
      <3>1. \A n \in Msgs : Pending(n) => msg[n].plan # p
        BY <2>1 DEF Enqueue, Published
      <3> QED BY <2>1, <3>1, FreshIsUnused DEF Enqueue
    <2>2. CASE \/ TriggerCommit(p) \/ EnqueueFails(p) \/ UpdateContentLoad(p)
               \/ UpdateContentSave(p) \/ DeletePlan(p)
      BY <2>2 DEF TriggerCommit, EnqueueFails, UpdateContentLoad,
                  UpdateContentSave, DeletePlan
    <2> QED BY <1>1, <2>1, <2>2 DEF Owner
  <1>2. ASSUME NEW m \in Msgs, RunStep(m) PROVE ExclusiveRun'
    <2>1. msg' = msg /\ dup' = dup /\ \A n \in Msgs \ {m} : pc'[n] = pc[n]
      BY <1>2 DEF RunStep, RunFrame, Goto, Deliver, Skip, Load, Start, Draft,
                  Repair, SetStage, Complete, StopPermanently, Fault, FailLoad,
                  FailCommit, Escape, Lose, Ack, AfterFault, AfterEscape
    <2>2. Pending(m)' => Pending(m)
      BY <1>2 DEF RunStep, Goto, Deliver, Skip, Load, Start, Draft, Repair,
                  SetStage, Complete, StopPermanently, Fault, FailLoad,
                  FailCommit, Escape, Lose, Ack, AfterFault, AfterEscape
    <2> QED BY <2>1, <2>2
  <1>3. ASSUME NEW m \in Msgs, PublishRetry(m) PROVE ExclusiveRun'
    <2>1. PICK n \in Msgs :
             /\ pc[n] = "unused"
             /\ pc' = [pc EXCEPT ![m] = "retried", ![n] = "queued"]
             /\ msg' = [msg EXCEPT ![n] = [plan |-> PlanOf(m),
                                           retries |-> msg[m].retries + 1]]
      BY <1>3, FreshIsUnused DEF PublishRetry
    <2>2. Pending(m) /\ ~Pending(m)' /\ PlanOf(n)' = PlanOf(m)
      BY <1>3, <2>1 DEF PublishRetry
    <2>3. \A o \in Msgs \ {m, n} : PlanOf(o)' = PlanOf(o) /\ pc'[o] = pc[o]
      BY <2>1
    <2>4. dup' = dup BY <1>3 DEF PublishRetry
    <2> QED BY <2>1, <2>2, <2>3, <2>4
  <1>4. ASSUME NEW m \in Msgs, WorkerCrash(m) PROVE ExclusiveRun'
    <2>1. CASE pc[m] = "retried"
      <3>1. PlanOf(m) \in Plans /\ dup' = [dup EXCEPT ![PlanOf(m)] = TRUE]
        BY <1>4, <2>1 DEF WorkerCrash
      <3>2. dup'[PlanOf(m)] /\ \A p \in Plans \ {PlanOf(m)} : dup'[p] = dup[p]
        BY <3>1
      <3>3. msg' = msg /\ \A n \in Msgs \ {m} : pc'[n] = pc[n]
        BY <1>4 DEF WorkerCrash, Goto
      <3> QED BY <3>2, <3>3
    <2>2. CASE pc[m] # "retried" BY <1>4, <2>2 DEF WorkerCrash, Goto
    <2> QED BY <2>1, <2>2
  <1>7. ASSUME NEW m \in Msgs, ConnectionLost(m) PROVE ExclusiveRun'
    <2>1. PICK n \in Msgs : /\ pc[n] = "unused"
                            /\ pc' = [pc EXCEPT ![n] = "queued"]
                            /\ msg' = [msg EXCEPT ![n] = msg[m]]
      BY <1>7, FreshIsUnused DEF ConnectionLost
    <2>2. PlanOf(m) \in Plans /\ dup' = [dup EXCEPT ![PlanOf(m)] = TRUE]
      BY <1>7 DEF ConnectionLost
    <2>3. dup'[PlanOf(m)] /\ \A p \in Plans \ {PlanOf(m)} : dup'[p] = dup[p]
      BY <2>2
    <2>4. PlanOf(n)' = PlanOf(m)
      BY <2>1
    <2>5. \A o \in Msgs \ {n} : PlanOf(o)' = PlanOf(o) /\ pc'[o] = pc[o]
      BY <2>1
    <2> QED BY <2>3, <2>4, <2>5
  <1>5. CASE Tick BY <1>5 DEF Tick
  <1>6. CASE UNCHANGED vars BY <1>6 DEF vars
  <1> QED BY <1>1, <1>2, <1>3, <1>4, <1>5, <1>6, <1>7 DEF Next, Run, RunStep

\* The run that completes its plan is the only one, and it stops there; a later
\* delivery reads "completed" and goes no further.
LEMMA StepIdle ==
    ASSUME IInv, [Next]_vars PROVE CompletedIsIdle'
  <1> USE DEF IInv, TypeOK, CompletedIsIdle, PlanOf, Working, rowVars, brokerVars, brokerHistory
  <1>1. ASSUME NEW p \in Plans, Owner(p) PROVE CompletedIsIdle'
    BY <1>1, FreshIsUnused
       DEF Owner, TriggerCommit, Enqueue, EnqueueFails, UpdateContentLoad,
           UpdateContentSave, DeletePlan
  <1>2. ASSUME NEW m \in Msgs, RunStep(m) PROVE CompletedIsIdle'
    <2>1. msg' = msg /\ dup' = dup /\ \A n \in Msgs \ {m} : pc'[n] = pc[n]
      BY <1>2 DEF RunStep, RunFrame, Goto, Deliver, Skip, Load, Start, Draft,
                  Repair, SetStage, Complete, StopPermanently, Fault, FailLoad,
                  FailCommit, Escape, Lose, Ack, AfterFault, AfterEscape
    <2>2. CASE Complete(m)
      <3>1. \A n \in Msgs \ {m} : /\ PlanOf(n) = PlanOf(m)
                                   /\ ~dup[PlanOf(m)]
                                   => pc[n] \notin Working
        BY <2>2 DEF Complete, ExclusiveRun, Pending, Running
      <3> QED BY <2>1, <2>2, <3>1 DEF Complete, Goto, AfterFault
    <2>3. CASE Load(m) BY <2>1, <2>3 DEF Load, Goto
    <2>4. CASE Start(m) BY <2>1, <2>4 DEF Start, Goto
    <2>5. CASE FailCommit(m)
      BY <2>1, <2>5 DEF FailCommit, Goto, AfterEscape
    <2>6. CASE Draft(m) \/ Repair(m)
      BY <2>1, <2>6 DEF Draft, Repair, SetStage, Goto
    <2>7. CASE \/ Deliver(m) \/ Skip(m) \/ StopPermanently(m) \/ Fault(m)
               \/ FailLoad(m) \/ Escape(m) \/ Lose(m) \/ Ack(m)
      BY <2>1, <2>7 DEF Deliver, Skip, StopPermanently, Fault, FailLoad, Escape,
                        Lose, Ack, Goto, AfterFault, AfterEscape
    <2> QED BY <1>2, <2>2, <2>3, <2>4, <2>5, <2>6, <2>7 DEF RunStep
  <1>3. ASSUME NEW m \in Msgs, PublishRetry(m) PROVE CompletedIsIdle'
    BY <1>3, FreshIsUnused DEF PublishRetry
  <1>4. ASSUME NEW m \in Msgs, WorkerCrash(m) PROVE CompletedIsIdle'
    BY <1>4 DEF WorkerCrash, Goto
  <1>7. ASSUME NEW m \in Msgs, ConnectionLost(m) PROVE CompletedIsIdle'
    BY <1>7, FreshIsUnused DEF ConnectionLost
  <1>5. CASE Tick BY <1>5 DEF Tick
  <1>6. CASE UNCHANGED vars BY <1>6 DEF vars
  <1> QED BY <1>1, <1>2, <1>3, <1>4, <1>5, <1>6, <1>7 DEF Next, Run, RunStep

LEMMA StepInv == IInv /\ [Next]_vars => IInv'
  <1> SUFFICES ASSUME IInv, [Next]_vars PROVE IInv'
    OBVIOUS
  <1> QED BY StepType, StepPublished, StepRetryAllowed, StepExclusive, StepIdle
          DEF IInv

LEMMA Invariance == Spec => []IInv
  BY InitInv, StepInv, PTL DEF Spec

\* Every variable keeps its type; in particular Celery's retry count of a
\* message never exceeds MAX_RETRIES (generate_lesson_plan_task).
THEOREM TypeCorrect == Spec => []TypeOK
  BY Invariance, PTL DEF IInv

\* At most one message of a plan is queued or worked on, unless one was redelivered
\* while its run went on or after its retry was sent.
THEOREM RunsAreExclusive == Spec => []ExclusiveRun
  BY Invariance, PTL DEF IInv

\* The row is committed before the task is published, so a run finds it unless
\* the owner deleted it (trigger_generation).
THEOREM RowPrecedesRun == Spec => []WorkerFindsRow
  <1>1. IInv => WorkerFindsRow
    BY DEF IInv, TypeOK, Published, WorkerFindsRow, PlanOf
  <1> QED BY <1>1, Invariance, PTL

\* The redelivered message of a completed plan never restarts the plan nor
\* replaces the owner's edit by a newly generated module (_run_generation).
THEOREM CompletedStaysGenerated == Spec => NeverRegenerated
  <1> DEFINE Kept == \A p \in Plans : status[p] = "completed" /\ ~dup[p] =>
                        /\ status'[p] # "processing"
                        /\ content[p] = "edited" => content'[p] # "module"
  <1>1. IInv /\ [Next]_vars => [Kept]_vars
    <2> SUFFICES ASSUME IInv, Next PROVE Kept
      BY DEF vars
    <2> USE DEF IInv, TypeOK, rowVars
    <2>1. ASSUME NEW p \in Plans, Owner(p) PROVE Kept
      BY <2>1 DEF Owner, TriggerCommit, Enqueue, EnqueueFails,
                  UpdateContentLoad, UpdateContentSave, DeletePlan
    <2>2. ASSUME NEW m \in Msgs, Start(m) PROVE Kept
      BY <2>2 DEF Start, CompletedIsIdle, Working
    <2>3. ASSUME NEW m \in Msgs, Complete(m) PROVE Kept
      BY <2>3 DEF Complete, CompletedIsIdle, Working
    <2>4. ASSUME NEW m \in Msgs, FailCommit(m) PROVE Kept
      BY <2>4 DEF FailCommit
    <2>5. ASSUME NEW m \in Msgs,
                 \/ Deliver(m) \/ Skip(m) \/ Load(m) \/ Draft(m) \/ Repair(m)
                 \/ StopPermanently(m) \/ Fault(m) \/ FailLoad(m) \/ Escape(m)
                 \/ PublishRetry(m) \/ Lose(m) \/ Ack(m) \/ WorkerCrash(m)
                 \/ ConnectionLost(m)
          PROVE Kept
      <3>1. status' = status /\ content' = content
        BY <2>5 DEF Deliver, Skip, Load, Draft, Repair, SetStage,
                    StopPermanently, Fault, FailLoad, Escape, PublishRetry,
                    Lose, Ack, WorkerCrash, ConnectionLost
      <3> QED BY <3>1
    <2>6. CASE Tick BY <2>6 DEF Tick
    <2> QED BY <2>1, <2>2, <2>3, <2>4, <2>5, <2>6 DEF Next, Run
  <1> QED BY <1>1, Invariance, PTL DEF Spec, NeverRegenerated

-----------------------------------------------------------------------------
(* What a completed plan holds.                                            *)

\* A run that found its plan failed, and is to mark it so, finds it unchanged.
MarkingKnown ==
    \A m \in Msgs : /\ pc[m] = "marking" /\ seen[m] = "failed"
                    /\ ~dup[PlanOf(m)]
                    => status[PlanOf(m)] # "completed"

\* Only the run that is alone writes the plan, and it writes all of it.
LEMMA StepWhole ==
    ASSUME IInv, MarkingKnown, CompletedIsWhole, [Next]_vars
    PROVE  (MarkingKnown /\ CompletedIsWhole)'
  <1> USE DEF IInv, TypeOK, MarkingKnown, CompletedIsWhole, PlanOf, rowVars, brokerVars, brokerHistory
  <1>1. ASSUME NEW p \in Plans, Owner(p) PROVE (MarkingKnown /\ CompletedIsWhole)'
    <2>1. CASE TriggerCommit(p) BY <2>1 DEF TriggerCommit
    <2>2. CASE Enqueue(p) BY <2>2, FreshIsUnused DEF Enqueue
    <2>3. CASE EnqueueFails(p) BY <2>3 DEF EnqueueFails
    <2>4. CASE UpdateContentLoad(p) BY <2>4 DEF UpdateContentLoad
    <2>5. CASE UpdateContentSave(p) BY <2>5 DEF UpdateContentSave
    <2>6. CASE DeletePlan(p) BY <2>6 DEF DeletePlan
    <2> QED BY <1>1, <2>1, <2>2, <2>3, <2>4, <2>5, <2>6 DEF Owner
  <1>2. ASSUME NEW m \in Msgs, RunStep(m) PROVE (MarkingKnown /\ CompletedIsWhole)'
    <2>1. msg' = msg /\ dup' = dup /\ \A n \in Msgs \ {m} : pc'[n] = pc[n]
      BY <1>2 DEF RunStep, RunFrame, Goto, Deliver, Skip, Load, Start, Draft,
                  Repair, SetStage, Complete, StopPermanently, Fault, FailLoad,
                  FailCommit, Escape, Lose, Ack, AfterFault, AfterEscape
    <2>2. CASE Start(m)
      BY <2>1, <2>2 DEF Start, CompletedIsIdle, Working, Goto
    <2>3. CASE Draft(m) \/ Repair(m)
      BY <2>1, <2>3 DEF Draft, Repair, SetStage, CompletedIsIdle, Working, Goto
    <2>4. CASE Complete(m)
      <3>1. \A n \in Msgs \ {m} : /\ PlanOf(n) = PlanOf(m)
                                   /\ ~dup[PlanOf(m)]
                                   => pc[n] # "marking"
        BY <2>4 DEF Complete, ExclusiveRun, Pending, Running, Working
      <3> QED BY <2>1, <2>4, <3>1 DEF Complete, Goto, AfterFault
    <2>5. CASE FailLoad(m) BY <2>1, <2>5 DEF FailLoad, Goto
    <2>6. CASE FailCommit(m) BY <2>1, <2>6 DEF FailCommit, Goto
    <2>7. CASE Load(m) BY <2>1, <2>7 DEF Load, Goto
    <2>8. CASE \/ Deliver(m) \/ Skip(m) \/ StopPermanently(m) \/ Fault(m)
               \/ Escape(m) \/ Lose(m) \/ Ack(m)
      <3>1. pc'[m] # "marking" /\ UNCHANGED <<rowVars, seen>>
        BY <2>8 DEF Deliver, Skip, StopPermanently, Fault, Escape, Lose, Ack, Goto,
                    AfterFault, AfterEscape
      <3> QED BY <2>1, <3>1
    <2> QED BY <1>2, <2>2, <2>3, <2>4, <2>5, <2>6, <2>7, <2>8 DEF RunStep
  <1>3. ASSUME NEW m \in Msgs, PublishRetry(m) PROVE (MarkingKnown /\ CompletedIsWhole)'
    BY <1>3, FreshIsUnused DEF PublishRetry
  <1>4. ASSUME NEW m \in Msgs, WorkerCrash(m) PROVE (MarkingKnown /\ CompletedIsWhole)'
    <2>1. \A p \in Plans : dup[p] => dup'[p]
      BY <1>4, RedeliveryMarks
    <2>2. /\ pc' = [pc EXCEPT ![m] = "queued"] /\ msg' = msg /\ seen' = seen
          /\ status' = status /\ content' = content /\ meta' = meta
      BY <1>4 DEF WorkerCrash, Goto
    <2> QED BY <2>1, <2>2
  <1>7. ASSUME NEW m \in Msgs, ConnectionLost(m)
        PROVE  (MarkingKnown /\ CompletedIsWhole)'
    <2>1. \A p \in Plans : dup[p] => dup'[p]
      BY <1>7, RedeliveryMarks
    <2>2. PICK n \in Msgs : /\ pc[n] = "unused"
                            /\ pc' = [pc EXCEPT ![n] = "queued"]
                            /\ msg' = [msg EXCEPT ![n] = msg[m]]
      BY <1>7, FreshIsUnused DEF ConnectionLost
    <2>3. \A o \in Msgs \ {n} : pc'[o] = pc[o] /\ msg'[o] = msg[o]
      BY <2>2
    <2>4. /\ pc'[n] = "queued" /\ seen' = seen
          /\ status' = status /\ content' = content /\ meta' = meta
      BY <1>7, <2>2 DEF ConnectionLost
    <2> QED BY <2>1, <2>3, <2>4
  <1>5. CASE Tick BY <1>5 DEF Tick
  <1>6. CASE UNCHANGED vars BY <1>6 DEF vars
  <1> QED BY <1>1, <1>2, <1>3, <1>4, <1>5, <1>6, <1>7 DEF Next, Run, RunStep

\* A completed plan holds a module and the provenance of its run, although _fail
\* writes over whatever status it finds and every stage is a commit of its own.
THEOREM CompletedPlansAreWhole == Spec => []CompletedIsWhole
  <1>1. Init => MarkingKnown /\ CompletedIsWhole
    BY DEF Init, MarkingKnown, CompletedIsWhole
  <1>2. IInv /\ MarkingKnown /\ CompletedIsWhole /\ [Next]_vars
            => (MarkingKnown /\ CompletedIsWhole)'
    BY StepWhole
  <1> QED BY <1>1, <1>2, Invariance, PTL DEF Spec

-----------------------------------------------------------------------------
(* The number of attempts.                                                 *)

\* A message that is queued or worked on has been preceded by one run for every
\* retry and for every redelivery, and is in one more if a worker has it.
Counted ==
    \A p \in Plans : ~dup[p] =>
        /\ (\A m \in Msgs : pc[m] # "unused" => PlanOf(m) # p) => runs[p] = 0
        /\ runs[p] <= MAX_RETRIES + 1 + redelivered[p]
        /\ \A m \in Msgs : Pending(m) /\ PlanOf(m) = p =>
              runs[p] <= msg[m].retries + redelivered[p]
                            + (IF pc[m] = "queued" THEN 0 ELSE 1)

LEMMA StepCounted == ASSUME IInv, Counted, [Next]_vars PROVE Counted'
  <1> USE DEF IInv, TypeOK, PlanOf
  <1>1. ASSUME NEW p \in Plans, Owner(p) PROVE Counted'
    <2>1. CASE Enqueue(p)
      <3>1. PICK m \in Msgs : /\ pc[m] = "unused"
                              /\ pc' = [pc EXCEPT ![m] = "queued"]
                              /\ msg' = [msg EXCEPT ![m] = [plan |-> p, retries |-> 0]]
        BY <2>1, FreshIsUnused DEF Enqueue
      <3>2. \A n \in Msgs : pc[n] # "unused" => msg[n].plan # p
        BY <2>1 DEF Enqueue, Published
      <3>3. UNCHANGED brokerHistory BY <2>1 DEF Enqueue
      <3>4. ~dup[p] => runs[p] = 0 BY <3>2 DEF Counted
      <3>5. \A n \in Msgs \ {m} : pc'[n] = pc[n] /\ msg'[n] = msg[n] BY <3>1
      <3>6. pc'[m] = "queued" /\ msg'[m].plan = p /\ msg'[m].retries = 0 BY <3>1
      <3>7. ASSUME NEW q \in Plans, ~dup[q]
            PROVE  /\ (\A n \in Msgs : pc'[n] # "unused" => msg'[n].plan # q)
                         => runs[q] = 0
                   /\ \A n \in Msgs : Pending(n)' /\ msg'[n].plan = q =>
                         runs[q] <= msg'[n].retries + redelivered[q]
                                      + (IF pc'[n] = "queued" THEN 0 ELSE 1)
        <4>1. CASE q = p
          <5>1. runs[q] = 0 /\ redelivered[q] \in Nat BY <3>4, <3>7, <4>1
          <5>2. \A n \in Msgs : Pending(n)' /\ msg'[n].plan = q => n = m
            BY <3>2, <3>5, <4>1 DEF Pending, Running, Working
          <5> QED BY <5>1, <5>2, <3>6
        <4>2. CASE q # p
          <5>1. \A n \in Msgs : msg'[n].plan = q => n # m BY <3>6, <4>2
          <5>2. (\A n \in Msgs : pc'[n] # "unused" => msg'[n].plan # q)
                  => \A n \in Msgs : pc[n] # "unused" => msg[n].plan # q
            BY <3>1, <3>5
          <5> QED BY <3>5, <3>7, <5>1, <5>2 DEF Counted, Pending
        <4> QED BY <4>1, <4>2
      <3> QED BY <3>3, <3>7 DEF Counted, brokerHistory
    <2>2. CASE \/ TriggerCommit(p) \/ EnqueueFails(p) \/ UpdateContentLoad(p)
               \/ UpdateContentSave(p) \/ DeletePlan(p)
      <3>1. UNCHANGED <<brokerVars, brokerHistory>>
        BY <2>2 DEF TriggerCommit, EnqueueFails, UpdateContentLoad,
                    UpdateContentSave, DeletePlan
      <3> QED BY <3>1 DEF Counted, Pending, brokerVars, brokerHistory
    <2> QED BY <1>1, <2>1, <2>2 DEF Owner
  <1>2. ASSUME NEW m \in Msgs, Deliver(m) PROVE Counted'
    <2> DEFINE p == PlanOf(m)
    <2>1. /\ pc[m] = "queued" /\ pc' = [pc EXCEPT ![m] = "loading"]
          /\ runs' = [runs EXCEPT ![p] = @ + 1]
          /\ msg' = msg /\ redelivered' = redelivered /\ dup' = dup /\ p \in Plans
      BY <1>2 DEF Deliver, Goto
    <2>2. Pending(m) BY <2>1 DEF Pending
    <2>3. ~dup[p] => \A n \in Msgs \ {m} : ~(Pending(n) /\ PlanOf(n) = p)
      BY <2>2 DEF ExclusiveRun
    <2>4. ~dup[p] => runs[p] <= msg[m].retries + redelivered[p]
      BY <2>1, <2>2 DEF Counted
    <2>5. runs'[p] = runs[p] + 1 /\ \A q \in Plans \ {p} : runs'[q] = runs[q]
      BY <2>1
    <2>6. \A n \in Msgs \ {m} : pc'[n] = pc[n] BY <2>1
    <2>7. /\ runs[p] \in Nat /\ redelivered[p] \in Nat
          /\ msg[m].retries \in 0..MAX_RETRIES /\ pc'[m] = "loading"
      BY <2>1
    <2>8. ASSUME NEW q \in Plans, ~dup[q]
          PROVE  /\ (\A n \in Msgs : pc'[n] # "unused" => msg[n].plan # q) => runs'[q] = 0
                 /\ runs'[q] <= MAX_RETRIES + 1 + redelivered[q]
                 /\ \A n \in Msgs : Pending(n)' /\ msg[n].plan = q =>
                       runs'[q] <= msg[n].retries + redelivered[q]
                                      + (IF pc'[n] = "queued" THEN 0 ELSE 1)
      <3>1. CASE q = p
        <4>1. \A n \in Msgs : Pending(n)' /\ msg[n].plan = q => n = m
          BY <2>3, <2>6, <2>8, <3>1 DEF Pending
        <4>2. runs'[q] <= msg[m].retries + redelivered[q] + 1
          BY <2>4, <2>5, <2>7, <2>8, <3>1
        <4> QED BY <4>1, <4>2, <2>5, <2>7, <3>1
      <3>2. CASE q # p
        <4>1. \A n \in Msgs : msg[n].plan = q => n # m BY <3>2
        <4>2. (\A n \in Msgs : pc'[n] # "unused" => msg[n].plan # q)
                => \A n \in Msgs : pc[n] # "unused" => msg[n].plan # q
          BY <2>6, <4>1
        <4> QED BY <2>5, <2>6, <2>8, <3>2, <4>1, <4>2 DEF Counted, Pending
      <3> QED BY <3>1, <3>2
    <2> QED BY <2>1, <2>8 DEF Counted
  <1>3. ASSUME NEW m \in Msgs, RunStep(m), ~Deliver(m) PROVE Counted'
    <2>1. /\ UNCHANGED brokerHistory /\ msg' = msg
          /\ \A n \in Msgs \ {m} : pc'[n] = pc[n]
      BY <1>3 DEF RunStep, RunFrame, Goto, Skip, Load, Start, Draft,
                  Repair, SetStage, Complete, StopPermanently, Fault, FailLoad,
                  FailCommit, Escape, Lose, Ack, AfterFault, AfterEscape
    <2>2. /\ Pending(m)' => Pending(m) /\ pc[m] # "queued"
          /\ pc[m] # "unused"
      BY <1>3 DEF RunStep, Goto, Pending, Running, Working, Skip, Load, Start, Draft,
                  Repair, SetStage, Complete, StopPermanently, Fault, FailLoad,
                  FailCommit, Escape, Lose, Ack, AfterFault, AfterEscape
    <2>4. pc'[m] \notin {"queued", "unused"}
      BY <1>3 DEF RunStep, Goto, Running, Working, Skip, Load, Start, Draft,
                  Repair, SetStage, Complete, StopPermanently, Fault, FailLoad,
                  FailCommit, Escape, Lose, Ack, AfterFault, AfterEscape
    <2>3. UNCHANGED <<runs, redelivered, dup>> BY <2>1 DEF brokerHistory
    <2>5. ASSUME NEW n \in Msgs
          PROVE  /\ pc'[n] = "unused" <=> pc[n] = "unused"
                 /\ Pending(n)' => Pending(n) /\ (pc'[n] = "queued" <=> pc[n] = "queued")
      BY <2>1, <2>2, <2>4 DEF Pending
    <2> QED BY <2>1, <2>3, <2>5 DEF Counted
  <1>4. ASSUME NEW m \in Msgs, PublishRetry(m) PROVE Counted'
    <2>1. PICK n \in Msgs :
             /\ pc[n] = "unused"
             /\ pc' = [pc EXCEPT ![m] = "retried", ![n] = "queued"]
             /\ msg' = [msg EXCEPT ![n] = [plan |-> PlanOf(m),
                                           retries |-> msg[m].retries + 1]]
      BY <1>4, FreshIsUnused DEF PublishRetry
    <2> DEFINE p == PlanOf(m)
    <2>2. /\ pc[m] = "raising" /\ m # n /\ pc'[m] = "retried" /\ pc'[n] = "queued"
          /\ msg'[n].plan = p /\ msg'[n].retries = msg[m].retries + 1 /\ p \in Plans
      BY <1>4, <2>1 DEF PublishRetry
    <2>3. \A o \in Msgs \ {n} : msg'[o] = msg[o] /\ (o # m => pc'[o] = pc[o])
      BY <2>1
    <2>4. UNCHANGED <<runs, redelivered, dup>>
      BY <1>4 DEF PublishRetry, brokerHistory
    <2>5. Pending(m) BY <2>2 DEF Pending, Running
    <2>6. ~dup[p] => runs[p] <= msg[m].retries + redelivered[p] + 1
      BY <2>2, <2>5 DEF Counted
    <2>7. msg[m].retries \in Nat /\ runs[p] \in Nat /\ redelivered[p] \in Nat
      BY <2>2
    <2>8. ~dup[p] => runs[p] <= msg'[n].retries + redelivered[p]
      BY <2>2, <2>6, <2>7
    <2>9. ASSUME NEW q \in Plans, ~dup[q]
          PROVE  /\ (\A o \in Msgs : pc'[o] # "unused" => msg'[o].plan # q) => runs[q] = 0
                 /\ \A o \in Msgs : Pending(o)' /\ msg'[o].plan = q =>
                       runs[q] <= msg'[o].retries + redelivered[q]
                                      + (IF pc'[o] = "queued" THEN 0 ELSE 1)
      <3>1. (\A o \in Msgs : pc'[o] # "unused" => msg'[o].plan # q)
              => \A o \in Msgs : pc[o] # "unused" => msg[o].plan # q
        BY <2>1, <2>2, <2>3
      <3>2. ASSUME NEW o \in Msgs, Pending(o)', msg'[o].plan = q
            PROVE  runs[q] <= msg'[o].retries + redelivered[q]
                                   + (IF pc'[o] = "queued" THEN 0 ELSE 1)
        <4>1. CASE o = n
          <5>1. runs[q] <= msg'[n].retries + redelivered[q]
            BY <2>2, <2>8, <2>9, <3>2, <4>1
          <5> QED BY <5>1, <4>1, <2>2
        <4>2. CASE o # n
          <5>1. o # m BY <2>2, <3>2 DEF Pending, Running, Working
          <5>2. pc'[o] = pc[o] /\ msg'[o] = msg[o] /\ Pending(o)
            BY <2>3, <3>2, <4>2, <5>1 DEF Pending
          <5> QED BY <2>9, <3>2, <5>2 DEF Counted
        <4> QED BY <4>1, <4>2
      <3> QED BY <2>9, <3>1, <3>2 DEF Counted
    <2> QED BY <2>4, <2>9 DEF Counted
  <1>5. ASSUME NEW m \in Msgs, WorkerCrash(m) PROVE Counted'
    <2> DEFINE p == PlanOf(m)
    <2>1. /\ pc[m] \in Running \cup {"acking", "retried"}
          /\ pc' = [pc EXCEPT ![m] = "queued"] /\ msg' = msg /\ runs' = runs
          /\ redelivered' = [redelivered EXCEPT ![p] = @ + 1] /\ p \in Plans
      BY <1>5 DEF WorkerCrash, Goto
    <2>2. /\ \A q \in Plans : dup[q] => dup'[q]
          /\ ~dup'[p] => pc[m] # "retried"
      BY <1>5, <2>1, Zenon DEF WorkerCrash
    <2>3. redelivered'[p] = redelivered[p] + 1 /\ redelivered[p] \in Nat
          /\ \A q \in Plans \ {p} : redelivered'[q] = redelivered[q]
      BY <2>1
    <2>4. \A n \in Msgs \ {m} : pc'[n] = pc[n] BY <2>1
    <2>5. pc[m] # "unused" /\ pc[m] # "queued" /\ pc'[m] = "queued"
      BY <2>1 DEF Running, Working
    <2>6. ASSUME NEW q \in Plans, ~dup'[q]
          PROVE  /\ (\A n \in Msgs : pc'[n] # "unused" => msg[n].plan # q) => runs[q] = 0
                 /\ runs[q] <= MAX_RETRIES + 1 + redelivered'[q]
                 /\ \A n \in Msgs : Pending(n)' /\ msg[n].plan = q =>
                       runs[q] <= msg[n].retries + redelivered'[q]
                                      + (IF pc'[n] = "queued" THEN 0 ELSE 1)
      <3>1. ~dup[q] BY <2>2, <2>6
      <3>2. (\A n \in Msgs : pc'[n] # "unused" => msg[n].plan # q)
              => \A n \in Msgs : pc[n] # "unused" => msg[n].plan # q
        BY <2>4, <2>5
      <3>3. redelivered[q] \in Nat /\ redelivered'[q] \in Nat /\ runs[q] \in Nat
            /\ redelivered'[q] >= redelivered[q]
            /\ runs[q] <= MAX_RETRIES + 1 + redelivered[q]
        BY <2>3, <3>1 DEF Counted
      <3>4. ASSUME NEW n \in Msgs, Pending(n)', msg[n].plan = q
            PROVE  runs[q] <= msg[n].retries + redelivered'[q]
                                   + (IF pc'[n] = "queued" THEN 0 ELSE 1)
        <4>1. msg[n].retries \in Nat OBVIOUS
        <4>2. CASE n = m
          <5>1. q = p /\ pc[m] # "retried" BY <2>2, <2>6, <3>4, <4>2
          <5>2. Pending(m) BY <2>1, <5>1 DEF Pending
          <5>3. runs[q] <= msg[m].retries + redelivered[q] + 1
            BY <2>5, <3>1, <5>1, <5>2 DEF Counted
          <5> QED BY <2>3, <2>5, <3>3, <4>1, <4>2, <5>1, <5>3
        <4>3. CASE n # m
          <5>1. pc'[n] = pc[n] /\ Pending(n) BY <2>4, <3>4, <4>3 DEF Pending
          <5>2. runs[q] <= msg[n].retries + redelivered[q]
                             + (IF pc[n] = "queued" THEN 0 ELSE 1)
            BY <3>1, <3>4, <5>1 DEF Counted
          <5> QED BY <3>3, <4>1, <5>1, <5>2
        <4> QED BY <4>2, <4>3
      <3> QED BY <3>1, <3>2, <3>3, <3>4 DEF Counted
    <2> QED BY <2>1, <2>6 DEF Counted
  <1>6. ASSUME NEW m \in Msgs, ConnectionLost(m) PROVE Counted'
    <2> DEFINE p == PlanOf(m)
    <2>1. PICK n \in Msgs : /\ pc[n] = "unused"
                            /\ pc' = [pc EXCEPT ![n] = "queued"]
                            /\ msg' = [msg EXCEPT ![n] = msg[m]]
      BY <1>6, FreshIsUnused DEF ConnectionLost
    <2>2. /\ p \in Plans /\ runs' = runs /\ msg'[n].plan = p
          /\ \A q \in Plans \ {p} : redelivered'[q] = redelivered[q] /\ dup'[q] = dup[q]
          /\ dup'[p]
      BY <1>6, <2>1 DEF ConnectionLost
    <2>3. \A o \in Msgs \ {n} : msg'[o] = msg[o] /\ pc'[o] = pc[o] BY <2>1
    <2>4. ASSUME NEW q \in Plans, ~dup'[q]
          PROVE  /\ q # p /\ ~dup[q]
                 /\ \A o \in Msgs : msg'[o].plan = q => o # n
                 /\ (\A o \in Msgs : pc'[o] # "unused" => msg'[o].plan # q)
                      => \A o \in Msgs : pc[o] # "unused" => msg[o].plan # q
      BY <2>1, <2>2, <2>3, <2>4
    <2> QED BY <2>2, <2>3, <2>4 DEF Counted, Pending
  <1>7. CASE Tick BY <1>7 DEF Tick, Counted, Pending, brokerVars, brokerHistory
  <1>8. CASE UNCHANGED vars BY <1>8 DEF vars, Counted, Pending
  <1> QED BY <1>1, <1>2, <1>3, <1>4, <1>5, <1>6, <1>7, <1>8 DEF Next, Run, RunStep

\* The task is run at most MAX_RETRIES + 1 times for a request and once more for
\* every redelivery: retries do not multiply with redeliveries.
THEOREM AttemptsAreBounded == Spec => []AttemptsBounded
  <1>1. Init => Counted
    BY DEF Init, Counted, Pending, Running, Working
  <1>2. IInv /\ Counted /\ [Next]_vars => Counted'
    BY StepCounted
  <1>3. Counted => AttemptsBounded BY DEF Counted, AttemptsBounded
  <1> QED BY <1>1, <1>2, <1>3, Invariance, PTL DEF Spec

-----------------------------------------------------------------------------
(* LessonPlanJobs implements JobContract.                                  *)

\* A plan that was not requested has no row and no age.
Untouched ==
    \A p \in Plans : request[p] = "none" => status[p] = "absent" /\ age[p] = 0

\* Rows are written for requested plans only, whose age alone may grow.
LEMMA StepUntouched ==
    ASSUME IInv, Untouched, [Next]_vars PROVE Untouched'
  <1> USE DEF IInv, TypeOK, Untouched, rowVars, brokerVars, brokerHistory
  <1>1. ASSUME NEW p \in Plans, Owner(p) PROVE Untouched'
    BY <1>1 DEF Owner, TriggerCommit, Enqueue, EnqueueFails, UpdateContentLoad,
                UpdateContentSave, DeletePlan, Exists, RowStatuses,
                TERMINAL_STATUSES
  <1>2. ASSUME NEW m \in Msgs, Run(m) \/ WorkerCrash(m) \/ ConnectionLost(m)
        PROVE  Untouched'
    <2>1. request' = request /\ age' = age
      BY <1>2 DEF Run, RunFrame, Deliver, Skip, Load, Start, Draft, Repair,
                  SetStage, Complete, StopPermanently, Fault, FailLoad,
                  FailCommit, Escape, PublishRetry, Lose, Ack, WorkerCrash, ConnectionLost
    <2>2. request[PlanOf(m)] = "answered"
      BY <1>2 DEF Published, Run, Running, Working, Deliver, Skip, Load, Start,
                  Draft, Repair, SetStage, Complete, StopPermanently, Fault,
                  FailLoad, FailCommit, Escape, PublishRetry, Lose, Ack,
                  WorkerCrash, ConnectionLost
    <2>3. \A q \in Plans \ {PlanOf(m)} : status'[q] = status[q]
      BY <1>2 DEF Run, Deliver, Skip, Load, Start, Draft, Repair, SetStage,
                  Complete, StopPermanently, Fault, FailLoad, FailCommit,
                  Escape, PublishRetry, Lose, Ack, WorkerCrash, ConnectionLost
    <2> QED BY <2>1, <2>2, <2>3
  <1>3. CASE Tick BY <1>3 DEF Tick
  <1>4. CASE UNCHANGED vars BY <1>4 DEF vars
  <1> QED BY <1>1, <1>2, <1>3, <1>4 DEF Next

\* The steps that the contract allows for one job.
Legal(old, new, redone) ==
    \/ old = new
    \/ old = "none" /\ new = "pending"
    \/ old \in {"pending", "failed"} /\ new = "processing"
    \/ old = "completed" /\ redone /\ new = "processing"
    \/ old \in {"pending", "processing", "failed"} /\ new = "completed"
    \/ old \in {"pending", "processing", "completed"} /\ new = "failed"
    \/ old \in {"pending", "processing", "completed", "failed"} /\ new = "gone"

\* A step that writes one row, legally, is a step of the contract or none.
LEMMA OneJob ==
    ASSUME NEW p \in Plans, age' = age, dup' = dup,
           \A q \in Plans \ {p} : status'[q] = status[q],
           Legal(Told[p], Told'[p], dup[p])
    PROVE  [Contract!Next]_(Contract!vars)
  <1>1. \A q \in Plans \ {p} : Told'[q] = Told[q]
    BY DEF Told, Report, Stale, Exists
  <1>2. Told' = [Told EXCEPT ![p] = Told'[p]]
    <2>1. Told = [q \in Plans |-> Told[q]] /\ Told' = [q \in Plans |-> Told'[q]]
      BY DEF Told
    <2> QED BY <1>1, <2>1
  <1>3. CASE Told'[p] = Told[p]
    <2>1. Told' = Told
      BY <1>1, <1>3 DEF Told
    <2> QED BY <2>1 DEF Contract!vars
  <1>4. CASE Told'[p] # Told[p]
    <2>1. \/ Contract!Submit(p) \/ Contract!Begin(p) \/ Contract!Succeed(p)
          \/ Contract!Fail(p) \/ Contract!Remove(p)
      BY <1>2, <1>4 DEF Legal, Contract!Submit, Contract!Begin, Contract!Succeed,
                       Contract!Fail, Contract!Remove, Contract!Tell
    <2> QED BY <2>1 DEF Contract!Next
  <1> QED BY <1>3, <1>4

\* Deletion and request: the row appears as "pending" and ends as "gone".
LEMMA OwnerKeepsContract ==
    ASSUME IInv, Untouched, NEW p \in Plans, Owner(p)
    PROVE  [Contract!Next]_(Contract!vars)
  <1> USE DEF IInv, TypeOK, rowVars, brokerVars, brokerHistory, RowStatuses, TERMINAL_STATUSES
  <1>1. age' = age /\ dup' = dup /\ \A q \in Plans \ {p} : status'[q] = status[q]
    BY DEF Owner, TriggerCommit, Enqueue, EnqueueFails, UpdateContentLoad,
           UpdateContentSave, DeletePlan
  <1>2. Legal(Told[p], Told'[p], dup[p])
    <2>1. CASE TriggerCommit(p)
      <3>1. status[p] = "absent" /\ age'[p] = 0 /\ status'[p] = "pending"
        BY <1>1, <2>1 DEF TriggerCommit, Untouched
      <3> QED BY <3>1 DEF Legal, Told, Exists, Report, Stale
    <2>2. CASE DeletePlan(p)
      <3>1. status'[p] = "deleted" /\ Exists(p)
        BY <2>2 DEF DeletePlan
      <3>2. Told[p] \in RowStatuses /\ Told'[p] = "gone"
        BY <3>1 DEF Told, Exists, Report
      <3> QED BY <3>2 DEF Legal
    <2>3. CASE \/ Enqueue(p) \/ EnqueueFails(p) \/ UpdateContentLoad(p)
               \/ UpdateContentSave(p)
      <3>1. status' = status
        BY <2>3 DEF Enqueue, EnqueueFails, UpdateContentLoad, UpdateContentSave
      <3> QED BY <1>1, <3>1 DEF Legal, Told, Exists, Report, Stale
    <2> QED BY <2>1, <2>2, <2>3 DEF Owner
  <1> QED BY <1>1, <1>2, OneJob

\* The three steps of a run that write the status, and all that do not.
LEMMA RunKeepsContract ==
    ASSUME IInv, NEW m \in Msgs, Run(m)
    PROVE  [Contract!Next]_(Contract!vars)
  <1> DEFINE p == PlanOf(m)
  <1> USE DEF IInv, TypeOK, rowVars, brokerHistory, RowStatuses, TERMINAL_STATUSES
  <1>0. p \in Plans
    BY DEF PlanOf
  <1>1. /\ age' = age /\ dup' = dup
        /\ \A q \in Plans \ {p} : status'[q] = status[q]
    BY DEF Run, RunFrame, Deliver, Skip, Load, Start, Draft, Repair, SetStage,
           Complete, StopPermanently, Fault, FailLoad, FailCommit, Escape,
           PublishRetry, Lose, Ack
  <1>2. Legal(Told[p], Told'[p], dup[p])
    <2>1. CASE Start(m)
      <3>1. Exists(p) /\ (status[p] = "completed" => dup[p])
        BY <1>0, <2>1 DEF Start, CompletedIsIdle, Working
      <3>2. status'[p] \in {status[p], "processing"}
        BY <1>0, <2>1 DEF Start
      <3> QED BY <1>0, <1>1, <3>1, <3>2 DEF Legal, Told, Exists, Report, Stale
    <2>2. CASE Complete(m)
      <3>1. Exists(p) /\ status'[p] = "completed"
        BY <1>0, <2>2 DEF Complete
      <3> QED BY <1>0, <1>1, <3>1 DEF Legal, Told, Exists, Report, Stale
    <2>3. CASE FailCommit(m)
      <3>1. Exists(p) /\ status'[p] \in {status[p], "failed"}
        BY <1>0, <2>3 DEF FailCommit
      <3> QED BY <1>0, <1>1, <3>1 DEF Legal, Told, Exists, Report, Stale
    <2>4. CASE \/ Deliver(m) \/ Skip(m) \/ Load(m) \/ Draft(m) \/ Repair(m)
               \/ StopPermanently(m) \/ Fault(m) \/ FailLoad(m) \/ Escape(m)
               \/ PublishRetry(m) \/ Lose(m) \/ Ack(m)
      <3>1. status' = status
        BY <2>4 DEF Deliver, Skip, Load, Draft, Repair, SetStage,
                    StopPermanently, Fault, FailLoad, Escape, PublishRetry,
                    Lose, Ack
      <3> QED BY <1>0, <1>1, <3>1 DEF Legal, Told, Exists, Report, Stale
    <2> QED BY <2>1, <2>2, <2>3, <2>4 DEF Run
  <1> QED BY <1>0, <1>1, <1>2, OneJob

LEMMA StepContract ==
    ASSUME IInv, Untouched, [Next]_vars PROVE [Contract!Next]_(Contract!vars)
  <1>1. ASSUME NEW p \in Plans, Owner(p) PROVE [Contract!Next]_(Contract!vars)
    BY <1>1, OwnerKeepsContract
  <1>2. ASSUME NEW m \in Msgs, Run(m) PROVE [Contract!Next]_(Contract!vars)
    BY <1>2, RunKeepsContract
  <1>3. ASSUME NEW m \in Msgs, WorkerCrash(m) \/ ConnectionLost(m)
        PROVE  [Contract!Next]_(Contract!vars)
    <2>1. status' = status /\ age' = age
      BY <1>3 DEF WorkerCrash, ConnectionLost, rowVars
    <2>2. /\ PlanOf(m) \in Plans /\ Told' = Told
          /\ dup' = dup \/ dup' = [dup EXCEPT ![PlanOf(m)] = TRUE]
      BY <1>3, <2>1, RedeliveryMarks DEF IInv, Told, Exists, Report, Stale
    <2>3. CASE dup' = dup
      BY <2>2, <2>3 DEF Contract!vars
    <2>4. CASE dup' = [dup EXCEPT ![PlanOf(m)] = TRUE]
      BY <2>2, <2>4 DEF Contract!Next, Contract!Redeliver
    <2> QED BY <2>2, <2>3, <2>4
  <1>4. CASE Tick
    <2> DEFINE late == {p \in Plans : Told'[p] # Told[p]}
    <2>1. dup' = dup /\ status' = status
      BY <1>4 DEF Tick, rowVars, brokerHistory
    <2>2. \A p \in Plans : Stale(p) => Stale(p)'
      BY <1>4 DEF Tick, Stale, IInv, TypeOK
    <2>3. \A p \in late : Told[p] \in {"pending", "processing"} /\ Told'[p] = "failed"
      BY <2>1, <2>2 DEF IInv, TypeOK, Told, Exists, Report, RowStatuses,
                        TERMINAL_STATUSES
    <2>4. Told' = [p \in Plans |-> IF p \in late THEN "failed" ELSE Told[p]]
      <3>1. Told' = [p \in Plans |-> Told'[p]]
        BY DEF Told
      <3> QED BY <2>3, <3>1
    <2>5. Contract!GiveUp(late)
      BY <2>1, <2>3, <2>4 DEF Contract!GiveUp
    <2> QED BY <2>5 DEF Contract!Next
  <1>5. CASE UNCHANGED vars
    BY <1>5 DEF vars, Contract!vars, Told, Exists, Report, Stale
  <1> QED BY <1>1, <1>2, <1>3, <1>4, <1>5 DEF Next

\* The followers of a plan are told a life of the job that the contract allows
\* (get_job_status), for any number of plans, messages, retries and redeliveries.
THEOREM ImplementsContract == Spec => KeepsContract
  <1>1. Init => Untouched /\ Contract!Init
    BY DEF Init, Untouched, Contract!Init, Told, Exists, RowStatuses,
           TERMINAL_STATUSES
  <1>2. IInv /\ Untouched /\ [Next]_vars => Untouched'
    BY StepUntouched
  <1>3. IInv /\ Untouched /\ [Next]_vars => [Contract!Next]_(Contract!vars)
    BY StepContract
  <1> QED BY <1>1, <1>2, <1>3, Invariance, PTL
          DEF Spec, KeepsContract, Contract!Spec

=============================================================================
