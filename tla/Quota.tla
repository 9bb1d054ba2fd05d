-------------------------------- MODULE Quota --------------------------------
(***************************************************************************)
(* The generation quota: the transaction in which trigger_generation       *)
(* checks it (quota_service.ensure_available) and inserts the plan, under   *)
(* READ COMMITTED with the user's row locked by SELECT ... FOR UPDATE.      *)
(* Beside it run what changes the count: jobs that fail and jobs that are  *)
(* run again, deletions, plans leaving the 24 hour window, and an          *)
(* administrator who changes the user's tier or role.                      *)
(*                                                                         *)
(* A request inserts at most one plan, so the plan of a request is named   *)
(* by the request.                                                         *)
(***************************************************************************)
EXTENDS Integers, FiniteSets

CONSTANTS
    Users,
    Requests,       \* POST /lesson-plans requests, and the plans they insert
    userOf,         \* the user who sends a request
    Limit,          \* settings.generation_daily_limit_free
    NoRequest       \* the row lock is free

ASSUME UsersAssumption == userOf \in [Requests -> Users]
ASSUME RequestsAssumption == IsFiniteSet(Requests) /\ NoRequest \notin Requests
ASSUME LimitAssumption == Limit \in Nat

VARIABLES
    limited,    \* per user: role is not admin and tier is free
    asLimited,  \* per request: the limit that applies to the profile it loaded
    pc,         \* per request: its progress
    used,       \* per request: the count it based its decision on
    lock,       \* per user: the request that holds the profile row
    plan,       \* per request: the status of the plan row, as the quota sees it
    inWindow,   \* per request: created_at is within QUOTA_WINDOW
    revived     \* history: the plan had failed and was run again

planVars == <<plan, inWindow, revived>>
vars == <<limited, asLimited, pc, used, lock, plan, inWindow, revived>>

-----------------------------------------------------------------------------
\* usage_since: the plans of a user that take a slot.
Usage(u) == {p \in Requests : userOf[p] = u /\ plan[p] = "live" /\ inWindow[p]}

TypeOK ==
    /\ limited \in [Users -> BOOLEAN]
    /\ asLimited \in [Requests -> BOOLEAN]
    /\ pc \in [Requests -> {"idle", "loaded", "locked", "inserting", "refused",
                            "done"}]
    /\ used \in [Requests -> 0..Limit]
    /\ lock \in [Users -> Requests \cup {NoRequest}]
    /\ plan \in [Requests -> {"none", "live", "failed", "deleted", "purged"}]
    /\ inWindow \in [Requests -> BOOLEAN]
    /\ revived \in [Requests -> BOOLEAN]

Init ==
    /\ limited \in [Users -> BOOLEAN]
    /\ asLimited = [r \in Requests |-> FALSE]
    /\ pc = [r \in Requests |-> "idle"]
    /\ used = [r \in Requests |-> 0]
    /\ lock = [u \in Users |-> NoRequest]
    /\ plan = [r \in Requests |-> "none"]
    /\ inWindow = [r \in Requests |-> TRUE]
    /\ revived = [r \in Requests |-> FALSE]

-----------------------------------------------------------------------------
(* The trigger request.                                                    *)

Holds(r) == lock[userOf[r]] = r

\* Commit, rollback and the end of the session all free the row.
Release(r) == lock' = IF Holds(r) THEN [lock EXCEPT ![userOf[r]] = NoRequest]
                      ELSE lock

\* get_current_user loads the profile; limit_for decides from it.  The profile
\* object stays in the session, so the locked read below does not refresh it.
LoadUser(r) ==
    /\ pc[r] = "idle"
    /\ pc' = [pc EXCEPT ![r] = "loaded"]
    /\ asLimited' = [asLimited EXCEPT ![r] = limited[userOf[r]] /\ Limit # 0]
    /\ UNCHANGED <<limited, used, lock, planVars>>

\* Users without a limit are not locked and not counted.
Unlimited(r) ==
    /\ pc[r] = "loaded"
    /\ ~asLimited[r]
    /\ pc' = [pc EXCEPT ![r] = "inserting"]
    /\ UNCHANGED <<limited, asLimited, used, lock, planVars>>

\* Variant of LockUser: the row is read without FOR UPDATE.
LockUser_PlainRead(r) ==
    /\ pc[r] = "loaded"
    /\ asLimited[r]
    /\ pc' = [pc EXCEPT ![r] = "locked"]
    /\ UNCHANGED <<limited, asLimited, used, lock, planVars>>

\* get_by_id_for_update: waits until no other transaction holds the row.
LockUser(r) ==
    /\ pc[r] = "loaded"
    /\ asLimited[r]
    /\ lock[userOf[r]] = NoRequest
    /\ lock' = [lock EXCEPT ![userOf[r]] = r]
    /\ pc' = [pc EXCEPT ![r] = "locked"]
    /\ UNCHANGED <<limited, asLimited, used, planVars>>

\* get_status counts what is committed now; a slot remains.
Pass(r) ==
    LET n == Cardinality(Usage(userOf[r])) IN
    /\ pc[r] = "locked"
    /\ n < Limit
    /\ used' = [used EXCEPT ![r] = n + 1]
    /\ pc' = [pc EXCEPT ![r] = "inserting"]
    /\ UNCHANGED <<limited, asLimited, lock, planVars>>

\* QuotaExceededError: the session is closed, which rolls back.
Refuse(r) ==
    /\ pc[r] = "locked"
    /\ Cardinality(Usage(userOf[r])) >= Limit
    /\ pc' = [pc EXCEPT ![r] = "refused"]
    /\ Release(r)
    /\ UNCHANGED <<limited, asLimited, used, planVars>>

\* The plan is inserted and committed, and the row lock released with it.
Insert(r) ==
    /\ pc[r] = "inserting"
    /\ plan' = [plan EXCEPT ![r] = "live"]
    /\ pc' = [pc EXCEPT ![r] = "done"]
    /\ Release(r)
    /\ UNCHANGED <<limited, asLimited, used, inWindow, revived>>

\* The connection is lost or the API process dies: the transaction rolls back.
Abort(r) ==
    /\ pc[r] \in {"loaded", "locked", "inserting"}
    /\ pc' = [pc EXCEPT ![r] = "refused"]
    /\ Release(r)
    /\ UNCHANGED <<limited, asLimited, used, planVars>>

-----------------------------------------------------------------------------
(* What else changes the count.  None of it takes the lock of the profile, *)
(* except the change of tier or role.                                      *)

RequestFrame == UNCHANGED <<limited, asLimited, pc, used, lock>>

\* generation_tasks._fail.
PlanFails(p) ==
    /\ plan[p] = "live"
    /\ plan' = [plan EXCEPT ![p] = "failed"]
    /\ UNCHANGED <<inWindow, revived>>
    /\ RequestFrame

\* _run_generation on a redelivered message: only completed plans are skipped.
PlanRunsAgain(p) ==
    /\ plan[p] = "failed"
    /\ plan' = [plan EXCEPT ![p] = "live"]
    /\ revived' = [revived EXCEPT ![p] = TRUE]
    /\ UNCHANGED inWindow
    /\ RequestFrame

\* lesson_plan_service.delete_plan; a plan deleted after it failed is "purged".
DeletePlan(p) ==
    /\ plan[p] \in {"live", "failed"}
    /\ plan' = [plan EXCEPT ![p] = IF @ = "live" THEN "deleted" ELSE "purged"]
    /\ UNCHANGED <<inWindow, revived>>
    /\ RequestFrame

\* The plan becomes older than QUOTA_WINDOW.
LeaveWindow(p) ==
    /\ plan[p] # "none"
    /\ inWindow[p]
    /\ inWindow' = [inWindow EXCEPT ![p] = FALSE]
    /\ UNCHANGED <<plan, revived>>
    /\ RequestFrame

\* user_service.admin_update locks the profile row before it changes it.
ChangeTier(u) ==
    /\ lock[u] = NoRequest
    /\ limited' = [limited EXCEPT ![u] = ~@]
    /\ UNCHANGED <<asLimited, pc, used, lock, planVars>>

-----------------------------------------------------------------------------
Next ==
    \/ \E r \in Requests :
        \/ LoadUser(r) \/ Unlimited(r) \/ LockUser(r) \/ Pass(r) \/ Refuse(r)
        \/ Insert(r) \/ Abort(r)
        \/ PlanFails(r) \/ PlanRunsAgain(r) \/ DeletePlan(r) \/ LeaveWindow(r)
    \/ \E u \in Users : ChangeTier(u)

Spec == Init /\ [][Next]_vars

-----------------------------------------------------------------------------
(* Properties.                                                             *)

\* Plans that were let through by a check of the quota and never failed.
Charged(u) == {p \in Usage(u) : asLimited[p] /\ ~revived[p]}

\* Two requests that arrive together cannot both take the last slot: of the
\* plans a user started under the limit in the last 24 hours, at most Limit
\* hold a slot.  A plan that failed and was then run again by a redelivered
\* message is not among them: nothing checks the quota for it.
QuotaHeld ==
    \A u \in Users : Limit # 0 => Cardinality(Charged(u)) <= Limit

\* The profile row is locked exactly by the request of that user that is
\* between its check and the end of its transaction, so nothing keeps an
\* ended request's lock and blocks the account.
LockedInside ==
    \A r \in Requests :
        Holds(r) <=> asLimited[r] /\ pc[r] \in {"locked", "inserting"}

=============================================================================
