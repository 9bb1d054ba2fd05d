----------------------------- MODULE AdminGuard -----------------------------
(***************************************************************************)
(* Changing and deleting accounts (user_service.admin_update,              *)
(* admin_delete and delete_account), and the guard that is to leave one    *)
(* active administrator.  Requests run concurrently as PostgreSQL          *)
(* transactions (READ COMMITTED).  Each loads its actor when it starts and *)
(* keeps that object in its session: a later locked read does not refresh  *)
(* it.                                                                     *)
(*                                                                         *)
(* Subscription tiers, profile data and passwords are left out.  An        *)
(* administrator may not name himself in admin_update (for a change) or    *)
(* admin_delete; such requests change nothing and are left out too.        *)
(***************************************************************************)
EXTENDS Integers, FiniteSets

CONSTANTS
    Users,          \* profiles rows
    Callers,        \* requests, each handled once
    NoCaller,       \* the row is not locked
    NoJob           \* the request has not been sent

ASSUME NamesAssumption == NoCaller \notin Callers

Roles == {"admin", "user"}

\* A request: who sends it, about whom, the role and the status its payload asks
\* for ("keep" where the field is absent), and whether the actor was an
\* administrator when get_current_user loaded him.
Job == [op : {"update", "delete", "delete_me"}, actor : Users, target : Users,
        role : Roles \cup {"keep"}, status : {"disabled", "active", "keep"},
        asAdmin : BOOLEAN]

ASSUME JobAssumption == NoJob \notin Job

VARIABLES
    role,       \* profiles.role, or "gone" once the row is deleted
    disabled,   \* profiles.disabled_at is set
    rowLock,    \* the request that holds the row
    pc,         \* per request: its next statement
    job,        \* per request: the Job, constant once it is sent
    admins      \* per request: what lock_active_admin_ids selects, then returns

guardVars == <<role, disabled, rowLock, pc, job, admins>>

-----------------------------------------------------------------------------
Exists(u) == role[u] # "gone"
IsActiveAdmin(u) == role[u] = "admin" /\ ~disabled[u]
ActiveAdmins == {u \in Users : IsActiveAdmin(u)}

\* removes_an_admin of admin_update, for the target as it is now.
RemovesAnAdmin(r) ==
    LET j == job[r] IN
    IsActiveAdmin(j.target) /\ (j.role = "user" \/ j.status = "disabled")

\* Types; a row is locked only by a request in the middle of its transaction.
GuardTypeOK ==
    /\ role \in [Users -> Roles \cup {"gone"}]
    /\ disabled \in [Users -> BOOLEAN]
    /\ rowLock \in [Users -> Callers \cup {NoCaller}]
    /\ pc \in [Callers -> {"idle", "lock", "select", "count", "write",
                            "delete", "done"}]
    /\ job \in [Callers -> Job \cup {NoJob}]
    /\ admins \in [Callers -> SUBSET Users]
    /\ \A r \in Callers : job[r] = NoJob <=> pc[r] = "idle"
    /\ \A u \in Users : rowLock[u] # NoCaller => pc[rowLock[u]] \notin {"idle", "lock", "done"}

GuardInit ==
    /\ role \in [Users -> Roles]
    /\ disabled \in [Users -> BOOLEAN]
    /\ ActiveAdmins # {}
    /\ rowLock = [u \in Users |-> NoCaller]
    /\ pc = [r \in Callers |-> "idle"]
    /\ job = [r \in Callers |-> NoJob]
    /\ admins = [r \in Callers |-> {}]

-----------------------------------------------------------------------------
Goto(r, label) == pc' = [pc EXCEPT ![r] = label]

\* Commit or rollback.
End(r) ==
    /\ Goto(r, "done")
    /\ rowLock' = [u \in Users |-> IF rowLock[u] = r THEN NoCaller ELSE rowLock[u]]

Unlocked(r, S) == \A u \in S : rowLock[u] \in {NoCaller, r}

\* get_current_user: the account exists and is not disabled.
Send(r, j) ==
    /\ pc[r] = "idle"
    /\ Exists(j.actor)
    /\ ~disabled[j.actor]
    /\ j.op = "update" \/ (j.role = "keep" /\ j.status = "keep")
    /\ j.asAdmin = (role[j.actor] = "admin")
    /\ job' = [job EXCEPT ![r] = j]
    /\ UNCHANGED <<role, disabled, rowLock, admins>>

\* PATCH /users/{id}, for administrators.
SendUpdate(r, j) ==
    /\ j.op = "update"
    /\ j.asAdmin
    /\ j.target # j.actor
    /\ Send(r, j)
    /\ Goto(r, "lock")

\* DELETE /users/{id}, for administrators.
SendDelete(r, j) ==
    /\ j.op = "delete"
    /\ j.asAdmin
    /\ j.target # j.actor
    /\ Send(r, j)
    /\ Goto(r, "delete")

\* DELETE /users/me, with the right password: only one who was an administrator
\* when he was loaded is counted.
SendDeleteMe(r, j) ==
    /\ j.op = "delete_me"
    /\ j.target = j.actor
    /\ Send(r, j)
    /\ Goto(r, IF j.asAdmin THEN "select" ELSE "delete")

-----------------------------------------------------------------------------
\* Variant of LockTarget: the target is read without FOR UPDATE.
LockTarget_PlainRead(r) ==
    /\ pc[r] = "lock"
    /\ Exists(job[r].target)
    /\ Goto(r, IF RemovesAnAdmin(r) THEN "select" ELSE "write")
    /\ UNCHANGED <<role, disabled, rowLock, job, admins>>

\* get_by_id_for_update, and the decision whether an administrator goes.
LockTarget(r) ==
    /\ pc[r] = "lock"
    /\ Unlocked(r, {job[r].target})
    /\ Exists(job[r].target)
    /\ rowLock' = [rowLock EXCEPT ![job[r].target] = r]
    /\ Goto(r, IF RemovesAnAdmin(r) THEN "select" ELSE "write")
    /\ UNCHANGED <<role, disabled, job, admins>>

\* UserNotFoundError.
NotFound(r) ==
    /\ pc[r] = "lock"
    /\ Unlocked(r, {job[r].target})
    /\ ~Exists(job[r].target)
    /\ End(r)
    /\ UNCHANGED <<role, disabled, job, admins>>

\* lock_active_admin_ids starts: the rows committed now.
SelectAdmins(r) ==
    /\ pc[r] = "select"
    /\ admins' = [admins EXCEPT ![r] = ActiveAdmins]
    /\ Goto(r, "count")
    /\ UNCHANGED <<role, disabled, rowLock, job>>

\* Variant of CountAdmins: the ids are selected without FOR UPDATE.
CountAdmins_PlainRead(r) ==
    /\ pc[r] = "count"
    /\ IF admins[r] = {job[r].target}
       THEN End(r) /\ UNCHANGED admins
       ELSE /\ Goto(r, IF job[r].op = "update" THEN "write" ELSE "delete")
            /\ UNCHANGED <<rowLock, admins>>
    /\ UNCHANGED <<role, disabled, job>>

\* The rows it selected are free: those that still match are locked and
\* returned.  If only the target's is left, LastAdminError.
CountAdmins(r) ==
    LET still == admins[r] \cap ActiveAdmins IN
    /\ pc[r] = "count"
    /\ Unlocked(r, admins[r])
    /\ admins' = [admins EXCEPT ![r] = still]
    /\ IF still = {job[r].target}
       THEN End(r)
       ELSE /\ rowLock' = [u \in Users |-> IF u \in still THEN r ELSE rowLock[u]]
            /\ Goto(r, IF job[r].op = "update" THEN "write" ELSE "delete")
    /\ UNCHANGED <<role, disabled, job>>

\* The changes of admin_update are committed.
Write(r) ==
    LET j == job[r] IN
    /\ pc[r] = "write"
    /\ role' = IF j.role = "keep" THEN role
               ELSE [role EXCEPT ![j.target] = j.role]
    /\ disabled' = IF j.status = "keep" THEN disabled
                   ELSE [disabled EXCEPT ![j.target] = j.status = "disabled"]
    /\ End(r)
    /\ UNCHANGED <<job, admins>>

\* The row is deleted, if it still exists, and the deletion committed.
Delete(r) ==
    LET t == job[r].target IN
    /\ pc[r] = "delete"
    /\ Unlocked(r, {t})
    /\ role' = [role EXCEPT ![t] = "gone"]
    /\ End(r)
    /\ UNCHANGED <<disabled, job, admins>>

\* The connection is lost, or PostgreSQL ends a deadlock: rollback.
RollBack(r) ==
    /\ pc[r] \notin {"idle", "done"}
    /\ End(r)
    /\ UNCHANGED <<role, disabled, job, admins>>

GuardNext ==
    \E r \in Callers :
        \/ \E j \in Job : SendUpdate(r, j) \/ SendDelete(r, j) \/ SendDeleteMe(r, j)
        \/ LockTarget(r) \/ NotFound(r) \/ SelectAdmins(r) \/ CountAdmins(r)
        \/ Write(r) \/ Delete(r) \/ RollBack(r)

GuardSpec == GuardInit /\ [][GuardNext]_guardVars

-----------------------------------------------------------------------------
(* Properties.                                                             *)

\* admin_update never takes the last active administrator away, whatever other
\* requests promote, demote, disable or delete between its reads and its commit.
UpdateKeepsAnAdmin ==
    [][\A r \in Callers :
          pc[r] = "write" /\ pc'[r] = "done" /\ ActiveAdmins # {} =>
              ActiveAdmins' # {}]_guardVars

\* Whoever counted the active administrators before removing one, be it himself,
\* leaves one when he commits.
CountedKeepsAnAdmin ==
    [][\A r \in Callers :
          /\ pc[r] \in {"write", "delete"}
          /\ pc'[r] = "done"
          /\ admins[r] # {}
          => ActiveAdmins' # {}]_guardVars

\* "The last active administrator can never be demoted, disabled or deleted."
LastAdminStays == ActiveAdmins # {}

=============================================================================
