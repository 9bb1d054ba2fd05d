------------------------------ MODULE RateLimit ------------------------------
(***************************************************************************)
(* The Redis counters of core/rate_limit and the two ways they are used:   *)
(* failed logins (checked, then counted or cleared) and e-mail actions     *)
(* (counted first).  Each Redis command is one step; any of them may fail, *)
(* and the counters fail open.                                             *)
(*                                                                         *)
(* One e-mail address, so one key for each use.  The key of failed         *)
(* passwords (user_service._check_password) works like the one of failed   *)
(* logins.                                                                 *)
(***************************************************************************)
EXTENDS Integers, FiniteSets

CONSTANTS
    Calls,       \* each handled once; bounds the counters
    MaxFailed,      \* login_max_failed_attempts
    PerHour         \* EMAIL_ACTIONS_PER_HOUR

ASSUME CallsAssumption == IsFiniteSet(Calls)
ASSUME LimitsAssumption == MaxFailed \in Nat \ {0} /\ PerHour \in Nat \ {0}

Keys == {"login", "email"}

VARIABLES
    count,      \* per key: its value, 0 if it does not exist
    ttl,        \* per key: it will expire
    step,         \* per request: its next step
    use,        \* per request: the key it counts on
    allowed,    \* e-mail actions allowed in the window of the key now counting
    cut         \* per key, while it exists: an increment was cut short

limitVars == <<count, ttl, step, use, allowed, cut>>

\* Types; only a key that exists can expire.
LimitTypeOK ==
    /\ count \in [Keys -> Nat]
    /\ ttl \in [Keys -> BOOLEAN]
    /\ step \in [Calls -> {"idle", "verify", "incr", "expire", "reset", "refused", "done"}]
    /\ use \in [Calls -> Keys]
    /\ allowed \in SUBSET Calls
    /\ cut \in [Keys -> BOOLEAN]
    /\ \A k \in Keys : ttl[k] => count[k] > 0

LimitInit ==
    /\ count = [k \in Keys |-> 0]
    /\ ttl = [k \in Keys |-> FALSE]
    /\ step = [r \in Calls |-> "idle"]
    /\ use = [r \in Calls |-> "login"]
    /\ allowed = {}
    /\ cut = [k \in Keys |-> FALSE]

-----------------------------------------------------------------------------
Goto(r, label) == step' = [step EXCEPT ![r] = label]

\* login begins: too many failures are refused; a failed read gives 0.
GetCount(r) ==
    /\ step[r] = "idle"
    /\ \E n \in {count["login"], 0} :
           Goto(r, IF n >= MaxFailed THEN "refused" ELSE "verify")
    /\ UNCHANGED <<count, ttl, use, allowed, cut>>

\* The password is wrong (then it is counted), or right (then the counter is
\* cleared, unless the account is disabled or not verified).
Verify(r) ==
    /\ step[r] = "verify"
    /\ \E label \in {"incr", "reset", "done"} : Goto(r, label)
    /\ UNCHANGED <<count, ttl, use, allowed, cut>>

\* resend_verification and forgot_password.
EmailAction(r) ==
    /\ step[r] = "idle"
    /\ use' = [use EXCEPT ![r] = "email"]
    /\ Goto(r, "incr")
    /\ UNCHANGED <<count, ttl, allowed, cut>>

\* reset_password clears the login failures.
PasswordReset(r) ==
    /\ step[r] = "idle"
    /\ Goto(r, "reset")
    /\ UNCHANGED <<count, ttl, use, allowed, cut>>

\* _email_action_allowed, by the count that INCR returns.
Allow(r, n) ==
    allowed' = IF use[r] = "email" /\ n <= PerHour THEN allowed \cup {r} ELSE allowed

\* Variant of Incr: the action is allowed by the count before.
Incr_CountBefore(r) ==
    LET k == use[r] IN
    /\ step[r] = "incr"
    /\ count' = [count EXCEPT ![k] = @ + 1]
    /\ Allow(r, count[k])
    /\ Goto(r, IF count'[k] = 1 THEN "expire" ELSE "done")
    /\ UNCHANGED <<ttl, use, cut>>

\* Variant of Incr: the expiry is started on the second use.
Incr_ExpiresSecond(r) ==
    LET k == use[r] IN
    /\ step[r] = "incr"
    /\ count' = [count EXCEPT ![k] = @ + 1]
    /\ Allow(r, count'[k])
    /\ Goto(r, IF count'[k] = 2 THEN "expire" ELSE "done")
    /\ UNCHANGED <<ttl, use, cut>>

\* INCR; the first use goes on to EXPIRE.
Incr(r) ==
    LET k == use[r] IN
    /\ step[r] = "incr"
    /\ count' = [count EXCEPT ![k] = @ + 1]
    /\ Allow(r, count'[k])
    /\ Goto(r, IF count'[k] = 1 THEN "expire" ELSE "done")
    /\ UNCHANGED <<ttl, use, cut>>

\* INCR fails, before or after it took effect: increment returns 0, so an e-mail
\* action goes through uncounted.
IncrFails(r) ==
    LET k == use[r] IN
    /\ step[r] = "incr"
    /\ \/ UNCHANGED <<count, cut>>
       \/ /\ count' = [count EXCEPT ![k] = @ + 1]
          /\ cut' = [cut EXCEPT ![k] = @ \/ count[k] = 0]
    /\ Goto(r, "done")
    /\ UNCHANGED <<ttl, use, allowed>>

\* EXPIRE does nothing to a key that is gone.
Expire(r) ==
    /\ step[r] = "expire"
    /\ ttl' = [ttl EXCEPT ![use[r]] = count[use[r]] > 0]
    /\ Goto(r, "done")
    /\ UNCHANGED <<count, use, allowed, cut>>

\* EXPIRE fails, or the process ends between the two commands.
ExpireFails(r) ==
    /\ step[r] = "expire"
    /\ cut' = [cut EXCEPT ![use[r]] = count[use[r]] > 0]
    /\ Goto(r, "done")
    /\ UNCHANGED <<count, ttl, use, allowed>>

\* DEL of the login failures, which may fail.
Reset(r) ==
    /\ step[r] = "reset"
    /\ \/ /\ count' = [count EXCEPT !["login"] = 0]
          /\ ttl' = [ttl EXCEPT !["login"] = FALSE]
          /\ cut' = [cut EXCEPT !["login"] = FALSE]
       \/ UNCHANGED <<count, ttl, cut>>
    /\ Goto(r, "done")
    /\ UNCHANGED <<use, allowed>>

\* The key expires.
WindowEnds(k) ==
    /\ ttl[k]
    /\ count' = [count EXCEPT ![k] = 0]
    /\ ttl' = [ttl EXCEPT ![k] = FALSE]
    /\ cut' = [cut EXCEPT ![k] = FALSE]
    /\ allowed' = IF k = "email" THEN {} ELSE allowed
    /\ UNCHANGED <<step, use>>

Step(r) ==
    \/ GetCount(r) \/ Verify(r) \/ EmailAction(r) \/ PasswordReset(r)
    \/ Incr(r) \/ IncrFails(r) \/ Expire(r) \/ ExpireFails(r) \/ Reset(r)

LimitNext == (\E r \in Calls : Step(r)) \/ (\E k \in Keys : WindowEnds(k))

LimitSpec == LimitInit /\ [][LimitNext]_limitVars

\* Keys expire, and a request that has begun goes on.
LimitFairSpec ==
    /\ LimitSpec
    /\ \A k \in Keys : WF_limitVars(WindowEnds(k))
    /\ \A r \in Calls : WF_limitVars(step[r] # "idle" /\ Step(r))

-----------------------------------------------------------------------------
(* Properties.                                                             *)

\* A counter always has an end in sight: it will expire, or a request is about to
\* see to that, unless one was cut short there.
EndInSight ==
    \A k \in Keys : count[k] > 0 /\ ~cut[k] =>
        \/ ttl[k]
        \/ \E r \in Calls : step[r] = "expire" /\ use[r] = k

\* However the requests interleave, at most PerHour e-mail actions are allowed by
\* a count in one window.
AllowedInWindow == Cardinality(allowed) <= PerHour

\* A lockout ends, unless an increment was cut short.
LockoutEnds ==
    (count["login"] >= MaxFailed /\ ~cut["login"]) ~>
        (count["login"] < MaxFailed \/ cut["login"])

=============================================================================
