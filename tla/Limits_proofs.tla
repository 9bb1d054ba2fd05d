---------------------------- MODULE Limits_proofs ----------------------------
(***************************************************************************)
(* The two limits on what a user may ask for, for any number of users and  *)
(* requests and any limit.                                                 *)
(*                                                                         *)
(* The counters of RateLimit: the limit of e-mail actions becomes          *)
(* inductive with the number the counter itself has reached, as an action  *)
(* is allowed only together with an increment.                             *)
(*                                                                         *)
(* The quota of Quota: its invariant is inductive once it is known who     *)
(* holds the row lock and that a request which passed its check still has  *)
(* its slot: while it holds the lock, the plans charged to its user can    *)
(* only become fewer.                                                      *)
(***************************************************************************)
EXTENDS RateLimit, Quota, FiniteSetTheorems, TLAPS

USE CallsAssumption, LimitsAssumption, UsersAssumption, RequestsAssumption,
    LimitAssumption

-----------------------------------------------------------------------------
(* The counters of RateLimit.                                              *)

\* Every action allowed in the window was counted in it.
AllowedCounted == Cardinality(allowed) <= count["email"]

LimitIInv == LimitTypeOK /\ EndInSight /\ AllowedCounted /\ AllowedInWindow

\* The allowed actions are finitely many, and one more is at most one more.
LEMMA AllowedSets ==
    ASSUME NEW A \in SUBSET Calls, NEW r \in Calls
    PROVE  /\ Cardinality(A) \in Nat
           /\ Cardinality(A \cup {r}) \in Nat
           /\ Cardinality(A \cup {r}) <= Cardinality(A) + 1
  <1>1. IsFiniteSet(A) BY FS_Subset
  <1>2. IsFiniteSet(A \cup {r}) BY <1>1, FS_AddElement
  <1>3. Cardinality(A) \in Nat /\ Cardinality(A \cup {r}) \in Nat
    BY <1>1, <1>2, FS_CardinalityType
  <1>4. Cardinality(A \cup {r}) = IF r \in A THEN Cardinality(A)
                                  ELSE Cardinality(A) + 1
    BY <1>1, FS_AddElement
  <1> QED BY <1>3, <1>4

LEMMA LimitInitInv == LimitInit => LimitIInv
  <1> SUFFICES ASSUME LimitInit PROVE LimitIInv
    OBVIOUS
  <1>1. LimitTypeOK BY DEF LimitInit, LimitTypeOK, Keys
  <1>2. EndInSight BY DEF LimitInit, EndInSight, Keys
  <1>3. Cardinality({}) = 0 BY FS_EmptySet
  <1>4. AllowedCounted /\ AllowedInWindow
    BY <1>3 DEF LimitInit, AllowedCounted, AllowedInWindow, Keys
  <1> QED BY <1>1, <1>2, <1>4 DEF LimitIInv

LEMMA LimitStepType == ASSUME LimitTypeOK, [LimitNext]_limitVars PROVE LimitTypeOK'
  <1> USE DEF LimitTypeOK, Goto, Keys
  <1>1. ASSUME NEW r \in Calls, GetCount(r) PROVE LimitTypeOK'
    BY <1>1 DEF GetCount
  <1>2. ASSUME NEW r \in Calls, Verify(r) PROVE LimitTypeOK'
    BY <1>2 DEF Verify
  <1>3. ASSUME NEW r \in Calls, EmailAction(r) \/ PasswordReset(r) PROVE LimitTypeOK'
    BY <1>3 DEF EmailAction, PasswordReset
  <1>4. ASSUME NEW r \in Calls, Incr(r) PROVE LimitTypeOK'
    BY <1>4 DEF Incr, Allow
  <1>5. ASSUME NEW r \in Calls, IncrFails(r) PROVE LimitTypeOK'
    <2>1. CASE UNCHANGED <<count, cut>> BY <1>5, <2>1 DEF IncrFails
    <2>2. CASE /\ count' = [count EXCEPT ![use[r]] = @ + 1]
               /\ cut' = [cut EXCEPT ![use[r]] = @ \/ count[use[r]] = 0]
      <3>1. (cut[use[r]] \/ count[use[r]] = 0) \in BOOLEAN BY Zenon
      <3>2. cut' \in [Keys -> BOOLEAN] BY <2>2, <3>1, Zenon
      <3>3. count' \in [Keys -> Nat]
            /\ \A k \in Keys : count'[k] >= count[k]
        BY <2>2
      <3>4. step' \in [Calls -> {"idle", "verify", "incr", "expire", "reset",
                                 "refused", "done"}]
        BY <1>5 DEF IncrFails
      <3> QED BY <1>5, <3>2, <3>3, <3>4 DEF IncrFails
    <2> QED BY <1>5, <2>1, <2>2 DEF IncrFails
  <1>6. ASSUME NEW r \in Calls, Expire(r) PROVE LimitTypeOK'
    BY <1>6 DEF Expire
  <1>7. ASSUME NEW r \in Calls, ExpireFails(r) PROVE LimitTypeOK'
    BY <1>7 DEF ExpireFails
  <1>8. ASSUME NEW r \in Calls, Reset(r) PROVE LimitTypeOK'
    <2>1. CASE UNCHANGED <<count, ttl, cut>> BY <1>8, <2>1 DEF Reset
    <2>2. CASE /\ count' = [count EXCEPT !["login"] = 0]
               /\ ttl' = [ttl EXCEPT !["login"] = FALSE]
               /\ cut' = [cut EXCEPT !["login"] = FALSE]
      BY <1>8, <2>2 DEF Reset
    <2> QED BY <1>8, <2>1, <2>2 DEF Reset
  <1>9. ASSUME NEW k \in Keys, WindowEnds(k) PROVE LimitTypeOK'
    BY <1>9 DEF WindowEnds
  <1>10. CASE UNCHANGED limitVars BY <1>10 DEF limitVars
  <1> QED BY <1>1, <1>2, <1>3, <1>4, <1>5, <1>6, <1>7, <1>8, <1>9, <1>10
          DEF LimitNext, Step

\* A counter that starts has a request bound for EXPIRE, which leaves a time to
\* live or a mark that it was cut short.
LEMMA StepEnd == ASSUME LimitTypeOK, EndInSight, [LimitNext]_limitVars PROVE EndInSight'
  <1> USE DEF LimitTypeOK, EndInSight, Goto, Keys
  <1>1. ASSUME NEW r \in Calls, GetCount(r) PROVE EndInSight'
    BY <1>1 DEF GetCount
  <1>2. ASSUME NEW r \in Calls, Verify(r) PROVE EndInSight'
    BY <1>2 DEF Verify
  <1>3. ASSUME NEW r \in Calls, EmailAction(r) \/ PasswordReset(r) PROVE EndInSight'
    BY <1>3 DEF EmailAction, PasswordReset
  <1>4. ASSUME NEW r \in Calls, Incr(r) PROVE EndInSight'
    <2> SUFFICES ASSUME NEW k \in Keys, count'[k] > 0, ~cut[k], ~ttl[k]
                 PROVE  \E q \in Calls : step'[q] = "expire" /\ use[q] = k
      BY <1>4 DEF Incr
    <2>1. CASE count[k] > 0
      <3>1. PICK q \in Calls : step[q] = "expire" /\ use[q] = k BY <2>1
      <3> QED BY <1>4, <3>1 DEF Incr
    <2>2. CASE count[k] = 0
      <3>1. use[r] = k /\ count'[k] = 1 BY <1>4, <2>2 DEF Incr
      <3> QED BY <1>4, <3>1 DEF Incr
    <2> QED BY <2>1, <2>2
  <1>5. ASSUME NEW r \in Calls, IncrFails(r) PROVE EndInSight'
    <2> SUFFICES ASSUME NEW k \in Keys, count'[k] > 0, ~cut'[k], ~ttl[k]
                 PROVE  \E q \in Calls : step'[q] = "expire" /\ use[q] = k
      BY <1>5 DEF IncrFails
    <2>1. count[k] > 0 /\ ~cut[k]
      <3>1. CASE UNCHANGED <<count, cut>> BY <3>1
      <3>2. CASE /\ count' = [count EXCEPT ![use[r]] = @ + 1]
                 /\ cut' = [cut EXCEPT ![use[r]] = @ \/ count[use[r]] = 0]
        <4>1. CASE use[r] = k
          <5>1. cut'[k] = (cut[k] \/ count[k] = 0) BY <3>2, <4>1, Zenon
          <5>2. ~cut[k] /\ count[k] # 0 BY <5>1, Zenon
          <5> QED BY <5>2
        <4>2. CASE use[r] # k BY <3>2, <4>2
        <4> QED BY <4>1, <4>2
      <3> QED BY <1>5, <3>1, <3>2 DEF IncrFails
    <2>2. PICK q \in Calls : step[q] = "expire" /\ use[q] = k BY <2>1
    <2> QED BY <1>5, <2>2 DEF IncrFails
  <1>6. ASSUME NEW r \in Calls, Expire(r) PROVE EndInSight'
    <2> SUFFICES ASSUME NEW k \in Keys, count[k] > 0, ~cut[k], ~ttl'[k]
                 PROVE  \E q \in Calls : step'[q] = "expire" /\ use[q] = k
      BY <1>6 DEF Expire
    <2>1. use[r] # k /\ ~ttl[k] BY <1>6 DEF Expire
    <2>2. PICK q \in Calls : step[q] = "expire" /\ use[q] = k BY <2>1
    <2> QED BY <1>6, <2>1, <2>2 DEF Expire
  <1>7. ASSUME NEW r \in Calls, ExpireFails(r) PROVE EndInSight'
    <2> SUFFICES ASSUME NEW k \in Keys, count[k] > 0, ~cut'[k], ~ttl[k]
                 PROVE  \E q \in Calls : step'[q] = "expire" /\ use[q] = k
      BY <1>7 DEF ExpireFails
    <2>1. use[r] # k /\ ~cut[k] BY <1>7 DEF ExpireFails
    <2>2. PICK q \in Calls : step[q] = "expire" /\ use[q] = k BY <2>1
    <2> QED BY <1>7, <2>1, <2>2 DEF ExpireFails
  <1>8. ASSUME NEW r \in Calls, Reset(r) PROVE EndInSight'
    BY <1>8 DEF Reset
  <1>9. ASSUME NEW k \in Keys, WindowEnds(k) PROVE EndInSight'
    BY <1>9 DEF WindowEnds
  <1>10. CASE UNCHANGED limitVars BY <1>10 DEF limitVars
  <1> QED BY <1>1, <1>2, <1>3, <1>4, <1>5, <1>6, <1>7, <1>8, <1>9, <1>10
          DEF LimitNext, Step

\* The increment that allows an action is counted by the same command, so the
\* value it returns bounds the actions allowed.
LEMMA StepAllowed ==
    ASSUME LimitIInv, [LimitNext]_limitVars PROVE (AllowedCounted /\ AllowedInWindow)'
  <1> USE DEF LimitIInv, LimitTypeOK, AllowedCounted, AllowedInWindow, Keys
  <1>0. Cardinality(allowed) \in Nat
    <2>1. IsFiniteSet(allowed) BY FS_Subset
    <2> QED BY <2>1, FS_CardinalityType
  <1>1. ASSUME NEW r \in Calls, Incr(r)
        PROVE (AllowedCounted /\ AllowedInWindow)'
    <2>1. CASE use[r] = "email" /\ count'["email"] <= PerHour
      <3>1. allowed' = allowed \cup {r} BY <1>1, <2>1 DEF Incr, Allow
      <3>2. Cardinality(allowed') <= Cardinality(allowed) + 1
            /\ Cardinality(allowed') \in Nat
        BY <3>1, AllowedSets
      <3>3. count'["email"] = count["email"] + 1 BY <1>1, <2>1 DEF Incr
      <3> QED BY <1>0, <2>1, <3>2, <3>3
    <2>2. CASE ~(use[r] = "email" /\ count'["email"] <= PerHour)
      <3>1. allowed' = allowed BY <1>1, <2>2 DEF Incr, Allow
      <3>2. count'["email"] >= count["email"] /\ count'["email"] \in Nat
        BY <1>1 DEF Incr
      <3> QED BY <1>0, <3>1, <3>2
    <2> QED BY <2>1, <2>2
  <1>2. ASSUME NEW r \in Calls, IncrFails(r)
        PROVE (AllowedCounted /\ AllowedInWindow)'
    <2>1. allowed' = allowed /\ count'["email"] >= count["email"]
          /\ count'["email"] \in Nat
      BY <1>2 DEF IncrFails
    <2> QED BY <1>0, <2>1
  <1>3. ASSUME NEW k \in Keys, WindowEnds(k)
        PROVE (AllowedCounted /\ AllowedInWindow)'
    <2>1. CASE k = "email"
      <3>1. allowed' = {} /\ count'["email"] = 0 BY <1>3, <2>1 DEF WindowEnds
      <3> QED BY <3>1, FS_EmptySet
    <2>2. CASE k # "email"
      <3>1. allowed' = allowed /\ count'["email"] = count["email"]
        BY <1>3, <2>2 DEF WindowEnds
      <3> QED BY <3>1
    <2> QED BY <2>1, <2>2
  <1>4. ASSUME NEW r \in Calls,
               \/ GetCount(r) \/ Verify(r) \/ EmailAction(r) \/ PasswordReset(r)
               \/ Expire(r) \/ ExpireFails(r) \/ Reset(r)
        PROVE (AllowedCounted /\ AllowedInWindow)'
    <2>1. allowed' = allowed /\ count'["email"] = count["email"]
      BY <1>4 DEF GetCount, Verify, EmailAction, PasswordReset, Expire, ExpireFails,
                  Reset
    <2> QED BY <2>1
  <1>5. CASE UNCHANGED limitVars BY <1>5 DEF limitVars
  <1> QED BY <1>1, <1>2, <1>3, <1>4, <1>5 DEF LimitNext, Step

LEMMA LimitInvariant == LimitSpec => []LimitIInv
  <1>1. LimitIInv /\ [LimitNext]_limitVars => LimitIInv' BY LimitStepType, StepEnd, StepAllowed DEF LimitIInv
  <1> QED BY <1>1, LimitInitInv, PTL DEF LimitSpec

\* The counters and the requests keep their types, and only a key that exists
\* has a time to live.
THEOREM LimitTypeCorrect == LimitSpec => []LimitTypeOK
  <1>1. LimitIInv => LimitTypeOK BY DEF LimitIInv
  <1> QED BY <1>1, LimitInvariant, PTL

\* Between its INCR and its EXPIRE no failure, expiry or other request leaves a
\* counter for ever, unless the EXPIRE itself is lost: this is the safety half of
\* the end of a lockout.
THEOREM CountersEnd == LimitSpec => []EndInSight
  <1>1. LimitIInv => EndInSight BY DEF LimitIInv
  <1> QED BY <1>1, LimitInvariant, PTL

\* For any number of requests sent at once, at most PerHour e-mail actions are
\* allowed by a count in one window.
THEOREM LimitIsHeld == LimitSpec => []AllowedInWindow
  <1>1. LimitIInv => AllowedInWindow BY DEF LimitIInv
  <1> QED BY <1>1, LimitInvariant, PTL

-----------------------------------------------------------------------------
(* The quota.                                                              *)

\* A plan row exists only once its request has committed.
PlanAfterCommit == \A r \in Requests : plan[r] # "none" => pc[r] = "done"

\* A request that passed its check has a slot left.
SlotKept ==
    \A r \in Requests : pc[r] = "inserting" /\ asLimited[r] =>
        Cardinality(Charged(userOf[r])) < Limit

IInv == TypeOK /\ LockedInside /\ PlanAfterCommit /\ SlotKept /\ QuotaHeld

\* A set of plans has a size, and a subset of it no larger one.
LEMMA PlanSets ==
    ASSUME NEW T \in SUBSET Requests, NEW S \in SUBSET T
    PROVE  /\ Cardinality(S) \in Nat
           /\ Cardinality(T) \in Nat
           /\ Cardinality(S) <= Cardinality(T)
  <1>1. IsFiniteSet(T) BY FS_Subset
  <1>2. IsFiniteSet(S) /\ Cardinality(S) <= Cardinality(T) BY <1>1, FS_Subset
  <1>3. Cardinality(T) \in Nat BY <1>1, FS_CardinalityType
  <1>4. Cardinality(S) \in Nat BY <1>2, FS_CardinalityType
  <1> QED BY <1>2, <1>3, <1>4

\* Adding one plan adds at most one.
LEMMA OneMore ==
    ASSUME NEW T \in SUBSET Requests, NEW r \in Requests
    PROVE  Cardinality(T \cup {r}) <= Cardinality(T) + 1
  <1>1. IsFiniteSet(T) BY FS_Subset
  <1>2. Cardinality(T) \in Nat BY <1>1, FS_CardinalityType
  <1>3. Cardinality(T \cup {r}) = IF r \in T THEN Cardinality(T)
                                  ELSE Cardinality(T) + 1
    BY <1>1, FS_AddElement
  <1> QED BY <1>2, <1>3

LEMMA ChargedType ==
    \A u : Charged(u) \in SUBSET Usage(u) /\ Usage(u) \in SUBSET Requests
  BY DEF Charged, Usage

LEMMA InitInv == Init => IInv
  <1> SUFFICES ASSUME Init PROVE IInv
    OBVIOUS
  <1>1. TypeOK BY DEF Init, TypeOK
  <1>2. \A u : Charged(u) = {} BY DEF Init, Charged, Usage
  <1>3. Cardinality({}) = 0 BY FS_EmptySet
  <1>4. LockedInside BY DEF Init, LockedInside, Holds
  <1>5. PlanAfterCommit /\ SlotKept BY DEF Init, PlanAfterCommit, SlotKept
  <1>6. QuotaHeld BY <1>2, <1>3 DEF QuotaHeld
  <1> QED BY <1>1, <1>4, <1>5, <1>6 DEF IInv

LEMMA StepType == ASSUME IInv, [Next]_vars PROVE TypeOK'
  <1> USE DEF IInv, TypeOK, planVars, Holds, Release, RequestFrame
  <1>1. ASSUME NEW r \in Requests, LoadUser(r) PROVE TypeOK'
    BY <1>1 DEF LoadUser
  <1>2. ASSUME NEW r \in Requests, Unlimited(r) PROVE TypeOK'
    BY <1>2 DEF Unlimited
  <1>3. ASSUME NEW r \in Requests, LockUser(r) PROVE TypeOK'
    BY <1>3 DEF LockUser
  <1>4. ASSUME NEW r \in Requests, Pass(r) PROVE TypeOK'
    <2>1. Cardinality(Usage(userOf[r])) \in Nat BY PlanSets, ChargedType
    <2>2. Cardinality(Usage(userOf[r])) + 1 \in 0..Limit
      BY <1>4, <2>1 DEF Pass
    <2> QED BY <1>4, <2>2 DEF Pass
  <1>5. ASSUME NEW r \in Requests, Refuse(r) PROVE TypeOK'
    BY <1>5 DEF Refuse
  <1>6. ASSUME NEW r \in Requests, Insert(r) PROVE TypeOK'
    BY <1>6 DEF Insert
  <1>7. ASSUME NEW r \in Requests, Abort(r) PROVE TypeOK'
    BY <1>7 DEF Abort
  <1>8. ASSUME NEW r \in Requests,
               PlanFails(r) \/ PlanRunsAgain(r) \/ DeletePlan(r) \/ LeaveWindow(r)
        PROVE TypeOK'
    BY <1>8 DEF PlanFails, PlanRunsAgain, DeletePlan, LeaveWindow
  <1>9. ASSUME NEW u \in Users, ChangeTier(u) PROVE TypeOK'
    BY <1>9 DEF ChangeTier
  <1>10. CASE UNCHANGED vars BY <1>10 DEF vars
  <1> QED BY <1>1, <1>2, <1>3, <1>4, <1>5, <1>6, <1>7, <1>8, <1>9, <1>10 DEF Next

LEMMA StepPlans == ASSUME IInv, [Next]_vars PROVE PlanAfterCommit'
  BY DEF IInv, TypeOK, PlanAfterCommit, planVars, RequestFrame, Next, vars,
         LoadUser, Unlimited, LockUser, Pass, Refuse, Insert, Abort, PlanFails,
         PlanRunsAgain, DeletePlan, LeaveWindow, ChangeTier

\* The lock is taken on entering the transaction's critical part and given back
\* by whatever ends it.
LEMMA StepLock == ASSUME IInv, [Next]_vars PROVE LockedInside'
  <1> USE DEF IInv, TypeOK, LockedInside, planVars, Holds, Release, RequestFrame
  <1>1. ASSUME NEW r \in Requests, LoadUser(r) PROVE LockedInside'
    <2>1. \A q \in Requests \ {r} : pc'[q] = pc[q] /\ asLimited'[q] = asLimited[q]
      BY <1>1 DEF LoadUser
    <2>2. pc[r] = "idle" /\ pc'[r] = "loaded" /\ lock' = lock
      BY <1>1 DEF LoadUser
    <2> QED BY <2>1, <2>2
  <1>2. ASSUME NEW r \in Requests, Unlimited(r) PROVE LockedInside'
    BY <1>2 DEF Unlimited
  <1>3. ASSUME NEW r \in Requests, LockUser(r) PROVE LockedInside'
    BY <1>3 DEF LockUser
  <1>4. ASSUME NEW r \in Requests, Pass(r) PROVE LockedInside'
    BY <1>4 DEF Pass
  <1>5. ASSUME NEW r \in Requests, Refuse(r) PROVE LockedInside'
    BY <1>5 DEF Refuse
  <1>6. ASSUME NEW r \in Requests, Insert(r) PROVE LockedInside'
    BY <1>6 DEF Insert
  <1>7. ASSUME NEW r \in Requests, Abort(r) PROVE LockedInside'
    BY <1>7 DEF Abort
  <1>8. ASSUME NEW r \in Requests,
               PlanFails(r) \/ PlanRunsAgain(r) \/ DeletePlan(r) \/ LeaveWindow(r)
        PROVE LockedInside'
    BY <1>8 DEF PlanFails, PlanRunsAgain, DeletePlan, LeaveWindow
  <1>9. ASSUME NEW u \in Users, ChangeTier(u) PROVE LockedInside'
    BY <1>9 DEF ChangeTier
  <1>10. CASE UNCHANGED vars BY <1>10 DEF vars
  <1> QED BY <1>1, <1>2, <1>3, <1>4, <1>5, <1>6, <1>7, <1>8, <1>9, <1>10 DEF Next

\* Only the insertion by a request that is under the limit charges a plan.
LEMMA ChargedShrinks ==
    ASSUME IInv, [Next]_vars, NEW u \in Users,
           \A r \in Requests : Insert(r) => ~asLimited[r] \/ userOf[r] # u
    PROVE  Charged(u)' \subseteq Charged(u)
  <1> USE DEF IInv, TypeOK, Charged, Usage, planVars, RequestFrame
  <1>1. ASSUME NEW r \in Requests, LoadUser(r) PROVE Charged(u)' \subseteq Charged(u)
    BY <1>1 DEF LoadUser, PlanAfterCommit
  <1>2. ASSUME NEW r \in Requests,
               Unlimited(r) \/ LockUser(r) \/ Pass(r) \/ Refuse(r) \/ Abort(r)
        PROVE Charged(u)' \subseteq Charged(u)
    BY <1>2 DEF Unlimited, LockUser, Pass, Refuse, Abort
  <1>3. ASSUME NEW r \in Requests, Insert(r) PROVE Charged(u)' \subseteq Charged(u)
    BY <1>3 DEF Insert
  <1>4. ASSUME NEW r \in Requests,
               PlanFails(r) \/ DeletePlan(r) \/ LeaveWindow(r)
        PROVE Charged(u)' \subseteq Charged(u)
    BY <1>4 DEF PlanFails, DeletePlan, LeaveWindow
  <1>5. ASSUME NEW r \in Requests, PlanRunsAgain(r) PROVE Charged(u)' \subseteq Charged(u)
    BY <1>5 DEF PlanRunsAgain
  <1>6. ASSUME NEW v \in Users, ChangeTier(v) PROVE Charged(u)' \subseteq Charged(u)
    BY <1>6 DEF ChangeTier
  <1>7. CASE UNCHANGED vars BY <1>7 DEF vars
  <1> QED BY <1>1, <1>2, <1>3, <1>4, <1>5, <1>6, <1>7 DEF Next

\* While a request holds the lock of its user nothing else charges a plan to
\* that user.
LEMMA StepSlot == ASSUME IInv, [Next]_vars PROVE SlotKept'
  <1> SUFFICES ASSUME NEW q \in Requests, pc'[q] = "inserting", asLimited'[q]
               PROVE  Cardinality(Charged(userOf[q])') < Limit
    BY DEF SlotKept
  <1> DEFINE u == userOf[q]
  <1> USE DEF IInv, TypeOK, planVars, RequestFrame
  <1>0. u \in Users OBVIOUS
  <1>1. CASE Pass(q)
    <2>1. Charged(u)' = Charged(u) BY <1>1 DEF Pass, Charged, Usage
    <2>2. Cardinality(Charged(u)) <= Cardinality(Usage(u))
      BY ChargedType, PlanSets
    <2>3. Cardinality(Charged(u)) \in Nat /\ Cardinality(Usage(u)) \in Nat
      BY ChargedType, PlanSets
    <2>4. Cardinality(Usage(u)) < Limit BY <1>1 DEF Pass
    <2> QED BY <2>1, <2>2, <2>3, <2>4
  <1>2. CASE pc[q] = "inserting" /\ asLimited[q]
    <2>1. Holds(q) BY <1>2 DEF LockedInside
    <2>2. \A r \in Requests : Insert(r) => ~asLimited[r] \/ userOf[r] # u
      <3> SUFFICES ASSUME NEW r \in Requests, Insert(r), asLimited[r],
                          userOf[r] = u
                   PROVE  FALSE
        OBVIOUS
      <3>1. Holds(r) BY DEF Insert, LockedInside
      <3>2. r = q BY <2>1, <3>1 DEF Holds
      <3>3. pc'[q] = "done" BY <3>2 DEF Insert
      <3> QED BY <3>3
    <2>3. Charged(u)' \subseteq Charged(u) BY <1>0, <2>2, ChargedShrinks
    <2>4. Cardinality(Charged(u)') <= Cardinality(Charged(u))
      <3>1. Charged(u) \in SUBSET Requests BY ChargedType
      <3> HIDE DEF u
      <3> QED BY <2>3, <3>1, PlanSets
    <2>5. Cardinality(Charged(u)) < Limit BY <1>2 DEF SlotKept
    <2>6. Cardinality(Charged(u)) \in Nat /\ Cardinality(Charged(u)') \in Nat
      <3>1. Charged(u) \in SUBSET Requests BY ChargedType
      <3> HIDE DEF u
      <3> QED BY <2>3, <3>1, PlanSets
    <2> QED BY <2>4, <2>5, <2>6
  <1>3. ASSUME ~Pass(q), ~(pc[q] = "inserting" /\ asLimited[q]) PROVE FALSE
    BY <1>3 DEF Next, vars, LoadUser, Unlimited, LockUser, Pass, Refuse, Insert,
                Abort, PlanFails, PlanRunsAgain, DeletePlan, LeaveWindow,
                ChangeTier
  <1> QED BY <1>1, <1>2, <1>3

\* The charged insertion uses the slot its request kept; every other step
\* charges nothing.
LEMMA StepQuota == ASSUME IInv, [Next]_vars PROVE QuotaHeld'
  <1> SUFFICES ASSUME NEW u \in Users, Limit # 0
               PROVE  Cardinality(Charged(u)') <= Limit
    BY DEF QuotaHeld
  <1> USE DEF IInv, TypeOK, planVars
  <1>0. Charged(u) \in SUBSET Requests BY ChargedType
  <1>1. Cardinality(Charged(u)) \in Nat BY <1>0, PlanSets
  <1>2. ASSUME NEW r \in Requests, Insert(r), asLimited[r], userOf[r] = u
        PROVE  Cardinality(Charged(u)') <= Limit
    <2>1. Charged(u)' \subseteq Charged(u) \cup {r}
      BY <1>2 DEF Insert, Charged, Usage
    <2>2. Cardinality(Charged(u)) < Limit BY <1>2 DEF Insert, SlotKept
    <2>3. Cardinality(Charged(u) \cup {r}) <= Cardinality(Charged(u)) + 1
      BY <1>0, OneMore
    <2>4. Charged(u) \cup {r} \in SUBSET Requests BY <1>0
    <2>5. /\ Cardinality(Charged(u)') <= Cardinality(Charged(u) \cup {r})
          /\ Cardinality(Charged(u)') \in Nat
          /\ Cardinality(Charged(u) \cup {r}) \in Nat
      BY <2>1, <2>4, PlanSets
    <2> QED BY <1>1, <2>2, <2>3, <2>5
  <1>3. ASSUME \A r \in Requests : Insert(r) => ~asLimited[r] \/ userOf[r] # u
        PROVE  Cardinality(Charged(u)') <= Limit
    <2>1. Charged(u)' \subseteq Charged(u) BY <1>3, ChargedShrinks
    <2>2. /\ Cardinality(Charged(u)') <= Cardinality(Charged(u))
          /\ Cardinality(Charged(u)') \in Nat
      BY <1>0, <2>1, PlanSets
    <2>3. Cardinality(Charged(u)) <= Limit BY DEF QuotaHeld
    <2> QED BY <1>1, <2>2, <2>3
  <1> QED BY <1>2, <1>3

LEMMA StepInv == IInv /\ [Next]_vars => IInv'
  <1> SUFFICES ASSUME IInv, [Next]_vars PROVE IInv'
    OBVIOUS
  <1> QED BY StepType, StepLock, StepPlans, StepSlot, StepQuota DEF IInv

LEMMA Invariance == Spec => []IInv
  BY InitInv, StepInv, PTL DEF Spec

\* Every variable keeps its type; in particular the count behind an accepted
\* request never reaches beyond the limit (quota_service.ensure_available).
THEOREM TypeCorrect == Spec => []TypeOK
  BY Invariance, PTL DEF IInv

\* Concurrent requests of one user cannot overrun the limit, whatever jobs,
\* deletions and changes of tier do meanwhile (quota_service.ensure_available).
THEOREM QuotaIsHeld == Spec => []QuotaHeld
  BY Invariance, PTL DEF IInv

\* The profile row is locked exactly while a limited request of its user is
\* inside its transaction (user_repo.get_by_id_for_update).
THEOREM LockIsHeldInside == Spec => []LockedInside
  BY Invariance, PTL DEF IInv

=============================================================================
