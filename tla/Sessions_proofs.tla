--------------------------- MODULE Sessions_proofs ---------------------------
(***************************************************************************)
(* What is true of the sessions of an account for any number of tokens,    *)
(* logins and concurrent requests.  The invariants rest on one fact about  *)
(* locking: a request that is to mark its token rotated holds the row lock *)
(* on it, and the row is still live.                                       *)
(***************************************************************************)
EXTENDS Sessions, FiniteSetTheorems, TLAPS

\* A request that works on a token was given one that is stored.
TokenStored ==
    \A r \in Requests :
        /\ req[r].pc \in {"lock", "check", "issue", "lock_logout"} =>
              req[r].tok \in Tokens
        /\ req[r].tok \in Tokens => row[req[r].tok] # "none"

\* Between requests nothing is left of the last one.
IdleIsIdle == \A r \in Requests : req[r].pc = "idle" => req[r] = Idle

\* A rotation that is still to be written has its row locked and live.
RotationLocked ==
    \A r \in Requests : req[r].rotating =>
        /\ req[r].tok \in Tokens
        /\ lock[req[r].tok] = r
        /\ Live(req[r].tok)

\* A refresh has seen the account active, if the account still is.
SawActive ==
    \A r \in Requests :
        req[r].pc \in {"lock", "check"} /\ account = "active" =>
            req[r].sawActive

\* The UPDATE selects all that is live in its scope.
SelectsAll == \A r \in Requests : req[r].seen \subseteq req[r].snap

\* What is closed has tokens, none live, none in its grace window, and no
\* refresh of it is under way.
ClosedQuiet ==
    \A f \in closed :
        /\ FamilyTokens(f) # {}
        /\ LiveTokens(f) = {}
        /\ \A t \in FamilyTokens(f) : ~grace[t]
        /\ \A q \in Requests : ~Renewing(q, f)

IInv == /\ TypeOK /\ TokenStored /\ IdleIsIdle /\ RotationLocked
        /\ SawActive /\ IssuedWhileActive
        /\ SelectsAll /\ ClosedQuiet

USE NamesAssumption

-----------------------------------------------------------------------------
LEMMA InitInv == Init => IInv
  <1> SUFFICES ASSUME Init PROVE IInv
    OBVIOUS
  <1>1. Idle \in Request BY DEF Idle, Request
  <1>2. TypeOK BY <1>1 DEF Init, TypeOK
  <1>3. \A r \in Requests : req[r] = Idle BY DEF Init
  <1>4. TokenStored BY <1>3 DEF TokenStored, Idle
  <1>5. IdleIsIdle BY <1>3 DEF IdleIsIdle
  <1>6. RotationLocked BY <1>3 DEF RotationLocked, Idle
  <1>7. SawActive /\ IssuedWhileActive BY <1>3 DEF SawActive, IssuedWhileActive, Idle
  <1>8. SelectsAll BY <1>3 DEF SelectsAll, Idle
  <1>9. ClosedQuiet BY DEF Init, ClosedQuiet
  <1> QED BY <1>2, <1>4, <1>5, <1>6, <1>7, <1>8, <1>9 DEF IInv

LEMMA Becoming ==
    ASSUME TypeOK, NEW r \in Requests, NEW new \in Request, Becomes(r, new)
    PROVE  /\ req' \in [Requests -> Request]
           /\ req'[r] = new
           /\ \A q \in Requests \ {r} : req'[q] = req[q]
  BY DEF TypeOK, Becomes

LEMMA IdleType == Idle \in Request
  BY DEF Idle, Request

-----------------------------------------------------------------------------
(* What each action does, field by field.                                  *)

Others(r) == \A q \in Requests \ {r} : req'[q] = req[q]

LEMMA LoginCheckStep ==
    ASSUME TypeOK, TokenStored, NEW r \in Requests, LoginCheck(r)
    PROVE  /\ req[r].pc = "idle"
           /\ account = "active"
           /\ UNCHANGED <<row, family, grace, account, forks, closed>>
           /\ UNCHANGED lock
           /\ req' \in [Requests -> Request]
           /\ Others(r)
           /\ req'[r].pc = "login"
           /\ req'[r].sawActive
           /\ req'[r].tok = req[r].tok
           /\ req'[r].inGrace = req[r].inGrace
           /\ req'[r].rotating = req[r].rotating
           /\ req'[r].snap = req[r].snap
           /\ req'[r].seen = req[r].seen
  <1> DEFINE new == [req[r] EXCEPT !.pc = "login", !.sawActive = TRUE]
  <1>2. req[r] \in Request BY DEF TypeOK
  <1>4. new \in Request BY <1>2 DEF Request, TypeOK
  <1>5. /\ req' \in [Requests -> Request]
        /\ req'[r] = new /\ Others(r)
    BY <1>4, Becoming DEF Others, LoginCheck
  <1>6. /\ req[r].pc = "idle"
        /\ account = "active"
        /\ UNCHANGED <<row, family, grace, account, forks, closed>>
        /\ UNCHANGED lock
    BY DEF LoginCheck, At, rowVars, historyVars
  <1> QED BY <1>2, <1>5, <1>6 DEF Request

LEMMA RefreshStep ==
    ASSUME TypeOK, TokenStored, NEW r \in Requests, NEW t \in Tokens, Refresh(r, t)
    PROVE  /\ req[r].pc = "idle"
           /\ row[t] # "none"
           /\ UNCHANGED <<row, family, grace, account, forks, closed>>
           /\ UNCHANGED lock
           /\ req' \in [Requests -> Request]
           /\ Others(r)
           /\ req'[r].pc = "lock"
           /\ req'[r].tok = t
           /\ req'[r].inGrace = (Live(t) \/ grace[t])
           /\ req'[r].sawActive = (account = "active")
           /\ req'[r].rotating = req[r].rotating
           /\ req'[r].snap = req[r].snap
           /\ req'[r].seen = req[r].seen
  <1> DEFINE new == [req[r] EXCEPT !.pc = "lock", !.tok = t,
                                   !.inGrace = (Live(t) \/ grace[t]),
                                   !.sawActive = (account = "active")]
  <1>2. req[r] \in Request BY DEF TypeOK
  <1>4. new \in Request BY <1>2 DEF Request, TypeOK
  <1>5. /\ req' \in [Requests -> Request]
        /\ req'[r] = new /\ Others(r)
    BY <1>4, Becoming DEF Others, Refresh
  <1>6. /\ req[r].pc = "idle"
        /\ row[t] # "none"
        /\ UNCHANGED <<row, family, grace, account, forks, closed>>
        /\ UNCHANGED lock
    BY DEF Refresh, At, rowVars, historyVars
  <1> QED BY <1>2, <1>5, <1>6 DEF Request

LEMMA RotateStep ==
    ASSUME TypeOK, TokenStored, NEW r \in Requests, Rotate(r)
    PROVE  /\ req[r].pc = "lock"
           /\ Live(req[r].tok)
           /\ UNCHANGED <<row, family, grace, account, forks, closed>>
           /\ LockToken(r)
           /\ req' \in [Requests -> Request]
           /\ Others(r)
           /\ req'[r].pc = "check"
           /\ req'[r].rotating
           /\ req'[r].tok = req[r].tok
           /\ req'[r].inGrace = req[r].inGrace
           /\ req'[r].snap = req[r].snap
           /\ req'[r].seen = req[r].seen
           /\ req'[r].sawActive = req[r].sawActive
  <1> DEFINE new == [req[r] EXCEPT !.pc = "check", !.rotating = TRUE]
  <1>2. req[r] \in Request BY DEF TypeOK
  <1>4. new \in Request BY <1>2 DEF Request, TypeOK
  <1>5. /\ req' \in [Requests -> Request]
        /\ req'[r] = new /\ Others(r)
    BY <1>4, Becoming DEF Others, Rotate
  <1>6. /\ req[r].pc = "lock"
        /\ Live(req[r].tok)
        /\ UNCHANGED <<row, family, grace, account, forks, closed>>
        /\ LockToken(r)
    BY DEF Rotate, At, rowVars, historyVars
  <1> QED BY <1>2, <1>5, <1>6 DEF Request

LEMMA ReplayInGraceStep ==
    ASSUME TypeOK, TokenStored, NEW r \in Requests, ReplayInGrace(r)
    PROVE  /\ req[r].pc = "lock"
           /\ WithinGrace(r)
           /\ UNCHANGED <<row, family, grace, account, forks, closed>>
           /\ LockToken(r)
           /\ req' \in [Requests -> Request]
           /\ Others(r)
           /\ req'[r].pc = "check"
           /\ req'[r].tok = req[r].tok
           /\ req'[r].inGrace = req[r].inGrace
           /\ req'[r].rotating = req[r].rotating
           /\ req'[r].snap = req[r].snap
           /\ req'[r].seen = req[r].seen
           /\ req'[r].sawActive = req[r].sawActive
  <1> DEFINE new == [req[r] EXCEPT !.pc = "check"]
  <1>2. req[r] \in Request BY DEF TypeOK
  <1>4. new \in Request BY <1>2 DEF Request, TypeOK
  <1>5. /\ req' \in [Requests -> Request]
        /\ req'[r] = new /\ Others(r)
    BY <1>4, Becoming DEF Others, ReplayInGrace
  <1>6. /\ req[r].pc = "lock"
        /\ WithinGrace(r)
        /\ UNCHANGED <<row, family, grace, account, forks, closed>>
        /\ LockToken(r)
    BY DEF ReplayInGrace, At, rowVars, historyVars
  <1> QED BY <1>2, <1>5, <1>6 DEF Request

LEMMA ReplayStep ==
    ASSUME TypeOK, TokenStored, NEW r \in Requests, Replay(r)
    PROVE  /\ req[r].pc = "lock"
           /\ UNCHANGED <<row, family, grace, account, forks, closed>>
           /\ LockToken(r)
           /\ req' \in [Requests -> Request]
           /\ Others(r)
           /\ req'[r].pc = "to_revoke"
           /\ req'[r].tok = req[r].tok
           /\ req'[r].inGrace = req[r].inGrace
           /\ req'[r].rotating = req[r].rotating
           /\ req'[r].snap = req[r].snap
           /\ req'[r].seen = req[r].seen
           /\ req'[r].sawActive = req[r].sawActive
  <1> DEFINE new == [req[r] EXCEPT !.pc = "to_revoke",
                                   !.scope = family[req[r].tok]]
  <1>2. req[r] \in Request BY DEF TypeOK
  <1>3. family[req[r].tok] \in Families \cup {NoFamily}
    BY DEF TypeOK, TokenStored, Replay, At
  <1>4. new \in Request BY <1>2, <1>3 DEF Request, TypeOK
  <1>5. /\ req' \in [Requests -> Request]
        /\ req'[r] = new /\ Others(r)
    BY <1>4, Becoming DEF Others, Replay
  <1>6. /\ req[r].pc = "lock"
        /\ UNCHANGED <<row, family, grace, account, forks, closed>>
        /\ LockToken(r)
    BY DEF Replay, At, rowVars, historyVars
  <1> QED BY <1>2, <1>5, <1>6 DEF Request

LEMMA LogoutStep ==
    ASSUME TypeOK, TokenStored, NEW r \in Requests, NEW t \in Tokens, Logout(r, t)
    PROVE  /\ req[r].pc = "idle"
           /\ row[t] # "none"
           /\ UNCHANGED <<row, family, grace, account, forks, closed>>
           /\ UNCHANGED lock
           /\ req' \in [Requests -> Request]
           /\ Others(r)
           /\ req'[r].pc = "lock_logout"
           /\ req'[r].tok = t
           /\ req'[r].inGrace = req[r].inGrace
           /\ req'[r].rotating = req[r].rotating
           /\ req'[r].snap = req[r].snap
           /\ req'[r].seen = req[r].seen
           /\ req'[r].sawActive = req[r].sawActive
  <1> DEFINE new == [req[r] EXCEPT !.pc = "lock_logout", !.tok = t]
  <1>2. req[r] \in Request BY DEF TypeOK
  <1>4. new \in Request BY <1>2 DEF Request, TypeOK
  <1>5. /\ req' \in [Requests -> Request]
        /\ req'[r] = new /\ Others(r)
    BY <1>4, Becoming DEF Others, Logout
  <1>6. /\ req[r].pc = "idle"
        /\ row[t] # "none"
        /\ UNCHANGED <<row, family, grace, account, forks, closed>>
        /\ UNCHANGED lock
    BY DEF Logout, At, rowVars, historyVars
  <1> QED BY <1>2, <1>5, <1>6 DEF Request

LEMMA LogoutLockStep ==
    ASSUME TypeOK, TokenStored, NEW r \in Requests, LogoutLock(r)
    PROVE  /\ req[r].pc = "lock_logout"
           /\ UNCHANGED <<row, family, grace, account, forks, closed>>
           /\ LockToken(r)
           /\ req' \in [Requests -> Request]
           /\ Others(r)
           /\ req'[r].pc = "to_revoke"
           /\ req'[r].tok = req[r].tok
           /\ req'[r].inGrace = req[r].inGrace
           /\ req'[r].rotating = req[r].rotating
           /\ req'[r].snap = req[r].snap
           /\ req'[r].seen = req[r].seen
           /\ req'[r].sawActive = req[r].sawActive
  <1> DEFINE new == [req[r] EXCEPT !.pc = "to_revoke",
                                   !.scope = family[req[r].tok]]
  <1>2. req[r] \in Request BY DEF TypeOK
  <1>3. family[req[r].tok] \in Families \cup {NoFamily}
    BY DEF TypeOK, TokenStored, LogoutLock, At
  <1>4. new \in Request BY <1>2, <1>3 DEF Request, TypeOK
  <1>5. /\ req' \in [Requests -> Request]
        /\ req'[r] = new /\ Others(r)
    BY <1>4, Becoming DEF Others, LogoutLock
  <1>6. /\ req[r].pc = "lock_logout"
        /\ UNCHANGED <<row, family, grace, account, forks, closed>>
        /\ LockToken(r)
    BY DEF LogoutLock, At, rowVars, historyVars
  <1> QED BY <1>2, <1>5, <1>6 DEF Request

LEMMA RevokeAllStep ==
    ASSUME TypeOK, TokenStored, NEW r \in Requests, RevokeAll(r)
    PROVE  /\ req[r].pc = "idle"
           /\ UNCHANGED <<row, family, grace, account, forks, closed>>
           /\ UNCHANGED lock
           /\ req' \in [Requests -> Request]
           /\ Others(r)
           /\ req'[r].pc = "to_revoke"
           /\ req'[r].tok = req[r].tok
           /\ req'[r].inGrace = req[r].inGrace
           /\ req'[r].rotating = req[r].rotating
           /\ req'[r].snap = req[r].snap
           /\ req'[r].seen = req[r].seen
           /\ req'[r].sawActive = req[r].sawActive
  <1>1. PICK off \in BOOLEAN :
            Becomes(r, [req[r] EXCEPT !.pc = "to_revoke",
                                      !.scope = Everything,
                                      !.disables = off])
    BY DEF RevokeAll
  <1> DEFINE new == [req[r] EXCEPT !.pc = "to_revoke",
                                   !.scope = Everything, !.disables = off]
  <1>2. req[r] \in Request BY DEF TypeOK
  <1>4. new \in Request BY <1>2 DEF Request, TypeOK
  <1>5. /\ req' \in [Requests -> Request]
        /\ req'[r] = new /\ Others(r)
    BY <1>1, <1>4, Becoming DEF Others, RevokeAll
  <1>6. /\ req[r].pc = "idle"
        /\ UNCHANGED <<row, family, grace, account, forks, closed>>
        /\ UNCHANGED lock
    BY DEF RevokeAll, At, rowVars, historyVars
  <1> QED BY <1>2, <1>5, <1>6 DEF Request

LEMMA RevokeSelectStep ==
    ASSUME TypeOK, TokenStored, NEW r \in Requests, RevokeSelect(r)
    PROVE  /\ req[r].pc = "to_revoke"
           /\ UNCHANGED <<row, family, grace, account, forks, closed>>
           /\ UNCHANGED lock
           /\ req' \in [Requests -> Request]
           /\ Others(r)
           /\ req'[r].pc = "revoking"
           /\ req'[r].snap = LiveIn(req[r].scope)
           /\ req'[r].seen = LiveIn(req[r].scope)
           /\ req'[r].tok = req[r].tok
           /\ req'[r].inGrace = req[r].inGrace
           /\ req'[r].rotating = req[r].rotating
           /\ req'[r].sawActive = req[r].sawActive
  <1> DEFINE new == [req[r] EXCEPT !.pc = "revoking",
                                   !.snap = LiveIn(req[r].scope),
                                   !.seen = LiveIn(req[r].scope)]
  <1>2. req[r] \in Request BY DEF TypeOK
  <1>4. new \in Request BY <1>2 DEF Request, TypeOK, LiveIn
  <1>5. /\ req' \in [Requests -> Request]
        /\ req'[r] = new /\ Others(r)
    BY <1>4, Becoming DEF Others, RevokeSelect
  <1>6. /\ req[r].pc = "to_revoke"
        /\ UNCHANGED <<row, family, grace, account, forks, closed>>
        /\ UNCHANGED lock
    BY DEF RevokeSelect, At, rowVars, historyVars
  <1> QED BY <1>2, <1>5, <1>6 DEF Request

LEMMA CheckAccountStep ==
    ASSUME TypeOK, TokenStored, NEW r \in Requests, CheckAccount(r)
    PROVE  /\ req[r].pc = "check"
           /\ UNCHANGED <<row, family, grace, account, forks, closed>>
           /\ UNCHANGED lock
           /\ req' \in [Requests -> Request]
           /\ Others(r)
           /\ \/ req'[r].pc = "issue" /\ account = "active"
              \/ req'[r].pc = "to_revoke"
           /\ req'[r].tok = req[r].tok
           /\ req'[r].inGrace = req[r].inGrace
           /\ req'[r].rotating = req[r].rotating
           /\ req'[r].snap = req[r].snap
           /\ req'[r].seen = req[r].seen
           /\ req'[r].sawActive = req[r].sawActive
  <1> DEFINE yes == [req[r] EXCEPT !.pc = "issue"]
             no == [req[r] EXCEPT !.pc = "to_revoke",
                                  !.scope = family[req[r].tok]]
  <1>1. req[r] \in Request BY DEF TypeOK
  <1>2. family[req[r].tok] \in Families \cup {NoFamily}
    BY DEF TypeOK, TokenStored, CheckAccount, At
  <1>3. yes \in Request /\ no \in Request BY <1>1, <1>2 DEF Request
  <1>4. \/ account = "active" /\ Becomes(r, yes)
        \/ Becomes(r, no)
    BY DEF CheckAccount
  <1>5. /\ req' \in [Requests -> Request]
        /\ Others(r)
        /\ (account = "active" /\ req'[r] = yes) \/ req'[r] = no
    BY <1>3, <1>4, Becoming DEF Others
  <1>6. /\ req[r].pc = "check"
        /\ UNCHANGED <<row, family, grace, account, forks, closed>>
        /\ UNCHANGED lock
    BY DEF CheckAccount, At, rowVars, historyVars
  <1> QED BY <1>1, <1>5, <1>6 DEF Request

LEMMA FinishReq ==
    ASSUME TypeOK, NEW r \in Requests, Finish(r)
    PROVE  /\ req' \in [Requests -> Request]
           /\ Others(r)
           /\ req'[r] = Idle
           /\ lock' = [t \in Tokens |-> IF lock[t] = r THEN NoRequest
                                        ELSE lock[t]]
  BY IdleType, Becoming DEF Finish, Others

LEMMA EnableStep ==
    ASSUME TypeOK, Enable
    PROVE  /\ account' = "active"
           /\ UNCHANGED <<row, family, grace, lock, forks, closed>>
           /\ req' \in [Requests -> Request]
           /\ \A r \in Requests :
                IF req[r].pc = "idle" THEN req'[r] = req[r]
              ELSE /\ req'[r].pc = req[r].pc
                   /\ req'[r].tok = req[r].tok
                   /\ req'[r].inGrace = req[r].inGrace
                   /\ req'[r].rotating = req[r].rotating
                   /\ req'[r].snap = req[r].snap
                   /\ req'[r].seen = req[r].seen
                   /\ req'[r].sawActive
  <1>1. ASSUME NEW q \in Request PROVE [q EXCEPT !.sawActive = TRUE] \in Request
    BY DEF Request
  <1>2. \A r \in Requests : req[r] \in Request BY DEF TypeOK
  <1>3. req' = [r \in Requests |-> IF req[r].pc = "idle" THEN req[r]
                                  ELSE [req[r] EXCEPT !.sawActive = TRUE]]
    BY DEF Enable, At
  <1>4. req' \in [Requests -> Request] BY <1>1, <1>2, <1>3
  <1>5. ASSUME NEW q \in Request
        PROVE  LET new == [q EXCEPT !.sawActive = TRUE] IN
               /\ new.pc = q.pc /\ new.tok = q.tok /\ new.inGrace = q.inGrace
               /\ new.rotating = q.rotating /\ new.snap = q.snap
               /\ new.seen = q.seen /\ new.sawActive
    BY DEF Request
  <1>6. /\ account' = "active"
        /\ UNCHANGED <<row, family, grace, lock, forks, closed>>
    BY DEF Enable, rowVars, historyVars
  <1> QED BY <1>2, <1>3, <1>4, <1>5, <1>6

-----------------------------------------------------------------------------
(* Each part of the invariant is kept by every step.                       *)

LEMMA StepType ==
    ASSUME TypeOK, TokenStored, [Next]_vars PROVE TypeOK'
  <1> USE DEF TypeOK, rowVars, historyVars
  <1>1. ASSUME NEW r \in Requests, LoginCheck(r) PROVE TypeOK'
    BY <1>1, LoginCheckStep
  <1>2. ASSUME NEW r \in Requests, LoginIssue(r) PROVE TypeOK'
    <2>1. Finish(r) BY <1>2 DEF LoginIssue
    <2> QED BY <1>2, <2>1, FinishReq DEF LoginIssue
  <1>3. ASSUME NEW r \in Requests, NEW t \in Tokens, Refresh(r, t) PROVE TypeOK'
    BY <1>3, RefreshStep
  <1>4. ASSUME NEW r \in Requests, NEW t \in Tokens, Logout(r, t) PROVE TypeOK'
    BY <1>4, LogoutStep
  <1>5. ASSUME NEW r \in Requests, Rotate(r) PROVE TypeOK'
    <2>1. LockToken(r) BY <1>5, RotateStep
    <2>2. lock' \in [Tokens -> Requests \cup {NoRequest}]
      BY <2>1 DEF LockToken
    <2> QED BY <1>5, <2>2, RotateStep
  <1>6. ASSUME NEW r \in Requests, RejectExpired(r) PROVE TypeOK'
    <2>1. Finish(r) BY <1>6 DEF RejectExpired
    <2> QED BY <1>6, <2>1, FinishReq DEF RejectExpired
  <1>7. ASSUME NEW r \in Requests, ReplayInGrace(r) PROVE TypeOK'
    <2>1. LockToken(r) BY <1>7, ReplayInGraceStep
    <2>2. lock' \in [Tokens -> Requests \cup {NoRequest}]
      BY <2>1 DEF LockToken
    <2> QED BY <1>7, <2>2, ReplayInGraceStep
  <1>8. ASSUME NEW r \in Requests, Replay(r) PROVE TypeOK'
    <2>1. LockToken(r) BY <1>8, ReplayStep
    <2>2. lock' \in [Tokens -> Requests \cup {NoRequest}]
      BY <2>1 DEF LockToken
    <2> QED BY <1>8, <2>2, ReplayStep
  <1>9. ASSUME NEW r \in Requests, CheckAccount(r) PROVE TypeOK'
    BY <1>9, CheckAccountStep
  <1>10. ASSUME NEW r \in Requests, Issue(r) PROVE TypeOK'
    <2>1. Finish(r) BY <1>10 DEF Issue
    <2>2. req[r].tok \in Tokens BY <1>10 DEF Issue, TokenStored, At
    <2>3. /\ account' = account
          /\ closed' = closed
          /\ grace' \in [Tokens -> BOOLEAN]
      BY <1>10 DEF Issue
    <2>4. /\ row' \in [Tokens -> {"none", "live", "rotated", "revoked"}]
          /\ family' \in [Tokens -> Families \cup {NoFamily}]
      BY <1>10, <2>2 DEF Issue
    <2>5. forks' \in [Families -> Nat]
      <3> DEFINE f == family[req[r].tok]
                 n == IF req[r].rotating THEN forks[f] ELSE forks[f] + 1
      <3>1. forks' = [forks EXCEPT ![f] = n] BY <1>10 DEF Issue
      <3>2. f \in Families => n \in Nat OBVIOUS
      <3> HIDE DEF n, f
      <3> QED BY <3>1, <3>2
    <2>6. lock' \in [Tokens -> Requests \cup {NoRequest}]
      BY <2>1, FinishReq
    <2>7. req' \in [Requests -> Request] BY <2>1, FinishReq
    <2> QED BY <2>3, <2>4, <2>5, <2>6, <2>7
  <1>11. ASSUME NEW r \in Requests, LogoutLock(r) PROVE TypeOK'
    <2>1. LockToken(r) BY <1>11, LogoutLockStep
    <2>2. lock' \in [Tokens -> Requests \cup {NoRequest}]
      BY <2>1 DEF LockToken
    <2> QED BY <1>11, <2>2, LogoutLockStep
  <1>12. ASSUME NEW r \in Requests, LogoutIgnored(r) PROVE TypeOK'
    <2>1. Finish(r) BY <1>12 DEF LogoutIgnored
    <2> QED BY <1>12, <2>1, FinishReq DEF LogoutIgnored
  <1>13. ASSUME NEW r \in Requests, RevokeAll(r) PROVE TypeOK'
    BY <1>13, RevokeAllStep
  <1>14. ASSUME NEW r \in Requests, RevokeSelect(r) PROVE TypeOK'
    BY <1>14, RevokeSelectStep
  <1>15. ASSUME NEW r \in Requests, RevokeCommit(r) PROVE TypeOK'
    <2>1. Finish(r) BY <1>15 DEF RevokeCommit
    <2> QED BY <1>15, <2>1, FinishReq DEF RevokeCommit
  <1>16. ASSUME NEW r \in Requests, Abort(r) PROVE TypeOK'
    <2>1. Finish(r) BY <1>16 DEF Abort
    <2> QED BY <1>16, <2>1, FinishReq DEF Abort
  <1>17. ASSUME NEW t \in Tokens, GraceEnds(t) PROVE TypeOK'
    BY <1>17 DEF GraceEnds
  <1>18. CASE Enable
    BY <1>18, EnableStep
  <1>19. CASE UNCHANGED vars
    BY <1>19 DEF vars
  <1> QED
    BY <1>1, <1>2, <1>3, <1>4, <1>5, <1>6, <1>7, <1>8, <1>9, <1>10, <1>11,
       <1>12, <1>13, <1>14, <1>15, <1>16, <1>17, <1>18, <1>19 DEF Next

LEMMA StepIdle ==
    ASSUME TypeOK, TokenStored, IdleIsIdle, [Next]_vars PROVE IdleIsIdle'
  <1> USE DEF IdleIsIdle, Others
  <1>1. ASSUME NEW r \in Requests, LoginCheck(r) PROVE IdleIsIdle'
    BY <1>1, LoginCheckStep
  <1>2. ASSUME NEW r \in Requests, LoginIssue(r) PROVE IdleIsIdle'
    <2>1. Finish(r) BY <1>2 DEF LoginIssue
    <2> QED BY <2>1, FinishReq
  <1>3. ASSUME NEW r \in Requests, NEW t \in Tokens, Refresh(r, t) PROVE IdleIsIdle'
    BY <1>3, RefreshStep
  <1>4. ASSUME NEW r \in Requests, NEW t \in Tokens, Logout(r, t) PROVE IdleIsIdle'
    BY <1>4, LogoutStep
  <1>5. ASSUME NEW r \in Requests, Rotate(r) PROVE IdleIsIdle'
    BY <1>5, RotateStep
  <1>6. ASSUME NEW r \in Requests, RejectExpired(r) PROVE IdleIsIdle'
    <2>1. Finish(r) BY <1>6 DEF RejectExpired
    <2> QED BY <2>1, FinishReq
  <1>7. ASSUME NEW r \in Requests, ReplayInGrace(r) PROVE IdleIsIdle'
    BY <1>7, ReplayInGraceStep
  <1>8. ASSUME NEW r \in Requests, Replay(r) PROVE IdleIsIdle'
    BY <1>8, ReplayStep
  <1>9. ASSUME NEW r \in Requests, CheckAccount(r) PROVE IdleIsIdle'
    BY <1>9, CheckAccountStep
  <1>10. ASSUME NEW r \in Requests, Issue(r) PROVE IdleIsIdle'
    <2>1. Finish(r) BY <1>10 DEF Issue
    <2> QED BY <2>1, FinishReq
  <1>11. ASSUME NEW r \in Requests, LogoutLock(r) PROVE IdleIsIdle'
    BY <1>11, LogoutLockStep
  <1>12. ASSUME NEW r \in Requests, LogoutIgnored(r) PROVE IdleIsIdle'
    <2>1. Finish(r) BY <1>12 DEF LogoutIgnored
    <2> QED BY <2>1, FinishReq
  <1>13. ASSUME NEW r \in Requests, RevokeAll(r) PROVE IdleIsIdle'
    BY <1>13, RevokeAllStep
  <1>14. ASSUME NEW r \in Requests, RevokeSelect(r) PROVE IdleIsIdle'
    BY <1>14, RevokeSelectStep
  <1>15. ASSUME NEW r \in Requests, RevokeCommit(r) PROVE IdleIsIdle'
    <2>1. Finish(r) BY <1>15 DEF RevokeCommit
    <2> QED BY <2>1, FinishReq
  <1>16. ASSUME NEW r \in Requests, Abort(r) PROVE IdleIsIdle'
    <2>1. Finish(r) BY <1>16 DEF Abort
    <2> QED BY <2>1, FinishReq
  <1>17. ASSUME NEW t \in Tokens, GraceEnds(t) PROVE IdleIsIdle'
    BY <1>17 DEF GraceEnds
  <1>18. CASE Enable
    BY <1>18, EnableStep
  <1>19. CASE UNCHANGED vars
    BY <1>19 DEF vars
  <1> QED
    BY <1>1, <1>2, <1>3, <1>4, <1>5, <1>6, <1>7, <1>8, <1>9, <1>10, <1>11,
       <1>12, <1>13, <1>14, <1>15, <1>16, <1>17, <1>18, <1>19 DEF Next

LEMMA StepSelects ==
    ASSUME TypeOK, TokenStored, SelectsAll, [Next]_vars PROVE SelectsAll'
  <1> USE DEF SelectsAll, Others, Idle
  <1>1. ASSUME NEW r \in Requests, LoginCheck(r) PROVE SelectsAll'
    BY <1>1, LoginCheckStep
  <1>2. ASSUME NEW r \in Requests, LoginIssue(r) PROVE SelectsAll'
    <2>1. Finish(r) BY <1>2 DEF LoginIssue
    <2> QED BY <2>1, FinishReq
  <1>3. ASSUME NEW r \in Requests, NEW t \in Tokens, Refresh(r, t) PROVE SelectsAll'
    BY <1>3, RefreshStep
  <1>4. ASSUME NEW r \in Requests, NEW t \in Tokens, Logout(r, t) PROVE SelectsAll'
    BY <1>4, LogoutStep
  <1>5. ASSUME NEW r \in Requests, Rotate(r) PROVE SelectsAll'
    BY <1>5, RotateStep
  <1>6. ASSUME NEW r \in Requests, RejectExpired(r) PROVE SelectsAll'
    <2>1. Finish(r) BY <1>6 DEF RejectExpired
    <2> QED BY <2>1, FinishReq
  <1>7. ASSUME NEW r \in Requests, ReplayInGrace(r) PROVE SelectsAll'
    BY <1>7, ReplayInGraceStep
  <1>8. ASSUME NEW r \in Requests, Replay(r) PROVE SelectsAll'
    BY <1>8, ReplayStep
  <1>9. ASSUME NEW r \in Requests, CheckAccount(r) PROVE SelectsAll'
    BY <1>9, CheckAccountStep
  <1>10. ASSUME NEW r \in Requests, Issue(r) PROVE SelectsAll'
    <2>1. Finish(r) BY <1>10 DEF Issue
    <2> QED BY <2>1, FinishReq
  <1>11. ASSUME NEW r \in Requests, LogoutLock(r) PROVE SelectsAll'
    BY <1>11, LogoutLockStep
  <1>12. ASSUME NEW r \in Requests, LogoutIgnored(r) PROVE SelectsAll'
    <2>1. Finish(r) BY <1>12 DEF LogoutIgnored
    <2> QED BY <2>1, FinishReq
  <1>13. ASSUME NEW r \in Requests, RevokeAll(r) PROVE SelectsAll'
    BY <1>13, RevokeAllStep
  <1>14. ASSUME NEW r \in Requests, RevokeSelect(r) PROVE SelectsAll'
    BY <1>14, RevokeSelectStep
  <1>15. ASSUME NEW r \in Requests, RevokeCommit(r) PROVE SelectsAll'
    <2>1. Finish(r) BY <1>15 DEF RevokeCommit
    <2> QED BY <2>1, FinishReq
  <1>16. ASSUME NEW r \in Requests, Abort(r) PROVE SelectsAll'
    <2>1. Finish(r) BY <1>16 DEF Abort
    <2> QED BY <2>1, FinishReq
  <1>17. ASSUME NEW t \in Tokens, GraceEnds(t) PROVE SelectsAll'
    BY <1>17 DEF GraceEnds
  <1>18. CASE Enable
    BY <1>18, EnableStep
  <1>19. CASE UNCHANGED vars
    BY <1>19 DEF vars
  <1> QED
    BY <1>1, <1>2, <1>3, <1>4, <1>5, <1>6, <1>7, <1>8, <1>9, <1>10, <1>11,
       <1>12, <1>13, <1>14, <1>15, <1>16, <1>17, <1>18, <1>19 DEF Next

LEMMA StepSaw ==
    ASSUME TypeOK, TokenStored, SawActive, IssuedWhileActive, [Next]_vars PROVE (SawActive /\ IssuedWhileActive)'
  <1> USE DEF SawActive, IssuedWhileActive, Others, Idle
  <1>1. ASSUME NEW r \in Requests, LoginCheck(r) PROVE (SawActive /\ IssuedWhileActive)'
    BY <1>1, LoginCheckStep
  <1>2. ASSUME NEW r \in Requests, LoginIssue(r) PROVE (SawActive /\ IssuedWhileActive)'
    <2>1. Finish(r) BY <1>2 DEF LoginIssue
    <2> QED BY <1>2, <2>1, FinishReq DEF LoginIssue
  <1>3. ASSUME NEW r \in Requests, NEW t \in Tokens, Refresh(r, t) PROVE (SawActive /\ IssuedWhileActive)'
    BY <1>3, RefreshStep
  <1>4. ASSUME NEW r \in Requests, NEW t \in Tokens, Logout(r, t) PROVE (SawActive /\ IssuedWhileActive)'
    BY <1>4, LogoutStep
  <1>5. ASSUME NEW r \in Requests, Rotate(r) PROVE (SawActive /\ IssuedWhileActive)'
    BY <1>5, RotateStep
  <1>6. ASSUME NEW r \in Requests, RejectExpired(r) PROVE (SawActive /\ IssuedWhileActive)'
    <2>1. Finish(r) BY <1>6 DEF RejectExpired
    <2> QED BY <1>6, <2>1, FinishReq DEF RejectExpired
  <1>7. ASSUME NEW r \in Requests, ReplayInGrace(r) PROVE (SawActive /\ IssuedWhileActive)'
    BY <1>7, ReplayInGraceStep
  <1>8. ASSUME NEW r \in Requests, Replay(r) PROVE (SawActive /\ IssuedWhileActive)'
    BY <1>8, ReplayStep
  <1>9. ASSUME NEW r \in Requests, CheckAccount(r) PROVE (SawActive /\ IssuedWhileActive)'
    BY <1>9, CheckAccountStep
  <1>10. ASSUME NEW r \in Requests, Issue(r) PROVE (SawActive /\ IssuedWhileActive)'
    <2>1. Finish(r) BY <1>10 DEF Issue
    <2> QED BY <1>10, <2>1, FinishReq DEF Issue
  <1>11. ASSUME NEW r \in Requests, LogoutLock(r) PROVE (SawActive /\ IssuedWhileActive)'
    BY <1>11, LogoutLockStep
  <1>12. ASSUME NEW r \in Requests, LogoutIgnored(r) PROVE (SawActive /\ IssuedWhileActive)'
    <2>1. Finish(r) BY <1>12 DEF LogoutIgnored
    <2> QED BY <1>12, <2>1, FinishReq DEF LogoutIgnored
  <1>13. ASSUME NEW r \in Requests, RevokeAll(r) PROVE (SawActive /\ IssuedWhileActive)'
    BY <1>13, RevokeAllStep
  <1>14. ASSUME NEW r \in Requests, RevokeSelect(r) PROVE (SawActive /\ IssuedWhileActive)'
    BY <1>14, RevokeSelectStep
  <1>15. ASSUME NEW r \in Requests, RevokeCommit(r) PROVE (SawActive /\ IssuedWhileActive)'
    <2>1. Finish(r) BY <1>15 DEF RevokeCommit
    <2> QED BY <1>15, <2>1, FinishReq DEF RevokeCommit
  <1>16. ASSUME NEW r \in Requests, Abort(r) PROVE (SawActive /\ IssuedWhileActive)'
    <2>1. Finish(r) BY <1>16 DEF Abort
    <2> QED BY <1>16, <2>1, FinishReq DEF Abort
  <1>17. ASSUME NEW t \in Tokens, GraceEnds(t) PROVE (SawActive /\ IssuedWhileActive)'
    BY <1>17 DEF GraceEnds
  <1>18. CASE Enable
    BY <1>18, EnableStep
  <1>19. CASE UNCHANGED vars
    BY <1>19 DEF vars
  <1> QED
    BY <1>1, <1>2, <1>3, <1>4, <1>5, <1>6, <1>7, <1>8, <1>9, <1>10, <1>11,
       <1>12, <1>13, <1>14, <1>15, <1>16, <1>17, <1>18, <1>19 DEF Next

LEMMA StepStored ==
    ASSUME TypeOK, TokenStored, [Next]_vars PROVE TokenStored'
  <1> USE DEF TokenStored, Others, Idle
  <1>1. ASSUME NEW r \in Requests, LoginCheck(r) PROVE TokenStored'
    BY <1>1, LoginCheckStep
  <1>2. ASSUME NEW r \in Requests, LoginIssue(r) PROVE TokenStored'
    <2>1. Finish(r) BY <1>2 DEF LoginIssue
    <2>2. \A u \in Tokens : row[u] # "none" => row'[u] # "none"
      BY <1>2 DEF LoginIssue, TypeOK
    <2> QED BY <2>1, <2>2, FinishReq
  <1>3. ASSUME NEW r \in Requests, NEW t \in Tokens, Refresh(r, t) PROVE TokenStored'
    BY <1>3, RefreshStep
  <1>4. ASSUME NEW r \in Requests, NEW t \in Tokens, Logout(r, t) PROVE TokenStored'
    BY <1>4, LogoutStep
  <1>5. ASSUME NEW r \in Requests, Rotate(r) PROVE TokenStored'
    BY <1>5, RotateStep
  <1>6. ASSUME NEW r \in Requests, RejectExpired(r) PROVE TokenStored'
    <2>1. Finish(r) BY <1>6 DEF RejectExpired
    <2> QED BY <1>6, <2>1, FinishReq DEF RejectExpired, rowVars
  <1>7. ASSUME NEW r \in Requests, ReplayInGrace(r) PROVE TokenStored'
    BY <1>7, ReplayInGraceStep
  <1>8. ASSUME NEW r \in Requests, Replay(r) PROVE TokenStored'
    BY <1>8, ReplayStep
  <1>9. ASSUME NEW r \in Requests, CheckAccount(r) PROVE TokenStored'
    BY <1>9, CheckAccountStep
  <1>10. ASSUME NEW r \in Requests, Issue(r) PROVE TokenStored'
    <2>1. Finish(r) BY <1>10 DEF Issue
    <2>2. \A u \in Tokens : row[u] # "none" => row'[u] # "none"
      BY <1>10 DEF Issue, TypeOK
    <2> QED BY <2>1, <2>2, FinishReq
  <1>11. ASSUME NEW r \in Requests, LogoutLock(r) PROVE TokenStored'
    BY <1>11, LogoutLockStep
  <1>12. ASSUME NEW r \in Requests, LogoutIgnored(r) PROVE TokenStored'
    <2>1. Finish(r) BY <1>12 DEF LogoutIgnored
    <2> QED BY <1>12, <2>1, FinishReq DEF LogoutIgnored, rowVars
  <1>13. ASSUME NEW r \in Requests, RevokeAll(r) PROVE TokenStored'
    BY <1>13, RevokeAllStep
  <1>14. ASSUME NEW r \in Requests, RevokeSelect(r) PROVE TokenStored'
    BY <1>14, RevokeSelectStep
  <1>15. ASSUME NEW r \in Requests, RevokeCommit(r) PROVE TokenStored'
    <2>1. Finish(r) BY <1>15 DEF RevokeCommit
    <2>2. \A u \in Tokens : row[u] # "none" => row'[u] # "none"
      BY <1>15 DEF RevokeCommit, TypeOK
    <2> QED BY <2>1, <2>2, FinishReq
  <1>16. ASSUME NEW r \in Requests, Abort(r) PROVE TokenStored'
    <2>1. Finish(r) BY <1>16 DEF Abort
    <2> QED BY <1>16, <2>1, FinishReq DEF Abort, rowVars
  <1>17. ASSUME NEW t \in Tokens, GraceEnds(t) PROVE TokenStored'
    BY <1>17 DEF GraceEnds
  <1>18. CASE Enable
    BY <1>18, EnableStep
  <1>19. CASE UNCHANGED vars
    BY <1>19 DEF vars
  <1> QED
    BY <1>1, <1>2, <1>3, <1>4, <1>5, <1>6, <1>7, <1>8, <1>9, <1>10, <1>11,
       <1>12, <1>13, <1>14, <1>15, <1>16, <1>17, <1>18, <1>19 DEF Next

\* The row of a rotation to come is touched by no other request.
LEMMA StepRotation ==
    ASSUME TypeOK, TokenStored, IdleIsIdle, RotationLocked, [Next]_vars PROVE RotationLocked'
  <1> USE DEF RotationLocked, IdleIsIdle, Others, Idle
  <1>1. ASSUME NEW r \in Requests, LoginCheck(r) PROVE RotationLocked'
    BY <1>1, LoginCheckStep DEF Live
  <1>2. ASSUME NEW r \in Requests, LoginIssue(r) PROVE RotationLocked'
    <2>1. Finish(r) BY <1>2 DEF LoginIssue
    <2>2. \A u \in Tokens : Live(u) /\ lock[u] \in Requests \ {r} => Live(u)'
      BY <1>2 DEF LoginIssue, Live, TypeOK, rowVars
    <2> QED BY <2>1, <2>2, FinishReq
  <1>3. ASSUME NEW r \in Requests, NEW t \in Tokens, Refresh(r, t) PROVE RotationLocked'
    BY <1>3, RefreshStep DEF Live
  <1>4. ASSUME NEW r \in Requests, NEW t \in Tokens, Logout(r, t) PROVE RotationLocked'
    BY <1>4, LogoutStep DEF Live
  <1>5. ASSUME NEW r \in Requests, Rotate(r) PROVE RotationLocked'
    <2>1. LockToken(r) BY <1>5, RotateStep
    <2>2. \A u \in Tokens : lock[u] \in Requests => lock'[u] = lock[u]
      BY <2>1 DEF LockToken, Free, TypeOK
    <2>3. req[r].tok \in Tokens BY <1>5, RotateStep DEF TokenStored
    <2>4. lock'[req[r].tok] = r BY <2>1, <2>3 DEF LockToken, TypeOK
    <2> QED BY <1>5, <2>2, <2>3, <2>4, RotateStep DEF Live
  <1>6. ASSUME NEW r \in Requests, RejectExpired(r) PROVE RotationLocked'
    <2>1. Finish(r) BY <1>6 DEF RejectExpired
    <2>2. \A u \in Tokens : Live(u) /\ lock[u] \in Requests \ {r} => Live(u)'
      BY <1>6 DEF RejectExpired, Live, TypeOK, rowVars
    <2> QED BY <2>1, <2>2, FinishReq
  <1>7. ASSUME NEW r \in Requests, ReplayInGrace(r) PROVE RotationLocked'
    <2>1. LockToken(r) BY <1>7, ReplayInGraceStep
    <2>2. \A u \in Tokens : lock[u] \in Requests => lock'[u] = lock[u]
      BY <2>1 DEF LockToken, Free, TypeOK
    <2> QED BY <1>7, <2>2, ReplayInGraceStep DEF Live
  <1>8. ASSUME NEW r \in Requests, Replay(r) PROVE RotationLocked'
    <2>1. LockToken(r) BY <1>8, ReplayStep
    <2>2. \A u \in Tokens : lock[u] \in Requests => lock'[u] = lock[u]
      BY <2>1 DEF LockToken, Free, TypeOK
    <2> QED BY <1>8, <2>2, ReplayStep DEF Live
  <1>9. ASSUME NEW r \in Requests, CheckAccount(r) PROVE RotationLocked'
    BY <1>9, CheckAccountStep DEF Live
  <1>10. ASSUME NEW r \in Requests, Issue(r) PROVE RotationLocked'
    <2>1. Finish(r) BY <1>10 DEF Issue
    <2>2. \A u \in Tokens : Live(u) /\ lock[u] \in Requests \ {r} => Live(u)'
      <3>1. req[r].rotating => lock[req[r].tok] = r OBVIOUS
      <3> QED BY <1>10, <3>1 DEF Issue, Live, TypeOK
    <2> QED BY <2>1, <2>2, FinishReq
  <1>11. ASSUME NEW r \in Requests, LogoutLock(r) PROVE RotationLocked'
    <2>1. LockToken(r) BY <1>11, LogoutLockStep
    <2>2. \A u \in Tokens : lock[u] \in Requests => lock'[u] = lock[u]
      BY <2>1 DEF LockToken, Free, TypeOK
    <2> QED BY <1>11, <2>2, LogoutLockStep DEF Live
  <1>12. ASSUME NEW r \in Requests, LogoutIgnored(r) PROVE RotationLocked'
    <2>1. Finish(r) BY <1>12 DEF LogoutIgnored
    <2>2. \A u \in Tokens : Live(u) /\ lock[u] \in Requests \ {r} => Live(u)'
      BY <1>12 DEF LogoutIgnored, Live, TypeOK, rowVars
    <2> QED BY <2>1, <2>2, FinishReq
  <1>13. ASSUME NEW r \in Requests, RevokeAll(r) PROVE RotationLocked'
    BY <1>13, RevokeAllStep DEF Live
  <1>14. ASSUME NEW r \in Requests, RevokeSelect(r) PROVE RotationLocked'
    BY <1>14, RevokeSelectStep DEF Live
  <1>15. ASSUME NEW r \in Requests, RevokeCommit(r) PROVE RotationLocked'
    <2>1. Finish(r) BY <1>15 DEF RevokeCommit
    <2>2. \A u \in Tokens : Live(u) /\ lock[u] \in Requests \ {r} => Live(u)'
      <3>1. req[r].rotating => lock[req[r].tok] = r OBVIOUS
      <3>2. \A u \in req[r].snap : lock[u] \in {NoRequest, r}
        BY <1>15 DEF RevokeCommit, Free
      <3> QED BY <1>15, <3>1, <3>2 DEF RevokeCommit, Live, TypeOK
    <2> QED BY <2>1, <2>2, FinishReq
  <1>16. ASSUME NEW r \in Requests, Abort(r) PROVE RotationLocked'
    <2>1. Finish(r) BY <1>16 DEF Abort
    <2>2. \A u \in Tokens : Live(u) /\ lock[u] \in Requests \ {r} => Live(u)'
      BY <1>16 DEF Abort, Live, TypeOK, rowVars
    <2> QED BY <2>1, <2>2, FinishReq
  <1>17. ASSUME NEW t \in Tokens, GraceEnds(t) PROVE RotationLocked'
    BY <1>17 DEF GraceEnds, Live
  <1>18. CASE Enable
    BY <1>18, EnableStep DEF Live
  <1>19. CASE UNCHANGED vars
    BY <1>19 DEF vars, Live
  <1> QED
    BY <1>1, <1>2, <1>3, <1>4, <1>5, <1>6, <1>7, <1>8, <1>9, <1>10, <1>11,
       <1>12, <1>13, <1>14, <1>15, <1>16, <1>17, <1>18, <1>19 DEF Next

-----------------------------------------------------------------------------
(* A closed session stays closed: nothing is left that could renew it.     *)

\* What ends a request renews nothing, if the stored tokens keep their family.
LEMMA FinishRenews ==
    ASSUME TypeOK, TokenStored, NEW r \in Requests, Finish(r),
           \A u \in Tokens : row[u] # "none" => family'[u] = family[u]
    PROVE  \A q \in Requests : \A f : Renewing(q, f)' => Renewing(q, f)
  <1> TAKE q \in Requests
  <1> TAKE f
  <1>1. CASE q = r
    <2>1. req'[q] = Idle BY <1>1, FinishReq
    <2> QED BY <2>1 DEF Renewing, Idle
  <1>2. CASE q # r
    <2>1. req'[q] = req[q] BY <1>2, FinishReq DEF Others
    <2>2. Renewing(q, f)' => req[q].tok \in Tokens /\ row[req[q].tok] # "none"
      BY <2>1 DEF Renewing, TokenStored
    <2> QED BY <2>1, <2>2 DEF Renewing
  <1> QED BY <1>1, <1>2

\* A request on a closed session finds its token neither live nor in grace.
LEMMA ClosedToken ==
    ASSUME IInv, NEW f \in closed, NEW t \in Tokens,
           row[t] # "none", family[t] = f
    PROVE  ~Live(t) /\ ~grace[t]
  BY DEF IInv, ClosedQuiet, LiveTokens, FamilyTokens

LEMMA SameRows ==
    ASSUME IInv, UNCHANGED <<row, family, grace, closed>>,
           \A f \in closed, q \in Requests : Renewing(q, f)' => Renewing(q, f)
    PROVE  ClosedQuiet'
  BY DEF IInv, ClosedQuiet, LiveTokens, FamilyTokens, Live

LEMMA StepClosed ==
    ASSUME IInv, [Next]_vars PROVE ClosedQuiet'
  <1> USE DEF IInv
  <1>1. ASSUME NEW r \in Requests, LoginCheck(r) PROVE ClosedQuiet'
    <2>1. \A f \in closed, q \in Requests : Renewing(q, f)' => Renewing(q, f)
      BY <1>1, LoginCheckStep DEF Renewing, Others
    <2> QED BY <1>1, <2>1, SameRows, LoginCheckStep
  <1>2. ASSUME NEW r \in Requests, LoginIssue(r) PROVE ClosedQuiet'
    <2>1. PICK t \in Tokens, g \in Families :
             /\ row[t] = "none"
             /\ FamilyTokens(g) = {}
             /\ row' = [row EXCEPT ![t] = "live"]
             /\ family' = [family EXCEPT ![t] = g]
      BY <1>2 DEF LoginIssue
    <2>2. Finish(r) /\ grace' = grace /\ closed' = closed
      BY <1>2 DEF LoginIssue, historyVars
    <2>3. \A u \in Tokens : row[u] # "none" => family'[u] = family[u]
      BY <2>1 DEF TypeOK
    <2>4. \A f \in closed, q \in Requests : Renewing(q, f)' => Renewing(q, f)
      BY <2>2, <2>3, FinishRenews
    <2>5. g \notin closed BY <2>1 DEF ClosedQuiet
    <2>6. \A f \in closed : /\ FamilyTokens(f)' = FamilyTokens(f)
                            /\ LiveTokens(f)' = LiveTokens(f)
      BY <2>1, <2>5 DEF FamilyTokens, LiveTokens, Live, TypeOK
    <2> QED BY <2>2, <2>4, <2>6 DEF ClosedQuiet
  <1>3. ASSUME NEW r \in Requests, NEW t \in Tokens, Refresh(r, t) PROVE ClosedQuiet'
    <2>1. \A f \in closed : family[t] = f => ~Live(t) /\ ~grace[t]
      BY <1>3, RefreshStep, ClosedToken
    <2>2. \A f \in closed : ~Renewing(r, f)'
      BY <1>3, <2>1, RefreshStep DEF Renewing
    <2>3. \A f \in closed, q \in Requests : Renewing(q, f)' => Renewing(q, f)
      BY <1>3, <2>2, RefreshStep DEF Renewing, Others
    <2> QED BY <1>3, <2>3, SameRows, RefreshStep
  <1>4. ASSUME NEW r \in Requests, NEW t \in Tokens, Logout(r, t) PROVE ClosedQuiet'
    <2>1. \A f \in closed, q \in Requests : Renewing(q, f)' => Renewing(q, f)
      BY <1>4, LogoutStep DEF Renewing, Others
    <2> QED BY <1>4, <2>1, SameRows, LogoutStep
  <1>5. ASSUME NEW r \in Requests, Rotate(r) PROVE ClosedQuiet'
    <2>1. req[r].tok \in Tokens /\ row[req[r].tok] # "none"
      BY <1>5, RotateStep DEF TokenStored
    <2>2. family[req[r].tok] \notin closed
      BY <1>5, <2>1, RotateStep, ClosedToken
    <2>3. \A f \in closed, q \in Requests : Renewing(q, f)' => Renewing(q, f)
      BY <1>5, <2>2, RotateStep DEF Renewing, Others
    <2> QED BY <1>5, <2>3, SameRows, RotateStep
  <1>6. ASSUME NEW r \in Requests, RejectExpired(r) PROVE ClosedQuiet'
    <2>1. Finish(r) /\ UNCHANGED <<row, family, grace, closed>>
      BY <1>6 DEF RejectExpired, rowVars, historyVars
    <2>2. \A u \in Tokens : row[u] # "none" => family'[u] = family[u]
      BY <2>1
    <2> QED BY <2>1, <2>2, FinishRenews, SameRows
  <1>7. ASSUME NEW r \in Requests, ReplayInGrace(r) PROVE ClosedQuiet'
    <2>1. \A f \in closed, q \in Requests : Renewing(q, f)' => Renewing(q, f)
      BY <1>7, ReplayInGraceStep DEF Renewing, Others, WithinGrace
    <2> QED BY <1>7, <2>1, SameRows, ReplayInGraceStep
  <1>8. ASSUME NEW r \in Requests, Replay(r) PROVE ClosedQuiet'
    <2>1. \A f \in closed, q \in Requests : Renewing(q, f)' => Renewing(q, f)
      BY <1>8, ReplayStep DEF Renewing, Others
    <2> QED BY <1>8, <2>1, SameRows, ReplayStep
  <1>9. ASSUME NEW r \in Requests, CheckAccount(r) PROVE ClosedQuiet'
    <2>1. \A f \in closed, q \in Requests : Renewing(q, f)' => Renewing(q, f)
      BY <1>9, CheckAccountStep DEF Renewing, Others
    <2> QED BY <1>9, <2>1, SameRows, CheckAccountStep
  <1>10. ASSUME NEW r \in Requests, Issue(r) PROVE ClosedQuiet'
    <2> DEFINE old == req[r].tok
    <2>1. PICK t \in Tokens :
             /\ row[t] = "none"
             /\ row' = [row EXCEPT ![t] = "live",
                       ![old] = IF req[r].rotating THEN "rotated" ELSE @]
             /\ family' = [family EXCEPT ![t] = family[old]]
      BY <1>10 DEF Issue
    <2>2. /\ Finish(r) /\ closed' = closed /\ req[r].pc = "issue"
          /\ grace' = [grace EXCEPT ![old] = @ \/ req[r].rotating]
      BY <1>10 DEF Issue, At
    <2>3. \A u \in Tokens : row[u] # "none" => family'[u] = family[u]
      BY <2>1 DEF TypeOK
    <2>4. \A f \in closed, q \in Requests : Renewing(q, f)' => Renewing(q, f)
      BY <2>2, <2>3, FinishRenews
    <2>5. old \in Tokens /\ row[old] # "none" BY <2>2 DEF TokenStored
    <2>6. family[old] \notin closed
      BY <2>2, <2>5 DEF ClosedQuiet, Renewing
    <2>7. \A f \in closed : /\ FamilyTokens(f)' = FamilyTokens(f)
                            /\ LiveTokens(f)' = LiveTokens(f)
      BY <2>1, <2>5, <2>6 DEF FamilyTokens, LiveTokens, Live, TypeOK
    <2>8. \A f \in closed : \A u \in FamilyTokens(f) : grace'[u] = grace[u]
      BY <2>2, <2>6 DEF FamilyTokens, TypeOK
    <2> QED BY <2>2, <2>4, <2>7, <2>8 DEF ClosedQuiet
  <1>11. ASSUME NEW r \in Requests, LogoutLock(r) PROVE ClosedQuiet'
    <2>1. \A f \in closed, q \in Requests : Renewing(q, f)' => Renewing(q, f)
      BY <1>11, LogoutLockStep DEF Renewing, Others
    <2> QED BY <1>11, <2>1, SameRows, LogoutLockStep
  <1>12. ASSUME NEW r \in Requests, LogoutIgnored(r) PROVE ClosedQuiet'
    <2>1. Finish(r) /\ UNCHANGED <<row, family, grace, closed>>
      BY <1>12 DEF LogoutIgnored, rowVars, historyVars
    <2>2. \A u \in Tokens : row[u] # "none" => family'[u] = family[u]
      BY <2>1
    <2> QED BY <2>1, <2>2, FinishRenews, SameRows
  <1>13. ASSUME NEW r \in Requests, RevokeAll(r) PROVE ClosedQuiet'
    <2>1. \A f \in closed, q \in Requests : Renewing(q, f)' => Renewing(q, f)
      BY <1>13, RevokeAllStep DEF Renewing, Others
    <2> QED BY <1>13, <2>1, SameRows, RevokeAllStep
  <1>14. ASSUME NEW r \in Requests, RevokeSelect(r) PROVE ClosedQuiet'
    <2>1. \A f \in closed, q \in Requests : Renewing(q, f)' => Renewing(q, f)
      BY <1>14, RevokeSelectStep DEF Renewing, Others
    <2> QED BY <1>14, <2>1, SameRows, RevokeSelectStep
  <1>15. ASSUME NEW r \in Requests, RevokeCommit(r) PROVE ClosedQuiet'
    <2> DEFINE marked(t) == req[r].rotating /\ t = req[r].tok
    <2>1. /\ Finish(r) /\ family' = family
          /\ row' = [t \in Tokens |-> IF marked(t) THEN "rotated"
                                     ELSE IF Live(t) /\ t \in req[r].snap
                                     THEN "revoked" ELSE row[t]]
          /\ grace' = [t \in Tokens |-> marked(t) \/ grace[t]]
          /\ closed' = closed \cup
                {f \in Families : /\ req[r].scope \in {f, Everything}
                                  /\ FamilyTokens(f) # {}
                                  /\ ~req[r].rotating
                                  /\ Quiet(r, f)}
      BY <1>15 DEF RevokeCommit
    <2>2. \A q \in Requests : \A f : Renewing(q, f)' => Renewing(q, f)
      BY <2>1, FinishRenews
    <2>3. \A t \in Tokens : row'[t] # "none" <=> row[t] # "none"
      BY <2>1 DEF TypeOK, RotationLocked, Live
    <2>4. \A f : FamilyTokens(f)' = FamilyTokens(f)
      BY <2>1, <2>3 DEF FamilyTokens
    <2>5. \A f : LiveTokens(f)' \subseteq LiveTokens(f) \ req[r].snap
      BY <2>1, <2>4 DEF LiveTokens, FamilyTokens, Live
    <2>6. ASSUME NEW f \in closed'
          PROVE  /\ FamilyTokens(f) # {}
                 /\ LiveTokens(f)' = {}
                 /\ \A t \in FamilyTokens(f) : ~grace[t] /\ ~marked(t)
                 /\ \A q \in Requests : ~Renewing(q, f)
      <3>1. CASE f \in closed
        <4>1. \A t \in FamilyTokens(f) : ~marked(t)
          BY <3>1 DEF ClosedQuiet, RotationLocked, LiveTokens
        <4> QED BY <3>1, <4>1, <2>5 DEF ClosedQuiet
      <3>2. CASE f \notin closed
        <4>1. ~req[r].rotating /\ FamilyTokens(f) # {} /\ Quiet(r, f)
          BY <2>1, <3>2
        <4>2. LiveTokens(f) \subseteq req[r].snap
          BY <4>1 DEF Quiet, SelectsAll
        <4> QED BY <4>1, <4>2, <2>5 DEF Quiet
      <3> QED BY <3>1, <3>2
    <2>7. \A t \in Tokens : grace'[t] <=> marked(t) \/ grace[t] BY <2>1
    <2>8. \A f : FamilyTokens(f) \subseteq Tokens BY DEF FamilyTokens
    <2> HIDE DEF marked
    <2> QED BY <2>2, <2>4, <2>6, <2>7, <2>8 DEF ClosedQuiet
  <1>16. ASSUME NEW r \in Requests, Abort(r) PROVE ClosedQuiet'
    <2>1. Finish(r) /\ UNCHANGED <<row, family, grace, closed>>
      BY <1>16 DEF Abort, rowVars, historyVars
    <2>2. \A u \in Tokens : row[u] # "none" => family'[u] = family[u]
      BY <2>1
    <2> QED BY <2>1, <2>2, FinishRenews, SameRows
  <1>17. ASSUME NEW t \in Tokens, GraceEnds(t) PROVE ClosedQuiet'
    <2>1. UNCHANGED <<row, family, closed, req>> /\ grace' = [grace EXCEPT ![t] = FALSE]
      BY <1>17 DEF GraceEnds, historyVars
    <2>2. \A u \in Tokens : grace'[u] => grace[u] BY <2>1 DEF TypeOK
    <2>3. \A f : /\ FamilyTokens(f)' = FamilyTokens(f)
                 /\ LiveTokens(f)' = LiveTokens(f)
                 /\ FamilyTokens(f) \subseteq Tokens
                 /\ \A q \in Requests : Renewing(q, f)' <=> Renewing(q, f)
      BY <2>1 DEF FamilyTokens, LiveTokens, Live, Renewing
    <2> QED BY <2>1, <2>2, <2>3 DEF ClosedQuiet
  <1>18. CASE Enable
    <2>1. \A f \in closed, q \in Requests : Renewing(q, f)' => Renewing(q, f)
      BY <1>18, EnableStep DEF Renewing
    <2> QED BY <1>18, <2>1, SameRows, EnableStep
  <1>19. CASE UNCHANGED vars
    <2>1. \A f \in closed, q \in Requests : Renewing(q, f)' => Renewing(q, f)
      BY <1>19 DEF vars, Renewing
    <2> QED BY <1>19, <2>1, SameRows DEF vars
  <1> QED
    BY <1>1, <1>2, <1>3, <1>4, <1>5, <1>6, <1>7, <1>8, <1>9, <1>10, <1>11,
       <1>12, <1>13, <1>14, <1>15, <1>16, <1>17, <1>18, <1>19 DEF Next

LEMMA Inductive == Spec => []IInv
  <1>1. IInv /\ [Next]_vars => IInv'
    <2> SUFFICES ASSUME IInv, [Next]_vars PROVE IInv'
      OBVIOUS
    <2> QED
      BY StepType, StepStored, StepIdle, StepRotation, StepSaw, StepSelects,
         StepClosed DEF IInv
  <1> QED BY <1>1, InitInv, PTL DEF Spec

-----------------------------------------------------------------------------
\* The state of the sessions of an account is always well formed.
THEOREM TypeCorrect == Spec => []TypeOK
  BY Inductive, PTL DEF IInv

\* No request issues tokens that never saw the account active: disabling an
\* account ends its sessions at their next refresh at the latest.
THEOREM DisabledGetsNothing == Spec => []IssuedWhileActive
  BY Inductive, PTL DEF IInv

\* A session revoked with nothing under way never has a live token again.
THEOREM ClosedStaysClosed == Spec => []ClosedForGood
  <1>1. IInv => ClosedForGood BY DEF IInv, ClosedQuiet, ClosedForGood
  <1> QED BY <1>1, Inductive, PTL

-----------------------------------------------------------------------------
\* Only the request that holds its lock, and finds it live, changes a row.
LEMMA StepRevoked ==
    ASSUME IInv, [Next]_vars, NEW u \in Tokens, row[u] \in {"rotated", "revoked"}
    PROVE  row'[u] = row[u]
  <1> USE DEF IInv
  <1>1. ASSUME NEW r \in Requests, LoginIssue(r) PROVE row'[u] = row[u]
    BY <1>1 DEF LoginIssue, TypeOK
  <1>2. ASSUME NEW r \in Requests, Issue(r) PROVE row'[u] = row[u]
    <2>1. req[r].rotating => row[req[r].tok] = "live"
      BY DEF RotationLocked, Live
    <2> QED BY <1>2, <2>1 DEF Issue, TypeOK
  <1>3. ASSUME NEW r \in Requests, RevokeCommit(r) PROVE row'[u] = row[u]
    <2>1. req[r].rotating => row[req[r].tok] = "live"
      BY DEF RotationLocked, Live
    <2> QED BY <1>3, <2>1 DEF RevokeCommit, Live
  <1>4. ASSUME NEW r \in Requests,
               RejectExpired(r) \/ LogoutIgnored(r) \/ Abort(r)
        PROVE  row' = row
    BY <1>4 DEF RejectExpired, LogoutIgnored, Abort, rowVars
  <1>5. ASSUME NEW r \in Requests, NEW t \in Tokens, Refresh(r, t) \/ Logout(r, t)
        PROVE  row' = row
    BY <1>5, RefreshStep, LogoutStep
  <1>6. ASSUME NEW r \in Requests,
               \/ LoginCheck(r) \/ Rotate(r) \/ ReplayInGrace(r) \/ Replay(r)
               \/ CheckAccount(r) \/ LogoutLock(r) \/ RevokeAll(r)
               \/ RevokeSelect(r)
        PROVE  row' = row
    BY <1>6, LoginCheckStep, RotateStep, ReplayInGraceStep, ReplayStep,
       CheckAccountStep, LogoutLockStep, RevokeAllStep, RevokeSelectStep
  <1>7. ASSUME NEW t \in Tokens, GraceEnds(t) PROVE row' = row
    BY <1>7 DEF GraceEnds
  <1>8. CASE Enable BY <1>8, EnableStep
  <1>9. CASE UNCHANGED vars BY <1>9 DEF vars
  <1> QED
    BY <1>1, <1>2, <1>3, <1>4, <1>5, <1>6, <1>7, <1>8, <1>9 DEF Next

\* A rotated or revoked token stays what it is.
THEOREM RevokedStays == Spec => RevokedForGood
  <1>1. IInv /\ [Next]_vars =>
            [\A t \in Tokens : row[t] \in {"rotated", "revoked"} =>
                row'[t] = row[t]]_vars
    BY StepRevoked
  <1> QED BY <1>1, Inductive, PTL DEF Spec, RevokedForGood

-----------------------------------------------------------------------------
(* A session is one chain of tokens, but for the replays in grace.         *)

LEMMA LiveSets ==
    /\ \A f : LiveTokens(f) \in SUBSET Tokens
    /\ \A S \in SUBSET Tokens : IsFiniteSet(S) /\ Cardinality(S) \in Nat
    /\ \A S \in SUBSET Tokens, T \in SUBSET Tokens :
          S \subseteq T => Cardinality(S) <= Cardinality(T)
  <1>1. \A S \in SUBSET Tokens : IsFiniteSet(S) BY FS_Subset
  <1>2. \A S \in SUBSET Tokens : Cardinality(S) \in Nat
    BY <1>1, FS_CardinalityType
  <1>3. ASSUME NEW S \in SUBSET Tokens, NEW T \in SUBSET Tokens, S \subseteq T
        PROVE  Cardinality(S) <= Cardinality(T)
    <2>1. IsFiniteSet(T) BY <1>1
    <2> QED BY <1>3, <2>1, FS_Subset
  <1> QED BY <1>1, <1>2, <1>3 DEF LiveTokens, FamilyTokens

LEMMA OneMore ==
    ASSUME NEW S \in SUBSET Tokens, NEW t \in Tokens
    PROVE  Cardinality(S \cup {t}) <= Cardinality(S) + 1
  <1>1. IsFiniteSet(S) /\ Cardinality(S) \in Nat BY LiveSets
  <1>2. Cardinality(S \cup {t}) = IF t \in S THEN Cardinality(S)
                                  ELSE Cardinality(S) + 1
    BY <1>1, FS_AddElement
  <1> QED BY <1>1, <1>2

\* Taking out one token and putting in another leaves no more than there were.
LEMMA Exchange ==
    ASSUME NEW S \in SUBSET Tokens, NEW old \in S, NEW t \in Tokens
    PROVE  Cardinality((S \ {old}) \cup {t}) <= Cardinality(S)
  <1>1. IsFiniteSet(S) /\ Cardinality(S) \in Nat BY LiveSets
  <1>2. Cardinality(S \ {old}) = Cardinality(S) - 1
    BY <1>1, FS_RemoveElement
  <1>3. Cardinality((S \ {old}) \cup {t}) <= Cardinality(S \ {old}) + 1
    BY OneMore
  <1>4. Cardinality((S \ {old}) \cup {t}) \in Nat BY LiveSets
  <1> QED BY <1>1, <1>2, <1>3, <1>4

\* Steps that add no live token and take back no counted fork.
LEMMA NoMoreLive ==
    ASSUME ForkOnlyInGrace, NEW f \in Families, forks[f] \in Nat,
           LiveTokens(f)' \subseteq LiveTokens(f), forks'[f] = forks[f],
           LiveTokens(f)' \in SUBSET Tokens
    PROVE  Cardinality(LiveTokens(f)') <= 1 + forks'[f]
  <1>1. Cardinality(LiveTokens(f)') <= Cardinality(LiveTokens(f)) BY LiveSets
  <1>2. Cardinality(LiveTokens(f)) <= 1 + forks[f] BY DEF ForkOnlyInGrace
  <1>3. /\ Cardinality(LiveTokens(f)) \in Nat
        /\ Cardinality(LiveTokens(f)') \in Nat
    BY LiveSets
  <1> QED BY <1>1, <1>2, <1>3

LEMMA StepForks ==
    ASSUME IInv, ForkOnlyInGrace, [Next]_vars PROVE ForkOnlyInGrace'
  <1> USE DEF IInv
  <1> SUFFICES ASSUME NEW f \in Families
               PROVE  Cardinality(LiveTokens(f)') <= 1 + forks'[f]
    BY DEF ForkOnlyInGrace
  <1> DEFINE Goal == Cardinality(LiveTokens(f)') <= 1 + forks'[f]
  <1>a. /\ forks[f] \in Nat
        /\ LiveTokens(f)' \in SUBSET Tokens
        /\ LiveTokens(f) \in SUBSET Tokens
        /\ Cardinality(LiveTokens(f)) \in Nat
        /\ Cardinality(LiveTokens(f)') \in Nat
        /\ Cardinality(LiveTokens(f)) <= 1 + forks[f]
    <2>1. /\ LiveTokens(f)' \in SUBSET Tokens
          /\ LiveTokens(f) \in SUBSET Tokens
      BY DEF LiveTokens, FamilyTokens
    <2> QED BY <2>1, LiveSets DEF TypeOK, ForkOnlyInGrace
  <1>b. ASSUME UNCHANGED <<row, family, forks>> PROVE Goal
    <2>1. LiveTokens(f)' = LiveTokens(f)
      BY <1>b DEF LiveTokens, FamilyTokens, Live
    <2> QED BY <1>a, <1>b, <2>1
  <1> HIDE DEF Goal
  <1>1. ASSUME NEW r \in Requests, LoginIssue(r) PROVE Goal
    <2>1. PICK t \in Tokens, g \in Families :
             /\ row[t] = "none"
             /\ FamilyTokens(g) = {}
             /\ row' = [row EXCEPT ![t] = "live"]
             /\ family' = [family EXCEPT ![t] = g]
      BY <1>1 DEF LoginIssue
    <2>2. forks' = forks BY <1>1 DEF LoginIssue, historyVars
    <2>3. CASE f = g
      <3>1. LiveTokens(f)' \subseteq {t}
        BY <2>1, <2>3 DEF LiveTokens, FamilyTokens, Live, TypeOK
      <3>2. {t} \in SUBSET Tokens /\ Cardinality({t}) = 1 BY FS_Singleton
      <3>3. Cardinality(LiveTokens(f)') <= 1 BY <1>a, <3>1, <3>2, LiveSets
      <3> QED BY <1>a, <2>2, <3>3 DEF Goal
    <2>4. CASE f # g
      <3>1. LiveTokens(f)' \subseteq LiveTokens(f)
        BY <2>1, <2>4 DEF LiveTokens, FamilyTokens, Live, TypeOK
      <3> QED BY <1>a, <2>2, <3>1, NoMoreLive DEF Goal
    <2> QED BY <2>3, <2>4
  <1>2. ASSUME NEW r \in Requests, Issue(r) PROVE Goal
    <2> DEFINE old == req[r].tok
    <2>1. PICK t \in Tokens :
             /\ row[t] = "none"
             /\ row' = [row EXCEPT ![t] = "live",
                       ![old] = IF req[r].rotating THEN "rotated" ELSE @]
             /\ family' = [family EXCEPT ![t] = family[old]]
      BY <1>2 DEF Issue
    <2>2. forks' = [forks EXCEPT ![family[old]] =
                       IF req[r].rotating THEN @ ELSE @ + 1]
      BY <1>2 DEF Issue
    <2>3. old \in Tokens /\ row[old] # "none"
      BY <1>2 DEF Issue, At, TokenStored
    <2>4. CASE f # family[old]
      <3>1. LiveTokens(f)' \subseteq LiveTokens(f)
        BY <2>1, <2>3, <2>4 DEF LiveTokens, FamilyTokens, Live, TypeOK
      <3>2. forks'[f] = forks[f] BY <2>2, <2>4 DEF TypeOK
      <3> QED BY <1>a, <3>1, <3>2, NoMoreLive DEF Goal
    <2>5. CASE f = family[old] /\ req[r].rotating
      <3>1. old \in LiveTokens(f)
        BY <2>3, <2>5 DEF RotationLocked, LiveTokens, FamilyTokens
      <3>2. LiveTokens(f)' \subseteq (LiveTokens(f) \ {old}) \cup {t}
        BY <2>1, <2>3, <2>5 DEF LiveTokens, FamilyTokens, Live, TypeOK
      <3>3. Cardinality((LiveTokens(f) \ {old}) \cup {t})
              <= Cardinality(LiveTokens(f))
        BY <1>a, <3>1, Exchange
      <3>4. Cardinality(LiveTokens(f)')
              <= Cardinality((LiveTokens(f) \ {old}) \cup {t})
        BY <1>a, <3>2, LiveSets
      <3>5. Cardinality((LiveTokens(f) \ {old}) \cup {t}) \in Nat
        BY <1>a, LiveSets
      <3>6. forks'[f] = forks[f] BY <2>2, <2>5 DEF TypeOK
      <3> QED BY <1>a, <3>3, <3>4, <3>5, <3>6 DEF Goal
    <2>6. CASE f = family[old] /\ ~req[r].rotating
      <3>1. LiveTokens(f)' \subseteq LiveTokens(f) \cup {t}
        BY <2>1, <2>3, <2>6 DEF LiveTokens, FamilyTokens, Live, TypeOK
      <3>2. Cardinality(LiveTokens(f) \cup {t}) <= Cardinality(LiveTokens(f)) + 1
        BY <1>a, OneMore
      <3>3. Cardinality(LiveTokens(f)') <= Cardinality(LiveTokens(f) \cup {t})
        BY <1>a, <3>1, LiveSets
      <3>4. Cardinality(LiveTokens(f) \cup {t}) \in Nat BY <1>a, LiveSets
      <3>5. forks'[f] = forks[f] + 1 BY <2>2, <2>6 DEF TypeOK
      <3> QED BY <1>a, <3>2, <3>3, <3>4, <3>5 DEF Goal
    <2> QED BY <2>4, <2>5, <2>6
  <1>3. ASSUME NEW r \in Requests, RevokeCommit(r) PROVE Goal
    <2>1. family' = family /\ forks' = forks BY <1>3 DEF RevokeCommit
    <2>2. \A u \in Tokens : row'[u] = "live" => row[u] = "live"
      BY <1>3 DEF RevokeCommit
    <2>3. LiveTokens(f)' \subseteq LiveTokens(f)
      BY <2>1, <2>2 DEF LiveTokens, FamilyTokens, Live
    <2> QED BY <1>a, <2>1, <2>3, NoMoreLive DEF Goal
  <1>4. ASSUME NEW r \in Requests,
               RejectExpired(r) \/ LogoutIgnored(r) \/ Abort(r)
        PROVE  Goal
    BY <1>4, <1>b DEF RejectExpired, LogoutIgnored, Abort, rowVars, historyVars
  <1>5. ASSUME NEW r \in Requests, NEW t \in Tokens, Refresh(r, t) \/ Logout(r, t)
        PROVE  Goal
    BY <1>5, <1>b, RefreshStep, LogoutStep
  <1>6. ASSUME NEW r \in Requests,
               \/ LoginCheck(r) \/ Rotate(r) \/ ReplayInGrace(r) \/ Replay(r)
               \/ CheckAccount(r) \/ LogoutLock(r) \/ RevokeAll(r)
               \/ RevokeSelect(r)
        PROVE  Goal
    BY <1>6, <1>b, LoginCheckStep, RotateStep, ReplayInGraceStep, ReplayStep,
       CheckAccountStep, LogoutLockStep, RevokeAllStep, RevokeSelectStep
  <1>7. ASSUME NEW t \in Tokens, GraceEnds(t) PROVE Goal
    BY <1>7, <1>b DEF GraceEnds, historyVars
  <1>8. ASSUME Enable PROVE Goal BY <1>8, <1>b, EnableStep
  <1>9. ASSUME UNCHANGED vars PROVE Goal BY <1>9, <1>b DEF vars
  <1>10. Goal
    BY <1>1, <1>2, <1>3, <1>4, <1>5, <1>6, <1>7, <1>8, <1>9 DEF Next
  <1> QED BY <1>10 DEF Goal

\* A login session has one live token, and one more at most for each replay
\* accepted in the grace window.
THEOREM OneChain == Spec => []ForkOnlyInGrace
  <1>1. Init => ForkOnlyInGrace
    <2> SUFFICES ASSUME Init, NEW f \in Families
                 PROVE  Cardinality(LiveTokens(f)) <= 1 + forks[f]
      BY DEF ForkOnlyInGrace
    <2>1. LiveTokens(f) = {} BY DEF Init, LiveTokens, FamilyTokens
    <2>2. Cardinality({}) = 0 BY FS_EmptySet
    <2> QED BY <2>1, <2>2 DEF Init
  <1>2. IInv /\ ForkOnlyInGrace /\ [Next]_vars => ForkOnlyInGrace'
    BY StepForks
  <1> QED BY <1>1, <1>2, Inductive, PTL DEF Spec

=============================================================================
