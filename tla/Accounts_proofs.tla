--------------------------- MODULE Accounts_proofs ---------------------------
(***************************************************************************)
(* Accounts and their links, for any number of accounts, requests and      *)
(* tokens.                                                                 *)
(*                                                                         *)
(* The guard of admin_update works because of the witness: a request that  *)
(* counted the active administrators holds the row of one that is not its  *)
(* target, and as long as it does nobody else changes or deletes that row. *)
(* So the argument has two halves: a request does not disturb what another *)
(* one has locked (Undisturbed), and each request sets up its own witness  *)
(* (OwnStep).                                                              *)
(*                                                                         *)
(* Links: a request that is past reading a token holds its row, so nobody  *)
(* else spends it; and what a request is to replace it has selected, or    *)
(* the link was spent before.                                              *)
(***************************************************************************)
EXTENDS AdminGuard, EmailTokens, TLAPS

USE NamesAssumption, JobAssumption, NobodyAssumption

-----------------------------------------------------------------------------
(* The guard of the last administrator.                                    *)

GuardStep(r) ==
    \/ \E j \in Job : SendUpdate(r, j) \/ SendDelete(r, j) \/ SendDeleteMe(r, j)
    \/ LockTarget(r) \/ NotFound(r) \/ SelectAdmins(r) \/ CountAdmins(r)
    \/ Write(r) \/ Delete(r) \/ RollBack(r)

\* The row of an active administrator other than the target, held by r.
Witness(r, a) ==
    /\ a \in admins[r]
    /\ a # job[r].target
    /\ IsActiveAdmin(a)
    /\ rowLock[a] = r

\* What holds of a request's progress.
Updating(r) == job[r].op = "update" /\ pc[r] \in {"select", "count"}
HoldsTarget(r) ==
    pc[r] = "write" \/ Updating(r) => rowLock[job[r].target] = r
StillRemoves(r) ==
    Updating(r) =>
        /\ IsActiveAdmin(job[r].target)
        /\ pc[r] = "count" => job[r].target \in admins[r]
NotCounted(r) == pc[r] \in {"idle", "lock", "select"} => admins[r] = {}
Counted(r) ==
    /\ pc[r] \in {"write", "delete"}
    /\ admins[r] # {} \/ (pc[r] = "write" /\ RemovesAnAdmin(r))
    => \E a \in Users : Witness(r, a)

Progress(r) == HoldsTarget(r) /\ StillRemoves(r) /\ NotCounted(r) /\ Counted(r)

GuardIInv == GuardTypeOK /\ \A r \in Callers : Progress(r)

-----------------------------------------------------------------------------
LEMMA NextIsStep == GuardNext => \E r \in Callers : GuardStep(r)
  BY DEF GuardNext, GuardStep

\* A request that has been sent carries a job.
LEMMA HasJob ==
    ASSUME GuardTypeOK, NEW r \in Callers, pc[r] # "idle"
    PROVE  job[r] \in Job /\ job[r].target \in Users /\ job[r].actor \in Users
  BY DEF GuardTypeOK, Job

LEMMA GuardInitInv == GuardInit => GuardIInv
  BY DEF GuardInit, GuardIInv, GuardTypeOK, Progress, HoldsTarget, StillRemoves, NotCounted,
         Counted, Updating

-----------------------------------------------------------------------------
\* Typing.
LEMMA SendType ==
    ASSUME GuardTypeOK, NEW r \in Callers, NEW j \in Job, Send(r, j),
           NEW l \in {"lock", "select", "delete"}, Goto(r, l)
    PROVE  GuardTypeOK'
  BY DEF GuardTypeOK, Send, Goto

LEMMA EndType ==
    ASSUME GuardTypeOK, NEW r \in Callers, End(r), pc[r] # "idle",
           job' = job,
           role' \in [Users -> Roles \cup {"gone"}],
           disabled' \in [Users -> BOOLEAN],
           admins' \in [Callers -> SUBSET Users]
    PROVE  GuardTypeOK'
  BY DEF GuardTypeOK, End, Goto

LEMMA GuardStepType == ASSUME GuardTypeOK, NEW r \in Callers, GuardStep(r) PROVE GuardTypeOK'
  <1>1. ASSUME NEW j \in Job, SendUpdate(r, j) PROVE GuardTypeOK'
    BY <1>1, SendType DEF SendUpdate
  <1>2. ASSUME NEW j \in Job, SendDelete(r, j) PROVE GuardTypeOK'
    BY <1>2, SendType DEF SendDelete
  <1>3. ASSUME NEW j \in Job, SendDeleteMe(r, j) PROVE GuardTypeOK'
    BY <1>3, SendType DEF SendDeleteMe
  <1>4. ASSUME LockTarget(r) PROVE GuardTypeOK'
    BY <1>4, HasJob DEF LockTarget, GuardTypeOK, Goto
  <1>5. ASSUME NotFound(r) PROVE GuardTypeOK'
    BY <1>5, EndType DEF NotFound, GuardTypeOK
  <1>6. ASSUME SelectAdmins(r) PROVE GuardTypeOK'
    <2>1. admins' \in [Callers -> SUBSET Users]
      BY <1>6 DEF SelectAdmins, GuardTypeOK, ActiveAdmins
    <2> QED BY <1>6, <2>1 DEF SelectAdmins, GuardTypeOK, Goto
  <1>7. ASSUME CountAdmins(r) PROVE GuardTypeOK'
    <2>1. admins' \in [Callers -> SUBSET Users]
      BY <1>7 DEF CountAdmins, GuardTypeOK
    <2>2. CASE End(r)
      BY <1>7, <2>1, <2>2, EndType DEF CountAdmins, GuardTypeOK
    <2>3. CASE ~End(r)
      <3> DEFINE still == admins[r] \cap ActiveAdmins
                 l == IF job[r].op = "update" THEN "write" ELSE "delete"
      <3>1. /\ pc[r] = "count"
            /\ pc' = [pc EXCEPT ![r] = l]
            /\ rowLock' = [u \in Users |-> IF u \in still THEN r ELSE rowLock[u]]
            /\ UNCHANGED <<role, disabled, job>>
        BY <1>7, <2>3 DEF CountAdmins, Goto
      <3>2. l \in {"write", "delete"}
        OBVIOUS
      <3> HIDE DEF l, still
      <3> QED BY <2>1, <3>1, <3>2 DEF GuardTypeOK
    <2> QED BY <2>2, <2>3
  <1>8. ASSUME Write(r) PROVE GuardTypeOK'
    <2>1. job[r] \in Job BY <1>8, HasJob DEF Write
    <2>2. role' \in [Users -> Roles \cup {"gone"}]
      BY <1>8, <2>1 DEF Write, GuardTypeOK, Job, Roles
    <2>3. disabled' \in [Users -> BOOLEAN]
      BY <1>8, <2>1 DEF Write, GuardTypeOK
    <2> QED BY <1>8, <2>2, <2>3, EndType DEF Write, GuardTypeOK
  <1>9. ASSUME Delete(r) PROVE GuardTypeOK'
    <2>1. role' \in [Users -> Roles \cup {"gone"}]
      BY <1>9 DEF Delete, GuardTypeOK
    <2> QED BY <1>9, <2>1, EndType DEF Delete, GuardTypeOK
  <1>10. ASSUME RollBack(r) PROVE GuardTypeOK'
    BY <1>10, EndType DEF RollBack, GuardTypeOK
  <1> QED
    BY <1>1, <1>2, <1>3, <1>4, <1>5, <1>6, <1>7, <1>8, <1>9, <1>10 DEF GuardStep

-----------------------------------------------------------------------------
\* A step of q leaves another request, and every row that one holds, as it was.
Same(r, u) == rowLock'[u] = r /\ role'[u] = role[u] /\ disabled'[u] = disabled[u]

LEMMA OthersFrame ==
    ASSUME GuardTypeOK, NEW q \in Callers, GuardStep(q), NEW r \in Callers, r # q
    PROVE  pc'[r] = pc[r] /\ job'[r] = job[r] /\ admins'[r] = admins[r]
  BY DEF GuardTypeOK, GuardStep, SendUpdate, SendDelete, SendDeleteMe, Send, LockTarget, NotFound,
         SelectAdmins, CountAdmins, Write, Delete, RollBack, Goto, End

LEMMA Undisturbed ==
    ASSUME GuardIInv, NEW q \in Callers, GuardStep(q), NEW r \in Callers, r # q,
           NEW u \in Users, rowLock[u] = r
    PROVE  Same(r, u)
  <1>1. GuardTypeOK /\ r # NoCaller BY DEF GuardIInv
  <1>2. ASSUME NEW j \in Job, SendUpdate(q, j) \/ SendDelete(q, j) \/ SendDeleteMe(q, j)
        PROVE  Same(r, u)
    BY <1>2 DEF Same, SendUpdate, SendDelete, SendDeleteMe, Send
  <1>3. ASSUME LockTarget(q) PROVE Same(r, u)
    BY <1>1, <1>3 DEF Same, LockTarget, Unlocked, GuardTypeOK
  <1>4. ASSUME NotFound(q) \/ RollBack(q) PROVE Same(r, u)
    BY <1>1, <1>4 DEF Same, NotFound, RollBack, End, GuardTypeOK
  <1>5. ASSUME SelectAdmins(q) PROVE Same(r, u)
    BY <1>5 DEF Same, SelectAdmins
  <1>6. ASSUME CountAdmins(q) PROVE Same(r, u)
    <2>1. u \notin admins[q] BY <1>1, <1>6 DEF CountAdmins, Unlocked
    <2> QED BY <1>1, <1>6, <2>1 DEF Same, CountAdmins, End, GuardTypeOK
  <1>7. ASSUME Write(q) PROVE Same(r, u)
    <2>1. job[q].target # u
      BY <1>7 DEF Write, GuardIInv, Progress, HoldsTarget
    <2> QED BY <1>1, <1>7, <2>1 DEF Same, Write, End, GuardTypeOK
  <1>8. ASSUME Delete(q) PROVE Same(r, u)
    <2>1. job[q].target # u
      BY <1>1, <1>8 DEF Delete, Unlocked
    <2> QED BY <1>1, <1>8, <2>1 DEF Same, Delete, End, GuardTypeOK
  <1> QED BY <1>2, <1>3, <1>4, <1>5, <1>6, <1>7, <1>8 DEF GuardStep

\* So whatever another request had established still holds.
LEMMA OthersKeep ==
    ASSUME GuardIInv, NEW q \in Callers, GuardStep(q), NEW r \in Callers, r # q
    PROVE  Progress(r)'
  <1>1. GuardTypeOK /\ Progress(r) BY DEF GuardIInv
  <1>2. pc'[r] = pc[r] /\ job'[r] = job[r] /\ admins'[r] = admins[r]
    BY <1>1, OthersFrame
  <1>3. \A u \in Users : rowLock[u] = r => Same(r, u)
    BY Undisturbed
  <1>4. CASE pc[r] = "idle"
    BY <1>1, <1>2, <1>4
    DEF Progress, HoldsTarget, StillRemoves, NotCounted, Counted, Updating
  <1>5. CASE pc[r] # "idle"
    <2>1. job[r].target \in Users BY <1>1, <1>5, HasJob
    <2>2. HoldsTarget(r)'
      BY <1>1, <1>2, <1>3, <2>1 DEF Progress, HoldsTarget, Updating, Same
    <2>3. StillRemoves(r)'
      BY <1>1, <1>2, <1>3, <2>1
      DEF Progress, HoldsTarget, StillRemoves, Updating, Same, IsActiveAdmin
    <2>4. NotCounted(r)' BY <1>1, <1>2 DEF Progress, NotCounted
    <2>5. Counted(r)'
      <3> SUFFICES ASSUME pc[r] \in {"write", "delete"},
                          admins[r] # {} \/ (pc[r] = "write" /\ RemovesAnAdmin(r)')
                   PROVE  \E a \in Users : Witness(r, a)'
        BY <1>2 DEF Counted
      <3>1. pc[r] = "write" => (RemovesAnAdmin(r)' <=> RemovesAnAdmin(r))
        BY <1>1, <1>2, <1>3, <2>1
        DEF Progress, HoldsTarget, RemovesAnAdmin, IsActiveAdmin, Same
      <3>2. PICK a \in Users : Witness(r, a)
        BY <1>1, <3>1 DEF Progress, Counted
      <3>3. Same(r, a) BY <1>3, <3>2 DEF Witness
      <3>4. Witness(r, a)'
        BY <1>2, <3>2, <3>3 DEF Witness, Same, IsActiveAdmin
      <3> QED BY <3>4
    <2> QED BY <2>2, <2>3, <2>4, <2>5 DEF Progress
  <1> QED BY <1>4, <1>5

\* A request whose transaction is over claims nothing.
LEMMA Over == ASSUME NEW r, pc[r] = "done" PROVE Progress(r)
  BY DEF Progress, HoldsTarget, StillRemoves, NotCounted, Counted, Updating

LEMMA EndOver ==
    ASSUME GuardTypeOK, NEW r \in Callers, End(r) PROVE Progress(r)'
  BY DEF GuardTypeOK, End, Goto, Progress, HoldsTarget, StillRemoves, NotCounted,
         Counted, Updating

\* Each step of a request re-establishes what holds of its own progress.
LEMMA OwnStep ==
    ASSUME GuardIInv, NEW r \in Callers, GuardStep(r) PROVE Progress(r)'
  <1> USE DEF Goto
  <1>1. GuardTypeOK /\ Progress(r) BY DEF GuardIInv
  <1>2. ASSUME NEW j \in Job, SendUpdate(r, j) \/ SendDelete(r, j) \/ SendDeleteMe(r, j)
        PROVE  Progress(r)'
    <2>1. admins'[r] = {}
      BY <1>1, <1>2 DEF SendUpdate, SendDelete, SendDeleteMe, Send, Progress, NotCounted
    <2>2. job'[r] = j
      BY <1>1, <1>2 DEF SendUpdate, SendDelete, SendDeleteMe, Send, GuardTypeOK
    <2>3. /\ pc'[r] \in {"lock", "select", "delete"}
          /\ pc'[r] = "select" => j.op = "delete_me"
      BY <1>1, <1>2 DEF SendUpdate, SendDelete, SendDeleteMe, GuardTypeOK
    <2> QED BY <2>1, <2>2, <2>3
        DEF Progress, HoldsTarget, StillRemoves, NotCounted, Counted, Updating
  <1>3. ASSUME LockTarget(r) PROVE Progress(r)'
    <2>1. admins'[r] = {} /\ job' = job /\ role' = role /\ disabled' = disabled
      BY <1>1, <1>3 DEF LockTarget, Progress, NotCounted
    <2>2. job[r].target \in Users BY <1>1, <1>3, HasJob DEF LockTarget
    <2>3. rowLock'[job[r].target] = r
      BY <1>1, <1>3, <2>2 DEF LockTarget, GuardTypeOK
    <2>4. pc'[r] = IF RemovesAnAdmin(r) THEN "select" ELSE "write"
      BY <1>1, <1>3 DEF LockTarget, GuardTypeOK
    <2>5. RemovesAnAdmin(r)' <=> RemovesAnAdmin(r)
      BY <2>1 DEF RemovesAnAdmin, IsActiveAdmin
    <2>6. RemovesAnAdmin(r) => IsActiveAdmin(job[r].target)'
      BY <2>1 DEF RemovesAnAdmin, IsActiveAdmin
    <2> QED BY <2>1, <2>3, <2>4, <2>5, <2>6
        DEF Progress, HoldsTarget, StillRemoves, NotCounted, Counted, Updating
  <1>4. ASSUME NotFound(r) \/ RollBack(r) PROVE Progress(r)'
    BY <1>1, <1>4, EndOver DEF NotFound, RollBack
  <1>5. ASSUME SelectAdmins(r) PROVE Progress(r)'
    <2>1. /\ admins'[r] = ActiveAdmins
          /\ pc[r] = "select" /\ pc'[r] = "count"
          /\ UNCHANGED <<role, disabled, rowLock, job>>
      BY <1>1, <1>5 DEF SelectAdmins, GuardTypeOK
    <2>2. job[r].target \in Users BY <1>1, <2>1, HasJob
    <2> QED BY <1>1, <2>1, <2>2
        DEF Progress, HoldsTarget, StillRemoves, NotCounted, Counted, Updating,
            ActiveAdmins, IsActiveAdmin
  <1>6. ASSUME CountAdmins(r) PROVE Progress(r)'
    <2> DEFINE still == admins[r] \cap ActiveAdmins
    <2>1. CASE End(r) BY <1>1, <2>1, EndOver
    <2>2. CASE ~End(r)
      <3>1. /\ pc[r] = "count"
            /\ still # {job[r].target}
            /\ rowLock' = [u \in Users |-> IF u \in still THEN r ELSE rowLock[u]]
            /\ UNCHANGED <<role, disabled, job>>
        BY <1>6, <2>2 DEF CountAdmins
      <3>2. /\ admins'[r] = still
            /\ pc'[r] = IF job[r].op = "update" THEN "write" ELSE "delete"
        BY <1>1, <1>6, <2>2 DEF CountAdmins, GuardTypeOK
      <3>3. still \subseteq Users BY DEF ActiveAdmins
      <3>4. job[r].target \in Users BY <1>1, <3>1, HasJob
      <3>5. job[r].op = "update" =>
                rowLock[job[r].target] = r /\ job[r].target \in still
        BY <1>1, <3>1, <3>4
        DEF Progress, HoldsTarget, StillRemoves, Updating, ActiveAdmins
      <3>6. HoldsTarget(r)'
        BY <3>1, <3>2, <3>4, <3>5 DEF HoldsTarget, Updating
      <3>7. Counted(r)'
        <4> SUFFICES ASSUME still # {} \/ job[r].op = "update"
                     PROVE  \E a \in Users : Witness(r, a)'
          BY <3>2 DEF Counted
        <4>1. PICK a \in still : a # job[r].target
          BY <3>1, <3>5
        <4>2. a \in Users /\ IsActiveAdmin(a)'
          BY <3>1, <4>1 DEF ActiveAdmins, IsActiveAdmin
        <4> QED BY <3>1, <3>2, <4>1, <4>2 DEF Witness
      <3> QED BY <3>2, <3>6, <3>7
          DEF Progress, StillRemoves, NotCounted, Updating
    <2> QED BY <2>1, <2>2
  <1>7. ASSUME Write(r) \/ Delete(r) PROVE Progress(r)'
    BY <1>1, <1>7, EndOver DEF Write, Delete
  <1> QED BY <1>2, <1>3, <1>4, <1>5, <1>6, <1>7 DEF GuardStep

LEMMA Inductive == ASSUME GuardIInv, [GuardNext]_guardVars PROVE GuardIInv'
  <1>1. CASE GuardNext
    <2>1. PICK q \in Callers : GuardStep(q) BY <1>1, NextIsStep
    <2>2. GuardTypeOK' BY <2>1, GuardStepType DEF GuardIInv
    <2>3. \A r \in Callers : Progress(r)'
      BY <2>1, OthersKeep, OwnStep
    <2> QED BY <2>2, <2>3 DEF GuardIInv
  <1>2. CASE UNCHANGED guardVars
    BY <1>2 DEF guardVars, GuardIInv, GuardTypeOK, Progress, HoldsTarget, StillRemoves,
       NotCounted, Counted, Updating, Witness, RemovesAnAdmin, IsActiveAdmin
  <1> QED BY <1>1, <1>2

THEOREM GuardInvariance == GuardSpec => []GuardIInv
  BY GuardInitInv, Inductive, PTL DEF GuardSpec

-----------------------------------------------------------------------------
\* Every variable keeps its type, and no row stays locked by a request that is
\* over: the TypeOK that the run checks, for any number of accounts and requests.
THEOREM GuardTypeCorrect == GuardSpec => []GuardTypeOK
  BY GuardInvariance, PTL DEF GuardIInv

\* A commit of r that has a witness leaves the witness an active administrator.
LEMMA WitnessStays ==
    ASSUME GuardIInv, NEW r \in Callers, Write(r) \/ Delete(r) \/ RollBack(r),
           NEW a \in Users, Witness(r, a)
    PROVE  ActiveAdmins' # {}
  <1>1. GuardTypeOK BY DEF GuardIInv
  <1>2. role'[a] = role[a] /\ disabled'[a] = disabled[a]
    BY <1>1 DEF Write, Delete, RollBack, Witness, GuardTypeOK
  <1> QED BY <1>2 DEF Witness, ActiveAdmins, IsActiveAdmin

\* Which step ends a request at "write" or "delete".
LEMMA Ends ==
    ASSUME GuardIInv, [GuardNext]_guardVars, NEW r \in Callers,
           pc[r] \in {"write", "delete"}, pc'[r] = "done"
    PROVE  Write(r) \/ Delete(r) \/ RollBack(r)
  <1>1. GuardTypeOK BY DEF GuardIInv
  <1>2. ~ UNCHANGED guardVars BY DEF guardVars
  <1>3. PICK q \in Callers : GuardStep(q) BY <1>2, NextIsStep
  <1>4. q = r BY <1>1, <1>3, OthersFrame
  <1> QED BY <1>3, <1>4
      DEF GuardStep, SendUpdate, SendDelete, SendDeleteMe, Send, LockTarget, NotFound,
          SelectAdmins, CountAdmins

LEMMA UpdateStep ==
    ASSUME GuardIInv, [GuardNext]_guardVars, NEW r \in Callers,
           pc[r] = "write", pc'[r] = "done", ActiveAdmins # {}
    PROVE  ActiveAdmins' # {}
  <1>1. GuardTypeOK /\ Progress(r) BY DEF GuardIInv
  <1>2. Write(r) \/ RollBack(r) BY Ends DEF Delete
  <1>3. CASE RemovesAnAdmin(r)
    <2>1. PICK a \in Users : Witness(r, a) BY <1>1, <1>3 DEF Progress, Counted
    <2> QED BY <1>2, <2>1, WitnessStays
  <1>4. CASE ~RemovesAnAdmin(r) /\ Write(r)
    <2>1. PICK a \in Users : IsActiveAdmin(a) BY DEF ActiveAdmins
    <2>2. job[r] \in Job BY <1>1, <1>4, HasJob DEF Write
    <2>3. IsActiveAdmin(a)'
      BY <1>1, <1>4, <2>1, <2>2
      DEF Write, RemovesAnAdmin, IsActiveAdmin, GuardTypeOK, Job, Roles
    <2> QED BY <2>3 DEF ActiveAdmins
  <1>5. CASE RollBack(r)
    BY <1>5 DEF RollBack, ActiveAdmins, IsActiveAdmin
  <1> QED BY <1>2, <1>3, <1>4, <1>5

\* admin_update never takes the last active administrator away.
THEOREM UpdateIsGuarded == GuardSpec => UpdateKeepsAnAdmin
  <1>1. GuardIInv /\ [GuardNext]_guardVars =>
          [\A r \in Callers :
              pc[r] = "write" /\ pc'[r] = "done" /\ ActiveAdmins # {} =>
                  ActiveAdmins' # {}]_guardVars
    BY UpdateStep
  <1> QED BY <1>1, GuardInvariance, PTL DEF GuardSpec, UpdateKeepsAnAdmin

\* Whoever counted the active administrators first leaves one.
THEOREM CountIsGuarded == GuardSpec => CountedKeepsAnAdmin
  <1>1. GuardIInv /\ [GuardNext]_guardVars =>
          [\A r \in Callers :
              /\ pc[r] \in {"write", "delete"}
              /\ pc'[r] = "done"
              /\ admins[r] # {}
              => ActiveAdmins' # {}]_guardVars
    <2> SUFFICES ASSUME GuardIInv, [GuardNext]_guardVars, NEW r \in Callers,
                        pc[r] \in {"write", "delete"}, pc'[r] = "done", admins[r] # {}
                 PROVE  ActiveAdmins' # {}
      OBVIOUS
    <2>1. Write(r) \/ Delete(r) \/ RollBack(r) BY Ends
    <2>2. PICK a \in Users : Witness(r, a) BY DEF GuardIInv, Progress, Counted
    <2> QED BY <2>1, <2>2, WitnessStays
  <1> QED BY <1>1, GuardInvariance, PTL DEF GuardSpec, CountedKeepsAnAdmin

-----------------------------------------------------------------------------
(* The one-time links.                                                     *)

\* Who has read a token FOR UPDATE holds it, and finds it as it was read.
Holder ==
    \A r \in Requests :
        /\ req[r].pc \in {"load", "mark", "hash", "replace"} =>
               req[r].tok \in Tokens /\ lock[req[r].tok] = r
        /\ req[r].pc \in {"mark", "hash", "replace"} => Unused(req[r].tok)
        /\ req[r].pc \in {"verify", "reset"} =>
               req[r].tok \in Tokens /\ row[req[r].tok] # "none"

\* The links a request is to replace are selected by its UPDATE, or spent.
Selected ==
    \A r \in Requests :
        /\ req[r].older \subseteq OfPurpose(req[r].purpose)
        /\ req[r].pc \in {"issue", "replace"} =>
               \A t \in req[r].older : row[t] = "used" \/ t \in req[r].snap

\* A link that was mailed exists; one that changed the password is spent; one
\* that verified the address leaves it verified.
Spent ==
    \A t \in Tokens :
        /\ mail[t] # "none" => row[t] # "none"
        /\ resets[t] = 0 \/ (resets[t] = 1 /\ row[t] = "used")
        /\ t \in dead => row[t] = "used"
        /\ t \in verifiedBy => profile = "verified"

IInv == TypeOK /\ Holder /\ Selected /\ Spent /\ AccountHasLink

LEMMA IdleType == Idle \in Request
  BY DEF Idle, Request, Purposes

\* Rows are typed whatever a request does to its own record and its locks.
LEMMA FinishType ==
    ASSUME TypeOK, NEW r \in Requests, Finish(r)
    PROVE  /\ lock' \in [Tokens -> Requests \cup {NoRequest}]
           /\ req' \in [Requests -> Request]
  BY IdleType DEF TypeOK, Finish, Becomes

LEMMA RequestParts ==
    ASSUME NEW q \in Request, NEW S \in SUBSET Tokens,
           NEW label \in {"issue", "replace", "load", "mark", "hash"}
    PROVE  /\ [q EXCEPT !.pc = label] \in Request
           /\ [q EXCEPT !.pc = label, !.snap = S] \in Request
           /\ q.older \in SUBSET Tokens
  BY DEF Request

LEMMA BecomesType ==
    ASSUME TypeOK, NEW r \in Requests, NEW new \in Request, Becomes(r, new)
    PROVE  req' \in [Requests -> Request]
  BY DEF TypeOK, Becomes

LEMMA InitInv == Init => IInv
  <1> SUFFICES ASSUME Init PROVE IInv
    OBVIOUS
  <1>1. TypeOK BY IdleType DEF Init, TypeOK, Purposes
  <1>2. Holder BY DEF Init, Holder, Idle
  <1>3. Selected BY DEF Init, Selected, Idle
  <1>4. Spent BY DEF Init, Spent
  <1>5. AccountHasLink BY DEF Init, AccountHasLink
  <1> QED BY <1>1, <1>2, <1>3, <1>4, <1>5 DEF IInv

LEMMA StepType == ASSUME TypeOK, Holder, [Next]_vars PROVE TypeOK'
  <1> USE DEF TypeOK, tokenVars, historyVars
  <1>1. ASSUME NEW r \in Requests, RegisterLook(r) PROVE TypeOK'
    <2>1. [Idle EXCEPT !.pc = "register"] \in Request BY DEF Idle, Request, Purposes
    <2> QED BY <1>1, <2>1, BecomesType DEF RegisterLook
  <1>2. ASSUME NEW r \in Requests,
               RegisterLost(r) \/ NotAllowed(r) \/ RefuseExpired(r) \/ OpenedAgain(r)
               \/ RefuseUsed(r) \/ RefuseReset(r) \/ Abort(r)
        PROVE TypeOK'
    <2>1. Finish(r) /\ UNCHANGED <<required, profile, tokenVars, mail, historyVars>>
      BY <1>2 DEF RegisterLost, NotAllowed, RefuseExpired, OpenedAgain, RefuseUsed,
                  RefuseReset, Abort
    <2> QED BY <2>1, FinishType
  <1>3. ASSUME NEW r \in Requests, RegisterCommit(r) PROVE TypeOK'
    <2>1. /\ profile' \in {"unverified", "verified"}
          /\ row' \in [Tokens -> {"none", "unused", "used"}]
          /\ purpose' \in [Tokens -> Purposes]
          /\ mail' \in [Tokens -> {"none", "queued", "sent", "lost"}]
      BY <1>3 DEF RegisterCommit, IssueToken, Purposes
    <2>2. Finish(r) /\ UNCHANGED <<required, expired, historyVars>>
      BY <1>3 DEF RegisterCommit
    <2> QED BY <2>1, <2>2, FinishType
  <1>4. ASSUME NEW r \in Requests, NEW p \in {"verify_email", "reset_password"},
               Ask(r, p)
        PROVE TypeOK'
    <2>1. [Idle EXCEPT !.pc = "ask", !.purpose = p, !.older = OfPurpose(p)] \in Request
      BY DEF Idle, Request, Purposes, OfPurpose
    <2> QED BY <1>4, <2>1, BecomesType DEF Ask
  <1>5. ASSUME NEW r \in Requests, SelectUnused(r) PROVE TypeOK'
    <2> DEFINE snap == {t \in OfPurpose(req[r].purpose) : Unused(t)}
               label == IF req[r].pc = "ask" THEN "issue" ELSE "replace"
    <2>1. snap \subseteq Tokens /\ label \in {"issue", "replace"} BY DEF OfPurpose
    <2>2. Becomes(r, [req[r] EXCEPT !.pc = label, !.snap = snap])
      BY <1>5 DEF SelectUnused
    <2> HIDE DEF snap, label
    <2>3. [req[r] EXCEPT !.pc = label, !.snap = snap] \in Request
      BY <2>1, RequestParts
    <2>4. req' \in [Requests -> Request] BY <2>2, <2>3, BecomesType
    <2> QED BY <1>5, <2>4 DEF SelectUnused
  <1>6. ASSUME NEW r \in Requests, Issue(r) PROVE TypeOK'
    <2>1. /\ row' \in [Tokens -> {"none", "unused", "used"}]
          /\ purpose' \in [Tokens -> Purposes]
          /\ mail' \in [Tokens -> {"none", "queued", "sent", "lost"}]
      BY <1>6 DEF Issue, IssueToken, Request
    <2>2. dead' \subseteq Tokens BY <1>6 DEF Issue, Request
    <2>3. Finish(r) /\ UNCHANGED <<required, profile, expired, verifiedBy, resets>>
      BY <1>6 DEF Issue
    <2> QED BY <2>1, <2>2, <2>3, FinishType
  <1>7. ASSUME NEW r \in Requests, NEW t \in Tokens, Open(r, t) PROVE TypeOK'
    <2> DEFINE new == [Idle EXCEPT
                         !.pc = IF purpose[t] = "verify_email" THEN "verify" ELSE "reset",
                         !.tok = t, !.purpose = purpose[t], !.fresh = ~expired[t],
                         !.older = OfPurpose(purpose[t])]
    <2>1. (~expired[t]) \in BOOLEAN BY Zenon
    <2>2. new \in Request BY <2>1 DEF Idle, Request, Purposes, OfPurpose
    <2>3. Becomes(r, new) BY <1>7 DEF Open
    <2> HIDE DEF new
    <2>4. req' \in [Requests -> Request] BY <2>2, <2>3, BecomesType
    <2> QED BY <1>7, <2>4 DEF Open
  <1>8. ASSUME NEW r \in Requests, VerifyLock(r) \/ ResetLock(r) PROVE TypeOK'
    <2>1. lock' \in [Tokens -> Requests \cup {NoRequest}]
      BY <1>8 DEF VerifyLock, ResetLock, LockToken
    <2>2. [req[r] EXCEPT !.pc = "load"] \in Request
          /\ [req[r] EXCEPT !.pc = "hash"] \in Request
      BY RequestParts
    <2>3. req' \in [Requests -> Request]
      BY <1>8, <2>2, BecomesType DEF VerifyLock, ResetLock
    <2> QED BY <1>8, <2>1, <2>3 DEF VerifyLock, ResetLock
  <1>9. ASSUME NEW r \in Requests, VerifyLoad(r) PROVE TypeOK'
    <2>1. [req[r] EXCEPT !.pc = "mark"] \in Request BY RequestParts
    <2>2. req' \in [Requests -> Request]
      BY <1>9, <2>1, BecomesType DEF VerifyLoad
    <2> QED BY <1>9, <2>2 DEF VerifyLoad
  <1>10. ASSUME NEW r \in Requests, VerifyCommit(r) PROVE TypeOK'
    <2>1. req[r].tok \in Tokens BY <1>10 DEF Holder, VerifyCommit, At
    <2>2. row' \in [Tokens -> {"none", "unused", "used"}]
          /\ verifiedBy' \subseteq Tokens
      BY <1>10, <2>1 DEF VerifyCommit
    <2> QED BY <1>10, <2>2, FinishType DEF VerifyCommit
  <1>11. ASSUME NEW r \in Requests, ResetCommit(r) PROVE TypeOK'
    <2>1. req[r].older \in SUBSET Tokens BY RequestParts
    <2>2. row' \in [Tokens -> {"none", "unused", "used"}] BY <1>11 DEF ResetCommit
    <2>4. resets' \in [Tokens -> Nat]
      <3>1. req[r].tok \in Tokens BY <1>11 DEF Holder, ResetCommit, At
      <3> QED BY <1>11, <3>1 DEF ResetCommit
    <2>3. dead' \subseteq Tokens BY <1>11, <2>1 DEF ResetCommit
    <2> QED BY <1>11, <2>2, <2>3, <2>4, FinishType DEF ResetCommit
  <1>12. ASSUME NEW t \in Tokens, Deliver(t) \/ Expire(t) PROVE TypeOK'
    <2>1. CASE Deliver(t) BY <2>1 DEF Deliver
    <2>2. CASE Expire(t) BY <2>2 DEF Expire
    <2> QED BY <1>12, <2>1, <2>2
  <1>13. CASE UNCHANGED vars BY <1>13 DEF vars
  <1> QED BY <1>1, <1>2, <1>3, <1>4, <1>5, <1>6, <1>7, <1>8, <1>9, <1>10, <1>11,
             <1>12, <1>13 DEF Next, Step

\* What a step of one request leaves to the others: their own state, the rows they
\* hold, and every link there is.
Others(r) ==
    /\ \A q \in Requests \ {r} : req'[q] = req[q]
    /\ \A t \in Tokens :
        /\ lock[t] \notin {r, NoRequest} =>
               lock'[t] = lock[t] /\ (row[t] # "none" => row'[t] = row[t])
        /\ row[t] # "none" => row'[t] # "none" /\ purpose'[t] = purpose[t]
        /\ row[t] = "used" => row'[t] = "used"

LEMMA StepOthers ==
    ASSUME IInv, NEW r \in Requests, Step(r) PROVE Others(r)
  <1> USE DEF Others, IInv, TypeOK, tokenVars, Finish, Becomes
  <1>1. CASE \/ RegisterLook(r) \/ RegisterLost(r) \/ NotAllowed(r) \/ RefuseExpired(r)
             \/ VerifyLoad(r) \/ OpenedAgain(r) \/ RefuseUsed(r) \/ RefuseReset(r)
             \/ Abort(r) \/ SelectUnused(r)
    <2>1. /\ UNCHANGED tokenVars
          /\ (\E new : Becomes(r, new)) /\ (UNCHANGED lock \/ Finish(r))
      BY <1>1 DEF RegisterLook, RegisterLost, NotAllowed, RefuseExpired, VerifyLoad,
                  OpenedAgain, RefuseUsed, RefuseReset, Abort, SelectUnused
    <2> QED BY <2>1
  <1>2. CASE \/ \E p \in {"verify_email", "reset_password"} : Ask(r, p)
             \/ \E t \in Tokens : Open(r, t)
    BY <1>2 DEF Ask, Open
  <1>3. CASE RegisterCommit(r) BY <1>3 DEF RegisterCommit, IssueToken
  <1>4. CASE Issue(r)
    BY <1>4 DEF Issue, IssueToken, Invalidated, Free, Unused
  <1>5. CASE VerifyLock(r) \/ ResetLock(r)
    BY <1>5 DEF VerifyLock, ResetLock, LockToken, Free
  <1>6. CASE VerifyCommit(r) BY <1>6 DEF VerifyCommit, Holder, At
  <1>7. CASE ResetCommit(r)
    BY <1>7 DEF ResetCommit, Holder, At, Invalidated, Free, Unused
  <1> QED BY <1>1, <1>2, <1>3, <1>4, <1>5, <1>6, <1>7 DEF Step

\* A mail arriving or a link expiring touches no row, lock or request.
LEMMA StepWorld ==
    ASSUME IInv, NEW t \in Tokens, Deliver(t) \/ Expire(t)
    PROVE  (Holder /\ Selected /\ Spent /\ AccountHasLink)'
  <1>1. /\ UNCHANGED <<profile, row, purpose, lock, req, verifiedBy, resets, dead>>
        /\ \A u \in Tokens : mail'[u] # "none" => mail[u] # "none"
    BY DEF Deliver, Expire, IInv, TypeOK, historyVars, tokenVars
  <1> QED BY <1>1 DEF IInv, Holder, Selected, Spent, AccountHasLink, OfPurpose, Unused

\* A request holds the token it read until it ends.
LEMMA StepHolder ==
    ASSUME IInv, NEW r \in Requests, Step(r) PROVE Holder'
  <1> SUFFICES ASSUME NEW q \in Requests
               PROVE  /\ req'[q].pc \in {"load", "mark", "hash", "replace"} =>
                             req'[q].tok \in Tokens /\ lock'[req'[q].tok] = q
                      /\ req'[q].pc \in {"mark", "hash", "replace"} =>
                             row'[req'[q].tok] = "unused"
                      /\ req'[q].pc \in {"verify", "reset"} =>
                             req'[q].tok \in Tokens /\ row'[req'[q].tok] # "none"
    BY DEF Holder, Unused
  <1> USE DEF IInv, TypeOK, Holder, Unused
  <1>1. CASE q # r
    <2>1. req'[q] = req[q] /\ Others(r) BY <1>1, StepOthers DEF Others
    <2> QED BY <1>1, <2>1 DEF Others
  <1>2. CASE q = r
    <2> USE <1>2 DEF Becomes, At, tokenVars
    <2>1. CASE \/ RegisterCommit(r) \/ RegisterLost(r) \/ NotAllowed(r) \/ Issue(r)
               \/ RefuseExpired(r) \/ OpenedAgain(r) \/ RefuseUsed(r)
               \/ VerifyCommit(r) \/ RefuseReset(r) \/ ResetCommit(r) \/ Abort(r)
      <3>1. Finish(r)
        BY <2>1 DEF RegisterCommit, RegisterLost, NotAllowed, Issue, RefuseExpired,
                    OpenedAgain, RefuseUsed, VerifyCommit, RefuseReset, ResetCommit,
                    Abort
      <3>2. req'[r].pc = "idle" BY <3>1 DEF Finish, Idle
      <3> QED BY <3>2
    <2>7. CASE RegisterLook(r) \/ \E p \in {"verify_email", "reset_password"} : Ask(r, p)
      <3>1. CASE RegisterLook(r)
        <4>1. req'[r].pc = "register" BY <3>1 DEF RegisterLook, Idle
        <4> QED BY <4>1
      <3>2. CASE \E p \in {"verify_email", "reset_password"} : Ask(r, p)
        <4>1. req'[r].pc = "ask" BY <3>2 DEF Ask, Idle
        <4> QED BY <4>1
      <3> QED BY <2>7, <3>1, <3>2
    <2>2. CASE SelectUnused(r)
      <3>1. /\ req'[r].tok = req[r].tok /\ UNCHANGED <<lock, row>>
            /\ req[r].pc = "ask" => req'[r].pc = "issue"
            /\ req[r].pc = "hash" => req'[r].pc = "replace"
            /\ req[r].pc \in {"ask", "hash"}
        BY <2>2 DEF SelectUnused, Request
      <3> QED BY <3>1
    <2>3. CASE \E t \in Tokens : Open(r, t)
      <3>1. PICK t \in Tokens : Open(r, t) BY <2>3
      <3>2. /\ req'[r].pc \in {"verify", "reset"} /\ req'[r].tok = t
            /\ row' = row /\ mail[t] = "sent"
        BY <3>1 DEF Open, Idle
      <3> QED BY <3>2 DEF Spent
    <2>4. CASE VerifyLock(r)
      <3>1. /\ req[r].pc = "verify" /\ req'[r].pc = "load" /\ req'[r].tok = req[r].tok
            /\ lock' = [lock EXCEPT ![req[r].tok] = r]
        BY <2>4 DEF VerifyLock, LockToken, Request
      <3> QED BY <3>1
    <2>5. CASE VerifyLoad(r)
      <3>1. /\ req[r].pc = "load" /\ req'[r].pc = "mark" /\ req'[r].tok = req[r].tok
            /\ UNCHANGED <<lock, row>> /\ row[req[r].tok] = "unused"
        BY <2>5 DEF VerifyLoad, Request
      <3> QED BY <3>1
    <2>6. CASE ResetLock(r)
      <3>1. /\ req[r].pc = "reset" /\ req'[r].pc = "hash" /\ req'[r].tok = req[r].tok
            /\ lock' = [lock EXCEPT ![req[r].tok] = r]
            /\ row' = row /\ row[req[r].tok] = "unused"
        BY <2>6 DEF ResetLock, LockToken, Request
      <3> QED BY <3>1
    <2> QED BY <2>1, <2>2, <2>3, <2>4, <2>5, <2>6, <2>7 DEF Step
  <1> QED BY <1>1, <1>2

\* The UPDATE of a request selects the older links that still work; the others
\* are spent for good.
LEMMA StepSelected ==
    ASSUME IInv, NEW r \in Requests, Step(r) PROVE Selected'
  <1>0. Others(r) BY StepOthers
  <1> DEFINE NewOf(p) == {t \in Tokens : row'[t] # "none" /\ purpose'[t] = p}
  <1>1. \A p : OfPurpose(p) \subseteq NewOf(p) BY <1>0 DEF Others, OfPurpose
  <1> SUFFICES ASSUME NEW q \in Requests
               PROVE  /\ req'[q].older \subseteq NewOf(req'[q].purpose)
                      /\ req'[q].pc \in {"issue", "replace"} =>
                           \A t \in req'[q].older : row'[t] = "used" \/ t \in req'[q].snap
    BY DEF Selected, OfPurpose
  <1> HIDE DEF NewOf
  <1> USE DEF IInv, TypeOK, Selected
  <1>2. ASSUME req'[q].older = req[q].older, req'[q].purpose = req[q].purpose,
               req'[q].pc \in {"issue", "replace"} =>
                   req[q].pc = req'[q].pc /\ req'[q].snap = req[q].snap
        PROVE  /\ req'[q].older \subseteq NewOf(req'[q].purpose)
               /\ req'[q].pc \in {"issue", "replace"} =>
                    \A t \in req'[q].older : row'[t] = "used" \/ t \in req'[q].snap
    <2>1. req'[q].older \subseteq NewOf(req'[q].purpose) BY <1>1, <1>2
    <2>2. req[q].older \subseteq Tokens BY DEF Request
    <2> QED BY <1>0, <1>2, <2>1, <2>2 DEF Others
  <1>3. CASE q # r
    <2>1. req'[q] = req[q] BY <1>0, <1>3 DEF Others
    <2> QED BY <1>2, <2>1
  <1>4. CASE q = r
    <2> USE <1>4 DEF Becomes, At, tokenVars
    <2>1. CASE \/ RegisterCommit(r) \/ RegisterLost(r) \/ NotAllowed(r) \/ Issue(r)
               \/ RefuseExpired(r) \/ OpenedAgain(r) \/ RefuseUsed(r)
               \/ VerifyCommit(r) \/ RefuseReset(r) \/ ResetCommit(r) \/ Abort(r)
               \/ RegisterLook(r)
      <3>1. Finish(r) \/ Becomes(r, [Idle EXCEPT !.pc = "register"])
        BY <2>1 DEF RegisterCommit, RegisterLost, NotAllowed, Issue, RefuseExpired,
                    OpenedAgain, RefuseUsed, VerifyCommit, RefuseReset, ResetCommit,
                    Abort, RegisterLook
      <3>2. req'[r].older = {} /\ req'[r].pc \in {"idle", "register"}
        BY <3>1 DEF Finish, Idle
      <3> QED BY <3>2
    <2>2. CASE \E p \in {"verify_email", "reset_password"} : Ask(r, p)
      <3>1. PICK p \in {"verify_email", "reset_password"} : Ask(r, p) BY <2>2
      <3>2. req'[r].pc = "ask" /\ req'[r].purpose = p /\ req'[r].older = OfPurpose(p)
        BY <3>1 DEF Ask, Idle
      <3> QED BY <1>1, <3>2
    <2>3. CASE \E t \in Tokens : Open(r, t)
      <3>1. PICK t \in Tokens : Open(r, t) BY <2>3
      <3>2. /\ req'[r].pc \in {"verify", "reset"} /\ req'[r].purpose = purpose[t]
            /\ req'[r].older = OfPurpose(purpose[t])
        BY <3>1 DEF Open, Idle
      <3> QED BY <1>1, <3>2
    <2>4. CASE VerifyLock(r) \/ ResetLock(r) \/ VerifyLoad(r)
      <3>1. /\ req'[r].older = req[r].older /\ req'[r].purpose = req[r].purpose
            /\ req'[r].pc \in {"load", "hash", "mark"}
        BY <2>4 DEF VerifyLock, ResetLock, VerifyLoad, Request
      <3> QED BY <1>2, <3>1
    <2>5. CASE SelectUnused(r)
      <3>1. /\ req'[r].older = req[r].older /\ req'[r].purpose = req[r].purpose
            /\ req'[r].snap = {t \in OfPurpose(req[r].purpose) : Unused(t)}
            /\ row' = row
        BY <2>5 DEF SelectUnused, Request
      <3>2. \A t \in req[r].older :
                row[t] = "used" \/ t \in {u \in OfPurpose(req[r].purpose) : Unused(u)}
        BY DEF OfPurpose, Unused
      <3> QED BY <1>1, <3>1, <3>2
    <2> QED BY <2>1, <2>2, <2>3, <2>4, <2>5 DEF Step
  <1> QED BY <1>3, <1>4

\* What replaces a link, or uses it up, marks its row in the same commit.
LEMMA StepSpent ==
    ASSUME IInv, NEW r \in Requests, Step(r) PROVE Spent'
  <1>0. Others(r) BY StepOthers
  <1> USE DEF IInv, TypeOK, Spent
  <1>1. CASE UNCHANGED <<profile, mail, historyVars>>
    BY <1>0, <1>1 DEF Others, historyVars
  <1>2. CASE RegisterCommit(r)
    BY <1>0, <1>2 DEF Others, RegisterCommit, IssueToken, historyVars
  <1>3. CASE Issue(r)
    <2>1. /\ dead' = dead \cup req[r].older
          /\ UNCHANGED <<profile, verifiedBy, resets>>
      BY <1>3 DEF Issue
    <2>2. \A t \in Tokens : mail'[t] # "none" => row'[t] # "none"
      BY <1>0, <1>3 DEF Issue, IssueToken, Others
    <2>3. ASSUME NEW t \in req[r].older PROVE row'[t] = "used"
      <3>1. t \in Tokens /\ row[t] # "none" BY DEF Selected, OfPurpose
      <3>2. CASE row[t] = "used" BY <1>0, <3>1, <3>2 DEF Others
      <3>3. CASE row[t] = "unused"
        <4>1. t \in Invalidated(r)
          BY <1>3, <3>3 DEF Selected, Issue, At, Invalidated, Unused
        <4> QED BY <1>3, <3>1, <4>1 DEF Issue, IssueToken
      <3> QED BY <3>1, <3>2, <3>3
    <2> QED BY <1>0, <2>1, <2>2, <2>3 DEF Others
  <1>4. CASE VerifyCommit(r)
    BY <1>0, <1>4 DEF Others, VerifyCommit
  <1>5. CASE ResetCommit(r)
    <2>1. /\ dead' = dead \cup req[r].older
          /\ resets' = [resets EXCEPT ![req[r].tok] = @ + 1]
          /\ profile' = "verified" /\ UNCHANGED mail
          /\ row' = [t \in Tokens |-> IF t \in Invalidated(r) \cup {req[r].tok}
                                      THEN "used" ELSE row[t]]
      BY <1>5 DEF ResetCommit
    <2>2. req[r].tok \in Tokens /\ row[req[r].tok] = "unused"
      BY <1>5 DEF ResetCommit, Holder, At, Unused
    <2>3. ASSUME NEW t \in req[r].older PROVE row'[t] = "used"
      <3>1. t \in Tokens /\ row[t] # "none" BY DEF Selected, OfPurpose
      <3>2. CASE row[t] = "used" BY <1>0, <3>1, <3>2 DEF Others
      <3>3. CASE row[t] = "unused"
        <4>1. t \in Invalidated(r)
          BY <1>5, <3>3 DEF Selected, ResetCommit, At, Invalidated, Unused
        <4> QED BY <2>1, <3>1, <4>1
      <3> QED BY <3>1, <3>2, <3>3
    <2>4. ASSUME NEW t \in Tokens
          PROVE resets'[t] = 0 \/ (resets'[t] = 1 /\ row'[t] = "used")
      <3>1. CASE t = req[r].tok
        <4>1. resets[t] = 0 BY <2>2, <3>1
        <4> QED BY <2>1, <3>1, <4>1
      <3>2. CASE t # req[r].tok
        <4>1. resets'[t] = resets[t] BY <2>1, <3>2
        <4> QED BY <1>0, <4>1 DEF Others
      <3> QED BY <3>1, <3>2
    <2> QED BY <1>0, <2>1, <2>3, <2>4 DEF Others
  <1> QED BY <1>1, <1>2, <1>3, <1>4, <1>5
      DEF Step, RegisterLook, RegisterLost, Ask, NotAllowed, SelectUnused, Open,
          VerifyLock, RefuseExpired, VerifyLoad, OpenedAgain, RefuseUsed, ResetLock,
          RefuseReset, Abort, historyVars

\* An account becomes unverified only in the commit that inserts its link, and
\* links stay.
LEMMA StepLink ==
    ASSUME IInv, NEW r \in Requests, Step(r) PROVE AccountHasLink'
  <1>0. Others(r) BY StepOthers
  <1>1. OfPurpose("verify_email") \subseteq OfPurpose("verify_email")'
    BY <1>0 DEF Others, OfPurpose
  <1>2. CASE profile' = "unverified" => profile = "unverified"
    BY <1>1, <1>2 DEF IInv, AccountHasLink
  <1>3. CASE RegisterCommit(r)
    BY <1>3 DEF RegisterCommit, IssueToken, AccountHasLink, OfPurpose, IInv, TypeOK
  <1> QED BY <1>2, <1>3
      DEF Step, RegisterLook, RegisterLost, Ask, NotAllowed, SelectUnused, Issue, Open,
          VerifyLock, RefuseExpired, VerifyLoad, OpenedAgain, RefuseUsed, VerifyCommit,
          ResetLock, RefuseReset, ResetCommit, Abort

LEMMA StepInv == ASSUME IInv, [Next]_vars PROVE IInv'
  <1>1. TypeOK' BY StepType DEF IInv
  <1>2. ASSUME NEW r \in Requests, Step(r) PROVE IInv'
    BY <1>1, <1>2, StepHolder, StepSelected, StepSpent, StepLink DEF IInv
  <1>3. ASSUME NEW t \in Tokens, Deliver(t) \/ Expire(t) PROVE IInv'
    BY <1>1, <1>3, StepWorld DEF IInv
  <1>4. CASE UNCHANGED vars
    BY <1>1, <1>4 DEF vars, tokenVars, historyVars, IInv, Holder, Selected, Spent,
                      AccountHasLink, OfPurpose, Unused
  <1> QED BY <1>2, <1>3, <1>4 DEF Next

LEMMA Invariant == Spec => []IInv
  BY InitInv, StepInv, PTL DEF Spec

\* Requests, rows, locks and mails keep their types.
THEOREM TypeCorrect == Spec => []TypeOK
  <1>1. IInv => TypeOK BY DEF IInv
  <1> QED BY <1>1, Invariant, PTL

\* An unverified account is never without a link to verify it, however its
\* registrations interleave or abort.
THEOREM UnverifiedHasLink == Spec => []AccountHasLink
  <1>1. IInv => AccountHasLink BY DEF IInv
  <1> QED BY <1>1, Invariant, PTL

\* A reset link changes the password at most once, however often and by however
\* many requests it is opened.
THEOREM ResetsOnce == Spec => []ResetOnce
  <1>1. IInv => ResetOnce BY DEF IInv, Spent, ResetOnce
  <1> QED BY <1>1, Invariant, PTL

\* A link that was there when a newer one was asked for, or when the password was
\* reset, no longer works once that request is committed.
THEOREM OnlyNewestWorks == Spec => []NewestWorks
  <1>1. IInv => NewestWorks BY DEF IInv, TypeOK, Spent, NewestWorks, Unused
  <1> QED BY <1>1, Invariant, PTL

\* Opening again the link that verified the address is never refused.
THEOREM OpensTwice == Spec => DoubleOpen
  <1>1. ASSUME IInv, NEW r \in Requests, RefuseUsed(r)
        PROVE  req[r].tok \notin verifiedBy
    BY <1>1 DEF IInv, TypeOK, Spent, RefuseUsed
  <1>2. IInv /\ [Next]_vars =>
            [\A r \in Requests : RefuseUsed(r) => req[r].tok \notin verifiedBy]_vars
    BY <1>1
  <1> QED BY <1>2, Invariant, PTL DEF Spec, DoubleOpen

=============================================================================
