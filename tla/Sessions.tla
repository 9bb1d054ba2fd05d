------------------------------ MODULE Sessions ------------------------------
(***************************************************************************)
(* The refresh tokens of one account (auth_service): login, refresh with   *)
(* rotation and a grace window, logout, and the revocation of every token  *)
(* by a password reset, a password change or an administrator who disables *)
(* the account.  Requests run concurrently as PostgreSQL transactions       *)
(* (READ COMMITTED): a token row read FOR UPDATE is locked until the       *)
(* transaction ends; an UPDATE works on the rows committed when it began,  *)
(* waits for their locks, and looks again at what it then finds.           *)
(*                                                                         *)
(* The session is not flushed before the commit, so what a request changes *)
(* on a loaded row is written in its commit, together with its inserts.    *)
(***************************************************************************)
EXTENDS Integers, FiniteSets

CONSTANTS
    Tokens,         \* refresh_tokens rows that may be inserted
    Families,       \* family_id values, one per login
    Requests,       \* requests handled at the same time
    NoRequest, NoToken, NoFamily

ASSUME NamesAssumption == /\ NoRequest \notin Requests
                          /\ NoToken \notin Tokens
                          /\ NoFamily \notin Families
                          /\ IsFiniteSet(Tokens)

VARIABLES
    row,        \* revoked_at and rotated: "live", "rotated" or "revoked"
    family,     \* refresh_tokens.family_id
    grace,      \* rotated less than refresh_reuse_grace_seconds ago
    lock,       \* the request that holds the token row
    account,    \* the profile: "active" or "disabled"
    req,        \* the state of each request, see Request
    forks,      \* history, per family: tokens issued for a replay in grace
    closed      \* history: families revoked with nothing else going on

rowVars == <<row, family, grace>>
historyVars == <<forks, closed>>
vars == <<row, family, grace, lock, account, req, forks, closed>>

-----------------------------------------------------------------------------
Everything == "everything"

Request ==
    [pc : {"idle", "login", "lock", "check", "issue", "lock_logout",
           "to_revoke", "revoking"},
     tok : Tokens \cup {NoToken},       \* the token it was given
     inGrace : BOOLEAN,                 \* what grace said when it took `now`
     rotating : BOOLEAN,                \* its commit marks its token rotated
     scope : Families \cup {NoFamily, Everything},  \* what it revokes
     snap : SUBSET Tokens,              \* the rows its UPDATE selected
     seen : SUBSET Tokens,              \* history: what was live in its scope
     disables : BOOLEAN,                \* its commit disables the account
     sawActive : BOOLEAN]               \* history: the account was active

Idle == [pc |-> "idle", tok |-> NoToken, inGrace |-> FALSE,
         rotating |-> FALSE, scope |-> NoFamily, snap |-> {}, seen |-> {},
         disables |-> FALSE, sawActive |-> FALSE]

Live(t) == row[t] = "live"
FamilyTokens(f) == {t \in Tokens : row[t] # "none" /\ family[t] = f}
LiveTokens(f) == {t \in FamilyTokens(f) : Live(t)}
InScope(s, t) ==
    row[t] # "none" /\ (s = Everything \/ family[t] = s)
LiveIn(s) == {t \in Tokens : Live(t) /\ InScope(s, t)}

\* A refresh that may still issue a token in family f.
Renewing(r, f) ==
    /\ req[r].tok # NoToken
    /\ family[req[r].tok] = f
    /\ \/ req[r].pc \in {"check", "issue"}
       \/ req[r].pc = "lock" /\ req[r].inGrace

TypeOK ==
    /\ row \in [Tokens -> {"none", "live", "rotated", "revoked"}]
    /\ family \in [Tokens -> Families \cup {NoFamily}]
    /\ grace \in [Tokens -> BOOLEAN]
    /\ lock \in [Tokens -> Requests \cup {NoRequest}]
    /\ account \in {"active", "disabled"}
    /\ req \in [Requests -> Request]
    /\ forks \in [Families -> Nat]
    /\ closed \in SUBSET Families

Init ==
    /\ row = [t \in Tokens |-> "none"]
    /\ family = [t \in Tokens |-> NoFamily]
    /\ grace = [t \in Tokens |-> FALSE]
    /\ lock = [t \in Tokens |-> NoRequest]
    /\ account = "active"
    /\ req = [r \in Requests |-> Idle]
    /\ forks = [f \in Families |-> 0]
    /\ closed = {}

-----------------------------------------------------------------------------
At(r, label) == req[r].pc = label

Becomes(r, new) == req' = [req EXCEPT ![r] = new]

\* The transaction of r ends, by commit or rollback, and its row locks with it.
Finish(r) ==
    /\ lock' = [t \in Tokens |-> IF lock[t] = r THEN NoRequest ELSE lock[t]]
    /\ Becomes(r, Idle)

\* The rows that r reads FOR UPDATE or updates are free, or its own.
Free(r, S) == \A t \in S : lock[t] \in {NoRequest, r}

-----------------------------------------------------------------------------
(* login                                                                   *)

\* The password is right; a disabled account is refused.
LoginCheck(r) ==
    /\ At(r, "idle")
    /\ account = "active"
    /\ Becomes(r, [req[r] EXCEPT !.pc = "login", !.sawActive = TRUE])
    /\ UNCHANGED <<rowVars, lock, account, historyVars>>

\* _issue_tokens with a new family, and commit.
LoginIssue(r) ==
    /\ At(r, "login")
    /\ \E t \in Tokens, f \in Families :
        /\ row[t] = "none"
        /\ FamilyTokens(f) = {}
        /\ row' = [row EXCEPT ![t] = "live"]
        /\ family' = [family EXCEPT ![t] = f]
    /\ Finish(r)
    /\ UNCHANGED <<grace, account, historyVars>>

-----------------------------------------------------------------------------
(* refresh                                                                 *)

\* A client presents a token it was once given; `now` is taken here.
Refresh(r, t) ==
    /\ At(r, "idle")
    /\ row[t] # "none"
    /\ Becomes(r, [req[r] EXCEPT !.pc = "lock", !.tok = t,
                                 !.inGrace = Live(t) \/ grace[t],
                                 !.sawActive = (account = "active")])
    /\ UNCHANGED <<rowVars, lock, account, historyVars>>

\* Variant of LockToken: the row is read without FOR UPDATE.
LockToken_PlainRead(r) == UNCHANGED lock

\* get_by_hash_for_update.
LockToken(r) ==
    /\ Free(r, {req[r].tok})
    /\ lock' = [lock EXCEPT ![req[r].tok] = r]

\* A live token is exchanged for a new one, if the account allows.
Rotate(r) ==
    /\ At(r, "lock")
    /\ LockToken(r)
    /\ Live(req[r].tok)
    /\ Becomes(r, [req[r] EXCEPT !.pc = "check", !.rotating = TRUE])
    /\ UNCHANGED <<rowVars, account, historyVars>>

\* A live token may have expired: nothing is written.
RejectExpired(r) ==
    /\ At(r, "lock")
    /\ Free(r, {req[r].tok})
    /\ Live(req[r].tok)
    /\ Finish(r)
    /\ UNCHANGED <<rowVars, account, historyVars>>

WithinGrace(r) == row[req[r].tok] = "rotated" /\ req[r].inGrace

\* A token rotated a moment ago: two requests refreshed at once.
ReplayInGrace(r) ==
    /\ At(r, "lock")
    /\ LockToken(r)
    /\ WithinGrace(r)
    /\ Becomes(r, [req[r] EXCEPT !.pc = "check"])
    /\ UNCHANGED <<rowVars, account, historyVars>>

\* Any other revoked token: the whole family is to be revoked.
Replay(r) ==
    /\ At(r, "lock")
    /\ LockToken(r)
    /\ ~Live(req[r].tok)
    /\ ~WithinGrace(r)
    /\ Becomes(r, [req[r] EXCEPT !.pc = "to_revoke",
                                 !.scope = family[req[r].tok]])
    /\ UNCHANGED <<rowVars, account, historyVars>>

\* Variant of CheckAccount: the account is not looked at again.
CheckAccount_Trusts(r) ==
    /\ At(r, "check")
    /\ Becomes(r, [req[r] EXCEPT !.pc = "issue"])
    /\ UNCHANGED <<rowVars, lock, account, historyVars>>

\* The profile is loaded: a disabled account loses the family.
CheckAccount(r) ==
    /\ At(r, "check")
    /\ \/ /\ account = "active"
          /\ Becomes(r, [req[r] EXCEPT !.pc = "issue"])
       \/ /\ account = "disabled"
          /\ Becomes(r, [req[r] EXCEPT !.pc = "to_revoke",
                                 !.scope = family[req[r].tok]])
    /\ UNCHANGED <<rowVars, lock, account, historyVars>>

\* _issue_tokens in the same family; the commit also writes the rotation.
Issue(r) ==
    LET old == req[r].tok
        f == family[old]
    IN
    /\ At(r, "issue")
    /\ \E t \in Tokens :
        /\ row[t] = "none"
        /\ row' = [row EXCEPT ![t] = "live",
                  ![old] = IF req[r].rotating THEN "rotated" ELSE @]
        /\ family' = [family EXCEPT ![t] = f]
    /\ grace' = [grace EXCEPT ![old] = @ \/ req[r].rotating]
    /\ forks' = [forks EXCEPT ![f] = IF req[r].rotating THEN @ ELSE @ + 1]
    /\ Finish(r)
    /\ UNCHANGED <<account, closed>>

-----------------------------------------------------------------------------
(* logout, and the revocation of everything                                *)

Logout(r, t) ==
    /\ At(r, "idle")
    /\ row[t] # "none"
    /\ Becomes(r, [req[r] EXCEPT !.pc = "lock_logout", !.tok = t])
    /\ UNCHANGED <<rowVars, lock, account, historyVars>>

\* Only a token that is not revoked yet ends its session.
LogoutLock(r) ==
    /\ At(r, "lock_logout")
    /\ Live(req[r].tok)
    /\ LockToken(r)
    /\ Becomes(r, [req[r] EXCEPT !.pc = "to_revoke",
                                 !.scope = family[req[r].tok]])
    /\ UNCHANGED <<rowVars, account, historyVars>>

LogoutIgnored(r) ==
    /\ At(r, "lock_logout")
    /\ ~Live(req[r].tok)
    /\ Free(r, {req[r].tok})
    /\ Finish(r)
    /\ UNCHANGED <<rowVars, account, historyVars>>

\* reset_password and change_password, or admin_update with disabled = true.
RevokeAll(r) ==
    /\ At(r, "idle")
    /\ \E off \in BOOLEAN :
        Becomes(r, [req[r] EXCEPT !.pc = "to_revoke", !.scope = Everything,
                                 !.disables = off])
    /\ UNCHANGED <<rowVars, lock, account, historyVars>>

\* Variant of RevokeSelect: only the presented token is revoked.
RevokeSelect_OwnToken(r) ==
    /\ At(r, "to_revoke")
    /\ Becomes(r, [req[r] EXCEPT !.pc = "revoking",
                                 !.snap = {t \in LiveIn(req[r].scope) : t = req[r].tok},
                                 !.seen = LiveIn(req[r].scope)])
    /\ UNCHANGED <<rowVars, lock, account, historyVars>>

\* revoke_family, revoke_all_for_user: the UPDATE starts and selects rows.
RevokeSelect(r) ==
    /\ At(r, "to_revoke")
    /\ Becomes(r, [req[r] EXCEPT !.pc = "revoking",
                                 !.snap = LiveIn(req[r].scope),
                                 !.seen = LiveIn(req[r].scope)])
    /\ UNCHANGED <<rowVars, lock, account, historyVars>>

\* Nothing else is going on in family f that could bring it back: no token
\* was added since the UPDATE began, no grace window is open, no refresh is under way.
Quiet(r, f) ==
    /\ LiveTokens(f) \subseteq req[r].seen
    /\ \A t \in FamilyTokens(f) : ~grace[t]
    /\ \A q \in Requests : ~Renewing(q, f)

\* The UPDATE gets its rows and revokes those still live, and the request
\* commits; a rotation that the disabled account refused is written as well.
RevokeCommit(r) ==
    LET marked(t) == req[r].rotating /\ t = req[r].tok IN
    /\ At(r, "revoking")
    /\ Free(r, req[r].snap)
    /\ row' = [t \in Tokens |-> IF marked(t) THEN "rotated"
                                ELSE IF Live(t) /\ t \in req[r].snap
                                THEN "revoked" ELSE row[t]]
    /\ grace' = [t \in Tokens |-> marked(t) \/ grace[t]]
    /\ account' = IF req[r].disables THEN "disabled" ELSE account
    /\ closed' = closed \cup
          {f \in Families : /\ req[r].scope \in {f, Everything}
                            /\ FamilyTokens(f) # {}
                            /\ ~req[r].rotating
                            /\ Quiet(r, f)}
    /\ Finish(r)
    /\ UNCHANGED <<family, forks>>

-----------------------------------------------------------------------------
(* What happens meanwhile                                                  *)

\* The connection is lost, or PostgreSQL ends a deadlock: rollback.
Abort(r) ==
    /\ ~At(r, "idle")
    /\ Finish(r)
    /\ UNCHANGED <<rowVars, account, historyVars>>

\* refresh_reuse_grace_seconds pass after a rotation.
GraceEnds(t) ==
    /\ grace[t]
    /\ grace' = [grace EXCEPT ![t] = FALSE]
    /\ UNCHANGED <<row, family, lock, account, req, historyVars>>

\* admin_update with disabled = false.
Enable ==
    /\ account = "disabled"
    /\ account' = "active"
    /\ req' = [r \in Requests |-> IF At(r, "idle") THEN req[r]
                                  ELSE [req[r] EXCEPT !.sawActive = TRUE]]
    /\ UNCHANGED <<rowVars, lock, historyVars>>

Next ==
    \/ \E r \in Requests :
        \/ LoginCheck(r) \/ LoginIssue(r)
        \/ \E t \in Tokens : Refresh(r, t) \/ Logout(r, t)
        \/ Rotate(r) \/ RejectExpired(r) \/ ReplayInGrace(r) \/ Replay(r)
        \/ CheckAccount(r) \/ Issue(r)
        \/ LogoutLock(r) \/ LogoutIgnored(r)
        \/ RevokeAll(r) \/ RevokeSelect(r) \/ RevokeCommit(r)
        \/ Abort(r)
    \/ \E t \in Tokens : GraceEnds(t)
    \/ Enable

Spec == Init /\ [][Next]_vars

-----------------------------------------------------------------------------
(* Properties.                                                             *)

\* A revoked token is revoked for good, and why it was revoked never changes:
\* a token ended by a logout or a reset never becomes a rotated one, which a
\* replay in the grace window would accept.
RevokedForGood ==
    [][\A t \in Tokens : row[t] \in {"rotated", "revoked"} =>
          row'[t] = row[t]]_vars

\* A login session is one chain of tokens: concurrent refreshes never leave
\* more live tokens than one plus the replays accepted in the grace window.
ForkOnlyInGrace ==
    \A f \in Families : Cardinality(LiveTokens(f)) <= 1 + forks[f]

\* A session that was revoked while no refresh of it was under way and no grace
\* window was open never has a live token again.
ClosedForGood == \A f \in closed : LiveTokens(f) = {}

\* No tokens are issued by a request during all of which the account was
\* disabled.
IssuedWhileActive ==
    \A r \in Requests :
        req[r].pc \in {"login", "issue"} => req[r].sawActive

=============================================================================
