----------------------------- MODULE EmailTokens -----------------------------
(***************************************************************************)
(* The one-time links of one address: registration, verification, resend,  *)
(* forgotten password and reset (auth_service), with the e-mail that goes  *)
(* out after the response.  Requests are PostgreSQL transactions as in     *)
(* Sessions: a token read FOR UPDATE stays locked until the transaction    *)
(* ends, an UPDATE selects rows when it begins, waits for their locks and  *)
(* looks at them again; what a request changes is written in its commit.   *)
(* Nobody deletes the account; expiry is per token.                        *)
(***************************************************************************)
EXTENDS Integers, FiniteSets

CONSTANTS
    Tokens,             \* auth_tokens rows that may be inserted
    Requests,           \* requests handled at the same time
    NoRequest, NoToken

ASSUME NobodyAssumption == NoRequest \notin Requests /\ NoToken \notin Tokens

VARIABLES
    required,   \* settings.require_email_verification
    profile,    \* "none", "unverified" or "verified"
    row,        \* used_at: "none" (no row), "unused" or "used"
    purpose,    \* "none", "verify_email" or "reset_password"
    expired,    \* expires_at has passed
    lock,       \* the request that holds the row
    mail,       \* the e-mail with the link: "none", "queued", "sent", "lost"
    req,        \* the state of each request, see Idle
    verifiedBy, \* history: tokens that verified the address
    resets,     \* history, per token: how often it changed the password
    dead        \* history: tokens replaced by a request begun after them

tokenVars == <<row, purpose, expired>>
historyVars == <<verifiedBy, resets, dead>>
vars == <<required, profile, tokenVars, lock, mail, req, historyVars>>

Idle == [pc |-> "idle", tok |-> NoToken, purpose |-> "none",
         fresh |-> FALSE,       \* not expired when it took `now`
         snap |-> {},           \* the rows its UPDATE selected
         older |-> {}]          \* history: rows of its purpose when it began

Unused(t) == row[t] = "unused"
OfPurpose(p) == {t \in Tokens : row[t] # "none" /\ purpose[t] = p}

Purposes == {"none", "verify_email", "reset_password"}

Request ==
    [pc : {"idle", "register", "ask", "issue", "verify", "load", "mark", "reset",
           "hash", "replace"},
     tok : Tokens \cup {NoToken}, purpose : Purposes, fresh : BOOLEAN,
     snap : SUBSET Tokens, older : SUBSET Tokens]

TypeOK ==
    /\ required \in BOOLEAN
    /\ profile \in {"none", "unverified", "verified"}
    /\ row \in [Tokens -> {"none", "unused", "used"}]
    /\ purpose \in [Tokens -> Purposes]
    /\ expired \in [Tokens -> BOOLEAN]
    /\ lock \in [Tokens -> Requests \cup {NoRequest}]
    /\ mail \in [Tokens -> {"none", "queued", "sent", "lost"}]
    /\ req \in [Requests -> Request]
    /\ verifiedBy \subseteq Tokens
    /\ resets \in [Tokens -> Nat]
    /\ dead \subseteq Tokens

Init ==
    /\ required \in BOOLEAN
    /\ profile = "none"
    /\ row = [t \in Tokens |-> "none"]
    /\ purpose = [t \in Tokens |-> "none"]
    /\ expired = [t \in Tokens |-> FALSE]
    /\ lock = [t \in Tokens |-> NoRequest]
    /\ mail = [t \in Tokens |-> "none"]
    /\ req = [r \in Requests |-> Idle]
    /\ verifiedBy = {}
    /\ resets = [t \in Tokens |-> 0]
    /\ dead = {}

-----------------------------------------------------------------------------
At(r, label) == req[r].pc = label
Becomes(r, new) == req' = [req EXCEPT ![r] = new]
Free(r, S) == \A t \in S : lock[t] \in {NoRequest, r}

\* The transaction of r ends, and its row locks with it.
Finish(r) ==
    /\ lock' = [t \in Tokens |-> IF lock[t] = r THEN NoRequest ELSE lock[t]]
    /\ Becomes(r, Idle)

\* _issue_email_token and the commit: `gone` are the rows its UPDATE marks
\* used.  The link is mailed once the response is out.
IssueToken(p, gone) ==
    \E t \in Tokens :
        /\ row[t] = "none"
        /\ row' = [u \in Tokens |-> IF u = t THEN "unused"
                                    ELSE IF u \in gone THEN "used" ELSE row[u]]
        /\ purpose' = [purpose EXCEPT ![t] = p]
        /\ mail' = [mail EXCEPT ![t] = "queued"]

-----------------------------------------------------------------------------
(* register                                                                *)

\* The password is hashed and the address is free; otherwise nothing happens.
RegisterLook(r) ==
    /\ At(r, "idle")
    /\ profile = "none"
    /\ Becomes(r, [Idle EXCEPT !.pc = "register"])
    /\ UNCHANGED <<required, profile, tokenVars, lock, mail, historyVars>>

\* Variant of RegisterCommit: the profile is committed before its link.
RegisterCommit_InTwo(r) ==
    /\ At(r, "register")
    /\ profile = "none"
    /\ profile' = IF required THEN "unverified" ELSE "verified"
    /\ Finish(r)
    /\ UNCHANGED <<required, tokenVars, mail, historyVars>>

\* The profile and its link are inserted and committed together.
RegisterCommit(r) ==
    /\ At(r, "register")
    /\ profile = "none"
    /\ \/ /\ required
          /\ profile' = "unverified"
          /\ IssueToken("verify_email", {})
       \/ /\ ~required
          /\ profile' = "verified"
          /\ UNCHANGED <<row, purpose, mail>>
    /\ Finish(r)
    /\ UNCHANGED <<required, expired, historyVars>>

\* IntegrityError: the same address was registered meanwhile.
RegisterLost(r) ==
    /\ At(r, "register")
    /\ profile # "none"
    /\ Finish(r)
    /\ UNCHANGED <<required, profile, tokenVars, mail, historyVars>>

-----------------------------------------------------------------------------
(* resend_verification and forgot_password                                 *)

\* A new link is asked for: to verify if that is still to be done, to reset
\* the password of any account.
Ask(r, p) ==
    /\ At(r, "idle")
    /\ \/ p = "verify_email" /\ profile = "unverified"
       \/ p = "reset_password" /\ profile # "none"
    /\ Becomes(r, [Idle EXCEPT !.pc = "ask", !.purpose = p,
                               !.older = OfPurpose(p)])
    /\ UNCHANGED <<required, profile, tokenVars, lock, mail, historyVars>>

\* _email_action_allowed says no: the answer is the same, nothing is sent.
NotAllowed(r) ==
    /\ At(r, "ask")
    /\ Finish(r)
    /\ UNCHANGED <<required, profile, tokenVars, mail, historyVars>>

\* invalidate_unused, called by an issue or by a reset: the UPDATE begins.
SelectUnused(r) ==
    /\ req[r].pc \in {"ask", "hash"}
    /\ Becomes(r, [req[r] EXCEPT
           !.pc = IF @ = "ask" THEN "issue" ELSE "replace",
           !.snap = {t \in OfPurpose(req[r].purpose) : Unused(t)}])
    /\ UNCHANGED <<required, profile, tokenVars, lock, mail, historyVars>>

\* Variant of Invalidated: only links that were mailed are looked at.
Invalidated_Mailed(r) == {t \in req[r].snap : Unused(t) /\ mail[t] = "sent"}

\* ... and gets its rows, those still unused.
Invalidated(r) == {t \in req[r].snap : Unused(t)}

Issue(r) ==
    /\ At(r, "issue")
    /\ Free(r, req[r].snap)
    /\ IssueToken(req[r].purpose, Invalidated(r))
    /\ dead' = dead \cup req[r].older
    /\ Finish(r)
    /\ UNCHANGED <<required, profile, expired, verifiedBy, resets>>

-----------------------------------------------------------------------------
(* verify_email and reset_password                                         *)

\* A link that arrived is opened, once or again; `now` is taken here.
Open(r, t) ==
    /\ At(r, "idle")
    /\ mail[t] = "sent"
    /\ Becomes(r, [Idle EXCEPT
           !.pc = IF purpose[t] = "verify_email" THEN "verify" ELSE "reset",
           !.tok = t, !.purpose = purpose[t], !.fresh = ~expired[t],
           !.older = OfPurpose(purpose[t])])
    /\ UNCHANGED <<required, profile, tokenVars, lock, mail, historyVars>>

\* Variant of LockToken: the row is read without FOR UPDATE.
LockToken_PlainRead(r) == UNCHANGED lock

\* get_by_hash_for_update.
LockToken(r) ==
    /\ Free(r, {req[r].tok})
    /\ lock' = [lock EXCEPT ![req[r].tok] = r]

\* The row is held; an expired link is refused.
VerifyLock(r) ==
    /\ At(r, "verify")
    /\ req[r].fresh
    /\ LockToken(r)
    /\ Becomes(r, [req[r] EXCEPT !.pc = "load"])
    /\ UNCHANGED <<required, profile, tokenVars, mail, historyVars>>

RefuseExpired(r) ==
    /\ req[r].pc \in {"verify", "reset"}
    /\ ~req[r].fresh
    /\ Free(r, {req[r].tok})
    /\ Finish(r)
    /\ UNCHANGED <<required, profile, tokenVars, mail, historyVars>>

\* The profile is loaded: an unused link will be marked used.
VerifyLoad(r) ==
    /\ At(r, "load")
    /\ Unused(req[r].tok)
    /\ Becomes(r, [req[r] EXCEPT !.pc = "mark"])
    /\ UNCHANGED <<required, profile, tokenVars, lock, mail, historyVars>>

\* Opening a used link is no failure if the address is verified.
OpenedAgain(r) ==
    /\ At(r, "load")
    /\ ~Unused(req[r].tok)
    /\ profile = "verified"
    /\ Finish(r)
    /\ UNCHANGED <<required, profile, tokenVars, mail, historyVars>>

RefuseUsed(r) ==
    /\ At(r, "load")
    /\ ~Unused(req[r].tok)
    /\ profile # "verified"
    /\ Finish(r)
    /\ UNCHANGED <<required, profile, tokenVars, mail, historyVars>>

\* Variant of VerifyCommit: the link is spent in a commit of its own.
VerifyCommit_TokenFirst(r) ==
    /\ At(r, "mark")
    /\ IF Unused(req[r].tok)
       THEN /\ row' = [row EXCEPT ![req[r].tok] = "used"]
            /\ lock' = [lock EXCEPT ![req[r].tok] = NoRequest]
            /\ verifiedBy' = verifiedBy \cup {req[r].tok}
            /\ UNCHANGED <<profile, req>>
       ELSE /\ profile' = "verified"
            /\ Finish(r)
            /\ UNCHANGED <<row, verifiedBy>>
    /\ UNCHANGED <<required, purpose, expired, mail, resets, dead>>

\* The token and the profile are written in one commit.
VerifyCommit(r) ==
    /\ At(r, "mark")
    /\ row' = [row EXCEPT ![req[r].tok] = "used"]
    /\ profile' = "verified"
    /\ verifiedBy' = verifiedBy \cup {req[r].tok}
    /\ Finish(r)
    /\ UNCHANGED <<required, purpose, expired, mail, resets, dead>>

\* The row is held, the profile loaded, the new password is being hashed.
ResetLock(r) ==
    /\ At(r, "reset")
    /\ req[r].fresh
    /\ Unused(req[r].tok)
    /\ LockToken(r)
    /\ Becomes(r, [req[r] EXCEPT !.pc = "hash"])
    /\ UNCHANGED <<required, profile, tokenVars, mail, historyVars>>

RefuseReset(r) ==
    /\ At(r, "reset")
    /\ req[r].fresh
    /\ Free(r, {req[r].tok})
    /\ ~Unused(req[r].tok)
    /\ Finish(r)
    /\ UNCHANGED <<required, profile, tokenVars, mail, historyVars>>

\* invalidate_unused gets its rows; the commit writes the password, the token
\* and the verified address.  (Sessions has the refresh tokens it revokes.)
ResetCommit(r) ==
    /\ At(r, "replace")
    /\ Free(r, req[r].snap)
    /\ row' = [t \in Tokens |-> IF t \in Invalidated(r) \cup {req[r].tok}
                                THEN "used" ELSE row[t]]
    /\ profile' = "verified"
    /\ resets' = [resets EXCEPT ![req[r].tok] = @ + 1]
    /\ dead' = dead \cup req[r].older
    /\ Finish(r)
    /\ UNCHANGED <<required, purpose, expired, mail, verifiedBy>>

-----------------------------------------------------------------------------
(* What happens meanwhile                                                  *)

\* The connection is lost, or PostgreSQL ends a deadlock (two resets with two
\* links wait for each other): rollback.
Abort(r) ==
    /\ ~At(r, "idle")
    /\ Finish(r)
    /\ UNCHANGED <<required, profile, tokenVars, mail, historyVars>>

\* send_email never raises: the message arrives, or a failure is logged.
Deliver(t) ==
    /\ mail[t] = "queued"
    /\ \E fate \in {"sent", "lost"} : mail' = [mail EXCEPT ![t] = fate]
    /\ UNCHANGED <<required, profile, tokenVars, lock, req, historyVars>>

Expire(t) ==
    /\ Unused(t)
    /\ ~expired[t]
    /\ expired' = [expired EXCEPT ![t] = TRUE]
    /\ UNCHANGED <<required, profile, row, purpose, lock, mail, req, historyVars>>

Step(r) ==
    \/ RegisterLook(r) \/ RegisterCommit(r) \/ RegisterLost(r)
    \/ \E p \in {"verify_email", "reset_password"} : Ask(r, p)
    \/ NotAllowed(r) \/ SelectUnused(r) \/ Issue(r)
    \/ \E t \in Tokens : Open(r, t)
    \/ VerifyLock(r) \/ RefuseExpired(r) \/ VerifyLoad(r)
    \/ OpenedAgain(r) \/ RefuseUsed(r) \/ VerifyCommit(r)
    \/ ResetLock(r) \/ RefuseReset(r) \/ ResetCommit(r)
    \/ Abort(r)

Next ==
    \/ \E r \in Requests : Step(r)
    \/ \E t \in Tokens : Deliver(t) \/ Expire(t)

Spec == Init /\ [][Next]_vars

-----------------------------------------------------------------------------
(* Properties.                                                             *)

\* An unverified account comes with a link: whatever aborts and however two
\* registrations of one address interleave, the account is never without one.
AccountHasLink ==
    profile = "unverified" => OfPurpose("verify_email") # {}

\* "Locks the row so a token cannot be redeemed twice by concurrent requests":
\* a reset link changes the password at most once.
ResetOnce == \A t \in Tokens : resets[t] <= 1

\* "so only the newest link works": a link that existed when the request for a
\* new one began, or when a reset began, never works again.  (Two requests that
\* overlap do not see each other's link: then both work.)
NewestWorks == \A t \in dead : ~Unused(t)

\* "Opening the same link twice (or a double-fired request) must not look like
\* a failure": a link that verified the address is not refused as used.
DoubleOpen ==
    [][\A r \in Requests : RefuseUsed(r) => req[r].tok \notin verifiedBy]_vars

=============================================================================
