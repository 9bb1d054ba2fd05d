--------------------------- MODULE ModulGeneration ---------------------------
(***************************************************************************)
(* Writing one module (llm_service.generate_modul): a first answer, the    *)
(* server's checks on it, at most one repair, and which of the two is      *)
(* kept; each answer through the retries of llm_client.                    *)
(*                                                                         *)
(* An answer is what the checks tell apart: its objectives with the        *)
(* sources they cite (as sets) and whether it has any further hard or soft *)
(* problem.  Prompts, tokens and the rest of the text are left out.        *)
(***************************************************************************)
EXTENDS Integers, FiniteSets

CONSTANTS
    Passages,       \* ids of the passages retrieved
    Invented,       \* ids the model may make up
    Modules,        \* the modules the model may write
    MaxAttempts,    \* llm_max_attempts
    None            \* no first answer yet

Objective == [sources : SUBSET (Passages \cup Invented), grounded : BOOLEAN]

\* "insufficient" is the model's own word that the sources do not cover the topic;
\* "invalid" is text that is not a module at all.
Module == [kind : {"module"}, objectives : SUBSET Objective,
           hard : BOOLEAN, soft : BOOLEAN]
Answer == Module \cup [kind : {"invalid", "insufficient"}]

ASSUME AnswersAssumption ==
    Modules \subseteq Module /\ None \notin Answer /\ Invented \cap Passages = {}
ASSUME PassagesAssumption == IsFiniteSet(Passages)
ASSUME AttemptsAssumption == MaxAttempts \in Nat \ {0}

Answers == Modules \cup [kind : {"invalid", "insufficient"}]

VARIABLES
    stage,      \* "first", "repair", "saved" or "failed"
    tries,      \* calls made for the present answer
    calls,      \* history: calls made for both answers
    first,      \* the first answer, once it needs a repair
    content,    \* the answer that is saved
    references, \* and its reference list
    warnings,   \* and whether warnings are shown with it
    error       \* why generation failed

vars == <<stage, tries, calls, first, content, references, warnings, error>>
result == <<first, content, references, warnings>>

Errors == {"none", "unavailable", "internal", "blocked", "truncated", "not_covered",
           "still_invalid"}

TypeOK ==
    /\ stage \in {"first", "repair", "saved", "failed"}
    /\ tries \in 0..MaxAttempts /\ calls \in Nat
    /\ first \in Answer \cup {None}
    /\ content \in Module \cup {None}
    /\ references \subseteq Passages
    /\ warnings \in BOOLEAN
    /\ error \in Errors

Init ==
    /\ stage = "first" /\ tries = 0 /\ calls = 0
    /\ first = None /\ content = None /\ references = {} /\ warnings = FALSE
    /\ error = "none"

-----------------------------------------------------------------------------
(* The checks.                                                             *)

\* Variant of Sanitized: an objective without sources stays grounded.
Sanitized_KeepsGrounded(a) ==
    IF a.kind # "module" THEN a
    ELSE [a EXCEPT !.objectives =
             {[sources |-> o.sources \cap Passages, grounded |-> o.grounded] : o \in @}]

\* Variant of Sanitized: only modules with an objective that cites nothing real
\* are cleaned.
Sanitized_Partial(a) ==
    IF a.kind # "module" \/ \A o \in a.objectives : o.sources \cap Passages # {} THEN a
    ELSE [a EXCEPT !.objectives =
             {[sources |-> o.sources \cap Passages,
               grounded |-> o.grounded /\ o.sources \cap Passages # {}] : o \in @}]

\* sanitize_sources: only ids of passages stay, and an objective left without any
\* is not grounded.
Sanitized(a) ==
    IF a.kind # "module" THEN a
    ELSE [a EXCEPT !.objectives =
             {[sources |-> o.sources \cap Passages,
               grounded |-> o.grounded /\ o.sources \cap Passages # {}] : o \in @}]

\* A hard problem: no module, or one without an objective that cites a source, or
\* another that makes it unusable.
Hard(a) ==
    \/ a.kind = "invalid"
    \/ a.kind = "module" /\ (a.hard \/ \A o \in a.objectives : o.sources = {})

Soft(a) == a.kind = "module" /\ a.soft
Usable(a) == a.kind = "module" /\ ~Hard(a)

\* build_references: what the objectives cite, looked up among the passages.
References(a) == (UNION {o.sources : o \in a.objectives}) \cap Passages

-----------------------------------------------------------------------------
(* Steps.                                                                  *)

Waiting == stage \in {"first", "repair"}

Fail(why) ==
    /\ stage' = "failed"
    /\ error' = why
    /\ UNCHANGED result

Save(a) ==
    /\ stage' = "saved"
    /\ content' = a
    /\ references' = References(a)
    /\ warnings' = Soft(a)
    /\ UNCHANGED error

Call == calls' = calls + 1

\* Variant of TransientError: the limit is that of the repeated calls.
TransientError_CountsRetries ==
    /\ Waiting
    /\ Call
    /\ tries' = tries + 1
    /\ IF tries = MaxAttempts
       THEN Fail("unavailable")
       ELSE UNCHANGED <<stage, error, result>>

\* A rate limit, a server error or a timeout: tried again up to the limit.
TransientError ==
    /\ Waiting
    /\ Call
    /\ tries' = tries + 1
    /\ IF tries + 1 = MaxAttempts
       THEN Fail("unavailable")
       ELSE UNCHANGED <<stage, error, result>>

\* Anything else that is raised is not tried again, be it by the call or by the
\* logging of its cost.
OtherError ==
    /\ Waiting
    /\ Call
    /\ Fail("internal")
    /\ UNCHANGED tries

\* The stage "repairing" cannot be written before the repair is asked for.
StageError ==
    /\ stage = "repair" /\ tries = 0
    /\ Fail("internal")
    /\ UNCHANGED <<tries, calls>>

\* A response comes, and its cost is logged.
Respond == Waiting /\ Call

\* ensure_usable: blocked, cut off or empty.
Unusable(why) ==
    /\ Respond
    /\ Fail(why)
    /\ UNCHANGED tries

\* The first answer: the model abstains, or the module is kept as it is, or a
\* problem of either kind asks for the repair.
FirstAnswer(answer) ==
    LET a == Sanitized(answer) IN
    /\ stage = "first"
    /\ Respond
    /\ tries' = 0
    /\ \/ a.kind = "insufficient" /\ Fail("not_covered")
       \/ Usable(a) /\ ~Soft(a) /\ Save(a) /\ UNCHANGED first
       \/ /\ Hard(a) \/ Soft(a)
          /\ stage' = "repair" /\ first' = a
          /\ UNCHANGED <<content, references, warnings, error>>

\* A module with hard problems, or none at all, does not replace a first answer
\* that was usable; a model that abstains does, and so does a repair that raises.
Chosen(a) == IF Hard(a) /\ Usable(first) THEN first ELSE a

\* The answer to the repair.
RepairAnswer(answer) ==
    LET a == Chosen(Sanitized(answer)) IN
    /\ stage = "repair"
    /\ Respond
    /\ \/ a.kind = "insufficient" /\ Fail("not_covered")
       \/ Hard(a) /\ Fail("still_invalid")
       \/ Usable(a) /\ Save(a) /\ UNCHANGED first
    /\ UNCHANGED tries

Next ==
    \/ TransientError \/ OtherError \/ StageError
    \/ \E why \in {"blocked", "truncated"} : Unusable(why)
    \/ \E a \in Answers : FirstAnswer(a) \/ RepairAnswer(a)

Spec == Init /\ [][Next]_vars

-----------------------------------------------------------------------------
(* Properties.                                                             *)

\* What is saved cites only passages that were retrieved, and its reference list
\* is exactly what its objectives cite, whichever of the two answers it is.
CitationsReal ==
    stage = "saved" =>
        /\ \A o \in content.objectives : o.sources \subseteq Passages
        /\ references = UNION {o.sources : o \in content.objectives}

\* Nothing is saved that claims to be grounded without a source, or without
\* any objective that cites a source.
SavedIsGrounded ==
    stage = "saved" =>
        /\ \A o \in content.objectives : o.grounded => o.sources # {}
        /\ \E o \in content.objectives : o.sources # {}

\* At most llm_max_attempts calls are made for the first answer, and as many again
\* for its one repair, whichever calls fail, are repeated or answer with something
\* that cannot be used.
CallsBounded ==
    /\ first = None => calls <= MaxAttempts
    /\ calls <= 2 * MaxAttempts

=============================================================================
