------------------------- MODULE ModulExport_proofs -------------------------
(***************************************************************************)
(* Theorems about ModulGeneration and ModulExport, for all passages, ids,   *)
(* modules, shapes and edits.                                               *)
(*                                                                         *)
(* Generation: IInv, of which the answer set aside for a repair being clean *)
(* already is the part that carries the rest; CallsCounted tells the calls  *)
(* of the two answers apart.                                                *)
(*                                                                         *)
(* Export: the two renderers are compared part by part (Alike), with what   *)
(* else the theorems need of an entry carried along: its sources are among  *)
(* those the objectives cite, stand by a text, and Word can hold its texts. *)
(* ExportIInv adds that what is stored is a module, whose list of           *)
(* references is what it cites until its owner edits it.                    *)
(*                                                                         *)
(* Nothing lost: of each part of the PDF it is proved which texts it shows, *)
(* that it shows them once, and where in the module they stand (Shows), so  *)
(* that parts of different places can be put together; the Word file reads  *)
(* alike and shows the same in the same places.                             *)
(***************************************************************************)
EXTENDS ModulExport, ListLemmas

-----------------------------------------------------------------------------
(* Generation.                                                             *)

\* A module that the checks have cleaned.
Cleaned(a) ==
    \A o \in a.objectives :
        o.sources \subseteq Passages /\ (o.grounded => o.sources # {})

\* The first answer was cleaned before it was set aside, and is a module or no
\* module at all: a model that abstained gets no repair.
FirstIsClean ==
    first # None =>
        \/ first.kind = "module" /\ Cleaned(first)
        \/ first.kind = "invalid"

\* The repair is asked for a first answer; nothing is saved and no attempt too
\* many is made before the end.
StageTells ==
    /\ stage = "repair" => first # None
    /\ stage = "saved" => content # None
    /\ stage # "saved" => content = None
    /\ stage # "failed" => error = "none"
    /\ Waiting => tries < MaxAttempts

IInv == TypeOK /\ FirstIsClean /\ StageTells /\ CitationsReal /\ SavedIsGrounded

\* The calls for the first answer are those counted by tries; the repair adds its
\* own to at most llm_max_attempts.
CallsCounted ==
    /\ stage = "first" => calls = tries /\ first = None
    /\ stage = "repair" => calls <= MaxAttempts + tries
    /\ CallsBounded

\* sanitize_sources makes clean modules of modules, and leaves the rest.
LEMMA SanitizedIsClean ==
    ASSUME NEW a \in Answers
    PROVE  /\ Sanitized(a) \in Answer
           /\ Sanitized(a).kind = a.kind
           /\ a.kind = "module" => Sanitized(a) \in Module /\ Cleaned(Sanitized(a))
  <1>1. CASE a.kind # "module" BY <1>1, AnswersAssumption DEF Sanitized, Answers, Answer, Module
  <1>2. CASE a.kind = "module"
    <2>1. a \in Module BY <1>2, AnswersAssumption DEF Answers
    <2> DEFINE S == {[sources |-> o.sources \cap Passages,
                      grounded |-> o.grounded /\ o.sources \cap Passages # {}]
                        : o \in a.objectives}
    <2>2. Sanitized(a) = [a EXCEPT !.objectives = S] BY <1>2 DEF Sanitized
    <2>3. ASSUME NEW o \in S
          PROVE  /\ o \in Objective /\ o.sources \subseteq Passages
                 /\ o.grounded => o.sources # {}
      <3>1. PICK p \in a.objectives :
                o = [sources |-> p.sources \cap Passages,
                     grounded |-> p.grounded /\ p.sources \cap Passages # {}]
        OBVIOUS
      <3>2. o.sources = p.sources \cap Passages BY <3>1
      <3>3. o.grounded = (p.grounded /\ p.sources \cap Passages # {})
        BY <3>1, Zenon
      <3>4. (p.grounded /\ p.sources \cap Passages # {}) \in BOOLEAN BY Zenon
      <3>5. o \in Objective BY <3>1, <3>4, Zenon DEF Objective
      <3>6. o.grounded => o.sources # {} BY <3>2, <3>3, Zenon
      <3> QED BY <3>2, <3>5, <3>6
    <2>4. \A o \in S : o.sources \subseteq Passages /\ (o.grounded => o.sources # {})
      BY <2>3
    <2>5. S \subseteq Objective BY <2>3
    <2> HIDE DEF S
    <2>6. Sanitized(a) \in Module /\ Sanitized(a).kind = "module"
          /\ Sanitized(a).objectives = S
      BY <2>1, <2>2, <2>5 DEF Module
    <2> QED BY <1>2, <2>4, <2>6 DEF Cleaned, Answer
  <1> QED BY <1>1, <1>2

\* Of the cleaned answers a usable one is grounded in a source.
LEMMA UsableIsGrounded ==
    ASSUME NEW a, Usable(a), Cleaned(a)
    PROVE  /\ \A o \in a.objectives : o.grounded => o.sources # {}
           /\ \E o \in a.objectives : o.sources # {}
           /\ \A o \in a.objectives : o.sources \subseteq Passages
  BY DEF Usable, Hard, Cleaned

\* The reference list of a cleaned module is what its objectives cite.
LEMMA ReferencesOfClean ==
    ASSUME NEW a, Cleaned(a)
    PROVE  References(a) = UNION {o.sources : o \in a.objectives}
  <1>1. \A o \in a.objectives : o.sources \subseteq Passages BY DEF Cleaned
  <1>2. UNION {o.sources : o \in a.objectives} \subseteq Passages BY <1>1
  <1> QED BY <1>2 DEF References

LEMMA InitInv == Init => IInv
  <1> SUFFICES ASSUME Init PROVE IInv
    OBVIOUS
  <1>1. TypeOK
    <2>1. tries \in 0..MaxAttempts BY AttemptsAssumption DEF Init
    <2>2. first \in Answer \cup {None} /\ content \in Module \cup {None}
      BY DEF Init
    <2> QED BY <2>1, <2>2 DEF Init, TypeOK, Errors
  <1>2. FirstIsClean /\ StageTells
    BY AttemptsAssumption DEF Init, FirstIsClean, StageTells, Waiting
  <1>3. CitationsReal /\ SavedIsGrounded
    BY DEF Init, CitationsReal, SavedIsGrounded
  <1> QED BY <1>1, <1>2, <1>3 DEF IInv

\* What ends generation without a module changes nothing that was kept.
LEMMA StepFail ==
    ASSUME IInv, NEW why \in Errors, Fail(why), Waiting, tries' \in 0..MaxAttempts,
           calls' \in Nat, why # "none"
    PROVE  IInv'
  BY DEF IInv, TypeOK, FirstIsClean, StageTells, CitationsReal, SavedIsGrounded,
         Fail, Waiting, result, Cleaned

\* A usable, cleaned module is saved.
LEMMA StepSave ==
    ASSUME IInv, Waiting, NEW a \in Module, Usable(a), Cleaned(a), Save(a),
           UNCHANGED first, tries' \in 0..MaxAttempts, calls' \in Nat
    PROVE  IInv'
  <1>1. References(a) \subseteq Passages BY DEF References
  <1>2. references' = UNION {o.sources : o \in a.objectives}
    BY ReferencesOfClean DEF Save
  <1>3. a # None BY AnswersAssumption DEF Answer
  <1>4. TypeOK' BY <1>1 DEF IInv, TypeOK, Save, Soft, Module
  <1>5. FirstIsClean' BY DEF IInv, FirstIsClean, Cleaned
  <1>6. StageTells' BY <1>3 DEF IInv, StageTells, Save, Waiting
  <1>7. (CitationsReal /\ SavedIsGrounded)'
    BY <1>2, UsableIsGrounded DEF CitationsReal, SavedIsGrounded, Save
  <1> QED BY <1>4, <1>5, <1>6, <1>7 DEF IInv

\* The first answer: saved, failed, or set aside for the repair.
LEMMA StepFirst ==
    ASSUME IInv, NEW answer \in Answers, FirstAnswer(answer) PROVE IInv'
  <1> DEFINE a == Sanitized(answer)
  <1>1. a \in Answer /\ a.kind = answer.kind
        /\ (a.kind = "module" => a \in Module /\ Cleaned(a))
    BY SanitizedIsClean
  <1>2. Waiting /\ stage = "first" /\ tries' = 0 /\ tries' \in 0..MaxAttempts
        /\ calls' \in Nat
    BY AttemptsAssumption DEF FirstAnswer, Waiting, Respond, Call, IInv, TypeOK
  <1>3. \/ a.kind = "insufficient" /\ Fail("not_covered")
        \/ Usable(a) /\ Save(a) /\ UNCHANGED first
        \/ /\ Hard(a) \/ Soft(a)
           /\ stage' = "repair" /\ first' = a
           /\ UNCHANGED <<content, references, warnings, error>>
    BY DEF FirstAnswer
  <1> HIDE DEF a
  <1>4. CASE Fail("not_covered")
    BY <1>2, <1>4, StepFail DEF Errors
  <1>5. CASE Usable(a) /\ Save(a) /\ UNCHANGED first
    <2>1. a \in Module /\ Cleaned(a) BY <1>1, <1>5 DEF Usable
    <2> QED BY <1>2, <1>5, <2>1, StepSave
  <1>6. CASE /\ Hard(a) \/ Soft(a)
             /\ stage' = "repair" /\ first' = a
             /\ UNCHANGED <<content, references, warnings, error>>
    <2>1. a.kind = "invalid" \/ (a.kind = "module" /\ Cleaned(a))
      BY <1>1, <1>6 DEF Hard, Soft
    <2>2. a # None BY <1>1, AnswersAssumption
    <2>3. TypeOK' BY <1>1, <1>2, <1>6 DEF IInv, TypeOK
    <2>4. (FirstIsClean /\ StageTells)'
      BY AttemptsAssumption, <1>2, <1>6, <2>1, <2>2 DEF IInv, FirstIsClean, StageTells, Cleaned
    <2>5. (CitationsReal /\ SavedIsGrounded)'
      BY <1>2, <1>6 DEF IInv, StageTells, CitationsReal, SavedIsGrounded
    <2> QED BY <2>3, <2>4, <2>5 DEF IInv
  <1> QED BY <1>3, <1>4, <1>5, <1>6

\* The answer to the repair: the better of the two is saved or none is usable.
LEMMA StepRepair ==
    ASSUME IInv, NEW answer \in Answers, RepairAnswer(answer) PROVE IInv'
  <1> DEFINE s == Sanitized(answer)
             a == Chosen(s)
  <1>1. s \in Answer /\ s.kind = answer.kind
        /\ (s.kind = "module" => s \in Module /\ Cleaned(s))
    BY SanitizedIsClean
  <1>2. Waiting /\ stage = "repair" /\ tries' \in 0..MaxAttempts /\ calls' \in Nat
    BY DEF RepairAnswer, Waiting, IInv, TypeOK, Respond, Call
  <1>3. \/ Fail("not_covered")
        \/ Fail("still_invalid")
        \/ Usable(a) /\ Save(a) /\ UNCHANGED first
    BY DEF RepairAnswer
  <1>4. a = IF Hard(s) /\ Usable(first) THEN first ELSE s BY DEF Chosen
  <1>5. first \in Answer /\ (first.kind = "module" => Cleaned(first))
    BY <1>2 DEF IInv, TypeOK, FirstIsClean, StageTells
  <1>6. Usable(a) => a \in Module /\ Cleaned(a)
    BY <1>1, <1>4, <1>5 DEF Usable, Answer
  <1> HIDE DEF s, a
  <1>7. CASE Fail("not_covered") \/ Fail("still_invalid")
    BY <1>2, <1>7, StepFail DEF Errors
  <1>8. CASE Usable(a) /\ Save(a) /\ UNCHANGED first
    BY <1>2, <1>6, <1>8, StepSave
  <1> QED BY <1>3, <1>7, <1>8

LEMMA StepInv == ASSUME IInv, [Next]_vars PROVE IInv'
  <1>1. CASE TransientError
    <2>1. Waiting /\ tries \in 0..MaxAttempts /\ tries < MaxAttempts
          /\ tries' = tries + 1 /\ calls' \in Nat
      BY <1>1 DEF IInv, TypeOK, StageTells, TransientError, Call
    <2>2. CASE tries + 1 = MaxAttempts
      <3>1. Fail("unavailable") BY <1>1, <2>2 DEF TransientError
      <3> QED BY AttemptsAssumption, <2>1, <3>1, StepFail DEF Errors
    <2>3. CASE tries + 1 # MaxAttempts
      <3>1. UNCHANGED <<stage, error, result>> BY <1>1, <2>3 DEF TransientError
      <3> QED BY AttemptsAssumption, <2>1, <2>3, <3>1
          DEF IInv, TypeOK, FirstIsClean, StageTells, CitationsReal, SavedIsGrounded,
              Waiting, result, Cleaned
    <2> QED BY <2>2, <2>3
  <1>2. CASE OtherError \/ StageError
    <2>1. Waiting /\ Fail("internal") /\ tries' \in 0..MaxAttempts /\ calls' \in Nat
      BY <1>2 DEF OtherError, StageError, Waiting, IInv, TypeOK, Call
    <2> QED BY <2>1, StepFail DEF Errors
  <1>3. ASSUME NEW why \in {"blocked", "truncated"}, Unusable(why) PROVE IInv'
    <2>1. Waiting /\ Fail(why) /\ tries' \in 0..MaxAttempts /\ calls' \in Nat
      BY <1>3 DEF Unusable, Respond, Call, IInv, TypeOK
    <2> QED BY <2>1, StepFail DEF Errors
  <1>4. CASE UNCHANGED vars
    BY <1>4 DEF vars, IInv, TypeOK, FirstIsClean, StageTells, CitationsReal,
                SavedIsGrounded, Waiting, Cleaned
  <1> QED BY <1>1, <1>2, <1>3, <1>4, StepFirst, StepRepair DEF Next

LEMMA Invariant == Spec => []IInv
  BY InitInv, StepInv, PTL DEF Spec

LEMMA InitCalls == Init => CallsCounted
  BY AttemptsAssumption DEF Init, CallsCounted, CallsBounded

\* A call is made only while fewer than MaxAttempts were made for the answer, and
\* the repair starts anew with what the first answer took.
LEMMA StepCalls == ASSUME IInv, CallsCounted, [Next]_vars PROVE CallsCounted'
  <1>1. /\ MaxAttempts \in Nat /\ tries \in Nat /\ calls \in Nat
        /\ (Waiting => tries < MaxAttempts) /\ (stage = "repair" => first # None)
    BY AttemptsAssumption DEF IInv, TypeOK, StageTells
  <1>2. ASSUME Waiting PROVE calls + 1 <= MaxAttempts + MaxAttempts
                             /\ (first = None => calls + 1 <= MaxAttempts)
    BY <1>1, <1>2 DEF Waiting, CallsCounted
  <1>3. 2 * MaxAttempts = MaxAttempts + MaxAttempts BY <1>1
  <1>4. CASE TransientError
    <2>1. Waiting /\ calls' = calls + 1 /\ tries' = tries + 1 BY <1>4 DEF TransientError, Call
    <2>2. UNCHANGED first /\ (stage' = "failed" \/ UNCHANGED stage)
      BY <1>4 DEF TransientError, Fail, result
    <2> QED BY <1>1, <1>2, <1>3, <2>1, <2>2 DEF CallsCounted, CallsBounded
  <1>5. CASE OtherError \/ \E why \in {"blocked", "truncated"} : Unusable(why)
    <2>1. Waiting /\ calls' = calls + 1 /\ UNCHANGED first /\ stage' = "failed"
      BY <1>5 DEF OtherError, Unusable, Respond, Call, Fail, result
    <2> QED BY <1>1, <1>2, <1>3, <2>1 DEF CallsCounted, CallsBounded
  <1>6. CASE StageError
    BY <1>1, <1>6 DEF StageError, Fail, result, CallsCounted, CallsBounded
  <1>7. ASSUME NEW a \in Answers, FirstAnswer(a) PROVE CallsCounted'
    <2>1. Waiting /\ stage = "first" /\ calls' = calls + 1 /\ tries' = 0
      BY <1>7 DEF FirstAnswer, Respond, Call
    <2>2. stage' \in {"failed", "saved", "repair"}
      BY <1>7 DEF FirstAnswer, Fail, Save
    <2>3. calls' <= MaxAttempts BY <1>1, <1>2, <2>1 DEF CallsCounted
    <2> QED BY <1>1, <1>3, <2>1, <2>2, <2>3 DEF CallsCounted, CallsBounded
  <1>8. ASSUME NEW a \in Answers, RepairAnswer(a) PROVE CallsCounted'
    <2>1. Waiting /\ stage = "repair" /\ calls' = calls + 1
      BY <1>8 DEF RepairAnswer, Respond, Call
    <2>2. stage' \in {"failed", "saved"} /\ UNCHANGED first
      BY <1>8 DEF RepairAnswer, Fail, Save, result
    <2> QED BY <1>1, <1>2, <1>3, <2>1, <2>2 DEF CallsCounted, CallsBounded
  <1>9. CASE UNCHANGED vars BY <1>9 DEF vars, CallsCounted, CallsBounded
  <1> QED BY <1>4, <1>5, <1>6, <1>7, <1>8, <1>9 DEF Next

LEMMA CallsInvariant == Spec => []CallsCounted
  BY Invariant, InitCalls, StepCalls, PTL DEF Spec

\* The stages, attempts, answers and errors keep their types, and no more calls
\* are made for an answer than llm_max_attempts.
THEOREM TypeCorrect == Spec => []TypeOK
  <1>1. IInv => TypeOK BY DEF IInv
  <1> QED BY <1>1, Invariant, PTL

\* Whatever the model cites, in either answer, a saved module cites passages that
\* were retrieved, and its reference list is what it cites.
THEOREM CitationsAreReal == Spec => []CitationsReal
  <1>1. IInv => CitationsReal BY DEF IInv
  <1> QED BY <1>1, Invariant, PTL

\* A saved module has an objective with a source, and claims none without.
THEOREM SavedModulesAreGrounded == Spec => []SavedIsGrounded
  <1>1. IInv => SavedIsGrounded BY DEF IInv
  <1> QED BY <1>1, Invariant, PTL

\* One generation makes at most llm_max_attempts calls for its first answer, and as
\* many for its one repair, whatever of them fails (generate_structured).
THEOREM CallsAreBounded == Spec => []CallsBounded
  <1>1. CallsCounted => CallsBounded BY DEF CallsCounted
  <1> QED BY <1>1, CallsInvariant, PTL

-----------------------------------------------------------------------------
(* Entries that read alike.                                                *)

TextNames == {"title", "topic", "subject", "grade", "time", "model", "target",
              "rationale", "worksheet", "instructions"}
ListNames == {"initial_competencies", "facilities", "meaningful_understanding",
              "trigger_questions", "preparation", "enrichment", "remedial",
              "teacher", "students", "tasks"}
AssessmentNames == {"diagnostic", "formative", "summative"}

Words == TextNames \cup ListNames \cup AssessmentNames \cup
         {"", "identity", "part", "heading", "label", "paragraph", "item", "caption",
          "header", "row", "A. INFORMASI UMUM", "B. KOMPONEN INTI", "C. LAMPIRAN",
          "pancasila_profile", "target_students", "learning_model",
          "learning_objectives", "meetings", "Pertemuan", "assessment", "reflection",
          "LKPD", "reading_material", "glossary", "references",
          "objectives", "materials", "activities", "citations"}
Labels == Words \X Int

\* A text of a module, or of the tables whose columns the code names.
Inks == (STRING \X Nat \X Nat \X Nat)
        \cup {<<"", 0, 0, 0>>, <<"column", 0, 0, 1>>, <<"column", 0, 0, 2>>}
Written == [ink : Inks, kind : Kinds]

Entries == [style : Words, label : Labels, texts : Seq(Written),
            marks : Seq(Passages)]

\* No text that python-docx raises on.
Writable(texts) == \A i \in DOMAIN texts : texts[i].kind # "control"

\* They are written the same, with the same sources, all of S, and sources come
\* with a text; the second can be written in Word.
Same(e, f, S) ==
    /\ e.style = f.style /\ e.label = f.label /\ e.marks = f.marks
    /\ Ink(e.texts) = Ink(f.texts)
    /\ ToSet(e.marks) \subseteq S /\ (e.marks # <<>> => e.texts # <<>>)
    /\ Writable(f.texts)

Alike(x, y, S) ==
    /\ x \in Seq(Entries) /\ y \in Seq(Entries) /\ Len(x) = Len(y)
    /\ \A i \in 1..Len(x) : Same(x[i], y[i], S)

LEMMA LabelsAre == ASSUME NEW w \in Words, NEW i \in Int PROVE <<w, i>> \in Labels
  BY DEF Labels

LEMMA TextsAreWritten == Text \subseteq Written
  BY DEF Text, Written, Inks

LEMMA PlainLabel == <<"", 0>> \in Labels
  <1>1. "" \in Words /\ 0 \in Int BY DEF Words
  <1> QED BY <1>1, LabelsAre

LEMMA NothingAlike == ASSUME NEW S PROVE Alike(<<>>, <<>>, S)
  BY DEF Alike

LEMMA OneAlike ==
    ASSUME NEW S, NEW e \in Entries, NEW f \in Entries, Same(e, f, S)
    PROVE  Alike(<<e>>, <<f>>, S)
  BY DEF Alike

LEMMA JoinAlike ==
    ASSUME NEW S, NEW a, NEW b, NEW c, NEW d, Alike(a, b, S), Alike(c, d, S)
    PROVE  Alike(a \o c, b \o d, S)
  <1> DEFINE m == Len(a)  n == Len(c)  x == a \o c  y == b \o d
  <1>1. /\ a \in Seq(Entries) /\ b \in Seq(Entries) /\ Len(b) = m
        /\ c \in Seq(Entries) /\ d \in Seq(Entries) /\ Len(d) = n
        /\ m \in Nat /\ n \in Nat
    BY DEF Alike
  <1>2. /\ x \in Seq(Entries) /\ Len(x) = m + n
        /\ \A i \in 1..m : x[i] = a[i]
        /\ \A i \in (m + 1)..(m + n) : x[i] = c[i - m]
    BY <1>1
  <1>3. /\ y \in Seq(Entries) /\ Len(y) = m + n
        /\ \A i \in 1..m : y[i] = b[i]
        /\ \A i \in (m + 1)..(m + n) : y[i] = d[i - m]
    BY <1>1
  <1>4. (\A i \in 1..m : Same(a[i], b[i], S)) /\ (\A j \in 1..n : Same(c[j], d[j], S))
    BY DEF Alike
  <1> HIDE DEF m, n, x, y
  <1>5. ASSUME NEW i \in 1..(m + n) PROVE Same(x[i], y[i], S)
    <2>1. CASE i \in 1..m BY <1>2, <1>3, <1>4, <2>1
    <2>2. CASE i \notin 1..m
      <3>1. i \in (m + 1)..(m + n) /\ i - m \in 1..n BY <1>1, <2>2
      <3> QED BY <1>2, <1>3, <1>4, <3>1
    <2> QED BY <2>1, <2>2
  <1>6. Alike(x, y, S) BY <1>2, <1>3, <1>5 DEF Alike
  <1> QED BY <1>6 DEF x, y

LEMMA FlattenAlike ==
    ASSUME NEW S, NEW s \in Seq(Seq(Entries)), NEW t \in Seq(Seq(Entries)),
           Len(s) = Len(t),
           \A i \in 1..Len(s) : Alike(s[i], t[i], S)
    PROVE  Alike(FlattenSeq(s), FlattenSeq(t), S)
  <1> DEFINE n == Len(s)
  <1>1. n \in Nat OBVIOUS
  <1>2. PICK f \in [0..n -> Seq(Entries)] :
            /\ f[0] = <<>> /\ FlattenSeq(s) = f[n]
            /\ \A i \in 1..n : f[i] = f[i - 1] \o s[i]
    BY FlattenAddsUp
  <1>3. PICK g \in [0..n -> Seq(Entries)] :
            /\ g[0] = <<>> /\ FlattenSeq(t) = g[n]
            /\ \A i \in 1..n : g[i] = g[i - 1] \o t[i]
    <2>1. \E g \in [0..Len(t) -> Seq(Entries)] :
            /\ g[0] = <<>> /\ FlattenSeq(t) = g[Len(t)]
            /\ \A i \in 1..Len(t) : g[i] = g[i - 1] \o t[i]
      BY FlattenAddsUp
    <2> QED BY <2>1
  <1> HIDE DEF n
  <1> DEFINE U == {i \in 0..n : Alike(f[i], g[i], S)}
  <1>4. 0 \in U BY <1>1, <1>2, <1>3, NothingAlike
  <1>5. ASSUME NEW i \in 1..n, i - 1 \in U PROVE i \in U
    <2>1. Alike(s[i], t[i], S) /\ Alike(f[i - 1], g[i - 1], S) BY <1>5 DEF n
    <2>2. Alike(f[i - 1] \o s[i], g[i - 1] \o t[i], S) BY <2>1, JoinAlike
    <2>3. f[i] = f[i - 1] \o s[i] /\ g[i] = g[i - 1] \o t[i] BY <1>2, <1>3
    <2>4. i \in 0..n BY <1>1
    <2> QED BY <2>2, <2>3, <2>4
  <1>6. \A i \in 0..n : i \in U
    <2> HIDE DEF U
    <2> QED BY <1>1, <1>4, <1>5, CountingUp
  <1> QED BY <1>1, <1>2, <1>3, <1>6

-----------------------------------------------------------------------------
(* The parts of the two renderers.                                         *)

LEMMA CleanKeepsInk ==
    ASSUME NEW t \in Written
    PROVE  /\ Clean(t) \in Written /\ Clean(t).ink = t.ink
           /\ Clean(t).kind # "control" /\ (Blank(Clean(t)) <=> Blank(t))
  BY DEF Clean, Written, Kinds, Blank

LEMMA CleanAllKeepsInk ==
    ASSUME NEW ts \in Seq(Written)
    PROVE  /\ CleanAll(ts) \in Seq(Written) /\ Len(CleanAll(ts)) = Len(ts)
           /\ Ink(CleanAll(ts)) = Ink(ts) /\ Writable(CleanAll(ts))
  <1>1. CleanAll(ts) = [i \in 1..Len(ts) |-> Clean(ts[i])] BY DEF CleanAll
  <1>2. \A i \in 1..Len(ts) : /\ Clean(ts[i]) \in Written /\ Clean(ts[i]).ink = ts[i].ink
                             /\ Clean(ts[i]).kind # "control"
    <2> TAKE i \in 1..Len(ts)
    <2>1. ts[i] \in Written OBVIOUS
    <2> QED BY <2>1, CleanKeepsInk
  <1> DEFINE cs == CleanAll(ts)
  <1>3. cs \in Seq(Written) /\ Len(cs) = Len(ts) BY <1>1, <1>2
  <1>4. \A i \in 1..Len(ts) : cs[i].ink = ts[i].ink /\ cs[i].kind # "control"
    BY <1>1, <1>2
  <1> HIDE DEF cs
  <1>6. Writable(cs) BY <1>3, <1>4 DEF Writable
  <1>5. Ink(cs) = Ink(ts) BY <1>3, <1>4 DEF Ink
  <1> QED BY <1>3, <1>5, <1>6 DEF cs

LEMMA NoMembers == ToSet(<<>>) = {}
  BY DEF ToSet

LEMMA OneMember == ASSUME NEW x PROVE ToSet(<<x>>) = {x}
  BY DEF ToSet

\* An entry without sources.
LEMMA EntryAlike ==
    ASSUME NEW S, NEW style \in Words, NEW label \in Labels,
           NEW ts \in Seq(Written), NEW us \in Seq(Written), Ink(ts) = Ink(us),
           Writable(us)
    PROVE  Alike(<<Entry(style, label, ts)>>, <<Entry(style, label, us)>>, S)
  <1>1. <<>> \in Seq(Passages) OBVIOUS
  <1>2. Entry(style, label, ts) \in Entries /\ Entry(style, label, us) \in Entries
    BY <1>1 DEF Entry, Entries
  <1>3. Same(Entry(style, label, ts), Entry(style, label, us), S)
    BY NoMembers DEF Same, Entry
  <1> QED BY <1>2, <1>3, OneAlike

LEMMA OneText ==
    ASSUME NEW t \in Written
    PROVE  /\ <<t>> \in Seq(Written) /\ <<Clean(t)>> \in Seq(Written)
           /\ Ink(<<t>>) = Ink(<<Clean(t)>>) /\ Writable(<<Clean(t)>>)
  BY CleanKeepsInk DEF Ink, Writable

LEMMA ParagraphsAlike ==
    ASSUME NEW S, NEW t \in Written PROVE Alike(PdfParagraph(t), DocxParagraph(t), S)
  <1>1. <<"", 0>> \in Labels BY PlainLabel
  <1>2. Alike(<<Entry("paragraph", <<"", 0>>, <<t>>)>>,
              <<Entry("paragraph", <<"", 0>>, <<Clean(t)>>)>>, S)
    <2>1. "paragraph" \in Words BY DEF Words
    <2> QED BY <1>1, <2>1, OneText, EntryAlike
  <1> QED BY <1>2, NothingAlike DEF PdfParagraph, DocxParagraph, When

\* _write_list of both: what is blank in one is blank in the other, and numbers
\* go by position in both.
LEMMA ItemsAlike ==
    ASSUME NEW S, NEW items \in Seq(Written), NEW numbered \in BOOLEAN,
           NEW suffixes \in [1..Len(items) -> Seq(Passages)],
           \A i \in 1..Len(items) : ToSet(suffixes[i]) \subseteq S
    PROVE  Alike(PdfItems(items, numbered, suffixes),
                 DocxItems(items, numbered, suffixes), S)
  <1> DEFINE n == Len(items)
             Item(i, t) == [style |-> "item", label |-> <<"", IF numbered THEN i ELSE 0>>,
                            texts |-> <<t>>, marks |-> suffixes[i]]
             s == [i \in 1..n |-> When(~Blank(items[i]), <<Item(i, items[i])>>)]
             t == [i \in 1..n |-> When(~Blank(items[i]), <<Item(i, Clean(items[i]))>>)]
  <1>1. n \in Nat /\ \A i \in 1..n : items[i] \in Written OBVIOUS
  <1>2. ASSUME NEW i \in 1..n PROVE Alike(s[i], t[i], S)
    <2> DEFINE e == Item(i, items[i])  f == Item(i, Clean(items[i]))
    <2>1. \A x \in Written : Item(i, x) \in Entries
      <3> TAKE x \in Written
      <3>1. <<"", IF numbered THEN i ELSE 0>> \in Labels /\ "item" \in Words
        <4>1. "" \in Words /\ "item" \in Words BY DEF Words
        <4>2. (IF numbered THEN i ELSE 0) \in Int OBVIOUS
        <4> QED BY <4>1, <4>2, LabelsAre
      <3>2. <<x>> \in Seq(Written) /\ suffixes[i] \in Seq(Passages) OBVIOUS
      <3> QED BY <3>1, <3>2 DEF Entries
    <2>2. e \in Entries /\ f \in Entries BY <1>1, <2>1, CleanKeepsInk
    <2>3. Same(e, f, S) BY <1>1, OneText DEF Same
    <2> HIDE DEF e, f
    <2>4. Alike(<<e>>, <<f>>, S) BY <2>2, <2>3, OneAlike
    <2>5. s[i] = When(~Blank(items[i]), <<e>>) /\ t[i] = When(~Blank(items[i]), <<f>>)
      BY DEF e, f
    <2> HIDE DEF s, t
    <2> QED BY <2>4, <2>5, NothingAlike DEF When
  <1>3. s \in Seq(Seq(Entries)) /\ t \in Seq(Seq(Entries)) /\ Len(s) = n /\ Len(t) = n
    <2>1. \A i \in 1..n : s[i] \in Seq(Entries) /\ t[i] \in Seq(Entries) BY <1>2 DEF Alike
    <2>2. s = [i \in 1..n |-> s[i]] /\ t = [i \in 1..n |-> t[i]] OBVIOUS
    <2> HIDE DEF s, t
    <2> QED BY <1>1, <2>1, <2>2
  <1>0. DOMAIN items = 1..n OBVIOUS
  <1>4. PdfItems(items, numbered, suffixes) = FlattenSeq(s) BY <1>0, Zenon DEF PdfItems
  <1>5. DocxItems(items, numbered, suffixes) = FlattenSeq(t) BY <1>0, Zenon DEF DocxItems
  <1> HIDE DEF s, t
  <1> QED BY <1>2, <1>3, <1>4, <1>5, FlattenAlike

LEMMA ListsAlike ==
    ASSUME NEW S, NEW items \in Seq(Written)
    PROVE  /\ Alike(PdfList(items), DocxList(items), S)
           /\ Alike(PdfNumbered(items), DocxItems(items, TRUE, NoMarks(items)), S)
  <1>1. NoMarks(items) \in [1..Len(items) -> Seq(Passages)] BY DEF NoMarks
  <1>2. \A i \in 1..Len(items) : ToSet(NoMarks(items)[i]) \subseteq S
    BY NoMembers DEF NoMarks
  <1> QED BY <1>1, <1>2, ItemsAlike DEF PdfList, DocxList, PdfNumbered

\* A table that _write_table is called with.
IsTable(table) ==
    /\ table.caption \in Written /\ table.columns \in Seq(Written)
    /\ table.rows \in Seq(Seq(Written)) /\ ValidTable(table)

\* _write_table: a row of as many cells as there are columns is written whole.
LEMMA TablesAlike ==
    ASSUME NEW S, NEW table, IsTable(table)
    PROVE  Alike(PdfTable(table), DocxTable(table), S)
  <1>1. /\ table.caption \in Written /\ table.columns \in Seq(Written)
        /\ table.rows \in Seq(Seq(Written)) /\ ValidTable(table)
    BY DEF IsTable
  <1> DEFINE n == Len(table.rows)
             capP == When(~Blank(table.caption),
                          <<Entry("caption", <<"", 0>>, <<table.caption>>)>>)
             capD == When(~Blank(table.caption),
                          <<Entry("caption", <<"", 0>>, <<Clean(table.caption)>>)>>)
             headP == <<Entry("header", <<"", 0>>, table.columns)>>
             headD == <<Entry("header", <<"", 0>>, CleanAll(table.columns))>>
             rowsP == [i \in 1..n |-> Entry("row", <<"", i>>, table.rows[i])]
             rowsD == [i \in 1..n |-> Entry("row", <<"", i>>,
                          UpTo(Len(table.columns), CleanAll(table.rows[i])))]
  <1>0. DOMAIN table.rows = 1..n BY <1>1
  <1>2. n \in Nat /\ \A i \in 1..n : table.rows[i] \in Seq(Written) BY <1>1
  <1>3. <<"", 0>> \in Labels BY PlainLabel
  <1>4. Alike(capP, capD, S)
    <2>1. Alike(<<Entry("caption", <<"", 0>>, <<table.caption>>)>>,
                <<Entry("caption", <<"", 0>>, <<Clean(table.caption)>>)>>, S)
      <3>1. "caption" \in Words BY DEF Words
      <3> QED BY <1>1, <1>3, <3>1, OneText, EntryAlike
    <2> QED BY <2>1, NothingAlike DEF When
  <1>5. Alike(headP, headD, S)
    <2>1. /\ CleanAll(table.columns) \in Seq(Written) /\ Writable(CleanAll(table.columns))
          /\ Ink(CleanAll(table.columns)) = Ink(table.columns)
      BY <1>1, CleanAllKeepsInk
    <2>2. "header" \in Words BY DEF Words
    <2> QED BY <1>1, <1>3, <2>1, <2>2, EntryAlike
  <1>6. ASSUME NEW i \in 1..n
        PROVE  rowsP[i] \in Entries /\ rowsD[i] \in Entries /\ Same(rowsP[i], rowsD[i], S)
    <2> DEFINE r == table.rows[i]  c == CleanAll(r)
    <2>0. i \in DOMAIN table.rows BY <1>0
    <2>1. r \in Seq(Written) /\ Len(r) = Len(table.columns)
      BY <1>1, <1>2, <2>0 DEF ValidTable
    <2>2. c \in Seq(Written) /\ Len(c) = Len(r) /\ Ink(c) = Ink(r) /\ Writable(c)
      BY <2>1, CleanAllKeepsInk
    <2> HIDE DEF c
    <2>3. UpTo(Len(table.columns), c) = c
      <3>1. UpTo(Len(table.columns), c) = SubSeq(c, 1, Len(c)) BY <2>1, <2>2 DEF UpTo
      <3>2. \A x \in Seq(Written) : SubSeq(x, 1, Len(x)) = x OBVIOUS
      <3> QED BY <2>2, <3>1, <3>2
    <2>4. rowsP[i] = Entry("row", <<"", i>>, r) /\ rowsD[i] = Entry("row", <<"", i>>, c)
      BY <2>3 DEF c
    <2> HIDE DEF r, rowsP, rowsD
    <2>5. "" \in Words /\ "row" \in Words /\ i \in Int BY DEF Words
    <2>6. <<"", i>> \in Labels /\ <<>> \in Seq(Passages)
      <3>1. <<"", i>> \in Labels BY <2>5, LabelsAre
      <3>2. <<>> \in Seq(Passages) OBVIOUS
      <3> QED BY <3>1, <3>2
    <2>7. \A x \in Seq(Written) : Entry("row", <<"", i>>, x) \in Entries
      BY <2>5, <2>6 DEF Entry, Entries
    <2>8. Same(Entry("row", <<"", i>>, r), Entry("row", <<"", i>>, c), S)
      BY <2>2, NoMembers DEF Entry, Same
    <2> QED BY <2>1, <2>2, <2>4, <2>7, <2>8
  <1>7. Alike(rowsP, rowsD, S)
    <2>1. rowsP = [i \in 1..n |-> rowsP[i]] /\ rowsD = [i \in 1..n |-> rowsD[i]] OBVIOUS
    <2> HIDE DEF rowsP, rowsD
    <2>2. \A i \in 1..n : rowsP[i] \in Entries /\ rowsD[i] \in Entries BY <1>6
    <2> HIDE DEF n
    <2>3. rowsP \in Seq(Entries) /\ Len(rowsP) = n BY <1>2, <2>1, <2>2
    <2>4. rowsD \in Seq(Entries) /\ Len(rowsD) = n BY <1>2, <2>1, <2>2
    <2> QED BY <1>6, <2>3, <2>4 DEF Alike
  <1>8. PdfTable(table) = capP \o headP \o rowsP
    BY <1>0, Zenon DEF PdfTable
  <1>9. DocxTable(table) = capD \o headD \o rowsD
    BY <1>0, Zenon DEF DocxTable
  <1> HIDE DEF capP, capD, headP, headD, rowsP, rowsD
  <1>10. Alike(capP \o headP, capD \o headD, S) BY <1>4, <1>5, JoinAlike
  <1>11. Alike(capP \o headP \o rowsP, capD \o headD \o rowsD, S) BY <1>7, <1>10, JoinAlike
  <1> QED BY <1>8, <1>9, <1>11

\* The two sequences have one part for each i up to n, and the parts read alike.
LEMMA EachAlike ==
    ASSUME NEW S, NEW n \in Nat, NEW s, NEW t,
           s = [i \in 1..n |-> s[i]], t = [i \in 1..n |-> t[i]],
           \A i \in 1..n : Alike(s[i], t[i], S)
    PROVE  Alike(FlattenSeq(s), FlattenSeq(t), S)
  <1>1. \A i \in 1..n : s[i] \in Seq(Entries) /\ t[i] \in Seq(Entries) BY DEF Alike
  <1>2. s \in Seq(Seq(Entries)) /\ Len(s) = n BY <1>1
  <1>3. t \in Seq(Seq(Entries)) /\ Len(t) = n BY <1>1
  <1> QED BY <1>2, <1>3, FlattenAlike

-----------------------------------------------------------------------------
(* The sections.                                                           *)

\* A module that the two renderers are called with.
IsContent(c) ==
    /\ \A n \in TextNames : c.text[n] \in Written
    /\ \A n \in ListNames : c.lists[n] \in Seq(Written)
    /\ \A a \in AssessmentNames : c.assessment[a] \in Seq(Written)
    /\ IsTable(Pairs(c.pancasila)) /\ IsTable(Pairs(c.glossary))
    /\ IsTable(c.overview) /\ IsTable(c.rubric)
    /\ \E n \in Nat : /\ DOMAIN c.meetings = 1..n
                      /\ \A i \in 1..n : /\ c.meetings[i].number \in Int
                                         /\ c.meetings[i].title \in Written
                                         /\ IsTable(c.meetings[i].activities)
    /\ c.reading \in Seq(Written)
    /\ Objectives(c) \in Seq(Written)
    /\ Citations(c) \in [1..Len(Objectives(c)) -> Seq(Passages)]
    /\ c.references \in Seq(Passages)

LEMMA HeadingsAlike ==
    ASSUME NEW S, NEW name \in Words
    PROVE  /\ Alike(Part(name), Part(name), S) /\ Alike(Heading(name), Heading(name), S)
           /\ Alike(Label(name), Label(name), S)
  <1>1. <<>> \in Seq(Written) /\ Ink(<<>>) = Ink(<<>>) /\ Writable(<<>>) BY DEF Writable
  <1>2. "part" \in Words /\ "heading" \in Words /\ "label" \in Words BY DEF Words
  <1>3. 0 \in Int OBVIOUS
  <1>4. <<name, 0>> \in Labels BY <1>3, LabelsAre
  <1> QED BY <1>1, <1>2, <1>4, EntryAlike DEF Part, Heading, Label

LEMMA SentencesAlike ==
    ASSUME NEW S, NEW ts \in Seq(Written)
    PROVE  Alike(Sentence(ts), Sentence(CleanAll(ts)), S)
  <1>1. CleanAll(ts) \in Seq(Written) /\ Ink(ts) = Ink(CleanAll(ts))
        /\ Writable(CleanAll(ts))
    BY CleanAllKeepsInk
  <1>2. "paragraph" \in Words BY DEF Words
  <1> QED BY <1>1, <1>2, PlainLabel, EntryAlike DEF Sentence

\* A section is left out of both or of none.
LEMMA WhenAlike ==
    ASSUME NEW S, NEW condition, NEW a, NEW b, condition => Alike(a, b, S)
    PROVE  Alike(When(condition, a), When(condition, b), S)
  BY NothingAlike DEF When

LEMMA SectionAlike ==
    ASSUME NEW S, NEW name \in Words, NEW a, NEW b, Alike(a, b, S)
    PROVE  Alike(Heading(name) \o a, Heading(name) \o b, S)
           /\ Alike(Label(name) \o a, Label(name) \o b, S)
  BY HeadingsAlike, JoinAlike

LEMMA NamedListsAlike ==
    ASSUME NEW S, NEW c, IsContent(c), NEW n \in Nat, NEW names \in [1..n -> ListNames]
    PROVE  Alike(PdfLists(c, names), DocxLists(c, names), S)
  <1> DEFINE s == [i \in 1..n |-> When(c.lists[names[i]] # <<>>,
                                       Heading(names[i]) \o PdfList(c.lists[names[i]]))]
             t == [i \in 1..n |-> When(c.lists[names[i]] # <<>>,
                                       Heading(names[i]) \o DocxList(c.lists[names[i]]))]
  <1>1. ASSUME NEW i \in 1..n PROVE Alike(s[i], t[i], S)
    <2> DEFINE m == names[i]
    <2>1. m \in ListNames OBVIOUS
    <2>2. m \in Words BY <2>1 DEF Words
    <2>3. c.lists[m] \in Seq(Written) BY <2>1 DEF IsContent
    <2>4. Alike(PdfList(c.lists[m]), DocxList(c.lists[m]), S) BY <2>3, ListsAlike
    <2>5. Alike(Heading(m) \o PdfList(c.lists[m]), Heading(m) \o DocxList(c.lists[m]), S)
      BY <2>2, <2>4, SectionAlike
    <2> QED BY <2>5, WhenAlike
  <1>2. PdfLists(c, names) = FlattenSeq(s) BY DEF PdfLists, Each
  <1>3. DocxLists(c, names) = FlattenSeq(t) BY DEF DocxLists, Each
  <1>4. s = [i \in 1..n |-> s[i]] /\ t = [i \in 1..n |-> t[i]] OBVIOUS
  <1> HIDE DEF s, t
  <1> QED BY <1>1, <1>2, <1>3, <1>4, EachAlike

LEMMA InformationAlike ==
    ASSUME NEW S, NEW c, IsContent(c) PROVE Alike(PdfInformation(c), DocxInformation(c), S)
  <1> DEFINE a1 == PdfLists(c, <<"initial_competencies">>)
             b1 == DocxLists(c, <<"initial_competencies">>)
             a2 == When(c.pancasila # <<>>,
                        Heading("pancasila_profile") \o PdfTable(Pairs(c.pancasila)))
             b2 == When(c.pancasila # <<>>,
                        Heading("pancasila_profile") \o DocxTable(Pairs(c.pancasila)))
             a3 == PdfLists(c, <<"facilities">>)
             b3 == DocxLists(c, <<"facilities">>)
             a4 == When(~Blank(c.text["target"]),
                        Heading("target_students") \o PdfParagraph(c.text["target"]))
             b4 == When(~Blank(c.text["target"]),
                        Heading("target_students") \o DocxParagraph(c.text["target"]))
             ts == <<c.text["model"], c.text["rationale"]>>
             h == Heading("learning_model")
             a5 == Sentence(ts)
             b5 == Sentence(CleanAll(ts))
             p == Part("A. INFORMASI UMUM")
  <1>1. Alike(a1, b1, S) /\ Alike(a3, b3, S)
    <2>1. <<"initial_competencies">> \in [1..1 -> ListNames]
          /\ <<"facilities">> \in [1..1 -> ListNames]
      BY DEF ListNames
    <2> QED BY <2>1, NamedListsAlike
  <1>2. Alike(a2, b2, S)
    <2>1. "pancasila_profile" \in Words BY DEF Words
    <2>2. IsTable(Pairs(c.pancasila)) BY DEF IsContent
    <2> QED BY <2>1, <2>2, TablesAlike, SectionAlike, WhenAlike
  <1>3. Alike(a4, b4, S)
    <2>1. "target_students" \in Words /\ "target" \in TextNames BY DEF Words, TextNames
    <2>2. c.text["target"] \in Written BY <2>1 DEF IsContent
    <2> QED BY <2>1, <2>2, ParagraphsAlike, SectionAlike, WhenAlike
  <1>4. Alike(a5, b5, S)
    <2>1. "model" \in TextNames /\ "rationale" \in TextNames BY DEF TextNames
    <2>2. c.text["model"] \in Written /\ c.text["rationale"] \in Written
      BY <2>1 DEF IsContent
    <2>3. ts \in Seq(Written) BY <2>2
    <2> HIDE DEF ts
    <2> QED BY <2>3, SentencesAlike
  <1>5. Alike(p, p, S) /\ Alike(h, h, S)
    <2>1. "A. INFORMASI UMUM" \in Words /\ "learning_model" \in Words BY DEF Words
    <2> QED BY <2>1, HeadingsAlike
  <1>6. PdfInformation(c) = p \o a1 \o a2 \o a3 \o a4 \o h \o a5 BY DEF PdfInformation
  <1>7. DocxInformation(c) = p \o b1 \o b2 \o b3 \o b4 \o h \o b5 BY DEF DocxInformation
  <1> HIDE DEF a1, b1, a2, b2, a3, b3, a4, b4, a5, b5, h, p, ts
  <1>8. Alike(p \o a1 \o a2, p \o b1 \o b2, S) BY <1>1, <1>2, <1>5, JoinAlike
  <1>9. Alike(p \o a1 \o a2 \o a3 \o a4, p \o b1 \o b2 \o b3 \o b4, S)
    BY <1>1, <1>3, <1>8, JoinAlike
  <1>10. Alike(p \o a1 \o a2 \o a3 \o a4 \o h \o a5,
               p \o b1 \o b2 \o b3 \o b4 \o h \o b5, S)
    BY <1>4, <1>5, <1>9, JoinAlike
  <1> QED BY <1>6, <1>7, <1>10

LEMMA MeetingsAlike ==
    ASSUME NEW S, NEW c, IsContent(c)
    PROVE  Alike(Each(c.meetings, LAMBDA m :
                      <<Entry("label", <<"Pertemuan", m.number>>, <<m.title>>)>>
                      \o PdfTable(m.activities)),
                 Each(c.meetings, LAMBDA m :
                      <<Entry("label", <<"Pertemuan", m.number>>, <<Clean(m.title)>>)>>
                      \o DocxTable(m.activities)), S)
  <1>1. PICK n \in Nat : /\ DOMAIN c.meetings = 1..n
                         /\ \A i \in 1..n : /\ c.meetings[i].number \in Int
                                            /\ c.meetings[i].title \in Written
                                            /\ IsTable(c.meetings[i].activities)
    BY DEF IsContent
  <1> DEFINE pdfOf(m) == <<Entry("label", <<"Pertemuan", m.number>>, <<m.title>>)>>
                         \o PdfTable(m.activities)
             docxOf(m) == <<Entry("label", <<"Pertemuan", m.number>>, <<Clean(m.title)>>)>>
                          \o DocxTable(m.activities)
             s == [i \in 1..n |-> pdfOf(c.meetings[i])]
             t == [i \in 1..n |-> docxOf(c.meetings[i])]
  <1>2. ASSUME NEW i \in 1..n PROVE Alike(s[i], t[i], S)
    <2> DEFINE m == c.meetings[i]
    <2>1. m.number \in Int /\ m.title \in Written /\ IsTable(m.activities) BY <1>1
    <2>2. "Pertemuan" \in Words /\ "label" \in Words BY DEF Words
    <2>3. <<"Pertemuan", m.number>> \in Labels BY <2>1, <2>2, LabelsAre
    <2>4. Alike(<<Entry("label", <<"Pertemuan", m.number>>, <<m.title>>)>>,
                <<Entry("label", <<"Pertemuan", m.number>>, <<Clean(m.title)>>)>>, S)
      BY <2>1, <2>2, <2>3, OneText, EntryAlike
    <2> QED BY <2>1, <2>4, TablesAlike, JoinAlike
  <1>3. FlattenSeq(s) = FlattenSeq([i \in DOMAIN c.meetings |-> pdfOf(c.meetings[i])])
        /\ FlattenSeq(t) = FlattenSeq([i \in DOMAIN c.meetings |-> docxOf(c.meetings[i])])
    BY <1>1, Zenon
  <1>4. s = [i \in 1..n |-> s[i]] /\ t = [i \in 1..n |-> t[i]] OBVIOUS
  <1>5. Alike(FlattenSeq(s), FlattenSeq(t), S)
    <2> HIDE DEF s, t
    <2> QED BY <1>2, <1>4, EachAlike
  <1> QED BY <1>3, <1>5 DEF Each

PdfAssessment(c) ==
    Each(<<"diagnostic", "formative", "summative">>, LAMBDA a :
             Label(a) \o Sentence(c.assessment[a]))
DocxAssessment(c) ==
    Each(<<"diagnostic", "formative", "summative">>, LAMBDA a :
             Label(a) \o Sentence(CleanAll(c.assessment[a])))

LEMMA AssessmentAlike ==
    ASSUME NEW S, NEW c, IsContent(c)
    PROVE  Alike(PdfAssessment(c), DocxAssessment(c), S)
  <1> DEFINE names == <<"diagnostic", "formative", "summative">>
             s == [i \in 1..3 |-> Label(names[i]) \o Sentence(c.assessment[names[i]])]
             t == [i \in 1..3 |->
                      Label(names[i]) \o Sentence(CleanAll(c.assessment[names[i]]))]
  <1>1. names \in [1..3 -> AssessmentNames] BY DEF AssessmentNames
  <1> HIDE DEF names
  <1>2. ASSUME NEW i \in 1..3 PROVE Alike(s[i], t[i], S)
    <2>1. names[i] \in AssessmentNames BY <1>1
    <2>2. names[i] \in Words BY <2>1 DEF Words
    <2>3. c.assessment[names[i]] \in Seq(Written) BY <2>1 DEF IsContent
    <2> QED BY <2>2, <2>3, SentencesAlike, SectionAlike
  <1>3. DOMAIN names = 1..3 BY <1>1
  <1>4. FlattenSeq(s) = Each(names, LAMBDA a : Label(a) \o Sentence(c.assessment[a]))
        /\ FlattenSeq(t) =
             Each(names, LAMBDA a : Label(a) \o Sentence(CleanAll(c.assessment[a])))
    BY <1>3, Zenon DEF Each
  <1>5. s = [i \in 1..3 |-> s[i]] /\ t = [i \in 1..3 |-> t[i]] OBVIOUS
  <1>6. Alike(FlattenSeq(s), FlattenSeq(t), S)
    <2> HIDE DEF s, t
    <2>1. 3 \in Nat OBVIOUS
    <2> QED BY <1>2, <1>5, <2>1, EachAlike
  <1> QED BY <1>4, <1>6 DEF names, PdfAssessment, DocxAssessment

LEMMA ReflectionAlike ==
    ASSUME NEW S, NEW c, IsContent(c), NEW name \in {"teacher", "students"}
    PROVE  Alike(When(c.lists[name] # <<>>, Label(name) \o PdfList(c.lists[name])),
                 When(c.lists[name] # <<>>, Label(name) \o DocxList(c.lists[name])), S)
  <1>1. name \in ListNames /\ name \in Words BY DEF ListNames, Words
  <1>2. c.lists[name] \in Seq(Written) BY <1>1 DEF IsContent
  <1> QED BY <1>1, <1>2, ListsAlike, SectionAlike, WhenAlike

LEMMA CoreAlike ==
    ASSUME NEW S, NEW c, IsContent(c),
           \A i \in DOMAIN Citations(c) : ToSet(Citations(c)[i]) \subseteq S
    PROVE  Alike(PdfCore(c), DocxCore(c), S)
  <1> DEFINE p == Part("B. KOMPONEN INTI")
             h1 == Heading("learning_objectives")
             a1 == PdfItems(Objectives(c), TRUE, Citations(c))
             b1 == DocxItems(Objectives(c), TRUE, Citations(c))
             n2 == <<"meaningful_understanding", "trigger_questions", "preparation">>
             a2 == PdfLists(c, n2)
             b2 == DocxLists(c, n2)
             h3 == Heading("meetings")
             a3 == Each(c.meetings, LAMBDA m :
                      <<Entry("label", <<"Pertemuan", m.number>>, <<m.title>>)>>
                      \o PdfTable(m.activities))
             b3 == Each(c.meetings, LAMBDA m :
                      <<Entry("label", <<"Pertemuan", m.number>>, <<Clean(m.title)>>)>>
                      \o DocxTable(m.activities))
             h4 == Heading("assessment")
             a4 == PdfAssessment(c)
             b4 == DocxAssessment(c)
             a5 == PdfTable(c.overview)
             b5 == DocxTable(c.overview)
             a6 == PdfTable(c.rubric)
             b6 == DocxTable(c.rubric)
             n7 == <<"enrichment", "remedial">>
             a7 == PdfLists(c, n7)
             b7 == DocxLists(c, n7)
             any == c.lists["teacher"] # <<>> \/ c.lists["students"] # <<>>
             h8 == Heading("reflection")
             aT == When(c.lists["teacher"] # <<>>,
                        Label("teacher") \o PdfList(c.lists["teacher"]))
             bT == When(c.lists["teacher"] # <<>>,
                        Label("teacher") \o DocxList(c.lists["teacher"]))
             aS == When(c.lists["students"] # <<>>,
                        Label("students") \o PdfList(c.lists["students"]))
             bS == When(c.lists["students"] # <<>>,
                        Label("students") \o DocxList(c.lists["students"]))
             a8 == When(any, h8 \o aT \o aS)
             b8 == When(any, h8 \o bT \o bS)
  <1>1. /\ Alike(p, p, S) /\ Alike(h1, h1, S) /\ Alike(h3, h3, S)
        /\ Alike(h4, h4, S) /\ Alike(h8, h8, S)
    <2>1. "B. KOMPONEN INTI" \in Words /\ "learning_objectives" \in Words BY DEF Words
    <2>2. "meetings" \in Words /\ "assessment" \in Words /\ "reflection" \in Words
      BY DEF Words
    <2> QED BY <2>1, <2>2, HeadingsAlike
  <1>2. Alike(a1, b1, S)
    <2>1. Objectives(c) \in Seq(Written)
          /\ Citations(c) \in [1..Len(Objectives(c)) -> Seq(Passages)]
      BY DEF IsContent
    <2>2. \A i \in 1..Len(Objectives(c)) : ToSet(Citations(c)[i]) \subseteq S BY <2>1
    <2> QED BY <2>1, <2>2, ItemsAlike
  <1>3. Alike(a2, b2, S) /\ Alike(a7, b7, S)
    <2>1. n2 \in [1..3 -> ListNames] BY DEF ListNames
    <2>2. n7 \in [1..2 -> ListNames] BY DEF ListNames
    <2> HIDE DEF n2, n7
    <2>3. 2 \in Nat /\ 3 \in Nat OBVIOUS
    <2> QED BY <2>1, <2>2, <2>3, NamedListsAlike
  <1>4. Alike(a3, b3, S) BY MeetingsAlike
  <1>5. Alike(a4, b4, S) BY AssessmentAlike
  <1>6. Alike(a5, b5, S) /\ Alike(a6, b6, S) BY TablesAlike DEF IsContent
  <1>7. Alike(aT, bT, S) /\ Alike(aS, bS, S) BY ReflectionAlike
  <1> HIDE DEF any, h8, aT, bT, aS, bS
  <1>8. Alike(h8 \o aT \o aS, h8 \o bT \o bS, S) BY <1>1, <1>7, JoinAlike
  <1>9. Alike(a8, b8, S) BY <1>8, WhenAlike
  <1>10. PdfCore(c) = p \o h1 \o a1 \o a2 \o h3 \o a3 \o h4 \o a4 \o a5 \o a6 \o a7 \o a8
    BY DEF PdfCore, PdfAssessment, any, h8, aT, aS
  <1>11. DocxCore(c) = p \o h1 \o b1 \o b2 \o h3 \o b3 \o h4 \o b4 \o b5 \o b6 \o b7 \o b8
    BY DEF DocxCore, DocxAssessment, any, h8, bT, bS
  <1> HIDE DEF p, h1, a1, b1, a2, b2, h3, a3, b3, h4, a4, b4, a5, b5, a6, b6, a7, b7, a8, b8
  <1>12. Alike(p \o h1 \o a1 \o a2, p \o h1 \o b1 \o b2, S) BY <1>1, <1>2, <1>3, JoinAlike
  <1>13. Alike(p \o h1 \o a1 \o a2 \o h3 \o a3, p \o h1 \o b1 \o b2 \o h3 \o b3, S)
    BY <1>1, <1>4, <1>12, JoinAlike
  <1>14. Alike(p \o h1 \o a1 \o a2 \o h3 \o a3 \o h4 \o a4,
               p \o h1 \o b1 \o b2 \o h3 \o b3 \o h4 \o b4, S)
    BY <1>1, <1>5, <1>13, JoinAlike
  <1>15. Alike(p \o h1 \o a1 \o a2 \o h3 \o a3 \o h4 \o a4 \o a5 \o a6,
               p \o h1 \o b1 \o b2 \o h3 \o b3 \o h4 \o b4 \o b5 \o b6, S)
    BY <1>6, <1>14, JoinAlike
  <1>16. Alike(p \o h1 \o a1 \o a2 \o h3 \o a3 \o h4 \o a4 \o a5 \o a6 \o a7 \o a8,
               p \o h1 \o b1 \o b2 \o h3 \o b3 \o h4 \o b4 \o b5 \o b6 \o b7 \o b8, S)
    BY <1>3, <1>9, <1>15, JoinAlike
  <1> QED BY <1>10, <1>11, <1>16

\* The list of references, which ends both files.
ReferenceList(c) ==
    When(c.references # <<>>, Heading("references") \o ReferenceLines(c))

LEMMA AttachmentsAlike ==
    ASSUME NEW S, NEW c, IsContent(c)
    PROVE  \E a, b : /\ Alike(a, b, S)
                     /\ PdfAttachments(c) = a \o ReferenceList(c)
                     /\ DocxAttachments(c) = b \o ReferenceList(c)
  <1> DEFINE p == Part("C. LAMPIRAN")
             a1 == HeadingOf("LKPD", c.text["worksheet"])
             b1 == HeadingOf("LKPD", Clean(c.text["worksheet"]))
             a2 == PdfParagraph(c.text["instructions"])
             b2 == DocxParagraph(c.text["instructions"])
             a3 == PdfNumbered(c.lists["tasks"])
             b3 == DocxItems(c.lists["tasks"], TRUE, NoMarks(c.lists["tasks"]))
             any == \E i \in DOMAIN c.reading : ~Blank(c.reading[i])
             aR == Each(c.reading, PdfParagraph)
             bR == Each(c.reading, DocxParagraph)
             a4 == When(any, Heading("reading_material") \o aR)
             b4 == When(any, Heading("reading_material") \o bR)
             a5 == When(c.glossary # <<>>,
                        Heading("glossary") \o PdfTable(Pairs(c.glossary)))
             b5 == When(c.glossary # <<>>,
                        Heading("glossary") \o DocxTable(Pairs(c.glossary)))
             a6 == ReferenceList(c)
  <1>1. /\ c.text["worksheet"] \in Written /\ c.text["instructions"] \in Written
        /\ c.lists["tasks"] \in Seq(Written)
    <2>1. "worksheet" \in TextNames /\ "instructions" \in TextNames BY DEF TextNames
    <2>2. "tasks" \in ListNames BY DEF ListNames
    <2> QED BY <2>1, <2>2 DEF IsContent
  <1>2. Alike(p, p, S)
    <2>1. "C. LAMPIRAN" \in Words BY DEF Words
    <2> QED BY <2>1, HeadingsAlike
  <1>3. Alike(a1, b1, S)
    <2>1. "heading" \in Words /\ "LKPD" \in Words BY DEF Words
    <2>2. 0 \in Int OBVIOUS
    <2>3. <<"LKPD", 0>> \in Labels BY <2>1, <2>2, LabelsAre
    <2> QED BY <1>1, <2>1, <2>3, OneText, EntryAlike DEF HeadingOf
  <1>4. Alike(a2, b2, S) BY <1>1, ParagraphsAlike
  <1>5. Alike(a3, b3, S) BY <1>1, ListsAlike
  <1>6. Alike(aR, bR, S)
    <2> DEFINE n == Len(c.reading)
               s == [i \in 1..n |-> PdfParagraph(c.reading[i])]
               t == [i \in 1..n |-> DocxParagraph(c.reading[i])]
    <2>1. c.reading \in Seq(Written) BY DEF IsContent
    <2>2. n \in Nat /\ DOMAIN c.reading = 1..n BY <2>1
    <2>3. \A i \in 1..n : c.reading[i] \in Written BY <2>1
    <2>4. aR = FlattenSeq(s) /\ bR = FlattenSeq(t) BY <2>2, Zenon DEF Each
    <2> HIDE DEF n
    <2>5. \A i \in 1..n : Alike(s[i], t[i], S) BY <2>3, ParagraphsAlike
    <2>6. s = [i \in 1..n |-> s[i]] /\ t = [i \in 1..n |-> t[i]] OBVIOUS
    <2> HIDE DEF s, t
    <2>7. Alike(FlattenSeq(s), FlattenSeq(t), S) BY <2>2, <2>5, <2>6, EachAlike
    <2> QED BY <2>4, <2>7
  <1>7. Alike(a4, b4, S)
    <2>1. "reading_material" \in Words BY DEF Words
    <2> HIDE DEF aR, bR, any
    <2> QED BY <1>6, <2>1, SectionAlike, WhenAlike
  <1>8. Alike(a5, b5, S)
    <2>1. "glossary" \in Words BY DEF Words
    <2>2. IsTable(Pairs(c.glossary)) BY DEF IsContent
    <2> QED BY <2>1, <2>2, TablesAlike, SectionAlike, WhenAlike
  <1>10. PdfAttachments(c) = p \o a1 \o a2 \o a3 \o a4 \o a5 \o a6
    BY DEF PdfAttachments, ReferenceList
  <1>11. DocxAttachments(c) = p \o b1 \o b2 \o b3 \o b4 \o b5 \o a6
    BY DEF DocxAttachments, ReferenceList
  <1> HIDE DEF p, a1, b1, a2, b2, a3, b3, a4, b4, a5, b5, a6
  <1>12. Alike(p \o a1 \o a2 \o a3, p \o b1 \o b2 \o b3, S)
    BY <1>2, <1>3, <1>4, <1>5, JoinAlike
  <1>13. Alike(p \o a1 \o a2 \o a3 \o a4 \o a5, p \o b1 \o b2 \o b3 \o b4 \o b5, S)
    BY <1>7, <1>8, <1>12, JoinAlike
  <1> QED BY <1>10, <1>11, <1>13 DEF a6

PdfIdentity(c) ==
    Each(<<"subject", "grade", "topic", "time", "model">>, LAMBDA n :
             <<Entry("identity", <<n, 0>>, <<c.text[n]>>)>>)
DocxIdentity(c) ==
    Each(<<"subject", "grade", "topic", "time", "model">>, LAMBDA n :
             <<Entry("identity", <<n, 0>>, <<Clean(c.text[n])>>)>>)

LEMMA IdentityAlike ==
    ASSUME NEW S, NEW c, IsContent(c)
    PROVE  Alike(PdfIdentity(c), DocxIdentity(c), S)
  <1> DEFINE names == <<"subject", "grade", "topic", "time", "model">>
             s == [i \in 1..5 |-> <<Entry("identity", <<names[i], 0>>, <<c.text[names[i]]>>)>>]
             t == [i \in 1..5 |->
                      <<Entry("identity", <<names[i], 0>>, <<Clean(c.text[names[i]])>>)>>]
  <1>1. names \in [1..5 -> TextNames] BY DEF TextNames
  <1> HIDE DEF names
  <1>2. ASSUME NEW i \in 1..5 PROVE Alike(s[i], t[i], S)
    <2>1. names[i] \in TextNames BY <1>1
    <2>2. names[i] \in Words /\ "identity" \in Words BY <2>1 DEF Words
    <2>3. 0 \in Int OBVIOUS
    <2>4. <<names[i], 0>> \in Labels BY <2>2, <2>3, LabelsAre
    <2>5. c.text[names[i]] \in Written BY <2>1 DEF IsContent
    <2> QED BY <2>2, <2>4, <2>5, OneText, EntryAlike
  <1>3. DOMAIN names = 1..5 BY <1>1
  <1>4. FlattenSeq(s) = Each(names, LAMBDA n : <<Entry("identity", <<n, 0>>, <<c.text[n]>>)>>)
        /\ FlattenSeq(t) =
             Each(names, LAMBDA n : <<Entry("identity", <<n, 0>>, <<Clean(c.text[n])>>)>>)
    BY <1>3, Zenon DEF Each
  <1>5. s = [i \in 1..5 |-> s[i]] /\ t = [i \in 1..5 |-> t[i]] OBVIOUS
  <1>6. Alike(FlattenSeq(s), FlattenSeq(t), S)
    <2> HIDE DEF s, t
    <2>1. 5 \in Nat OBVIOUS
    <2> QED BY <1>2, <1>5, <2>1, EachAlike
  <1> QED BY <1>4, <1>6 DEF names, PdfIdentity, DocxIdentity

LEMMA JoinIsAssociative ==
    ASSUME NEW x \in Seq(Entries), NEW y \in Seq(Entries), NEW z \in Seq(Entries)
    PROVE  x \o (y \o z) = (x \o y) \o z
  OBVIOUS

LEMMA ReferenceLinesAre ==
    ASSUME NEW c, IsContent(c)
    PROVE  /\ ReferenceLines(c) \in Seq(Entries)
           /\ Len(ReferenceLines(c)) = Len(c.references)
           /\ \A i \in 1..Len(c.references) :
                 ReferenceLines(c)[i] = ReferenceLine(c.references[i])
           /\ ReferenceList(c) \in Seq(Entries)
  <1>1. "references" \in Words /\ "item" \in Words BY DEF Words
  <1>2. c.references \in Seq(Passages) BY DEF IsContent
  <1>3. \A id \in Passages : ReferenceLine(id) \in Entries
    <2> TAKE id \in Passages
    <2>1. <<>> \in Seq(Written) /\ <<id>> \in Seq(Passages) OBVIOUS
    <2> QED BY <1>1, <2>1, PlainLabel DEF ReferenceLine, Entries
  <1>4. /\ ReferenceLines(c) \in Seq(Entries)
        /\ Len(ReferenceLines(c)) = Len(c.references)
        /\ \A i \in 1..Len(c.references) :
              ReferenceLines(c)[i] = ReferenceLine(c.references[i])
    BY <1>2, <1>3 DEF ReferenceLines
  <1>5. Alike(Heading("references"), Heading("references"), {}) BY <1>1, HeadingsAlike
  <1>6. Heading("references") \in Seq(Entries) BY <1>5 DEF Alike
  <1> QED BY <1>4, <1>6 DEF ReferenceList, When

\* The two files of a module: what reads alike, entry by entry, and the same list
\* of references.
LEMMA ModulAlike ==
    ASSUME NEW S, NEW c, IsContent(c),
           \A i \in DOMAIN Citations(c) : ToSet(Citations(c)[i]) \subseteq S
    PROVE  \E a, b : /\ Alike(a, b, S)
                     /\ GenerateModulPdf(c) = a \o ReferenceList(c)
                     /\ GenerateModulDocx(c) = b \o ReferenceList(c)
  <1> DEFINE a1 == <<Entry("title", <<"", 0>>, <<TitleOf(c)>>)>>
             b1 == <<Entry("title", <<"", 0>>, <<Clean(TitleOf(c))>>)>>
             a2 == PdfIdentity(c)     b2 == DocxIdentity(c)
             a3 == PdfInformation(c)  b3 == DocxInformation(c)
             a4 == PdfCore(c)         b4 == DocxCore(c)
             refs == ReferenceList(c)
  <1>1. Alike(a1, b1, S)
    <2>1. "title" \in TextNames /\ "topic" \in TextNames BY DEF TextNames
    <2>2. "title" \in Words BY <2>1 DEF Words
    <2>3. TitleOf(c) \in Written BY <2>1 DEF IsContent, TitleOf
    <2> QED BY <2>2, <2>3, PlainLabel, OneText, EntryAlike
  <1>2. Alike(a2, b2, S) BY IdentityAlike
  <1>3. Alike(a3, b3, S) /\ Alike(a4, b4, S) BY InformationAlike, CoreAlike
  <1>4. PICK a5, b5 : /\ Alike(a5, b5, S)
                      /\ PdfAttachments(c) = a5 \o refs /\ DocxAttachments(c) = b5 \o refs
    BY AttachmentsAlike
  <1>5. GenerateModulPdf(c) = a1 \o a2 \o a3 \o a4 \o (a5 \o refs)
    BY <1>4 DEF GenerateModulPdf, PdfIdentity
  <1>6. GenerateModulDocx(c) = b1 \o b2 \o b3 \o b4 \o (b5 \o refs)
    BY <1>4 DEF GenerateModulDocx, DocxIdentity
  <1>7. refs \in Seq(Entries) BY ReferenceLinesAre
  <1> HIDE DEF a1, b1, a2, b2, a3, b3, a4, b4, refs
  <1> DEFINE a == a1 \o a2 \o a3 \o a4
             b == b1 \o b2 \o b3 \o b4
  <1>8. Alike(a1 \o a2 \o a3, b1 \o b2 \o b3, S) BY <1>1, <1>2, <1>3, JoinAlike
  <1>9. Alike(a, b, S) BY <1>3, <1>8, JoinAlike
  <1> HIDE DEF a, b
  <1>10. Alike(a \o a5, b \o b5, S) BY <1>4, <1>9, JoinAlike
  <1>11. a \o (a5 \o refs) = (a \o a5) \o refs /\ b \o (b5 \o refs) = (b \o b5) \o refs
    <2>1. a \in Seq(Entries) /\ b \in Seq(Entries) BY <1>9 DEF Alike
    <2>2. a5 \in Seq(Entries) /\ b5 \in Seq(Entries) BY <1>4 DEF Alike
    <2> QED BY <1>7, <2>1, <2>2, JoinIsAssociative
  <1> QED BY <1>5, <1>6, <1>10, <1>11 DEF a, b, refs

-----------------------------------------------------------------------------
(* What is stored is a module that both renderers are called with.          *)

LEMMA WiderSeq ==
    ASSUME NEW U, NEW V, U \subseteq V, NEW s \in Seq(U) PROVE s \in Seq(V)
  OBVIOUS

Goal == [text : Text, sources : Seq(Passages), grounded : BOOLEAN]

LEMMA FieldsOfWith ==
    ASSUME NEW c \in Shape, NEW goals, NEW refs
    PROVE  LET m == With(goals, refs, c) IN
           /\ m.objectives = goals /\ m.references = refs
           /\ m.text = c.text /\ m.lists = c.lists /\ m.assessment = c.assessment
           /\ m.pancasila = c.pancasila /\ m.glossary = c.glossary
           /\ m.meetings = c.meetings /\ m.overview = c.overview /\ m.rubric = c.rubric
           /\ m.reading = c.reading
  BY DEF With, Shape

LEMMA TablesAreWritten ==
    ASSUME NEW table \in Table, ValidTable(table) PROVE IsTable(table)
  <1>1. table.caption \in Text /\ table.columns \in Seq(Text) /\ table.rows \in Seq(Seq(Text))
    BY DEF Table
  <1>2. table.caption \in Written /\ table.columns \in Seq(Written)
    BY <1>1, TextsAreWritten, WiderSeq
  <1>3. Seq(Text) \subseteq Seq(Written) BY TextsAreWritten, WiderSeq
  <1>4. table.rows \in Seq(Seq(Written)) BY <1>1, <1>3, WiderSeq
  <1> QED BY <1>2, <1>4 DEF IsTable

LEMMA PairsAreWritten ==
    ASSUME NEW rows \in Seq({r \in Seq(Text) : Len(r) = 2}) PROVE IsTable(Pairs(rows))
  <1> DEFINE head == [i \in 1..2 |-> [ink |-> <<"column", 0, 0, i>>, kind |-> "plain"]]
             blank == [ink |-> <<"", 0, 0, 0>>, kind |-> "blank"]
             table == Pairs(rows)
  <1>1. table.caption = blank /\ table.columns = head /\ table.rows = rows BY DEF Pairs
  <1>2. blank \in Written BY DEF Written, Inks, Kinds
  <1>3. \A i \in 1..2 : [ink |-> <<"column", 0, 0, i>>, kind |-> "plain"] \in Written
    BY DEF Written, Inks, Kinds
  <1>4. head \in Seq(Written) /\ Len(head) = 2 BY <1>3
  <1> HIDE DEF head, blank, table
  <1>5. Seq(Text) \subseteq Seq(Written) BY TextsAreWritten, WiderSeq
  <1>6. {r \in Seq(Text) : Len(r) = 2} \subseteq Seq(Written) BY <1>5
  <1>7. rows \in Seq(Seq(Written)) BY <1>6, WiderSeq
  <1>8. \A i \in DOMAIN rows : Len(rows[i]) = 2 OBVIOUS
  <1>9. ValidTable(table) BY <1>1, <1>4, <1>8 DEF ValidTable
  <1> QED BY <1>1, <1>2, <1>4, <1>7, <1>9 DEF IsTable, table

LEMMA ModuleIsContent ==
    ASSUME NEW c \in Shape, NEW goals \in Seq(Goal), NEW refs \in Seq(Passages),
           Valid(With(goals, refs, c))
    PROVE  IsContent(With(goals, refs, c))
  <1> DEFINE m == With(goals, refs, c)
  <1>1. /\ m.objectives = goals /\ m.references = refs
        /\ m.text = c.text /\ m.lists = c.lists /\ m.assessment = c.assessment
        /\ m.pancasila = c.pancasila /\ m.glossary = c.glossary
        /\ m.meetings = c.meetings /\ m.overview = c.overview /\ m.rubric = c.rubric
        /\ m.reading = c.reading
    BY FieldsOfWith
  <1>2. Valid(m) OBVIOUS
  <1> HIDE DEF m
  <1>3. Seq(Text) \subseteq Seq(Written) BY TextsAreWritten, WiderSeq
  <1>4. \A n \in TextNames : m.text[n] \in Written
    BY <1>1, TextsAreWritten DEF Shape, TextNames
  <1>5. \A n \in ListNames : m.lists[n] \in Seq(Written) BY <1>1, <1>3 DEF Shape, ListNames
  <1>6. \A a \in AssessmentNames : m.assessment[a] \in Seq(Written)
    BY <1>1, <1>3 DEF Shape, AssessmentNames
  <1>7. IsTable(Pairs(m.pancasila)) /\ IsTable(Pairs(m.glossary))
    BY <1>1, PairsAreWritten DEF Shape
  <1>8. IsTable(m.overview) /\ IsTable(m.rubric)
    <2>1. m.overview \in Table /\ m.rubric \in Table BY <1>1 DEF Shape
    <2> QED BY <1>2, <2>1, TablesAreWritten DEF Valid
  <1>9. \E n \in Nat : /\ DOMAIN m.meetings = 1..n
                       /\ \A i \in 1..n : /\ m.meetings[i].number \in Int
                                          /\ m.meetings[i].title \in Written
                                          /\ IsTable(m.meetings[i].activities)
    <2> DEFINE n == Len(m.meetings)
               Meeting == [number : Int, title : Text, activities : Table]
    <2>1. m.meetings \in Seq(Meeting) BY <1>1 DEF Shape
    <2> HIDE DEF Meeting
    <2>2. n \in Nat /\ DOMAIN m.meetings = 1..n /\ \A i \in 1..n : m.meetings[i] \in Meeting
      BY <2>1
    <2>3. ASSUME NEW i \in 1..n
          PROVE  /\ m.meetings[i].number \in Int /\ m.meetings[i].title \in Written
                 /\ IsTable(m.meetings[i].activities)
      <3>1. m.meetings[i] \in [number : Int, title : Text, activities : Table]
        BY <2>2 DEF Meeting
      <3>2. ValidTable(m.meetings[i].activities) BY <1>2, <2>2 DEF Valid
      <3> QED BY <3>1, <3>2, TextsAreWritten, TablesAreWritten
    <2> QED BY <2>2, <2>3
  <1>10. m.reading \in Seq(Written) BY <1>1, <1>3 DEF Shape
  <1>11. /\ Objectives(m) \in Seq(Written)
         /\ Citations(m) \in [1..Len(Objectives(m)) -> Seq(Passages)]
    <2>0. \A i \in 1..Len(goals) : goals[i] \in Goal OBVIOUS
    <2>1. \A i \in 1..Len(goals) : /\ goals[i].text \in Written
                                   /\ goals[i].sources \in Seq(Passages)
      BY <2>0, TextsAreWritten DEF Goal
    <2>2. Objectives(m) = [i \in 1..Len(goals) |-> goals[i].text] BY <1>1 DEF Objectives
    <2>3. Citations(m) = [i \in 1..Len(goals) |-> goals[i].sources] BY <1>1 DEF Citations
    <2>4. Objectives(m) \in Seq(Written) /\ Len(Objectives(m)) = Len(goals)
      BY <2>1, <2>2
    <2> QED BY <2>1, <2>3, <2>4
  <1>12. m.references \in Seq(Passages) BY <1>1
  <1> QED BY <1>4, <1>5, <1>6, <1>7, <1>8, <1>9, <1>10, <1>11, <1>12 DEF IsContent, m

-----------------------------------------------------------------------------
(* What generation returns becomes a module with its references.           *)

LEMMA ObjectivesAreFinite ==
    ASSUME NEW S, \A o \in S : o \in [sources : SUBSET Passages, grounded : BOOLEAN]
    PROVE  IsFiniteSet(S)
  <1> DEFINE T == (SUBSET Passages) \X BOOLEAN
             f == [o \in S |-> <<o.sources, o.grounded>>]
  <1>1. IsFiniteSet(SUBSET Passages) BY PassagesAssumption, FS_SUBSET
  <1>2. IsFiniteSet(BOOLEAN)
    <2>1. IsFiniteSet({TRUE}) BY FS_Singleton
    <2>2. IsFiniteSet({TRUE} \cup {FALSE}) BY <2>1, FS_AddElement
    <2>3. {TRUE} \cup {FALSE} = BOOLEAN BY Zenon
    <2> QED BY <2>2, <2>3
  <1>3. IsFiniteSet(T) BY <1>1, <1>2, FS_Product
  <1>4. \A o \in S : /\ o.sources \in SUBSET Passages /\ o.grounded \in BOOLEAN
                     /\ o = [sources |-> o.sources, grounded |-> o.grounded]
    OBVIOUS
  <1>5. f \in [S -> T] BY <1>4
  <1>6. \A o, p \in S : f[o] = f[p] => o = p
    <2> TAKE o, p \in S
    <2> HAVE f[o] = f[p]
    <2>1. o.sources = p.sources /\ o.grounded = p.grounded OBVIOUS
    <2> QED BY <1>4, <2>1, Zenon
  <1> HIDE DEF T, f
  <1>7. f \in Injection(S, T) BY <1>5, <1>6 DEF Injection, IsInjective
  <1> QED BY <1>3, <1>7, FS_Injection

LEMMA ListingsAreSequences ==
    ASSUME NEW T, NEW S \in SUBSET T, IsFiniteSet(S), NEW q \in SetToSeqs(S)
    PROVE  q \in Seq(T) /\ \A i \in 1..Len(q) : q[i] \in S
  <1> DEFINE n == Cardinality(S)
  <1>1. n \in Nat BY FS_CardinalityType
  <1>2. q \in [1..n -> S] BY DEF SetToSeqs
  <1> HIDE DEF n
  <1> QED BY <1>1, <1>2

\* A cleaned answer in order: its objectives are typed, and cite what it cites.
LEMMA InOrderCitesTheSame ==
    ASSUME NEW a \in Module, Cleaned(a), NEW texts \in Seq(Text),
           NEW goals \in InOrder(a.objectives, texts)
    PROVE  /\ goals \in Seq(Goal)
           /\ \A i \in 1..Len(goals) :
                 ToSet(goals[i].sources) \subseteq UNION {o.sources : o \in a.objectives}
  <1> DEFINE S == a.objectives
  <1>1. PICK q \in SetToSeqs(S) :
           /\ Len(q) <= Len(texts)
           /\ \E cites \in {f \in [DOMAIN q -> UNION {SetToSeqs(o.sources) : o \in S}] :
                               \A i \in DOMAIN q : ToSet(f[i]) = q[i].sources} :
                 goals = [i \in DOMAIN q |-> [text |-> texts[i], sources |-> cites[i],
                                              grounded |-> q[i].grounded]]
    BY DEF InOrder
  <1>2. PICK cites \in [DOMAIN q -> UNION {SetToSeqs(o.sources) : o \in S}] :
           /\ \A i \in DOMAIN q : ToSet(cites[i]) = q[i].sources
           /\ goals = [i \in DOMAIN q |-> [text |-> texts[i], sources |-> cites[i],
                                           grounded |-> q[i].grounded]]
    BY <1>1
  <1>3. \A o \in S : o \in [sources : SUBSET Passages, grounded : BOOLEAN]
    BY DEF Module, Objective, Cleaned
  <1> HIDE DEF S
  <1>4. IsFiniteSet(S) BY <1>3, ObjectivesAreFinite
  <1>5. q \in Seq(S) /\ \A i \in 1..Len(q) : q[i] \in S BY <1>4, ListingsAreSequences
  <1> DEFINE n == Len(q)
  <1>6. n \in Nat /\ DOMAIN q = 1..n BY <1>5
  <1>7. ASSUME NEW i \in 1..n
        PROVE  [text |-> texts[i], sources |-> cites[i], grounded |-> q[i].grounded] \in Goal
    <2>1. PICK o \in S : cites[i] \in SetToSeqs(o.sources) BY <1>2, <1>6
    <2>2. o.sources \in SUBSET Passages BY <1>3
    <2>3. IsFiniteSet(o.sources) BY <2>2, PassagesAssumption, FS_Subset
    <2>4. cites[i] \in Seq(Passages) BY <2>1, <2>2, <2>3, ListingsAreSequences
    <2>5. i \in 1..Len(texts) BY <1>1, <1>6
    <2>6. texts[i] \in Text BY <2>5
    <2>7. q[i].grounded \in BOOLEAN BY <1>3, <1>5
    <2> QED BY <2>4, <2>6, <2>7 DEF Goal
  <1>8. goals = [i \in 1..n |-> [text |-> texts[i], sources |-> cites[i],
                                 grounded |-> q[i].grounded]]
    BY <1>2, <1>6
  <1>9. \A i \in 1..n : q[i] \in S /\ ToSet(cites[i]) = q[i].sources BY <1>2, <1>5, <1>6
  <1> HIDE DEF n
  <1>10. goals \in Seq(Goal) /\ Len(goals) = n BY <1>6, <1>7, <1>8
  <1>11. \A i \in 1..n : goals[i].sources = cites[i] BY <1>8
  <1> QED BY <1>9, <1>10, <1>11 DEF S

\* build_references lists what the objectives cite, and each of it once.
LEMMA OrderedListsOnce ==
    ASSUME NEW goals \in Seq(Goal), NEW ids,
           \A i \in 1..Len(goals) : ToSet(goals[i].sources) \subseteq ids
    PROVE  /\ Ordered(goals, ids) \in Seq(Passages)
           /\ IsInjective(Ordered(goals, ids))
           /\ ToSet(Ordered(goals, ids)) =
                 UNION {ToSet(goals[i].sources) : i \in 1..Len(goals)}
  <1> DEFINE s == [i \in 1..Len(goals) |-> goals[i].sources]
             cited == FlattenSeq(s)
             First(i) == cited[i] \in ids /\ \A j \in 1 .. i - 1 : cited[j] # cited[i]
  <1>1. s \in Seq(Seq(Passages)) /\ Len(s) = Len(goals)
    <2>1. \A i \in 1..Len(goals) : goals[i].sources \in Seq(Passages)
      <3>1. \A i \in 1..Len(goals) : goals[i] \in Goal OBVIOUS
      <3> QED BY <3>1 DEF Goal
    <2> QED BY <2>1
  <1>2. /\ cited \in Seq(Passages)
        /\ ToSet(cited) = UNION {ToSet(s[i]) : i \in 1..Len(s)}
    <2> HIDE DEF s
    <2> QED BY <1>1, FlattenMembers
  <1>3. ToSet(cited) = UNION {ToSet(goals[i].sources) : i \in 1..Len(goals)}
    <2>1. \A i \in 1..Len(goals) : s[i] = goals[i].sources OBVIOUS
    <2> HIDE DEF s, cited
    <2> QED BY <1>1, <1>2, <2>1
  <1>4. ToSet(cited) \subseteq ids BY <1>3
  <1>5. DOMAIN goals = 1..Len(goals) OBVIOUS
  <1> DEFINE n == Len(cited)
             p == [i \in DOMAIN cited |-> IF First(i) THEN <<cited[i]>> ELSE <<>>]
  <1>6. Ordered(goals, ids) = FlattenSeq(p) BY <1>5, Zenon DEF Ordered
  <1> HIDE DEF s, cited
  <1>7. n \in Nat /\ DOMAIN cited = 1..n /\ \A i \in 1..n : cited[i] \in Passages
    BY <1>2
  <1>8. \A i \in 1..n : cited[i] \in ids BY <1>4, <1>7 DEF ToSet
  <1> HIDE DEF n
  <1>9. p \in Seq(Seq(Passages)) /\ Len(p) = n BY <1>7
  <1>10. \A i \in 1..n : Len(p[i]) <= 1 BY <1>7
  <1>11. \A i, j \in 1..n : p[i] = p[j] /\ p[i] # <<>> => i = j
    <2> TAKE i, j \in 1..n
    <2> HAVE p[i] = p[j] /\ p[i] # <<>>
    <2>1. First(i) /\ First(j) /\ cited[i] = cited[j] BY <1>7
    <2>2. ~(i < j) /\ ~(j < i) BY <1>7, <2>1
    <2> QED BY <1>7, <2>2
  <1>12. UNION {ToSet(p[i]) : i \in 1..n} = ToSet(cited)
    <2>1. ASSUME NEW i \in 1..n PROVE ToSet(p[i]) \subseteq ToSet(cited)
      <3>1. CASE First(i) BY <1>7, <3>1 DEF ToSet
      <3>2. CASE ~First(i) BY <1>7, <3>2, NoMembers
      <3> QED BY <3>1, <3>2
    <2>2. ASSUME NEW k \in 1..n PROVE \E i \in 1..n : cited[k] \in ToSet(p[i])
      <3> DEFINE T == {j \in 1..n : cited[j] = cited[k]}
      <3>1. T \in SUBSET Nat /\ T # {} BY <1>7
      <3>2. PICK i \in T : \A j \in T : i <= j
        <4> HIDE DEF T
        <4> QED BY <3>1, LeastNumber
      <3>3. \A j \in 1 .. i - 1 : cited[j] # cited[i] BY <1>7, <3>2
      <3>4. First(i) BY <1>8, <3>2, <3>3
      <3>5. p[i] = <<cited[k]>> BY <1>7, <3>2, <3>4
      <3>6. i \in 1..n BY <3>2
      <3>7. cited[k] \in ToSet(p[i]) BY <3>5, OneMember
      <3> QED BY <3>6, <3>7
    <2> HIDE DEF p
    <2>3. ToSet(cited) = {cited[k] : k \in 1..n} BY <1>7 DEF ToSet
    <2>4. \A x \in ToSet(cited) : \E i \in 1..n : x \in ToSet(p[i])
      BY <2>2, <2>3, Zenon
    <2> QED BY <2>1, <2>4, Zenon
  <1> HIDE DEF p
  <1> QED BY <1>3, <1>6, <1>9, <1>10, <1>11, <1>12, FlattenMembers

-----------------------------------------------------------------------------
(* The invariant of the export.                                            *)

\* A module as the worker or update_content stores it.
StoredModule(m) ==
    \E c \in Shape, goals \in Seq(Goal), refs \in Seq(Passages) :
        m = With(goals, refs, c) /\ Valid(m)

CitedBy(m) == UNION {ToSet(m.objectives[i].sources) : i \in DOMAIN m.objectives}

\* Each passage that is cited is listed, once, and nothing else is.
ListsWhatItCites(m) ==
    IsInjective(m.references) /\ ToSet(m.references) = CitedBy(m)

\* What generation has returned is a cleaned module with its references.
ReturnedIsClean ==
    /\ content \in Module /\ Cleaned(content)
    /\ references = UNION {o.sources : o \in content.objectives}

\* An export is of the content as it is.
FilesAreCurrent ==
    /\ pdf = NotExported
       \/ \E raises \in BOOLEAN : pdf = Rendered(GenerateModulPdf(saved), raises)
    /\ docx = NotExported
       \/ \E raises \in BOOLEAN :
             /\ docx = Rendered(GenerateModulDocx(saved), raises)
             /\ raises => ~Free(GenerateModulDocx(saved), "noncharacter")

GenerationIs ==
    /\ stage \in {"first", "repair", "saved", "failed", "returned", "done"}
    /\ stage \notin {"returned", "done"} => IInv
    /\ CallsCounted
    /\ stage = "returned" => ReturnedIsClean
    /\ stage \in {"returned", "done"} => error = "none"

PlanIs ==
    /\ version = 1 => stage = "first" /\ docx = NotExported
    /\ version # 1 => version = 2 /\ (status = "completed" <=> stage = "done")
    /\ version = 2 /\ stage # "done" =>
          ~edited /\ pdf = NotExported /\ docx = NotExported
    /\ version = 2 /\ stage = "done" =>
          /\ StoredModule(saved) /\ FilesAreCurrent
          /\ ~edited => ListsWhatItCites(saved)

ExportIInv == GenerationIs /\ PlanIs

-----------------------------------------------------------------------------
(* What the two files of a stored module show.                             *)

\* The files but for the list of references: sources stand by a text, and are of S.
Quiet(z, S) ==
    /\ z \in Seq(Entries)
    /\ \A i \in 1..Len(z) : /\ z[i].marks # <<>> => z[i].texts # <<>>
                            /\ ToSet(z[i].marks) \subseteq S

LEMMA NoInk ==
    ASSUME NEW ts \in Seq(Written), NEW us \in Seq(Written), Ink(ts) = Ink(us), us = <<>>
    PROVE  ts = <<>>
  <1>1. DOMAIN Ink(ts) = 1..Len(ts) /\ DOMAIN Ink(us) = 1..Len(us) BY DEF Ink
  <1>2. 1..Len(ts) = {}
    <2>1. Len(us) = 0 BY Zenon
    <2> QED BY <1>1, <2>1
  <1>3. \A n \in Nat : 1..n = {} => n = 0
    <2> SUFFICES ASSUME NEW n \in Nat, 1..n = {}, n # 0 PROVE FALSE OBVIOUS
    <2>1. 1 \in 1..n OBVIOUS
    <2> QED BY <2>1
  <1>4. Len(ts) \in Nat OBVIOUS
  <1>5. Len(ts) = 0 BY <1>2, <1>3, <1>4, Zenon
  <1> QED BY <1>5

LEMMA AlikeIsQuiet ==
    ASSUME NEW S, NEW a, NEW b, Alike(a, b, S) PROVE Quiet(a, S) /\ Quiet(b, S)
  <1>1. a \in Seq(Entries) /\ b \in Seq(Entries) /\ Len(a) = Len(b) BY DEF Alike
  <1>2. ASSUME NEW i \in 1..Len(a)
        PROVE  /\ a[i].marks # <<>> => a[i].texts # <<>>
               /\ b[i].marks # <<>> => b[i].texts # <<>>
               /\ ToSet(a[i].marks) \subseteq S /\ ToSet(b[i].marks) \subseteq S
    <2>1. Same(a[i], b[i], S) BY DEF Alike
    <2>2. a[i] \in Entries /\ b[i] \in Entries BY <1>1
    <2>3. a[i].texts \in Seq(Written) /\ b[i].texts \in Seq(Written) BY <2>2 DEF Entries
    <2>4. b[i].texts = <<>> => a[i].texts = <<>> BY <2>1, <2>3, NoInk DEF Same
    <2> QED BY <2>1, <2>4 DEF Same
  <1> QED BY <1>1, <1>2 DEF Quiet

LEMMA ReferenceListIs ==
    ASSUME NEW c, IsContent(c)
    PROVE  LET t == ReferenceList(c)
               n == Len(c.references)
           IN  /\ t \in Seq(Entries) /\ Len(t) = IF n = 0 THEN 0 ELSE n + 1
               /\ \A i \in 1..Len(t) : t[i].texts = <<>>
               /\ \A i \in 1..Len(t) : \A id :
                     t[i].marks = <<id>> <=> (i # 1 /\ c.references[i - 1] = id)
  <1> DEFINE t == ReferenceList(c)  r == c.references  n == Len(r)
             lines == ReferenceLines(c)
             h == Entry("heading", <<"references", 0>>, <<>>)
  <1>1. r \in Seq(Passages) /\ n \in Nat BY DEF IsContent
  <1>2. t \in Seq(Entries) /\ lines \in Seq(Entries) /\ Len(lines) = n
        /\ \A i \in 1..n : lines[i] = ReferenceLine(r[i])
    BY ReferenceLinesAre
  <1>3. h.texts = <<>> /\ h.marks = <<>> BY DEF Entry
  <1>4. \A id : ReferenceLine(id).texts = <<>> /\ ReferenceLine(id).marks = <<id>>
    BY DEF ReferenceLine
  <1>5. CASE r = <<>>
    <2>1. t = <<>> BY <1>5 DEF ReferenceList, When
    <2> QED BY <1>5, <2>1
  <1>6. CASE r # <<>>
    <2>1. t = <<h>> \o lines BY <1>6 DEF ReferenceList, When, Heading
    <2>2. n # 0 BY <1>1, <1>6
    <2> HIDE DEF t, h, lines
    <2>3. Len(t) = n + 1 /\ t[1] = h /\ \A i \in 2..(n + 1) : t[i] = lines[i - 1]
      BY <1>1, <1>2, <2>1
    <2>4. \A i \in 2..(n + 1) : t[i] = ReferenceLine(r[i - 1])
      <3> TAKE i \in 2..(n + 1)
      <3>1. i - 1 \in 1..n BY <1>1
      <3> QED BY <1>2, <2>3, <3>1
    <2> HIDE DEF n, r
    <2>5. ASSUME NEW i \in 1..Len(t), NEW id
          PROVE  t[i].texts = <<>> /\ (t[i].marks = <<id>> <=> (i # 1 /\ r[i - 1] = id))
      <3>1. CASE i = 1
        <4>1. <<>> # <<id>> OBVIOUS
        <4> QED BY <1>3, <2>3, <3>1, <4>1
      <3>2. CASE i # 1
        <4>1. i \in 2..(n + 1) BY <1>1, <2>3, <3>2
        <4>2. <<r[i - 1]>> = <<id>> <=> r[i - 1] = id OBVIOUS
        <4> QED BY <1>4, <2>4, <3>2, <4>1, <4>2
      <3> QED BY <3>1, <3>2
    <2> QED BY <1>2, <2>2, <2>3, <2>5 DEF t, n, r
  <1> QED BY <1>5, <1>6

\* A file that cites only S, and has a line for what is listed, once if it is
\* listed once.
ListsReferences(x, refs, S) ==
    /\ Cites(x) \subseteq S
    /\ \A id : Lines(id, x) # {} => id \in ToSet(refs)
    /\ IsInjective(refs) => \A id \in ToSet(refs) : \E j : Lines(id, x) = {j}

\* The lines of the list are the only ones, and stand where the ids stand in it.
LEMMA LinesOfFile ==
    ASSUME NEW S, NEW z, Quiet(z, S), NEW c, IsContent(c)
    PROVE  ListsReferences(z \o ReferenceList(c), c.references, S)
  <1> DEFINE t == ReferenceList(c)  r == c.references  n == Len(r)
             x == z \o t  k == Len(z)
  <1>1. r \in Seq(Passages) /\ n \in Nat BY DEF IsContent
  <1>2. /\ t \in Seq(Entries) /\ Len(t) = IF n = 0 THEN 0 ELSE n + 1
        /\ \A i \in 1..Len(t) : t[i].texts = <<>>
        /\ \A i \in 1..Len(t) : \A id : t[i].marks = <<id>> <=> (i # 1 /\ r[i - 1] = id)
    <2>1. /\ t \in Seq(Entries) /\ Len(t) = IF n = 0 THEN 0 ELSE n + 1
          /\ \A i \in 1..Len(t) : t[i].texts = <<>>
      BY ReferenceListIs
    <2>2. \A i \in 1..Len(t) : \A id : t[i].marks = <<id>> <=> (i # 1 /\ r[i - 1] = id)
      BY ReferenceListIs
    <2> QED BY <2>1, <2>2, Zenon
  <1>3. z \in Seq(Entries) /\ k \in Nat BY DEF Quiet
  <1> DEFINE m == Len(t)
  <1> HIDE DEF t, r
  <1>4. m \in Nat BY <1>2
  <1>5. /\ x \in Seq(Entries) /\ Len(x) = k + m
        /\ \A i \in 1..k : x[i] = z[i]
        /\ \A i \in (k + 1)..(k + m) : x[i] = t[i - k]
    BY <1>2, <1>3
  <1>6. \A i \in 1..k : /\ z[i].marks # <<>> => z[i].texts # <<>>
                        /\ ToSet(z[i].marks) \subseteq S
    BY DEF Quiet
  <1> HIDE DEF x, k, m, n
  <1>7. DOMAIN x = 1..(k + m) BY <1>5
  <1>8. ASSUME NEW id, NEW i \in DOMAIN x
        PROVE  i \in Lines(id, x) <=> (i - k \in 2..m /\ r[i - k - 1] = id)
    <2>1. CASE i \in 1..k
      <3>1. <<>> # <<id>> OBVIOUS
      <3>2. i \notin Lines(id, x) BY <1>5, <1>6, <2>1, <3>1 DEF Lines
      <3>3. i - k \notin 2..m BY <1>3, <1>4, <2>1
      <3> QED BY <3>2, <3>3
    <2>2. CASE i \notin 1..k
      <3>1. i \in (k + 1)..(k + m) /\ i - k \in 1..m BY <1>3, <1>4, <1>7, <2>2
      <3>2. x[i] = t[i - k] BY <1>5, <3>1
      <3>3. x[i].texts = <<>> /\ (x[i].marks = <<id>> <=> (i - k # 1 /\ r[i - k - 1] = id))
        <4> DEFINE j == i - k
        <4>1. \A q \in 1..m : /\ t[q].texts = <<>>
                              /\ t[q].marks = <<id>> <=> (q # 1 /\ r[q - 1] = id)
          BY <1>2 DEF m
        <4>2. j \in 1..m /\ x[i] = t[j] BY <3>1, <3>2
        <4> HIDE DEF j
        <4>3. x[i].texts = <<>> /\ (x[i].marks = <<id>> <=> (j # 1 /\ r[j - 1] = id))
          BY <4>1, <4>2
        <4> QED BY <4>3 DEF j
      <3>4. i - k # 1 <=> i - k \in 2..m BY <1>4, <3>1
      <3> QED BY <3>3, <3>4 DEF Lines
    <2> QED BY <2>1, <2>2
  <1>9. \A id : Lines(id, x) \subseteq DOMAIN x BY DEF Lines
  <1>10. m = IF n = 0 THEN 0 ELSE n + 1 BY <1>2 DEF m
  <1>11. DOMAIN r = 1..n BY <1>1 DEF n
  <1>12. Cites(x) \subseteq S
    <2>1. ASSUME NEW i \in DOMAIN x, x[i].texts # <<>> PROVE ToSet(x[i].marks) \subseteq S
      <3>1. i \in 1..k
        <4> SUFFICES ASSUME i \notin 1..k PROVE FALSE OBVIOUS
        <4>1. i \in (k + 1)..(k + m) /\ i - k \in 1..m BY <1>3, <1>4, <1>7
        <4> QED BY <1>2, <1>5, <2>1, <4>1 DEF m
      <3> QED BY <1>5, <1>6, <3>1
    <2> QED BY <2>1 DEF Cites, ToSet
  <1>13. ASSUME NEW id, Lines(id, x) # {} PROVE id \in ToSet(r)
    <2>1. PICK i \in DOMAIN x : i - k \in 2..m /\ r[i - k - 1] = id BY <1>8, <1>9, <1>13
    <2>2. i - k - 1 \in 1..n BY <1>1, <1>3, <1>7, <1>10, <2>1
    <2> QED BY <1>11, <2>1, <2>2 DEF ToSet
  <1>14. ASSUME IsInjective(r), NEW id \in ToSet(r) PROVE \E j : Lines(id, x) = {j}
    <2>1. PICK q \in 1..n : r[q] = id BY <1>11 DEF ToSet
    <2> DEFINE j == k + q + 1
    <2>2. j \in DOMAIN x /\ j - k \in 2..m /\ j - k - 1 = q BY <1>1, <1>3, <1>7, <1>10
    <2>3. j \in Lines(id, x) BY <1>8, <2>1, <2>2
    <2>4. ASSUME NEW i \in Lines(id, x) PROVE i = j
      <3>1. i \in DOMAIN x /\ i - k \in 2..m /\ r[i - k - 1] = id BY <1>8, <1>9
      <3>2. i - k - 1 \in 1..n BY <1>1, <1>3, <1>7, <1>10, <3>1
      <3>3. i - k - 1 = q BY <1>11, <1>14, <2>1, <3>1, <3>2 DEF IsInjective
      <3> QED BY <1>3, <1>7, <3>1, <3>3
    <2> HIDE DEF j
    <2>5. Lines(id, x) = {j} BY <2>3, <2>4
    <2> QED BY <2>5
  <1>15. ListsReferences(x, r, S)
    <2>1. IsInjective(r) => \A id \in ToSet(r) : \E j : Lines(id, x) = {j} BY <1>14
    <2> QED BY <1>12, <1>13, <2>1 DEF ListsReferences
  <1> QED BY <1>15 DEF x, t, r

\* Files that begin alike and end with the same list.
LEMMA SameReading ==
    ASSUME NEW S, NEW a, NEW b, Alike(a, b, S), NEW t \in Seq(Entries)
    PROVE  Reading(a \o t) = Reading(b \o t)
  <1> DEFINE x == a \o t  y == b \o t  k == Len(a)  m == Len(t)
             entry(e) == <<e.style, e.label, Ink(e.texts), e.marks>>
  <1>1. a \in Seq(Entries) /\ b \in Seq(Entries) /\ Len(b) = k /\ k \in Nat /\ m \in Nat
    BY DEF Alike
  <1>2. \A i \in 1..k : Same(a[i], b[i], S) BY DEF Alike
  <1>3. /\ DOMAIN x = 1..(k + m)
        /\ \A i \in 1..k : x[i] = a[i]
        /\ \A i \in (k + 1)..(k + m) : x[i] = t[i - k]
    BY <1>1
  <1>4. /\ DOMAIN y = 1..(k + m)
        /\ \A i \in 1..k : y[i] = b[i]
        /\ \A i \in (k + 1)..(k + m) : y[i] = t[i - k]
    BY <1>1
  <1> HIDE DEF x, y, k, m
  <1>5. ASSUME NEW i \in 1..(k + m) PROVE entry(x[i]) = entry(y[i])
    <2>1. CASE i \in 1..k BY <1>2, <1>3, <1>4, <2>1 DEF Same
    <2>2. CASE i \notin 1..k
      <3>1. i \in (k + 1)..(k + m) BY <1>1, <2>2
      <3> QED BY <1>3, <1>4, <3>1
    <2> QED BY <2>1, <2>2
  <1>6. Reading(x) = [i \in 1..(k + m) |-> entry(x[i])]
        /\ Reading(y) = [i \in 1..(k + m) |-> entry(y[i])]
    BY <1>3, <1>4 DEF Reading
  <1> HIDE DEF entry
  <1>7. Reading(x) = Reading(y) BY <1>5, <1>6
  <1> QED BY <1>7 DEF x, y

LEMMA NothingRaises ==
    ASSUME NEW S, NEW a, NEW b, Alike(a, b, S), NEW c, IsContent(c)
    PROVE  Free(b \o ReferenceList(c), "control")
  <1> DEFINE t == ReferenceList(c)
  <1>1. t \in Seq(Entries) /\ \A i \in 1..Len(t) : t[i].texts = <<>> BY ReferenceListIs
  <1>2. /\ b \in Seq(Entries) /\ Len(b) = Len(a) /\ \A i \in 1..Len(b) : Same(a[i], b[i], S)
    BY DEF Alike
  <1> HIDE DEF t
  <1>3. ToSet(b \o t) = ToSet(b) \cup ToSet(t) BY <1>1, <1>2, MembersOfJoin
  <1>4. ASSUME NEW e \in ToSet(b), NEW u \in ToSet(e.texts) PROVE u.kind # "control"
    <2>1. PICK i \in 1..Len(b) : e = b[i] BY <1>2 DEF ToSet
    <2>2. Writable(e.texts) BY <1>2, <2>1 DEF Same
    <2> QED BY <2>2 DEF Writable, ToSet
  <1>5. ASSUME NEW e \in ToSet(t) PROVE ToSet(e.texts) = {}
    <2>1. e.texts = <<>> BY <1>1 DEF ToSet
    <2> QED BY <2>1, NoMembers
  <1>6. Free(b \o t, "control") BY <1>3, <1>4, <1>5 DEF Free
  <1> QED BY <1>6 DEF t

\* What is stored is exported, to both formats, and reads the same in them; what
\* they cite is what the objectives cite, and their lists are the references.
LEMMA StoredModulesExport ==
    ASSUME NEW c, StoredModule(c)
    PROVE  LET x == GenerateModulPdf(c)
               y == GenerateModulDocx(c)
           IN  /\ Reading(x) = Reading(y) /\ Free(y, "control")
               /\ ListsWhatItCites(c) =>
                    \A file \in {x, y} :
                       /\ \A id \in Cites(file) :
                             id \in Passages /\ Cardinality(Lines(id, file)) = 1
                       /\ \A id : Lines(id, file) # {} => id \in CitedBy(c)
  <1> DEFINE S == CitedBy(c)  t == ReferenceList(c)
             x == GenerateModulPdf(c)  y == GenerateModulDocx(c)
  <1>1. PICK shape \in Shape, goals \in Seq(Goal), refs \in Seq(Passages) :
            c = With(goals, refs, shape) /\ Valid(c)
    BY DEF StoredModule
  <1>2. IsContent(c) BY <1>1, ModuleIsContent
  <1>3. c.references \in Seq(Passages) BY <1>2 DEF IsContent
  <1>4. \A i \in DOMAIN Citations(c) : ToSet(Citations(c)[i]) \subseteq S
    BY DEF Citations, CitedBy
  <1> HIDE DEF S
  <1>5. PICK a, b : Alike(a, b, S) /\ x = a \o t /\ y = b \o t BY <1>2, <1>4, ModulAlike
  <1>6. t \in Seq(Entries) BY <1>2, ReferenceLinesAre
  <1>7. Reading(x) = Reading(y) /\ Free(y, "control")
    BY <1>2, <1>5, <1>6, SameReading, NothingRaises
  <1>8. ASSUME ListsWhatItCites(c), NEW z, Quiet(z, S)
        PROVE  /\ \A id \in Cites(z \o t) :
                     id \in Passages /\ Cardinality(Lines(id, z \o t)) = 1
               /\ \A id : Lines(id, z \o t) # {} => id \in S
    <2>1. IsInjective(c.references) /\ ToSet(c.references) = S
      BY <1>8 DEF ListsWhatItCites, S
    <2>2. ToSet(c.references) \subseteq Passages BY <1>3 DEF ToSet
    <2>3. /\ Cites(z \o t) \subseteq S
          /\ \A id : Lines(id, z \o t) # {} => id \in ToSet(c.references)
          /\ \A id \in ToSet(c.references) : \E j : Lines(id, z \o t) = {j}
      <3>1. ListsReferences(z \o t, c.references, S) BY <1>2, <1>8, LinesOfFile
      <3> QED BY <2>1, <3>1 DEF ListsReferences
    <2>4. \A j : Cardinality({j}) = 1 BY FS_Singleton
    <2> HIDE DEF t
    <2> QED BY <2>1, <2>2, <2>3, <2>4
  <1>9. Quiet(a, S) /\ Quiet(b, S) BY <1>5, AlikeIsQuiet
  <1> HIDE DEF t, x, y
  <1> QED BY <1>5, <1>7, <1>8, <1>9 DEF x, y, S

-----------------------------------------------------------------------------
(* The steps.                                                              *)

LEMMA ExportInitInv == ExportInit => ExportIInv
  <1> SUFFICES ASSUME ExportInit PROVE ExportIInv
    OBVIOUS
  <1>1. Init /\ stage = "first" BY DEF ExportInit, Init
  <1>2. GenerationIs BY <1>1, InitInv, InitCalls DEF GenerationIs
  <1>3. PlanIs BY <1>1 DEF ExportInit, PlanIs
  <1> QED BY <1>2, <1>3 DEF ExportIInv

\* A step of generation comes before its result.
LEMMA NextIsBeforeTheEnd == Next => stage \in {"first", "repair"}
  BY DEF Next, TransientError, OtherError, StageError, Unusable, Respond, Waiting,
         FirstAnswer, RepairAnswer

LEMMA StepGenerate == ASSUME ExportIInv, Generate PROVE ExportIInv'
  <1>1. version = 2 /\ Next /\ stage \in {"first", "repair"}
        /\ UNCHANGED <<planVars, fileVars>>
    BY NextIsBeforeTheEnd DEF Generate
  <1>2. IInv BY <1>1 DEF ExportIInv, GenerationIs
  <1>3. IInv' BY <1>1, <1>2, StepInv
  <1>4. stage' \in {"first", "repair", "saved", "failed"} BY <1>3 DEF IInv, TypeOK
  <1>5. GenerationIs'
    <2>1. CallsCounted' BY <1>1, <1>2, StepCalls DEF ExportIInv, GenerationIs
    <2> QED BY <1>3, <1>4, <2>1 DEF GenerationIs
  <1>6. PlanIs' BY <1>1, <1>4 DEF ExportIInv, PlanIs, planVars, fileVars
  <1> QED BY <1>5, <1>6 DEF ExportIInv

LEMMA StepReturn == ASSUME ExportIInv, Return PROVE ExportIInv'
  <1>1. stage = "saved" /\ stage' = "returned"
        /\ UNCHANGED <<content, references, warnings, error, planVars, fileVars>>
    BY DEF Return
  <1>2. IInv BY <1>1 DEF ExportIInv, GenerationIs
  <1>3. ReturnedIsClean
    <2>1. content \in Module BY <1>1, <1>2 DEF IInv, TypeOK, StageTells
    <2>2. Cleaned(content) BY <1>1, <1>2 DEF IInv, CitationsReal, SavedIsGrounded, Cleaned
    <2>3. references = UNION {o.sources : o \in content.objectives}
      BY <1>1, <1>2 DEF IInv, CitationsReal
    <2> QED BY <2>1, <2>2, <2>3 DEF ReturnedIsClean
  <1>4. ReturnedIsClean' BY <1>1, <1>3 DEF ReturnedIsClean, Cleaned
  <1>5. error' = "none" BY <1>1, <1>2 DEF IInv, StageTells
  <1>6. GenerationIs'
    <2>1. CallsCounted' BY AttemptsAssumption, <1>1 DEF Return, CallsCounted, CallsBounded
    <2> QED BY <1>1, <1>4, <1>5, <2>1 DEF GenerationIs
  <1>7. PlanIs' BY <1>1 DEF ExportIInv, PlanIs, planVars, fileVars
  <1> QED BY <1>6, <1>7 DEF ExportIInv

LEMMA StepComplete == ASSUME ExportIInv, Complete PROVE ExportIInv'
  <1>1. /\ stage = "returned" /\ stage' = "done" /\ status' = "completed"
        /\ UNCHANGED <<error, version, edited, fileVars>>
    BY DEF Complete
  <1>2. ReturnedIsClean /\ error = "none" BY <1>1 DEF ExportIInv, GenerationIs
  <1>3. version = 2 /\ ~edited /\ pdf = NotExported /\ docx = NotExported
    BY <1>1 DEF ExportIInv, PlanIs
  <1>4. PICK c \in Shapes : \E goals \in InOrder(content.objectives, c.goals) :
             saved' = With(goals, Ordered(goals, references), c)
    BY DEF Complete
  <1>5. PICK goals \in InOrder(content.objectives, c.goals) :
            saved' = With(goals, Ordered(goals, references), c)
    BY <1>4
  <1>6. c \in Shape /\ Valid(c) BY ShapesAssumption
  <1>7. c.goals \in Seq(Text) BY <1>6 DEF Shape
  <1>8. /\ goals \in Seq(Goal)
        /\ \A i \in 1..Len(goals) : ToSet(goals[i].sources) \subseteq references
    BY <1>2, <1>5, <1>7, InOrderCitesTheSame DEF ReturnedIsClean
  <1> DEFINE refs == Ordered(goals, references)
  <1>9. /\ refs \in Seq(Passages) /\ IsInjective(refs)
        /\ ToSet(refs) = UNION {ToSet(goals[i].sources) : i \in 1..Len(goals)}
    BY <1>8, OrderedListsOnce
  <1> HIDE DEF refs
  <1>10. /\ saved' = With(goals, refs, c)
        /\ saved'.objectives = goals /\ saved'.references = refs
        /\ saved'.meetings = c.meetings
        /\ saved'.overview = c.overview /\ saved'.rubric = c.rubric
    BY <1>5, <1>6, FieldsOfWith DEF refs
  <1>11. Valid(saved') BY <1>6, <1>10 DEF Valid
  <1>12. StoredModule(saved') BY <1>6, <1>8, <1>9, <1>10, <1>11 DEF StoredModule
  <1>13. ListsWhatItCites(saved')
    <2>1. DOMAIN goals = 1..Len(goals) BY <1>8
    <2> QED BY <1>9, <1>10, <2>1 DEF ListsWhatItCites, CitedBy
  <1>14. FilesAreCurrent' BY <1>1, <1>3 DEF FilesAreCurrent, fileVars
  <1>15. GenerationIs'
    <2>1. CallsCounted' BY <1>1 DEF Complete, ExportIInv, GenerationIs, CallsCounted,
                                    CallsBounded
    <2> QED BY <1>1, <1>2, <2>1 DEF GenerationIs
  <1>16. PlanIs' BY <1>1, <1>3, <1>12, <1>13, <1>14 DEF PlanIs
  <1> QED BY <1>15, <1>16 DEF ExportIInv

\* What is not of generation leaves its part of the invariant alone.
LEMMA GenerationUnchanged == ASSUME GenerationIs, UNCHANGED vars PROVE GenerationIs'
  BY DEF vars, GenerationIs, ReturnedIsClean, IInv, TypeOK, FirstIsClean, StageTells,
         CitationsReal, SavedIsGrounded, Waiting, Cleaned, CallsCounted, CallsBounded

LEMMA StepUpdate ==
    ASSUME ExportIInv, status = "completed", NEW c \in Sent, UpdateContent(c)
    PROVE  ExportIInv'
  <1>1. /\ saved' = c /\ edited' = TRUE /\ (version = 2 => Valid(c))
        /\ pdf' = NotExported /\ docx' = NotExported
        /\ UNCHANGED <<vars, version, status>>
    BY DEF UpdateContent
  <1>2. GenerationIs' BY <1>1, GenerationUnchanged DEF ExportIInv
  <1>3. UNCHANGED stage BY <1>1 DEF vars
  <1>4. CASE version = 1 BY <1>1, <1>2, <1>3, <1>4 DEF ExportIInv, PlanIs
  <1>5. CASE version # 1
    <2>1. version = 2 /\ stage = "done" /\ StoredModule(saved)
      BY <1>5 DEF ExportIInv, PlanIs
    <2>2. PICK r \in {saved.references, <<>>}, e \in EditedShapes :
              c = With(saved.objectives, r, e)
      BY <2>1, <1>5 DEF Sent
    <2>3. e \in Shape BY ShapesAssumption
    <2>4. saved.objectives \in Seq(Goal) /\ r \in Seq(Passages)
      <3>1. PICK shape \in Shape, goals \in Seq(Goal), refs \in Seq(Passages) :
                saved = With(goals, refs, shape)
        BY <2>1 DEF StoredModule
      <3>2. saved.objectives = goals /\ saved.references = refs BY <3>1, FieldsOfWith
      <3>3. <<>> \in Seq(Passages) OBVIOUS
      <3> QED BY <2>2, <3>2, <3>3
    <2>5. StoredModule(saved') BY <1>1, <2>1, <2>2, <2>3, <2>4 DEF StoredModule
    <2>6. FilesAreCurrent' BY <1>1 DEF FilesAreCurrent
    <2>7. PlanIs' BY <1>1, <1>3, <2>1, <2>5, <2>6 DEF ExportIInv, PlanIs
    <2> QED BY <1>2, <2>7 DEF ExportIInv
  <1> QED BY <1>2, <1>4, <1>5 DEF ExportIInv, PlanIs

LEMMA StepExportPdf == ASSUME ExportIInv, ExportPdf PROVE ExportIInv'
  <1>1. status = "completed" /\ UNCHANGED <<vars, planVars, docx>>
    BY DEF ExportPdf, Exportable
  <1>2. GenerationIs' BY <1>1, GenerationUnchanged DEF ExportIInv
  <1>3. UNCHANGED <<stage, version, status, saved, edited, docx>>
    BY <1>1 DEF vars, planVars
  <1>4. CASE version = 1
    <2>1. PlanIs' BY <1>3, <1>4 DEF ExportIInv, PlanIs
    <2> QED BY <1>2, <2>1 DEF ExportIInv
  <1>5. CASE version # 1
    <2>1. version = 2 /\ stage = "done" BY <1>1, <1>5 DEF ExportIInv, PlanIs
    <2>2. \E raises \in BOOLEAN : pdf' = Rendered(GenerateModulPdf(saved), raises)
      BY <2>1 DEF ExportPdf
    <2>3. FilesAreCurrent' BY <1>3, <2>1, <2>2 DEF ExportIInv, PlanIs, FilesAreCurrent
    <2>4. PlanIs' BY <1>3, <2>1, <2>3 DEF ExportIInv, PlanIs
    <2> QED BY <1>2, <2>4 DEF ExportIInv
  <1> QED BY <1>4, <1>5

LEMMA StepExportDocx == ASSUME ExportIInv, ExportDocx PROVE ExportIInv'
  <1>1. version = 2 /\ status = "completed" /\ UNCHANGED <<vars, planVars, pdf>>
    BY DEF ExportDocx, Exportable
  <1>2. GenerationIs' BY <1>1, GenerationUnchanged DEF ExportIInv
  <1>3. UNCHANGED <<stage, version, status, saved, edited, pdf>>
    BY <1>1 DEF vars, planVars
  <1>4. stage = "done" /\ StoredModule(saved) BY <1>1 DEF ExportIInv, PlanIs
  <1>5. Free(GenerateModulDocx(saved), "control") BY <1>4, StoredModulesExport
  <1> DEFINE y == GenerateModulDocx(saved)  raised == ~Free(y, "noncharacter")
  <1>6. docx' = Rendered(y, raised) /\ raised \in BOOLEAN
    <2>1. raised = ~(Free(y, "control") /\ Free(y, "noncharacter")) BY <1>5, Zenon
    <2>2. docx' = Rendered(y, ~(Free(y, "control") /\ Free(y, "noncharacter")))
      BY DEF ExportDocx
    <2>3. raised \in BOOLEAN BY Zenon
    <2> QED BY <2>1, <2>2, <2>3, Zenon
  <1>7. FilesAreCurrent' BY <1>1, <1>3, <1>4, <1>6 DEF ExportIInv, PlanIs, FilesAreCurrent
  <1>8. PlanIs' BY <1>1, <1>3, <1>4, <1>7 DEF ExportIInv, PlanIs
  <1> QED BY <1>2, <1>8 DEF ExportIInv

LEMMA ExportStepInv == ASSUME ExportIInv, [ExportNext]_exportVars PROVE ExportIInv'
  <1>1. ASSUME UNCHANGED exportVars PROVE ExportIInv'
    <2>1. UNCHANGED vars /\ UNCHANGED <<planVars, fileVars>> BY <1>1 DEF exportVars
    <2>2. GenerationIs' BY <2>1, GenerationUnchanged DEF ExportIInv
    <2>3. PlanIs' BY <2>1 DEF ExportIInv, PlanIs, FilesAreCurrent, vars, planVars, fileVars
    <2> QED BY <2>2, <2>3 DEF ExportIInv
  <1>2. ASSUME status = "completed", \E c \in Sent : UpdateContent(c) PROVE ExportIInv'
    BY <1>2, StepUpdate
  <1> QED BY <1>1, <1>2, StepGenerate, StepReturn, StepComplete, StepExportPdf,
             StepExportDocx DEF ExportNext

LEMMA ExportInvariant == ExportSpec => []ExportIInv
  BY ExportInitInv, ExportStepInv, PTL DEF ExportSpec

-----------------------------------------------------------------------------
(* What a file shows, and where.                                           *)

\* The texts that a file shows in more places than one, or that the code names.
Shared(ink) == ink[1] \in {"topic", "model", "column", ""}

Has(z, ink) == \E i \in DOMAIN z : \E j \in DOMAIN z[i].texts : z[i].texts[j].ink = ink

\* No text that is not shared stands in two places.
Distinct(z) ==
    \A i, p \in DOMAIN z : \A j \in DOMAIN z[i].texts : \A q \in DOMAIN z[p].texts :
        z[i].texts[j].ink = z[p].texts[q].ink /\ ~Shared(z[i].texts[j].ink) =>
            i = p /\ j = q

\* The entries show all of D that is not blank, nothing twice, and nothing but N.
Shows(z, D, N) ==
    /\ z \in Seq(Entries) /\ Distinct(z)
    /\ \A i \in DOMAIN z : \A j \in DOMAIN z[i].texts :
          z[i].texts[j].ink \in N \/ Shared(z[i].texts[j].ink)
    /\ \A t \in D : Blank(t) \/ Has(z, t.ink)

\* What may be shared is not told apart.
Apart(M, N) == \A ink \in M \cap N : Shared(ink)

LEMMA ShowsLess ==
    ASSUME NEW z, NEW D, NEW E, NEW M, NEW N, Shows(z, D, M),
           \A t \in E : t \in D \/ Blank(t), M \subseteq N
    PROVE  Shows(z, E, N)
  BY DEF Shows

LEMMA NothingShows == ASSUME NEW N PROVE Shows(<<>>, {}, N)
  BY DEF Shows, Distinct

LEMMA HasMore ==
    ASSUME NEW a \in Seq(Entries), NEW b \in Seq(Entries), NEW ink
    PROVE  Has(a \o b, ink) <=> Has(a, ink) \/ Has(b, ink)
  <1> DEFINE m == Len(a)  n == Len(b)  x == a \o b
             Hits(e) == \E j \in DOMAIN e.texts : e.texts[j].ink = ink
  <1>1. /\ m \in Nat /\ n \in Nat /\ DOMAIN x = 1..(m + n)
        /\ \A i \in 1..m : x[i] = a[i]
        /\ \A i \in (m + 1)..(m + n) : x[i] = b[i - m]
        /\ DOMAIN a = 1..m /\ DOMAIN b = 1..n
    OBVIOUS
  <1>2. \A z : Has(z, ink) <=> \E i \in DOMAIN z : Hits(z[i]) BY Zenon DEF Has
  <1> HIDE DEF m, n, x, Hits
  <1>3. ASSUME NEW i \in 1..(m + n), Hits(x[i])
        PROVE  (\E k \in 1..m : Hits(a[k])) \/ (\E k \in 1..n : Hits(b[k]))
    <2>1. CASE i \in 1..m BY <1>1, <1>3, <2>1
    <2>2. CASE i \notin 1..m
      <3>1. i \in (m + 1)..(m + n) /\ i - m \in 1..n BY <1>1, <2>2
      <3> QED BY <1>1, <1>3, <3>1
    <2> QED BY <2>1, <2>2
  <1>4. ASSUME NEW k \in 1..m, Hits(a[k]) PROVE \E i \in 1..(m + n) : Hits(x[i])
    <2>1. k \in 1..(m + n) BY <1>1
    <2> QED BY <1>1, <1>4, <2>1
  <1>5. ASSUME NEW k \in 1..n, Hits(b[k]) PROVE \E i \in 1..(m + n) : Hits(x[i])
    <2>1. k + m \in 1..(m + n) /\ k + m \in (m + 1)..(m + n) /\ (k + m) - m = k BY <1>1
    <2>2. x[k + m] = b[k] BY <1>1, <2>1
    <2> QED BY <1>5, <2>1, <2>2
  <1>6. Has(x, ink) <=> Has(a, ink) \/ Has(b, ink) BY <1>1, <1>2, <1>3, <1>4, <1>5
  <1> QED BY <1>6 DEF x

LEMMA JoinShows ==
    ASSUME NEW a, NEW b, NEW D, NEW E, NEW M, NEW N,
           Shows(a, D, M), Shows(b, E, N), Apart(M, N)
    PROVE  Shows(a \o b, D \cup E, M \cup N)
  <1> DEFINE m == Len(a)  n == Len(b)  x == a \o b
  <1>0. a \in Seq(Entries) /\ b \in Seq(Entries) BY DEF Shows
  <1>1. /\ m \in Nat /\ n \in Nat /\ DOMAIN x = 1..(m + n) /\ x \in Seq(Entries)
        /\ \A i \in 1..m : x[i] = a[i]
        /\ \A i \in (m + 1)..(m + n) : x[i] = b[i - m]
        /\ DOMAIN a = 1..m /\ DOMAIN b = 1..n
    BY <1>0
  <1>2. \A t \in D \cup E : Blank(t) \/ Has(x, t.ink)
    <2>1. \A ink : Has(x, ink) <=> Has(a, ink) \/ Has(b, ink) BY <1>0, HasMore
    <2> HIDE DEF x
    <2> QED BY <2>1 DEF Shows
  <1> HIDE DEF m, n, x
  <1>3. \A i \in 1..(m + n) :
           \/ i \in 1..m /\ x[i] = a[i]
           \/ i \notin 1..m /\ i - m \in 1..n /\ x[i] = b[i - m]
    <2> TAKE i \in 1..(m + n)
    <2>1. i \notin 1..m => i \in (m + 1)..(m + n) /\ i - m \in 1..n BY <1>1
    <2> QED BY <1>1, <2>1
  <1>4. /\ \A k \in 1..m : \A j \in DOMAIN a[k].texts :
              a[k].texts[j].ink \in M \/ Shared(a[k].texts[j].ink)
        /\ \A k \in 1..n : \A j \in DOMAIN b[k].texts :
              b[k].texts[j].ink \in N \/ Shared(b[k].texts[j].ink)
    BY <1>1 DEF Shows
  <1>5. \A i \in 1..(m + n) : \A j \in DOMAIN x[i].texts :
           /\ i \in 1..m => x[i].texts[j].ink \in M \/ Shared(x[i].texts[j].ink)
           /\ i \notin 1..m => x[i].texts[j].ink \in N \/ Shared(x[i].texts[j].ink)
    BY <1>3, <1>4
  <1>6. ASSUME NEW i \in 1..(m + n), NEW p \in 1..(m + n),
               NEW j \in DOMAIN x[i].texts, NEW q \in DOMAIN x[p].texts,
               x[i].texts[j].ink = x[p].texts[q].ink, ~Shared(x[i].texts[j].ink)
        PROVE  i = p /\ j = q
    <2>1. i \in 1..m <=> p \in 1..m BY <1>5, <1>6 DEF Apart
    <2>2. CASE i \in 1..m
      <3>1. p \in 1..m /\ x[i] = a[i] /\ x[p] = a[p] BY <1>1, <2>1, <2>2
      <3>2. Distinct(a) BY DEF Shows
      <3> QED BY <1>1, <1>6, <2>2, <3>1, <3>2 DEF Distinct
    <2>3. CASE i \notin 1..m
      <3>1. /\ i - m \in 1..n /\ p - m \in 1..n
            /\ x[i] = b[i - m] /\ x[p] = b[p - m]
        BY <1>3, <2>1, <2>3
      <3>2. Distinct(b) BY DEF Shows
      <3> DEFINE k == i - m  r == p - m
      <3>3. k \in DOMAIN b /\ r \in DOMAIN b /\ x[i] = b[k] /\ x[p] = b[r]
        BY <1>1, <3>1
      <3> HIDE DEF k, r
      <3>4. k = r /\ j = q BY <1>6, <3>2, <3>3 DEF Distinct
      <3> QED BY <1>1, <3>4 DEF k, r
    <2> QED BY <2>2, <2>3
  <1>7. Distinct(x) BY <1>1, <1>6 DEF Distinct
  <1>8. Shows(x, D \cup E, M \cup N) BY <1>1, <1>2, <1>5, <1>7 DEF Shows
  <1> QED BY <1>8 DEF x

AllOf(F, n) == UNION {F[i] : i \in 1..n}

LEMMA InAllOf ==
    ASSUME NEW F, NEW n PROVE \A x : x \in AllOf(F, n) <=> \E i \in 1..n : x \in F[i]
  BY DEF AllOf

\* Of parts that are told apart.
LEMMA FlattenShows ==
    ASSUME NEW n \in Nat, NEW s, s = [i \in 1..n |-> s[i]], NEW D, NEW N,
           \A i \in 1..n : Shows(s[i], D[i], N[i]),
           \A i, j \in 1..n : i # j => Apart(N[i], N[j])
    PROVE  Shows(FlattenSeq(s), AllOf(D, n), AllOf(N, n))
  <1> DEFINE upD(k) == AllOf(D, k)
             upN(k) == AllOf(N, k)
  <1>0. \A i \in 1..n : s[i] \in Seq(Entries) BY DEF Shows
  <1>1. s \in Seq(Seq(Entries)) /\ Len(s) = n BY <1>0
  <1>2. PICK f \in [0..n -> Seq(Entries)] :
            /\ f[0] = <<>> /\ FlattenSeq(s) = f[n]
            /\ \A i \in 1..n : f[i] = f[i - 1] \o s[i]
    <2>1. \E f \in [0..Len(s) -> Seq(Entries)] :
            /\ f[0] = <<>> /\ FlattenSeq(s) = f[Len(s)]
            /\ \A i \in 1..Len(s) : f[i] = f[i - 1] \o s[i]
      BY <1>1, FlattenAddsUp
    <2> QED BY <1>1, <2>1
  <1> DEFINE U == {i \in 0..n : Shows(f[i], upD(i), upN(i))}
  <1>3. 0 \in U
    <2>1. upD(0) = {} BY DEF AllOf
    <2> HIDE DEF upD, upN
    <2>2. Shows(<<>>, upD(0), upN(0)) BY <2>1, NothingShows
    <2>3. 0 \in 0..n /\ f[0] = <<>> BY <1>2
    <2> QED BY <2>2, <2>3
  <1>4. ASSUME NEW i \in 1..n, i - 1 \in U PROVE i \in U
    <2>1. i \in 0..n /\ i - 1 \in 0..n /\ 1..i = (1 .. i - 1) \cup {i} OBVIOUS
    <2>2. upD(i) = upD(i - 1) \cup D[i] /\ upN(i) = upN(i - 1) \cup N[i] BY <2>1 DEF AllOf
    <2>3. Apart(upN(i - 1), N[i])
      <3>1. \A j \in 1 .. i - 1 : j \in 1..n /\ j # i OBVIOUS
      <3>2. \A j \in 1 .. i - 1 : Apart(N[j], N[i]) BY <3>1
      <3> QED BY <3>2 DEF Apart, AllOf
    <2> HIDE DEF upD, upN
    <2>4. Shows(f[i - 1], upD(i - 1), upN(i - 1)) BY <1>4
    <2>5. f[i] = f[i - 1] \o s[i] BY <1>2
    <2>6. Shows(f[i - 1] \o s[i], upD(i - 1) \cup D[i], upN(i - 1) \cup N[i])
      BY <2>3, <2>4, JoinShows
    <2> QED BY <2>1, <2>2, <2>5, <2>6
  <1>5. \A i \in 0..n : i \in U
    <2> HIDE DEF U
    <2> QED BY <1>3, <1>4, CountingUp
  <1> HIDE DEF upD, upN
  <1>6. Shows(FlattenSeq(s), upD(n), upN(n)) BY <1>2, <1>5
  <1> QED BY <1>6 DEF upD, upN

\* An entry shows its texts, if no two of them are the same.
LEMMA EntryShows ==
    ASSUME NEW e \in Entries, NEW N,
           \A j \in DOMAIN e.texts : e.texts[j].ink \in N \/ Shared(e.texts[j].ink),
           \A j, q \in DOMAIN e.texts :
              e.texts[j].ink = e.texts[q].ink /\ ~Shared(e.texts[j].ink) => j = q
    PROVE  Shows(<<e>>, ToSet(e.texts), N)
  <1>1. /\ <<e>> \in Seq(Entries) /\ DOMAIN <<e>> = {1} /\ <<e>>[1] = e OBVIOUS
  <1>2. Distinct(<<e>>) BY <1>1 DEF Distinct
  <1>3. \A t \in ToSet(e.texts) : Has(<<e>>, t.ink) BY <1>1 DEF Has, ToSet
  <1> QED BY <1>1, <1>2, <1>3 DEF Shows

\* What is left out is blank.
LEMMA WhenShows ==
    ASSUME NEW condition, NEW a, NEW D, NEW N, condition => Shows(a, D, N),
           ~condition => \A t \in D : Blank(t)
    PROVE  Shows(When(condition, a), D, N)
  <1>1. CASE condition BY <1>1 DEF When
  <1>2. CASE ~condition
    <2>1. Shows(<<>>, D, N)
      BY <1>2, NothingShows, ShowsLess
    <2> QED BY <1>2, <2>1 DEF When
  <1> QED BY <1>1, <1>2

\* A heading of the code shows no text.
LEMMA HeadingsShow ==
    ASSUME NEW name \in Words, NEW a, NEW D, NEW N, Shows(a, D, N)
    PROVE  /\ Shows(Part(name), {}, {})
           /\ Shows(Heading(name) \o a, D, N) /\ Shows(Label(name) \o a, D, N)
  <1>1. "part" \in Words /\ "heading" \in Words /\ "label" \in Words BY DEF Words
  <1>2. <<name, 0>> \in Labels
    <2>1. 0 \in Int OBVIOUS
    <2> QED BY <2>1, LabelsAre
  <1>3. ASSUME NEW style \in Words PROVE Shows(<<Entry(style, <<name, 0>>, <<>>)>>, {}, {})
    <2> DEFINE e == Entry(style, <<name, 0>>, <<>>)
    <2>1. e.texts = <<>> /\ ToSet(<<>>) = {} /\ DOMAIN <<>> = {}
      BY NoMembers DEF Entry
    <2>2. <<>> \in Seq(Written) /\ <<>> \in Seq(Passages) OBVIOUS
    <2>3. e \in Entries BY <1>2, <2>2 DEF Entry, Entries
    <2> HIDE DEF e
    <2>4. Shows(<<e>>, ToSet(e.texts), {}) BY <2>1, <2>3, EntryShows
    <2> QED BY <2>1, <2>4 DEF e
  <1>4. /\ Shows(Part(name), {}, {}) /\ Shows(Heading(name), {}, {})
        /\ Shows(Label(name), {}, {})
    BY <1>1, <1>3 DEF Part, Heading, Label
  <1>5. Apart({}, N) /\ {} \cup N = N /\ {} \cup D = D BY DEF Apart
  <1>6. Shows(Heading(name) \o a, {} \cup D, {} \cup N)
        /\ Shows(Label(name) \o a, {} \cup D, {} \cup N)
    BY <1>4, <1>5, JoinShows
  <1> QED BY <1>4, <1>5, <1>6

-----------------------------------------------------------------------------
(* The parts of the PDF.                                                   *)

\* The texts of some parts, and of one meeting of a part.
Parts(names) == {ink \in Inks : ink[1] \in names}
Meeting(name, k) == {ink \in Inks : ink[1] = name /\ ink[2] = k}

LEMMA PlaceOf ==
    ASSUME NEW ink, NEW name, NEW k, NEW i, NEW j, ink = <<name, k, i, j>>
    PROVE  ink[1] = name /\ ink[2] = k /\ ink[3] = i /\ ink[4] = j
  OBVIOUS

LEMMA OtherParts ==
    ASSUME NEW P, NEW Q, P \cap Q = {} PROVE Apart(Parts(P), Parts(Q))
  BY DEF Apart, Parts

LEMMA RowTellsApart ==
    ASSUME NEW texts \in Seq(Written), NEW name, NEW k, NEW i, InRow(texts, name, k, i)
    PROVE  /\ \A j \in 1..Len(texts) : texts[j].ink \in Meeting(name, k)
           /\ \A j \in 1..Len(texts) : texts[j].ink \in Parts({name})
           /\ \A j \in 1..Len(texts) : texts[j].ink[3] = i /\ texts[j].ink[4] = j
           /\ \A j, q \in 1..Len(texts) : texts[j].ink = texts[q].ink => j = q
  <1>1. ASSUME NEW j \in 1..Len(texts)
        PROVE  LET ink == texts[j].ink IN
               ink \in Inks /\ ink[1] = name /\ ink[2] = k /\ ink[3] = i /\ ink[4] = j
    <2>1. texts[j] \in Written /\ j \in DOMAIN texts OBVIOUS
    <2>2. texts[j].ink \in Inks BY <2>1 DEF Written
    <2>3. texts[j].ink = <<name, k, i, j>> BY <2>1 DEF InRow
    <2> QED BY <2>2, <2>3, PlaceOf
  <1>2. \A j \in 1..Len(texts) : texts[j].ink[4] = j BY <1>1
  <1> QED BY <1>1, <1>2 DEF Meeting, Parts

LEMMA OneTextShows ==
    ASSUME NEW e \in Entries, NEW t \in Written, e.texts = <<t>>
    PROVE  Shows(<<e>>, {t}, {t.ink})
  <1>1. DOMAIN <<t>> = {1} /\ <<t>>[1] = t OBVIOUS
  <1>2. Shows(<<e>>, ToSet(e.texts), {t.ink}) BY <1>1, EntryShows
  <1> QED BY <1>2, OneMember

LEMMA ParagraphShows ==
    ASSUME NEW t \in Written PROVE Shows(PdfParagraph(t), {t}, {t.ink})
  <1> DEFINE e == Entry("paragraph", <<"", 0>>, <<t>>)
  <1>1. "paragraph" \in Words BY DEF Words
  <1>2. e.texts = <<t>> BY DEF Entry
  <1>3. <<t>> \in Seq(Written) /\ <<>> \in Seq(Passages) OBVIOUS
  <1>4. e \in Entries BY <1>1, <1>3, PlainLabel DEF Entry, Entries
  <1>5. Shows(<<e>>, {t}, {t.ink})
    <2> HIDE DEF e
    <2> QED BY <1>2, <1>4, OneTextShows
  <1> QED BY <1>5, WhenShows DEF PdfParagraph

LEMMA SentenceShows ==
    ASSUME NEW ts \in Seq(Written), NEW N,
           \A j \in 1..Len(ts) : ts[j].ink \in N \/ Shared(ts[j].ink),
           \A j, q \in 1..Len(ts) : ts[j].ink = ts[q].ink /\ ~Shared(ts[j].ink) => j = q
    PROVE  Shows(Sentence(ts), ToSet(ts), N)
  <1> DEFINE e == Entry("paragraph", <<"", 0>>, ts)
  <1>1. "paragraph" \in Words BY DEF Words
  <1>2. e.texts = ts /\ DOMAIN ts = 1..Len(ts) BY DEF Entry
  <1>3. <<>> \in Seq(Passages) OBVIOUS
  <1>4. e \in Entries BY <1>1, <1>3, PlainLabel DEF Entry, Entries
  <1>5. Shows(<<e>>, ToSet(ts), N)
    <2> HIDE DEF e
    <2>1. Shows(<<e>>, ToSet(e.texts), N) BY <1>2, <1>4, EntryShows
    <2> QED BY <1>2, <2>1
  <1> QED BY <1>5 DEF Sentence

\* _write_list.
LEMMA ItemsShow ==
    ASSUME NEW items \in Seq(Written), NEW numbered \in BOOLEAN,
           NEW suffixes \in [1..Len(items) -> Seq(Passages)],
           NEW name, InRow(items, name, 0, 0)
    PROVE  Shows(PdfItems(items, numbered, suffixes), ToSet(items), Parts({name}))
  <1> DEFINE n == Len(items)
             Item(i) == [style |-> "item", label |-> <<"", IF numbered THEN i ELSE 0>>,
                         texts |-> <<items[i]>>, marks |-> suffixes[i]]
             s == [i \in 1..n |-> When(~Blank(items[i]), <<Item(i)>>)]
             D == [i \in 1..n |-> {items[i]}]
             N == [i \in 1..n |-> {items[i].ink}]
  <1>1. n \in Nat /\ DOMAIN items = 1..n /\ \A i \in 1..n : items[i] \in Written OBVIOUS
  <1>2. ASSUME NEW i \in 1..n PROVE Shows(s[i], {items[i]}, {items[i].ink})
    <2>1. Item(i).texts = <<items[i]>> OBVIOUS
    <2>2. Item(i) \in Entries
      <3>1. "" \in Words /\ "item" \in Words BY DEF Words
      <3>2. (IF numbered THEN i ELSE 0) \in Int OBVIOUS
      <3>3. <<"", IF numbered THEN i ELSE 0>> \in Labels BY <3>1, <3>2, LabelsAre
      <3>4. <<items[i]>> \in Seq(Written) /\ suffixes[i] \in Seq(Passages) BY <1>1
      <3> QED BY <3>1, <3>3, <3>4 DEF Entries
    <2> HIDE DEF Item
    <2>3. Shows(<<Item(i)>>, {items[i]}, {items[i].ink}) BY <1>1, <2>1, <2>2, OneTextShows
    <2> QED BY <2>3, WhenShows
  <1>3. PdfItems(items, numbered, suffixes) = FlattenSeq(s) BY <1>1, Zenon DEF PdfItems
  <1>4. s = [i \in 1..n |-> s[i]] OBVIOUS
  <1>5. /\ \A i, j \in 1..n : items[i].ink = items[j].ink => i = j
        /\ \A i \in 1..n : items[i].ink \in Parts({name})
    BY RowTellsApart
  <1>6. \A i \in 1..n : D[i] = {items[i]} /\ N[i] = {items[i].ink} OBVIOUS
  <1> HIDE DEF n, s, D, N
  <1>7. \A i, j \in 1..n : i # j => Apart(N[i], N[j]) BY <1>5, <1>6 DEF Apart
  <1>8. \A i \in 1..n : Shows(s[i], D[i], N[i]) BY <1>2, <1>6
  <1>9. Shows(FlattenSeq(s), AllOf(D, n), AllOf(N, n))
    <2>1. n \in Nat BY <1>1
    <2> QED BY <1>4, <1>7, <1>8, <2>1, FlattenShows
  <1>10. AllOf(N, n) \subseteq Parts({name})
    <2>1. \A i \in 1..n : N[i] \subseteq Parts({name}) BY <1>5, <1>6
    <2>2. \A ink \in AllOf(N, n) : \E i \in 1..n : ink \in N[i] BY InAllOf
    <2> QED BY <2>1, <2>2
  <1>11. \A t \in ToSet(items) : t \in AllOf(D, n) BY <1>1, <1>6, InAllOf DEF ToSet
  <1> QED BY <1>3, <1>9, <1>10, <1>11, ShowsLess

LEMMA ListShows ==
    ASSUME NEW items \in Seq(Written), NEW name, InRow(items, name, 0, 0)
    PROVE  /\ Shows(PdfList(items), ToSet(items), Parts({name}))
           /\ Shows(PdfNumbered(items), ToSet(items), Parts({name}))
  <1>1. NoMarks(items) \in [1..Len(items) -> Seq(Passages)] BY DEF NoMarks
  <1> QED BY <1>1, ItemsShow DEF PdfList, PdfNumbered

\* A table.
TextsOfRows(cells) == UNION {ToSet(r) : r \in ToSet(cells)}

\* Its rows, which the entries number as they stand.
LEMMA RowsShow ==
    ASSUME NEW cells \in Seq(Seq(Written)), NEW name, NEW k, InRows(cells, name, k)
    PROVE  Shows([i \in DOMAIN cells |-> Entry("row", <<"", i>>, cells[i])],
                 TextsOfRows(cells), {ink \in Meeting(name, k) : ink[3] # 0})
  <1> DEFINE n == Len(cells)
             z == [i \in 1..n |-> Entry("row", <<"", i>>, cells[i])]
             N == {ink \in Meeting(name, k) : ink[3] # 0}
  <1>1. n \in Nat /\ DOMAIN cells = 1..n /\ \A i \in 1..n : cells[i] \in Seq(Written)
    OBVIOUS
  <1>2. \A i \in 1..n : z[i] \in Entries /\ z[i].texts = cells[i]
    <2> TAKE i \in 1..n
    <2>1. "row" \in Words /\ "" \in Words BY DEF Words
    <2>2. <<"", i>> \in Labels
      <3>1. i \in Int OBVIOUS
      <3> QED BY <2>1, <3>1, LabelsAre
    <2>3. <<>> \in Seq(Passages) OBVIOUS
    <2>4. Entry("row", <<"", i>>, cells[i]) \in Entries
      BY <1>1, <2>1, <2>2, <2>3 DEF Entry, Entries
    <2>5. Entry("row", <<"", i>>, cells[i]).texts = cells[i] BY DEF Entry
    <2> QED BY <2>4, <2>5
  <1>3. z = [i \in 1..n |-> z[i]] OBVIOUS
  <1>4. ASSUME NEW i \in 1..n, NEW j \in 1..Len(cells[i])
        PROVE  LET ink == cells[i][j].ink IN
               ink \in Meeting(name, k) /\ ink[3] = i /\ ink[4] = j
    <2>1. InRow(cells[i], name, k, i) BY <1>1 DEF InRows
    <2>2. /\ \A q \in 1..Len(cells[i]) : cells[i][q].ink \in Meeting(name, k)
          /\ \A q \in 1..Len(cells[i]) : cells[i][q].ink[3] = i /\ cells[i][q].ink[4] = q
      BY <1>1, <2>1, RowTellsApart
    <2> QED BY <2>2
  <1> HIDE DEF z, n
  <1>5. z \in Seq(Entries) /\ DOMAIN z = 1..n
    <2>1. \A i \in 1..n : z[i] \in Entries BY <1>2
    <2>2. n \in Nat BY <1>1
    <2> QED BY <1>3, <2>1, <2>2
  <1>6. \A i \in 1..n : DOMAIN z[i].texts = 1..Len(cells[i]) BY <1>1, <1>2
  <1>7. Distinct(z)
    <2> SUFFICES ASSUME NEW i \in DOMAIN z, NEW p \in DOMAIN z,
                        NEW j \in DOMAIN z[i].texts, NEW q \in DOMAIN z[p].texts,
                        z[i].texts[j].ink = z[p].texts[q].ink
                 PROVE  i = p /\ j = q
      BY DEF Distinct
    <2>0. /\ i \in 1..n /\ p \in 1..n /\ z[i].texts = cells[i] /\ z[p].texts = cells[p]
          /\ j \in 1..Len(cells[i]) /\ q \in 1..Len(cells[p])
      BY <1>2, <1>5, <1>6
    <2> DEFINE one == cells[i][j].ink  other == cells[p][q].ink
    <2>1. one[3] = i /\ one[4] = j BY <1>4, <2>0
    <2>2. other[3] = p /\ other[4] = q BY <1>4, <2>0
    <2>3. one = other BY <2>0
    <2> HIDE DEF one, other
    <2> QED BY <2>1, <2>2, <2>3
  <1>8. \A i \in 1..n : \A j \in 1..Len(cells[i]) : cells[i][j].ink \in N
    <2> TAKE i \in 1..n
    <2> TAKE j \in 1..Len(cells[i])
    <2>1. i # 0 BY <1>1
    <2> QED BY <1>4, <2>1
  <1>9. ASSUME NEW t \in TextsOfRows(cells) PROVE Has(z, t.ink)
    <2>1. PICK i \in 1..n : t \in ToSet(cells[i]) BY <1>1 DEF TextsOfRows, ToSet
    <2>2. PICK j \in 1..Len(cells[i]) : t = cells[i][j] BY <1>1, <2>1 DEF ToSet
    <2> QED BY <1>2, <1>5, <1>6, <2>2 DEF Has
  <1> HIDE DEF N
  <1>10. Shows(z, TextsOfRows(cells), N) BY <1>2, <1>5, <1>6, <1>7, <1>8, <1>9 DEF Shows
  <1>11. z = [i \in DOMAIN cells |-> Entry("row", <<"", i>>, cells[i])]
    BY <1>1, Zenon DEF z
  <1> QED BY <1>10, <1>11 DEF N

\* _write_table, of a table of the module or of one whose columns the code names.
LEMMA TableShows ==
    ASSUME NEW table, IsTable(table), NEW name, NEW k,
           Blank(table.caption) \/ table.caption.ink = <<name, k, 0, 0>>,
           \/ InRow(table.columns, name, k, 0)
           \/ \A j \in DOMAIN table.columns : Shared(table.columns[j].ink),
           InRows(table.rows, name, k)
    PROVE  Shows(PdfTable(table), TextsOfTable(table), Meeting(name, k))
  <1> DEFINE cap == <<Entry("caption", <<"", 0>>, <<table.caption>>)>>
             head == <<Entry("header", <<"", 0>>, table.columns)>>
             body == [i \in DOMAIN table.rows |-> Entry("row", <<"", i>>, table.rows[i])]
             cols == table.columns
             M == {ink \in Meeting(name, k) : ink[3] = 0 /\ ink[4] = 0}
             N == {ink \in Meeting(name, k) : ink[3] = 0 /\ ink[4] # 0}
             R == {ink \in Meeting(name, k) : ink[3] # 0}
  <1>1. /\ table.caption \in Written /\ cols \in Seq(Written)
        /\ table.rows \in Seq(Seq(Written))
    BY DEF IsTable
  <1>2. <<>> \in Seq(Passages) /\ "caption" \in Words /\ "header" \in Words
    BY DEF Words
  <1>3. Shows(When(~Blank(table.caption), cap), {table.caption}, M)
    <2>1. ASSUME ~Blank(table.caption) PROVE Shows(cap, {table.caption}, M)
      <3> DEFINE e == Entry("caption", <<"", 0>>, <<table.caption>>)
      <3>1. <<table.caption>> \in Seq(Written) BY <1>1
      <3>2. e \in Entries /\ e.texts = <<table.caption>>
        BY <1>2, <3>1, PlainLabel DEF Entry, Entries
      <3> HIDE DEF e
      <3>3. Shows(<<e>>, {table.caption}, {table.caption.ink})
        BY <1>1, <3>2, OneTextShows
      <3>4. table.caption.ink \in Inks BY <1>1 DEF Written
      <3>5. table.caption.ink = <<name, k, 0, 0>> BY <2>1
      <3>6. table.caption.ink \in M BY <3>4, <3>5, PlaceOf DEF Meeting
      <3> HIDE DEF M
      <3>7. Shows(<<e>>, {table.caption}, M) BY <3>3, <3>6, ShowsLess
      <3> QED BY <3>7 DEF e
    <2> HIDE DEF cap, M
    <2> QED BY <2>1, WhenShows
  <1>4. Shows(head, ToSet(cols), N)
    <2> DEFINE e == Entry("header", <<"", 0>>, cols)
    <2>1. e \in Entries /\ e.texts = cols /\ DOMAIN cols = 1..Len(cols)
      <3> HIDE DEF cols
      <3>1. e \in Entries BY <1>1, <1>2, PlainLabel DEF Entry, Entries
      <3>2. e.texts = cols BY DEF Entry
      <3>3. DOMAIN cols = 1..Len(cols) BY <1>1
      <3> HIDE DEF e
      <3> QED BY <3>1, <3>2, <3>3
    <2>2. /\ \A j \in 1..Len(cols) : cols[j].ink \in N \/ Shared(cols[j].ink)
          /\ \A j, q \in 1..Len(cols) :
                cols[j].ink = cols[q].ink /\ ~Shared(cols[j].ink) => j = q
      <3>1. CASE InRow(cols, name, k, 0)
        <4>1. /\ \A j \in 1..Len(cols) : cols[j].ink \in Meeting(name, k)
              /\ \A j \in 1..Len(cols) : cols[j].ink[3] = 0 /\ cols[j].ink[4] = j
              /\ \A j, q \in 1..Len(cols) : cols[j].ink = cols[q].ink => j = q
          BY <1>1, <3>1, RowTellsApart
        <4>2. \A j \in 1..Len(cols) : j # 0 BY <1>1
        <4> QED BY <4>1, <4>2
      <3>2. CASE \A j \in DOMAIN cols : Shared(cols[j].ink) BY <2>1, <3>2
      <3> QED BY <3>1, <3>2
    <2> HIDE DEF e, N, cols
    <2>3. Shows(<<e>>, ToSet(e.texts), N) BY <2>1, <2>2, EntryShows
    <2>4. Shows(<<e>>, ToSet(cols), N) BY <2>1, <2>3
    <2> QED BY <2>4 DEF e, cols
  <1>5. Shows(body, TextsOfRows(table.rows), R) BY <1>1, RowsShow
  <1>6. Apart(M, N) /\ Apart(M \cup N, R) BY DEF Apart
  <1>7. PdfTable(table) = When(~Blank(table.caption), cap) \o head \o body
    BY Zenon DEF PdfTable
  <1>8. (M \cup N) \cup R \subseteq Meeting(name, k) OBVIOUS
  <1>9. \A t \in TextsOfTable(table) :
           t \in ({table.caption} \cup ToSet(cols)) \cup TextsOfRows(table.rows)
    BY DEF TextsOfTable, TextsOfRows
  <1> HIDE DEF cap, head, body, cols, M, N, R
  <1>10. Shows(When(~Blank(table.caption), cap) \o head,
               {table.caption} \cup ToSet(cols), M \cup N)
    BY <1>3, <1>4, <1>6, JoinShows
  <1>11. Shows(PdfTable(table), ({table.caption} \cup ToSet(cols)) \cup TextsOfRows(table.rows),
               (M \cup N) \cup R)
    BY <1>5, <1>6, <1>7, <1>10, JoinShows
  <1> QED BY <1>8, <1>9, <1>11, ShowsLess

-----------------------------------------------------------------------------
(* The sections of the PDF.                                                *)

\* A module whose texts tell where they stand in it.
Put(c) ==
    /\ IsContent(c)
    /\ DOMAIN c.text = TextNames /\ DOMAIN c.lists = ListNames
    /\ DOMAIN c.assessment = AssessmentNames
    /\ \A n \in TextNames : c.text[n].ink = <<n, 0, 0, 0>>
    /\ \A n \in ListNames : InRow(c.lists[n], n, 0, 0)
    /\ \A a \in AssessmentNames : InRow(c.assessment[a], a, 0, 0)
    /\ InRows(c.pancasila, "pancasila", 0) /\ InRows(c.glossary, "glossary", 0)
    /\ \A k \in DOMAIN c.meetings : /\ c.meetings[k].title.ink = <<"meeting", k, 0, 0>>
                                    /\ InTable(c.meetings[k].activities, "activities", k)
    /\ InTable(c.overview, "overview", 0) /\ InTable(c.rubric, "rubric", 0)
    /\ InRow(c.reading, "reading", 0, 0)
    /\ InRow(Objectives(c), "goal", 0, 0)

LEMMA TextIsPut ==
    ASSUME NEW c, Put(c), NEW n \in TextNames
    PROVE  /\ c.text[n] \in Written /\ c.text[n].ink \in Parts({n})
           /\ c.text[n].ink[1] = n
  <1>1. c.text[n] \in Written /\ c.text[n].ink = <<n, 0, 0, 0>> BY DEF Put, IsContent
  <1>2. c.text[n].ink \in Inks BY <1>1 DEF Written
  <1>3. c.text[n].ink[1] = n BY <1>1
  <1> QED BY <1>1, <1>2, <1>3 DEF Parts

LEMMA NameMeetings == ASSUME NEW name, NEW k PROVE Meeting(name, k) \subseteq Parts({name})
  BY DEF Meeting, Parts

OfNames(T, P) == UNION {T[m] : m \in P}

\* What is written for each of some names, in the parts of that name.
LEMMA NamesShow ==
    ASSUME NEW n \in Nat, NEW names, \A i, j \in 1..n : names[i] = names[j] => i = j,
           NEW s, s = [i \in 1..n |-> s[i]], NEW T,
           \A i \in 1..n : Shows(s[i], T[names[i]], Parts({names[i]})),
           NEW P, \A i \in 1..n : names[i] \in P, \A m \in P : \E i \in 1..n : names[i] = m
    PROVE  Shows(FlattenSeq(s), OfNames(T, P), Parts(P))
  <1> DEFINE D == [i \in 1..n |-> T[names[i]]]
             N == [i \in 1..n |-> Parts({names[i]})]
  <1>1. \A i \in 1..n : D[i] = T[names[i]] /\ N[i] = Parts({names[i]}) OBVIOUS
  <1> HIDE DEF D, N
  <1>2. ASSUME NEW i \in 1..n, NEW j \in 1..n, i # j PROVE Apart(N[i], N[j])
    <2>1. {names[i]} \cap {names[j]} = {} BY <1>2
    <2>2. Apart(Parts({names[i]}), Parts({names[j]})) BY <2>1, OtherParts
    <2> QED BY <1>1, <2>2
  <1>3. ASSUME NEW i \in 1..n PROVE Shows(s[i], D[i], N[i])
    <2>1. D[i] = T[names[i]] /\ N[i] = Parts({names[i]}) BY <1>1
    <2>2. Shows(s[i], T[names[i]], Parts({names[i]})) BY Zenon
    <2> QED BY <2>1, <2>2, Zenon
  <1>4. Shows(FlattenSeq(s), AllOf(D, n), AllOf(N, n)) BY <1>2, <1>3, FlattenShows
  <1>5. AllOf(N, n) \subseteq Parts(P)
    <2>1. \A i \in 1..n : N[i] \subseteq Parts(P) BY <1>1 DEF Parts
    <2>2. \A ink \in AllOf(N, n) : \E i \in 1..n : ink \in N[i] BY InAllOf
    <2> QED BY <2>1, <2>2
  <1>6. ASSUME NEW t \in OfNames(T, P) PROVE t \in AllOf(D, n)
    <2>1. PICK m \in P : t \in T[m] BY DEF OfNames
    <2>2. PICK i \in 1..n : names[i] = m OBVIOUS
    <2>3. t \in D[i] BY <1>1, <2>1, <2>2
    <2> QED BY <2>3, InAllOf
  <1> HIDE DEF D
  <1> QED BY <1>4, <1>5, <1>6, ShowsLess

ListTexts(c, names) == UNION {ToSet(c.lists[n]) : n \in names}

LEMMA NamedListsShow ==
    ASSUME NEW c, Put(c), NEW n \in Nat, NEW names \in [1..n -> ListNames],
           \A i, j \in 1..n : names[i] = names[j] => i = j,
           NEW P, \A i \in 1..n : names[i] \in P,
           \A m \in P : \E i \in 1..n : names[i] = m
    PROVE  Shows(PdfLists(c, names), ListTexts(c, P), Parts(P))
  <1> DEFINE s == [i \in 1..n |-> When(c.lists[names[i]] # <<>>,
                                       Heading(names[i]) \o PdfList(c.lists[names[i]]))]
             T == [m \in ListNames |-> ToSet(c.lists[m])]
  <1>1. ASSUME NEW i \in 1..n
        PROVE  Shows(s[i], ToSet(c.lists[names[i]]), Parts({names[i]}))
    <2> DEFINE m == names[i]  list == c.lists[m]
    <2>1. m \in ListNames OBVIOUS
    <2>2. m \in Words BY <2>1 DEF Words
    <2>3. list \in Seq(Written) /\ InRow(list, m, 0, 0) BY <2>1 DEF Put, IsContent
    <2> HIDE DEF m, list
    <2>4. Shows(PdfList(list), ToSet(list), Parts({m})) BY <2>3, ListShows
    <2>5. Shows(Heading(m) \o PdfList(list), ToSet(list), Parts({m}))
      BY <2>2, <2>4, HeadingsShow
    <2>6. list = <<>> => ToSet(list) = {} BY NoMembers
    <2>7. Shows(When(list # <<>>, Heading(m) \o PdfList(list)), ToSet(list), Parts({m}))
      BY <2>5, <2>6, WhenShows
    <2> QED BY <2>7 DEF m, list
  <1>2. PdfLists(c, names) = FlattenSeq(s) BY DEF PdfLists, Each
  <1>3. s = [i \in 1..n |-> s[i]] OBVIOUS
  <1>4. \A m \in ListNames : T[m] = ToSet(c.lists[m]) OBVIOUS
  <1> HIDE DEF s, T
  <1>5. ASSUME NEW i \in 1..n PROVE Shows(s[i], T[names[i]], Parts({names[i]}))
    <2>1. names[i] \in ListNames OBVIOUS
    <2>2. T[names[i]] = ToSet(c.lists[names[i]]) BY <1>4, <2>1
    <2> QED BY <1>1, <2>2
  <1>6. Shows(FlattenSeq(s), OfNames(T, P), Parts(P)) BY <1>3, <1>5, NamesShow
  <1>7. ListTexts(c, P) = OfNames(T, P)
    <2>1. \A m \in P : m \in ListNames OBVIOUS
    <2> QED BY <1>4, <2>1 DEF ListTexts, OfNames
  <1> QED BY <1>2, <1>6, <1>7

\* A table whose columns the code names.
LEMMA PairsShow ==
    ASSUME NEW cells, IsTable(Pairs(cells)), NEW name, InRows(cells, name, 0)
    PROVE  Shows(PdfTable(Pairs(cells)), TextsOfRows(cells), Parts({name}))
  <1> DEFINE table == Pairs(cells)
             head == [i \in 1..2 |-> [ink |-> <<"column", 0, 0, i>>, kind |-> "plain"]]
  <1>1. table.columns = head /\ table.rows = cells /\ table.caption.kind = "blank"
    BY DEF Pairs
  <1>2. \A j \in DOMAIN head : Shared(head[j].ink)
    <2> TAKE j \in DOMAIN head
    <2>1. head[j].ink = <<"column", 0, 0, j>> OBVIOUS
    <2>2. head[j].ink[1] = "column" BY <2>1, PlaceOf
    <2> QED BY <2>2 DEF Shared
  <1>3. IsTable(table) OBVIOUS
  <1> HIDE DEF table, head
  <1>4. Blank(table.caption) /\ \A j \in DOMAIN table.columns : Shared(table.columns[j].ink)
    BY <1>1, <1>2 DEF Blank
  <1>5. InRows(table.rows, name, 0) BY <1>1
  <1>6. Shows(PdfTable(table), TextsOfTable(table), Meeting(name, 0))
    BY <1>3, <1>4, <1>5, TableShows
  <1>7. TextsOfRows(cells) \subseteq TextsOfTable(table)
    BY <1>1 DEF TextsOfTable, TextsOfRows
  <1>8. Shows(PdfTable(table), TextsOfRows(cells), Parts({name}))
    BY <1>6, <1>7, NameMeetings, ShowsLess
  <1> QED BY <1>8 DEF table

LEMMA PlacedTableShows ==
    ASSUME NEW table, IsTable(table), NEW name, NEW k, InTable(table, name, k)
    PROVE  /\ Shows(PdfTable(table), TextsOfTable(table), Meeting(name, k))
           /\ Shows(PdfTable(table), TextsOfTable(table), Parts({name}))
  <1>1. Shows(PdfTable(table), TextsOfTable(table), Meeting(name, k))
    BY TableShows DEF InTable
  <1> QED BY <1>1, NameMeetings, ShowsLess

\* Parts of other names are told apart.
LEMMA JoinParts ==
    ASSUME NEW a, NEW b, NEW D, NEW E, NEW P, NEW Q,
           Shows(a, D, Parts(P)), Shows(b, E, Parts(Q)), P \cap Q = {}
    PROVE  Shows(a \o b, D \cup E, Parts(P \cup Q))
  <1>1. Shows(a \o b, D \cup E, Parts(P) \cup Parts(Q)) BY OtherParts, JoinShows
  <1>2. Parts(P) \cup Parts(Q) = Parts(P \cup Q) BY DEF Parts
  <1> QED BY <1>1, <1>2

NoParts == {}

LEMMA WithoutTexts ==
    ASSUME NEW z \in Seq(Entries), \A i \in DOMAIN z : z[i].texts = <<>>
    PROVE  Shows(z, {}, Parts(NoParts))
  <1>1. \A i \in DOMAIN z : DOMAIN z[i].texts = {}
    <2>1. DOMAIN <<>> = {} OBVIOUS
    <2> QED BY <2>1
  <1> QED BY <1>1 DEF Shows, Distinct

LEMMA HeadingShows ==
    ASSUME NEW name \in Words
    PROVE  /\ Shows(Part(name), {}, Parts(NoParts))
           /\ Shows(Heading(name), {}, Parts(NoParts))
           /\ Shows(Label(name), {}, Parts(NoParts))
  <1>1. Shows(<<>>, {}, {}) BY NothingShows
  <1>2. /\ Shows(Part(name), {}, {}) /\ Shows(Heading(name) \o <<>>, {}, {})
        /\ Shows(Label(name) \o <<>>, {}, {})
    BY <1>1, HeadingsShow
  <1>3. Heading(name) \in Seq(Entries) /\ Label(name) \in Seq(Entries)
    BY HeadingsAlike DEF Alike
  <1>4. Heading(name) \o <<>> = Heading(name) /\ Label(name) \o <<>> = Label(name)
    BY <1>3
  <1>5. {} \subseteq Parts(NoParts) OBVIOUS
  <1>6. \A z : Shows(z, {}, {}) => Shows(z, {}, Parts(NoParts)) BY <1>5, ShowsLess
  <1> QED BY <1>2, <1>4, <1>6

LEMMA JoinHeading ==
    ASSUME NEW a, NEW D, NEW N, Shows(a, D, N), NEW h, Shows(h, {}, Parts(NoParts))
    PROVE  Shows(a \o h, D, N) /\ Shows(h \o a, D, N)
  <1>1. Parts(NoParts) = {} BY DEF Parts, NoParts
  <1>2. Shows(h, {}, {}) BY <1>1
  <1>3. Apart(N, {}) /\ Apart({}, N) BY DEF Apart
  <1>4. Shows(a \o h, D \cup {}, N \cup {}) BY <1>2, <1>3, JoinShows
  <1>5. Shows(h \o a, {} \cup D, {} \cup N) BY <1>2, <1>3, JoinShows
  <1>6. D \cup {} = D /\ N \cup {} = N /\ {} \cup D = D /\ {} \cup N = N OBVIOUS
  <1> QED BY <1>4, <1>5, <1>6

LEMMA ParagraphOfText ==
    ASSUME NEW c, Put(c), NEW n \in TextNames
    PROVE  Shows(PdfParagraph(c.text[n]), {c.text[n]}, Parts({n}))
  <1>1. c.text[n] \in Written /\ c.text[n].ink \in Parts({n}) BY TextIsPut
  <1>2. Shows(PdfParagraph(c.text[n]), {c.text[n]}, {c.text[n].ink})
    BY <1>1, ParagraphShows
  <1> QED BY <1>1, <1>2, ShowsLess

InformationTexts(c) ==
    ListTexts(c, {"initial_competencies"}) \cup TextsOfRows(c.pancasila)
    \cup ListTexts(c, {"facilities"}) \cup {c.text["target"]} \cup {c.text["rationale"]}
InformationParts == {"initial_competencies", "pancasila", "facilities", "target", "rationale"}

LEMMA InformationShows ==
    ASSUME NEW c, Put(c)
    PROVE  Shows(PdfInformation(c), InformationTexts(c), Parts(InformationParts))
  <1> DEFINE p == Part("A. INFORMASI UMUM")
             a1 == PdfLists(c, <<"initial_competencies">>)
             a2 == When(c.pancasila # <<>>,
                        Heading("pancasila_profile") \o PdfTable(Pairs(c.pancasila)))
             a3 == PdfLists(c, <<"facilities">>)
             a4 == When(~Blank(c.text["target"]),
                        Heading("target_students") \o PdfParagraph(c.text["target"]))
             h == Heading("learning_model")
             ts == <<c.text["model"], c.text["rationale"]>>
             a5 == Sentence(ts)
             D1 == ListTexts(c, {"initial_competencies"})
             D2 == TextsOfRows(c.pancasila)
             D3 == ListTexts(c, {"facilities"})
             D4 == {c.text["target"]}
             D5 == {c.text["rationale"]}
  <1>1. Shows(p, {}, Parts(NoParts)) /\ Shows(h, {}, Parts(NoParts))
    <2>1. "A. INFORMASI UMUM" \in Words /\ "learning_model" \in Words BY DEF Words
    <2> QED BY <2>1, HeadingShows
  <1>2. Shows(a1, D1, Parts({"initial_competencies"})) /\ Shows(a3, D3, Parts({"facilities"}))
    <2>1. "initial_competencies" \in ListNames /\ "facilities" \in ListNames
      BY DEF ListNames
    <2>2. ASSUME NEW n \in ListNames PROVE Shows(PdfLists(c, <<n>>), ListTexts(c, {n}), Parts({n}))
      <3> DEFINE names == <<n>>
      <3>1. names \in [1..1 -> ListNames] /\ \A i \in 1..1 : names[i] = n /\ 1 \in 1..1
        OBVIOUS
      <3>2. \A i, j \in 1..1 : i = j OBVIOUS
      <3> HIDE DEF names
      <3>3. 1 \in Nat OBVIOUS
      <3>4. Shows(PdfLists(c, names), ListTexts(c, {n}), Parts({n}))
        <4>1. \A i, j \in 1..1 : names[i] = names[j] => i = j BY <3>2
        <4>2. \A i \in 1..1 : names[i] \in {n} BY <3>1
        <4>3. \A m \in {n} : \E i \in 1..1 : names[i] = m BY <3>1
        <4> QED BY <3>1, <3>3, <4>1, <4>2, <4>3, NamedListsShow
      <3> QED BY <3>4 DEF names
    <2> QED BY <2>1, <2>2
  <1>3. Shows(a2, D2, Parts({"pancasila"}))
    <2>1. "pancasila_profile" \in Words BY DEF Words
    <2>2. IsTable(Pairs(c.pancasila)) /\ InRows(c.pancasila, "pancasila", 0)
      BY DEF Put, IsContent
    <2>3. Shows(PdfTable(Pairs(c.pancasila)), D2, Parts({"pancasila"}))
      BY <2>2, PairsShow
    <2>4. c.pancasila = <<>> => D2 = {} BY NoMembers DEF TextsOfRows
    <2> HIDE DEF D2
    <2> QED BY <2>1, <2>3, <2>4, HeadingsShow, WhenShows
  <1>4. Shows(a4, D4, Parts({"target"}))
    <2>1. "target_students" \in Words /\ "target" \in TextNames BY DEF Words, TextNames
    <2>2. Shows(PdfParagraph(c.text["target"]), D4, Parts({"target"}))
      BY <2>1, ParagraphOfText
    <2> QED BY <2>1, <2>2, HeadingsShow, WhenShows
  <1>5. Shows(a5, D5, Parts({"rationale"}))
    <2> DEFINE m == c.text["model"]  r == c.text["rationale"]
    <2>1. "model" \in TextNames /\ "rationale" \in TextNames BY DEF TextNames
    <2>2. /\ m \in Written /\ m.ink[1] = "model"
          /\ r \in Written /\ r.ink \in Parts({"rationale"})
      BY <2>1, TextIsPut
    <2>3. Shared(m.ink) BY <2>2 DEF Shared
    <2> HIDE DEF m, r
    <2>4. ts = <<m, r>> BY DEF m, r
    <2> HIDE DEF ts
    <2>5. ts \in Seq(Written) /\ Len(ts) = 2 /\ ts[1] = m /\ ts[2] = r BY <2>2, <2>4
    <2>6. \A j \in 1..2 : j = 1 \/ j = 2 OBVIOUS
    <2>7. /\ \A j \in 1..Len(ts) : ts[j].ink \in Parts({"rationale"}) \/ Shared(ts[j].ink)
          /\ \A j, q \in 1..Len(ts) : ts[j].ink = ts[q].ink /\ ~Shared(ts[j].ink) => j = q
      BY <2>2, <2>3, <2>5, <2>6
    <2>8. Shows(Sentence(ts), ToSet(ts), Parts({"rationale"})) BY <2>5, <2>7, SentenceShows
    <2>9. r \in ToSet(ts) BY <2>5 DEF ToSet
    <2>10. D5 = {r} BY DEF r
    <2> HIDE DEF D5
    <2> QED BY <2>8, <2>9, <2>10, ShowsLess
  <1>6. PdfInformation(c) = p \o a1 \o a2 \o a3 \o a4 \o h \o a5 BY DEF PdfInformation
  <1> DEFINE P1 == {"initial_competencies"}  P2 == {"pancasila"}  P3 == {"facilities"}
             P4 == {"target"}  P5 == {"rationale"}
  <1>7. P1 \cap P2 = {} /\ (P1 \cup P2) \cap P3 = {}
    OBVIOUS
  <1>8. (P1 \cup P2 \cup P3) \cap P4 = {} /\ (P1 \cup P2 \cup P3 \cup P4) \cap P5 = {}
    OBVIOUS
  <1>9. P1 \cup P2 \cup P3 \cup P4 \cup P5 = InformationParts BY DEF InformationParts
  <1>10. InformationTexts(c) = D1 \cup D2 \cup D3 \cup D4 \cup D5 BY DEF InformationTexts
  <1> HIDE DEF p, a1, a2, a3, a4, h, a5, D1, D2, D3, D4, D5, P1, P2, P3, P4, P5
  <1>11. Shows(p \o a1, D1, Parts(P1)) BY <1>1, <1>2, JoinHeading DEF P1
  <1>12. Shows(p \o a1 \o a2, D1 \cup D2, Parts(P1 \cup P2))
    BY <1>3, <1>7, <1>11, JoinParts DEF P2
  <1>13. Shows(p \o a1 \o a2 \o a3, D1 \cup D2 \cup D3, Parts(P1 \cup P2 \cup P3))
    BY <1>2, <1>7, <1>12, JoinParts DEF P3
  <1>14. Shows(p \o a1 \o a2 \o a3 \o a4, D1 \cup D2 \cup D3 \cup D4,
               Parts(P1 \cup P2 \cup P3 \cup P4))
    BY <1>4, <1>8, <1>13, JoinParts DEF P4
  <1>15. Shows(p \o a1 \o a2 \o a3 \o a4 \o h, D1 \cup D2 \cup D3 \cup D4,
               Parts(P1 \cup P2 \cup P3 \cup P4))
    BY <1>1, <1>14, JoinHeading
  <1>16. Shows(p \o a1 \o a2 \o a3 \o a4 \o h \o a5, D1 \cup D2 \cup D3 \cup D4 \cup D5,
               Parts(P1 \cup P2 \cup P3 \cup P4 \cup P5))
    BY <1>5, <1>8, <1>15, JoinParts DEF P5
  <1> QED BY <1>6, <1>9, <1>10, <1>16

\* What all meetings show, one after the other.
MeetingTexts(m) == {m.title} \cup TextsOfTable(m.activities)
AllMeetingTexts(c) == UNION {MeetingTexts(c.meetings[k]) : k \in DOMAIN c.meetings}

LEMMA MeetingsShow ==
    ASSUME NEW c, Put(c)
    PROVE  Shows(Each(c.meetings, LAMBDA m :
                     <<Entry("label", <<"Pertemuan", m.number>>, <<m.title>>)>>
                     \o PdfTable(m.activities)),
                 AllMeetingTexts(c), Parts({"meeting", "activities"}))
  <1>1. PICK n \in Nat : /\ DOMAIN c.meetings = 1..n
                         /\ \A i \in 1..n : /\ c.meetings[i].number \in Int
                                            /\ c.meetings[i].title \in Written
                                            /\ IsTable(c.meetings[i].activities)
    BY DEF Put, IsContent
  <1> DEFINE pdfOf(m) == <<Entry("label", <<"Pertemuan", m.number>>, <<m.title>>)>>
                         \o PdfTable(m.activities)
             s == [i \in 1..n |-> pdfOf(c.meetings[i])]
             D == [i \in 1..n |-> MeetingTexts(c.meetings[i])]
             N == [i \in 1..n |-> Meeting("meeting", i) \cup Meeting("activities", i)]
  <1>2. ASSUME NEW i \in 1..n
        PROVE  Shows(s[i], MeetingTexts(c.meetings[i]),
                     Meeting("meeting", i) \cup Meeting("activities", i))
    <2> DEFINE m == c.meetings[i]
               e == Entry("label", <<"Pertemuan", m.number>>, <<m.title>>)
               a == m.activities
    <2>1. m.number \in Int /\ m.title \in Written /\ IsTable(a) BY <1>1
    <2>2. m.title.ink = <<"meeting", i, 0, 0>> /\ InTable(a, "activities", i)
      BY <1>1 DEF Put
    <2>3. e \in Entries /\ e.texts = <<m.title>>
      <3>1. "Pertemuan" \in Words /\ "label" \in Words BY DEF Words
      <3>2. <<"Pertemuan", m.number>> \in Labels BY <2>1, <3>1, LabelsAre
      <3>3. <<m.title>> \in Seq(Written) /\ <<>> \in Seq(Passages) BY <2>1
      <3> QED BY <3>1, <3>2, <3>3 DEF Entry, Entries
    <2>4. m.title.ink \in Meeting("meeting", i)
      <3>1. m.title.ink \in Inks BY <2>1 DEF Written
      <3> QED BY <2>2, <3>1, PlaceOf DEF Meeting
    <2>5. s[i] = <<e>> \o PdfTable(a) OBVIOUS
    <2>6. MeetingTexts(m) = {m.title} \cup TextsOfTable(a) BY DEF MeetingTexts
    <2> DEFINE t == m.title  x == s[i]
    <2> HIDE DEF a, e, t, x
    <2>7. Shows(<<e>>, {t}, {t.ink}) BY <2>1, <2>3, OneTextShows DEF t
    <2>8. Shows(<<e>>, {t}, Meeting("meeting", i)) BY <2>4, <2>7, ShowsLess DEF t
    <2>9. Shows(PdfTable(a), TextsOfTable(a), Meeting("activities", i))
      BY <2>1, <2>2, PlacedTableShows
    <2>10. Apart(Meeting("meeting", i), Meeting("activities", i)) BY DEF Apart, Meeting
    <2>11. Shows(<<e>> \o PdfTable(a), {t} \cup TextsOfTable(a),
                 Meeting("meeting", i) \cup Meeting("activities", i))
      BY <2>8, <2>9, <2>10, JoinShows
    <2> QED BY <2>5, <2>6, <2>11 DEF t, x
  <1>3. FlattenSeq(s) = FlattenSeq([i \in DOMAIN c.meetings |-> pdfOf(c.meetings[i])])
    BY <1>1, Zenon
  <1>4. s = [i \in 1..n |-> s[i]] OBVIOUS
  <1>5. \A i \in 1..n : /\ D[i] = MeetingTexts(c.meetings[i])
                        /\ N[i] = Meeting("meeting", i) \cup Meeting("activities", i)
    OBVIOUS
  <1>6. Shows(FlattenSeq(s), AllMeetingTexts(c), Parts({"meeting", "activities"}))
    <2> HIDE DEF s, D, N
    <2>1. \A i \in 1..n : Shows(s[i], D[i], N[i]) BY <1>2, <1>5
    <2>2. \A i, j \in 1..n : i # j => Apart(N[i], N[j]) BY <1>5 DEF Apart, Meeting
    <2>3. Shows(FlattenSeq(s), AllOf(D, n), AllOf(N, n)) BY <1>4, <2>1, <2>2, FlattenShows
    <2>4. \A i \in 1..n : N[i] \subseteq Parts({"meeting", "activities"})
      BY <1>5 DEF Meeting, Parts
    <2>5. \A ink \in AllOf(N, n) : \E i \in 1..n : ink \in N[i] BY InAllOf
    <2>6. AllOf(N, n) \subseteq Parts({"meeting", "activities"}) BY <2>4, <2>5
    <2>7. ASSUME NEW t \in AllMeetingTexts(c) PROVE t \in AllOf(D, n)
      <3>1. PICK k \in 1..n : t \in MeetingTexts(c.meetings[k]) BY <1>1 DEF AllMeetingTexts
      <3>2. t \in D[k] BY <1>5, <3>1
      <3> QED BY <3>2, InAllOf
    <2> QED BY <2>3, <2>6, <2>7, ShowsLess
  <1> QED BY <1>3, <1>6 DEF Each

AssessmentTexts(c) == UNION {ToSet(c.assessment[a]) : a \in AssessmentNames}

LEMMA AssessmentShows ==
    ASSUME NEW c, Put(c)
    PROVE  Shows(PdfAssessment(c), AssessmentTexts(c), Parts(AssessmentNames))
  <1> DEFINE names == <<"diagnostic", "formative", "summative">>
             s == [i \in 1..3 |-> Label(names[i]) \o Sentence(c.assessment[names[i]])]
             T == [a \in AssessmentNames |-> ToSet(c.assessment[a])]
  <1>1. /\ names \in [1..3 -> AssessmentNames]
        /\ \A i, j \in 1..3 : names[i] = names[j] => i = j
    BY DEF AssessmentNames
  <1>2. \A a \in AssessmentNames : \E i \in 1..3 : names[i] = a
    <2>1. names[1] = "diagnostic" /\ names[2] = "formative" /\ names[3] = "summative"
      OBVIOUS
    <2>2. 1 \in 1..3 /\ 2 \in 1..3 /\ 3 \in 1..3 OBVIOUS
    <2> HIDE DEF names
    <2> QED BY <2>1, <2>2 DEF AssessmentNames
  <1> HIDE DEF names
  <1>3. ASSUME NEW i \in 1..3
        PROVE  Shows(s[i], ToSet(c.assessment[names[i]]), Parts({names[i]}))
    <2> DEFINE a == names[i]  ts == c.assessment[a]
    <2>1. a \in AssessmentNames BY <1>1
    <2>2. a \in Words BY <2>1 DEF Words
    <2>3. ts \in Seq(Written) /\ InRow(ts, a, 0, 0) BY <2>1 DEF Put, IsContent
    <2>4. s[i] = Label(a) \o Sentence(ts) OBVIOUS
    <2> HIDE DEF s, a, ts
    <2>5. /\ \A j \in 1..Len(ts) : ts[j].ink \in Parts({a})
          /\ \A j, q \in 1..Len(ts) : ts[j].ink = ts[q].ink => j = q
      BY <2>3, RowTellsApart
    <2>6. Shows(Sentence(ts), ToSet(ts), Parts({a})) BY <2>3, <2>5, SentenceShows
    <2>7. Shows(s[i], ToSet(ts), Parts({a})) BY <2>2, <2>4, <2>6, HeadingsShow
    <2> QED BY <2>7 DEF a, ts
  <1>4. DOMAIN names = 1..3 BY <1>1
  <1>5. FlattenSeq(s) = Each(names, LAMBDA a : Label(a) \o Sentence(c.assessment[a]))
    BY <1>4, Zenon DEF Each
  <1>6. s = [i \in 1..3 |-> s[i]] /\ 3 \in Nat OBVIOUS
  <1>7. \A a \in AssessmentNames : T[a] = ToSet(c.assessment[a]) OBVIOUS
  <1> HIDE DEF s, T
  <1>8. \A i \in 1..3 : names[i] \in AssessmentNames BY <1>1
  <1>9. ASSUME NEW i \in 1..3 PROVE Shows(s[i], T[names[i]], Parts({names[i]}))
    <2>1. T[names[i]] = ToSet(c.assessment[names[i]]) BY <1>7, <1>8
    <2> QED BY <1>3, <2>1
  <1>10. Shows(FlattenSeq(s), OfNames(T, AssessmentNames), Parts(AssessmentNames))
    BY <1>1, <1>2, <1>6, <1>8, <1>9, NamesShow
  <1>11. AssessmentTexts(c) = OfNames(T, AssessmentNames)
    BY <1>7 DEF AssessmentTexts, OfNames
  <1> QED BY <1>5, <1>10, <1>11 DEF names, PdfAssessment

LEMMA ReflectionShows ==
    ASSUME NEW c, Put(c), NEW name \in {"teacher", "students"}
    PROVE  Shows(When(c.lists[name] # <<>>, Label(name) \o PdfList(c.lists[name])),
                 ToSet(c.lists[name]), Parts({name}))
  <1>1. name \in ListNames /\ name \in Words BY DEF ListNames, Words
  <1>2. c.lists[name] \in Seq(Written) /\ InRow(c.lists[name], name, 0, 0)
    BY <1>1 DEF Put, IsContent
  <1>3. Shows(PdfList(c.lists[name]), ToSet(c.lists[name]), Parts({name}))
    BY <1>2, ListShows
  <1>4. c.lists[name] = <<>> => ToSet(c.lists[name]) = {} BY NoMembers
  <1> QED BY <1>1, <1>3, <1>4, HeadingsShow, WhenShows

CoreLists == {"meaningful_understanding", "trigger_questions", "preparation"}
ClosingLists == {"enrichment", "remedial"}
CoreTexts(c) ==
    ToSet(Objectives(c)) \cup ListTexts(c, CoreLists) \cup AllMeetingTexts(c)
    \cup AssessmentTexts(c) \cup TextsOfTable(c.overview) \cup TextsOfTable(c.rubric)
    \cup ListTexts(c, ClosingLists)
    \cup (ToSet(c.lists["teacher"]) \cup ToSet(c.lists["students"]))
CoreParts ==
    {"goal"} \cup CoreLists \cup {"meeting", "activities"} \cup AssessmentNames
    \cup {"overview"} \cup {"rubric"} \cup ClosingLists \cup ({"teacher"} \cup {"students"})

LEMMA CoreShows ==
    ASSUME NEW c, Put(c) PROVE Shows(PdfCore(c), CoreTexts(c), Parts(CoreParts))
  <1> DEFINE p == Part("B. KOMPONEN INTI")
             h1 == Heading("learning_objectives")
             a1 == PdfItems(Objectives(c), TRUE, Citations(c))
             n2 == <<"meaningful_understanding", "trigger_questions", "preparation">>
             a2 == PdfLists(c, n2)
             h3 == Heading("meetings")
             a3 == Each(c.meetings, LAMBDA m :
                      <<Entry("label", <<"Pertemuan", m.number>>, <<m.title>>)>>
                      \o PdfTable(m.activities))
             h4 == Heading("assessment")
             a4 == PdfAssessment(c)
             a5 == PdfTable(c.overview)
             a6 == PdfTable(c.rubric)
             n7 == <<"enrichment", "remedial">>
             a7 == PdfLists(c, n7)
             any == c.lists["teacher"] # <<>> \/ c.lists["students"] # <<>>
             h8 == Heading("reflection")
             aT == When(c.lists["teacher"] # <<>>,
                        Label("teacher") \o PdfList(c.lists["teacher"]))
             aS == When(c.lists["students"] # <<>>,
                        Label("students") \o PdfList(c.lists["students"]))
             a8 == When(any, h8 \o aT \o aS)
             D1 == ToSet(Objectives(c))
             D2 == ListTexts(c, CoreLists)
             D3 == AllMeetingTexts(c)
             D4 == AssessmentTexts(c)
             D5 == TextsOfTable(c.overview)
             D6 == TextsOfTable(c.rubric)
             D7 == ListTexts(c, ClosingLists)
             DT == ToSet(c.lists["teacher"])
             DS == ToSet(c.lists["students"])
             D8 == DT \cup DS
             P1 == {"goal"}  P3 == {"meeting", "activities"}
             P5 == {"overview"}  P6 == {"rubric"}
             PT == {"teacher"}  PS == {"students"}  P8 == PT \cup PS
             P2 == CoreLists  P4 == AssessmentNames  P7 == ClosingLists
  <1>1. /\ Shows(p, {}, Parts(NoParts)) /\ Shows(h1, {}, Parts(NoParts))
        /\ Shows(h3, {}, Parts(NoParts)) /\ Shows(h4, {}, Parts(NoParts))
        /\ Shows(h8, {}, Parts(NoParts))
    <2>1. "B. KOMPONEN INTI" \in Words /\ "learning_objectives" \in Words BY DEF Words
    <2>2. "meetings" \in Words /\ "assessment" \in Words /\ "reflection" \in Words
      BY DEF Words
    <2> QED BY <2>1, <2>2, HeadingShows
  <1>2. Shows(a1, D1, Parts(P1))
    <2>1. /\ Objectives(c) \in Seq(Written) /\ InRow(Objectives(c), "goal", 0, 0)
          /\ Citations(c) \in [1..Len(Objectives(c)) -> Seq(Passages)]
      BY DEF Put, IsContent
    <2> QED BY <2>1, ItemsShow
  <1>3. Shows(a2, D2, Parts(P2))
    <2>1. n2 \in [1..3 -> ListNames] /\ \A i, j \in 1..3 : n2[i] = n2[j] => i = j
      BY DEF ListNames
    <2>2. /\ n2[1] = "meaningful_understanding" /\ n2[2] = "trigger_questions"
          /\ n2[3] = "preparation" /\ 1 \in 1..3 /\ 2 \in 1..3 /\ 3 \in 1..3 /\ 3 \in Nat
          /\ \A i \in 1..3 : i = 1 \/ i = 2 \/ i = 3
      OBVIOUS
    <2> HIDE DEF n2
    <2>3. \A i \in 1..3 : n2[i] \in CoreLists BY <2>2 DEF CoreLists
    <2>4. \A m \in CoreLists : \E i \in 1..3 : n2[i] = m BY <2>2 DEF CoreLists
    <2> QED BY <2>1, <2>2, <2>3, <2>4, NamedListsShow
  <1>4. Shows(a7, D7, Parts(P7))
    <2>1. n7 \in [1..2 -> ListNames] /\ \A i, j \in 1..2 : n7[i] = n7[j] => i = j
      BY DEF ListNames
    <2>2. /\ n7[1] = "enrichment" /\ n7[2] = "remedial"
          /\ 1 \in 1..2 /\ 2 \in 1..2 /\ 2 \in Nat /\ \A i \in 1..2 : i = 1 \/ i = 2
      OBVIOUS
    <2> HIDE DEF n7
    <2>3. \A i \in 1..2 : n7[i] \in ClosingLists BY <2>2 DEF ClosingLists
    <2>4. \A m \in ClosingLists : \E i \in 1..2 : n7[i] = m BY <2>2 DEF ClosingLists
    <2> QED BY <2>1, <2>2, <2>3, <2>4, NamedListsShow
  <1>5. Shows(a3, D3, Parts(P3)) BY MeetingsShow
  <1>6. Shows(a4, D4, Parts(P4)) BY AssessmentShows
  <1>7. Shows(a5, D5, Parts(P5)) /\ Shows(a6, D6, Parts(P6))
    BY PlacedTableShows DEF Put, IsContent
  <1>8. Shows(aT, DT, Parts(PT)) /\ Shows(aS, DS, Parts(PS)) BY ReflectionShows
  <1>9. ~any => \A t \in D8 : Blank(t) BY NoMembers
  <1>10. PT \cap PS = {} OBVIOUS
  <1>11. PdfCore(c) = p \o h1 \o a1 \o a2 \o h3 \o a3 \o h4 \o a4 \o a5 \o a6 \o a7 \o a8
    BY DEF PdfCore, PdfAssessment
  <1>12. CoreTexts(c) = D1 \cup D2 \cup D3 \cup D4 \cup D5 \cup D6 \cup D7 \cup D8
    BY DEF CoreTexts
  <1>13. CoreParts = P1 \cup P2 \cup P3 \cup P4 \cup P5 \cup P6 \cup P7 \cup P8
    BY DEF CoreParts
  <1>14. P1 \cap P2 = {} /\ (P1 \cup P2) \cap P3 = {} BY DEF CoreLists
  <1>15. (P1 \cup P2 \cup P3) \cap P4 = {} BY DEF CoreLists, AssessmentNames
  <1>16. (P1 \cup P2 \cup P3 \cup P4) \cap P5 = {}
         /\ (P1 \cup P2 \cup P3 \cup P4 \cup P5) \cap P6 = {}
    BY DEF CoreLists, AssessmentNames
  <1>17. (P1 \cup P2 \cup P3 \cup P4 \cup P5 \cup P6) \cap P7 = {}
    BY DEF CoreLists, AssessmentNames, ClosingLists
  <1>18. (P1 \cup P2 \cup P3 \cup P4 \cup P5 \cup P6 \cup P7) \cap P8 = {}
    BY DEF CoreLists, AssessmentNames, ClosingLists
  <1> HIDE DEF p, h1, a1, a2, h3, a3, h4, a4, a5, a6, a7, any, h8, aT, aS,
              D1, D2, D3, D4, D5, D6, D7, DT, DS, P1, P2, P3, P4, P5, P6, P7, PT, PS
  <1>20. Shows(h8 \o aT, DT, Parts(PT)) BY <1>1, <1>8, JoinHeading
  <1>21. Shows(h8 \o aT \o aS, D8, Parts(P8)) BY <1>8, <1>10, <1>20, JoinParts
  <1>22. Shows(a8, D8, Parts(P8))
    <2> HIDE DEF D8, P8
    <2> QED BY <1>9, <1>21, WhenShows
  <1> HIDE DEF a8, D8, P8
  <1>23. Shows(p \o h1 \o a1, D1, Parts(P1))
    <2>1. Shows(p \o h1, {}, Parts(NoParts)) BY <1>1, JoinHeading
    <2> QED BY <1>2, <2>1, JoinHeading
  <1>24. Shows(p \o h1 \o a1 \o a2, D1 \cup D2, Parts(P1 \cup P2))
    BY <1>3, <1>14, <1>23, JoinParts
  <1>25. Shows(p \o h1 \o a1 \o a2 \o h3 \o a3, D1 \cup D2 \cup D3, Parts(P1 \cup P2 \cup P3))
    <2>1. Shows(p \o h1 \o a1 \o a2 \o h3, D1 \cup D2, Parts(P1 \cup P2))
      BY <1>1, <1>24, JoinHeading
    <2> QED BY <1>5, <1>14, <2>1, JoinParts
  <1>26. Shows(p \o h1 \o a1 \o a2 \o h3 \o a3 \o h4 \o a4,
               D1 \cup D2 \cup D3 \cup D4, Parts(P1 \cup P2 \cup P3 \cup P4))
    <2>1. Shows(p \o h1 \o a1 \o a2 \o h3 \o a3 \o h4,
                D1 \cup D2 \cup D3, Parts(P1 \cup P2 \cup P3))
      BY <1>1, <1>25, JoinHeading
    <2> QED BY <1>6, <1>15, <2>1, JoinParts
  <1>27. Shows(p \o h1 \o a1 \o a2 \o h3 \o a3 \o h4 \o a4 \o a5,
               D1 \cup D2 \cup D3 \cup D4 \cup D5, Parts(P1 \cup P2 \cup P3 \cup P4 \cup P5))
    BY <1>7, <1>16, <1>26, JoinParts
  <1>28. Shows(p \o h1 \o a1 \o a2 \o h3 \o a3 \o h4 \o a4 \o a5 \o a6,
               D1 \cup D2 \cup D3 \cup D4 \cup D5 \cup D6,
               Parts(P1 \cup P2 \cup P3 \cup P4 \cup P5 \cup P6))
    BY <1>7, <1>16, <1>27, JoinParts
  <1>29. Shows(p \o h1 \o a1 \o a2 \o h3 \o a3 \o h4 \o a4 \o a5 \o a6 \o a7,
               D1 \cup D2 \cup D3 \cup D4 \cup D5 \cup D6 \cup D7,
               Parts(P1 \cup P2 \cup P3 \cup P4 \cup P5 \cup P6 \cup P7))
    BY <1>4, <1>17, <1>28, JoinParts
  <1>30. Shows(p \o h1 \o a1 \o a2 \o h3 \o a3 \o h4 \o a4 \o a5 \o a6 \o a7 \o a8,
               D1 \cup D2 \cup D3 \cup D4 \cup D5 \cup D6 \cup D7 \cup D8,
               Parts(P1 \cup P2 \cup P3 \cup P4 \cup P5 \cup P6 \cup P7 \cup P8))
    BY <1>18, <1>22, <1>29, JoinParts
  <1> QED BY <1>11, <1>12, <1>13, <1>30

AttachmentTexts(c) ==
    {c.text["worksheet"]} \cup {c.text["instructions"]} \cup ToSet(c.lists["tasks"])
    \cup ToSet(c.reading) \cup TextsOfRows(c.glossary)
AttachmentParts ==
    {"worksheet"} \cup {"instructions"} \cup {"tasks"} \cup {"reading"} \cup {"glossary"}

LEMMA AttachmentsShow ==
    ASSUME NEW c, Put(c)
    PROVE  Shows(PdfAttachments(c), AttachmentTexts(c), Parts(AttachmentParts))
  <1> DEFINE p == Part("C. LAMPIRAN")
             a1 == HeadingOf("LKPD", c.text["worksheet"])
             a2 == PdfParagraph(c.text["instructions"])
             a3 == PdfNumbered(c.lists["tasks"])
             any == \E i \in DOMAIN c.reading : ~Blank(c.reading[i])
             aR == Each(c.reading, PdfParagraph)
             a4 == When(any, Heading("reading_material") \o aR)
             a5 == When(c.glossary # <<>>,
                        Heading("glossary") \o PdfTable(Pairs(c.glossary)))
             a6 == ReferenceList(c)
             D1 == {c.text["worksheet"]}  D2 == {c.text["instructions"]}
             D3 == ToSet(c.lists["tasks"])  D4 == ToSet(c.reading)
             D5 == TextsOfRows(c.glossary)
             P1 == {"worksheet"}  P2 == {"instructions"}  P3 == {"tasks"}
             P4 == {"reading"}  P5 == {"glossary"}
  <1>1. Shows(p, {}, Parts(NoParts))
    <2>1. "C. LAMPIRAN" \in Words BY DEF Words
    <2> QED BY <2>1, HeadingShows
  <1>2. Shows(a1, D1, Parts(P1))
    <2> DEFINE t == c.text["worksheet"]
               e == Entry("heading", <<"LKPD", 0>>, <<t>>)
    <2>1. "worksheet" \in TextNames BY DEF TextNames
    <2>2. t \in Written /\ t.ink \in Parts(P1) BY <2>1, TextIsPut
    <2>3. "heading" \in Words /\ "LKPD" \in Words /\ 0 \in Int BY DEF Words
    <2>4. <<"LKPD", 0>> \in Labels BY <2>3, LabelsAre
    <2>5. a1 = <<e>> /\ D1 = {t} BY DEF HeadingOf
    <2> HIDE DEF t, a1, D1, P1
    <2>6. <<t>> \in Seq(Written) /\ <<>> \in Seq(Passages) BY <2>2
    <2>7. e \in Entries /\ e.texts = <<t>> BY <2>3, <2>4, <2>6 DEF Entry, Entries
    <2> HIDE DEF e
    <2>8. Shows(<<e>>, {t}, {t.ink}) BY <2>2, <2>7, OneTextShows
    <2> QED BY <2>2, <2>5, <2>8, ShowsLess
  <1>3. Shows(a2, D2, Parts(P2))
    <2>1. "instructions" \in TextNames BY DEF TextNames
    <2> QED BY <2>1, ParagraphOfText
  <1>4. Shows(a3, D3, Parts(P3))
    <2>1. "tasks" \in ListNames BY DEF ListNames
    <2>2. c.lists["tasks"] \in Seq(Written) /\ InRow(c.lists["tasks"], "tasks", 0, 0)
      BY <2>1 DEF Put, IsContent
    <2> QED BY <2>2, ListShows
  <1>5. Shows(aR, D4, Parts(P4))
    <2> DEFINE texts == c.reading
               n == Len(texts)
               s == [i \in 1..n |-> PdfParagraph(texts[i])]
               D == [i \in 1..n |-> {texts[i]}]
               N == [i \in 1..n |-> {texts[i].ink}]
    <2>1. texts \in Seq(Written) /\ InRow(texts, "reading", 0, 0) BY DEF Put, IsContent
    <2>2. n \in Nat /\ DOMAIN texts = 1..n BY <2>1
    <2>3. \A i \in 1..n : texts[i] \in Written BY <2>1
    <2>4. aR = FlattenSeq(s) BY <2>2, Zenon DEF Each
    <2>5. /\ \A i, j \in 1..n : texts[i].ink = texts[j].ink => i = j
          /\ \A i \in 1..n : texts[i].ink \in Parts(P4)
      BY <2>1, RowTellsApart
    <2> HIDE DEF n
    <2>6. \A i \in 1..n : D[i] = {texts[i]} /\ N[i] = {texts[i].ink} OBVIOUS
    <2>7. \A i \in 1..n : Shows(s[i], {texts[i]}, {texts[i].ink}) BY <2>3, ParagraphShows
    <2>8. s = [i \in 1..n |-> s[i]] OBVIOUS
    <2>9. D4 = {texts[i] : i \in 1..n} BY <2>2 DEF ToSet
    <2> HIDE DEF s, D, N, texts, P4, aR, D4
    <2>10. \A i \in 1..n : Shows(s[i], D[i], N[i]) BY <2>6, <2>7
    <2>11. \A i, j \in 1..n : i # j => Apart(N[i], N[j]) BY <2>5, <2>6 DEF Apart
    <2>12. Shows(FlattenSeq(s), AllOf(D, n), AllOf(N, n))
      BY <2>2, <2>8, <2>10, <2>11, FlattenShows
    <2>13. AllOf(N, n) \subseteq Parts(P4)
      <3>1. \A i \in 1..n : N[i] \subseteq Parts(P4) BY <2>5, <2>6
      <3>2. \A ink \in AllOf(N, n) : \E i \in 1..n : ink \in N[i] BY InAllOf
      <3> QED BY <3>1, <3>2
    <2>14. \A t \in D4 : t \in AllOf(D, n) BY <2>6, <2>9, InAllOf
    <2> QED BY <2>4, <2>12, <2>13, <2>14, ShowsLess
  <1>6. Shows(a4, D4, Parts(P4))
    <2>1. "reading_material" \in Words BY DEF Words
    <2>2. ~any => \A t \in D4 : Blank(t) BY DEF ToSet
    <2> HIDE DEF aR, any, D4, P4
    <2> QED BY <1>5, <2>1, <2>2, HeadingsShow, WhenShows
  <1>7. Shows(a5, D5, Parts(P5))
    <2>1. "glossary" \in Words BY DEF Words
    <2>2. IsTable(Pairs(c.glossary)) /\ InRows(c.glossary, "glossary", 0)
      BY DEF Put, IsContent
    <2>3. Shows(PdfTable(Pairs(c.glossary)), D5, Parts(P5)) BY <2>2, PairsShow
    <2>4. c.glossary = <<>> => D5 = {} BY NoMembers DEF TextsOfRows
    <2> HIDE DEF D5
    <2> QED BY <2>1, <2>3, <2>4, HeadingsShow, WhenShows
  <1>8. Shows(a6, {}, Parts(NoParts))
    <2>1. /\ ReferenceList(c) \in Seq(Entries)
          /\ \A i \in 1..Len(ReferenceList(c)) : ReferenceList(c)[i].texts = <<>>
      BY ReferenceListIs DEF Put
    <2> HIDE DEF a6
    <2>2. a6 \in Seq(Entries) /\ \A i \in DOMAIN a6 : a6[i].texts = <<>> BY <2>1 DEF a6
    <2> QED BY <2>2, WithoutTexts
  <1>9. PdfAttachments(c) = p \o a1 \o a2 \o a3 \o a4 \o a5 \o a6
    BY DEF PdfAttachments, ReferenceList
  <1>10. P1 \cap P2 = {} /\ (P1 \cup P2) \cap P3 = {} /\ (P1 \cup P2 \cup P3) \cap P4 = {}
         /\ (P1 \cup P2 \cup P3 \cup P4) \cap P5 = {}
    OBVIOUS
  <1>11. AttachmentTexts(c) = D1 \cup D2 \cup D3 \cup D4 \cup D5 BY DEF AttachmentTexts
  <1>12. AttachmentParts = P1 \cup P2 \cup P3 \cup P4 \cup P5 BY DEF AttachmentParts
  <1> HIDE DEF p, a1, a2, a3, a4, a5, a6, D1, D2, D3, D4, D5, P1, P2, P3, P4, P5
  <1>13. Shows(p \o a1, D1, Parts(P1)) BY <1>1, <1>2, JoinHeading
  <1>14. Shows(p \o a1 \o a2, D1 \cup D2, Parts(P1 \cup P2))
    BY <1>3, <1>10, <1>13, JoinParts
  <1>15. Shows(p \o a1 \o a2 \o a3, D1 \cup D2 \cup D3, Parts(P1 \cup P2 \cup P3))
    BY <1>4, <1>10, <1>14, JoinParts
  <1>16. Shows(p \o a1 \o a2 \o a3 \o a4, D1 \cup D2 \cup D3 \cup D4,
               Parts(P1 \cup P2 \cup P3 \cup P4))
    BY <1>6, <1>10, <1>15, JoinParts
  <1>17. Shows(p \o a1 \o a2 \o a3 \o a4 \o a5, D1 \cup D2 \cup D3 \cup D4 \cup D5,
               Parts(P1 \cup P2 \cup P3 \cup P4 \cup P5))
    BY <1>7, <1>10, <1>16, JoinParts
  <1>18. Shows(p \o a1 \o a2 \o a3 \o a4 \o a5 \o a6, D1 \cup D2 \cup D3 \cup D4 \cup D5,
               Parts(P1 \cup P2 \cup P3 \cup P4 \cup P5))
    BY <1>8, <1>17, JoinHeading
  <1> QED BY <1>9, <1>11, <1>12, <1>18

IdentityNames == {"subject", "grade", "topic", "time", "model"}
IdentityTexts(c) == {c.text[n] : n \in IdentityNames}

LEMMA IdentityShows ==
    ASSUME NEW c, Put(c)
    PROVE  Shows(PdfIdentity(c), IdentityTexts(c), Parts(IdentityNames))
  <1> DEFINE names == <<"subject", "grade", "topic", "time", "model">>
             s == [i \in 1..5 |-> <<Entry("identity", <<names[i], 0>>, <<c.text[names[i]]>>)>>]
             T == [n \in IdentityNames |-> {c.text[n]}]
  <1>1. /\ names \in [1..5 -> TextNames] /\ names \in [1..5 -> IdentityNames]
        /\ \A i, j \in 1..5 : names[i] = names[j] => i = j
    <2>1. names \in [1..5 -> TextNames] BY DEF TextNames
    <2>2. names \in [1..5 -> IdentityNames] BY DEF IdentityNames
    <2>3. \A i, j \in 1..5 : names[i] = names[j] => i = j OBVIOUS
    <2> QED BY <2>1, <2>2, <2>3
  <1>2. \A n \in IdentityNames : \E i \in 1..5 : names[i] = n
    <2>1. /\ names[1] = "subject" /\ names[2] = "grade" /\ names[3] = "topic"
          /\ names[4] = "time" /\ names[5] = "model"
      OBVIOUS
    <2>2. 1 \in 1..5 /\ 2 \in 1..5 /\ 3 \in 1..5 /\ 4 \in 1..5 /\ 5 \in 1..5 OBVIOUS
    <2> HIDE DEF names
    <2> QED BY <2>1, <2>2 DEF IdentityNames
  <1> HIDE DEF names
  <1>3. ASSUME NEW i \in 1..5 PROVE Shows(s[i], {c.text[names[i]]}, Parts({names[i]}))
    <2> DEFINE n == names[i]  t == c.text[n]  e == Entry("identity", <<n, 0>>, <<t>>)
    <2>1. n \in TextNames BY <1>1
    <2>2. n \in Words /\ "identity" \in Words
      <3> HIDE DEF n
      <3> QED BY <2>1 DEF Words
    <2>3. <<n, 0>> \in Labels
      <3>1. 0 \in Int OBVIOUS
      <3> QED BY <2>2, <3>1, LabelsAre
    <2>4. t \in Written /\ t.ink \in Parts({n}) BY <2>1, TextIsPut
    <2>5. s[i] = <<e>> OBVIOUS
    <2> HIDE DEF s, n, t
    <2>6. <<t>> \in Seq(Written) /\ <<>> \in Seq(Passages) BY <2>4
    <2>7. e \in Entries /\ e.texts = <<t>> BY <2>2, <2>3, <2>6 DEF Entry, Entries
    <2> HIDE DEF e
    <2>8. Shows(<<e>>, {t}, {t.ink}) BY <2>4, <2>7, OneTextShows
    <2>9. Shows(s[i], {t}, Parts({n})) BY <2>4, <2>5, <2>8, ShowsLess
    <2> QED BY <2>9 DEF t, n
  <1>4. DOMAIN names = 1..5 BY <1>1
  <1>5. FlattenSeq(s) = Each(names, LAMBDA n : <<Entry("identity", <<n, 0>>, <<c.text[n]>>)>>)
    BY <1>4, Zenon DEF Each
  <1>6. s = [i \in 1..5 |-> s[i]] /\ 5 \in Nat OBVIOUS
  <1>7. \A n \in IdentityNames : T[n] = {c.text[n]} OBVIOUS
  <1> HIDE DEF s, T
  <1>8. \A i \in 1..5 : names[i] \in IdentityNames BY <1>1
  <1>9. ASSUME NEW i \in 1..5 PROVE Shows(s[i], T[names[i]], Parts({names[i]}))
    <2>1. T[names[i]] = {c.text[names[i]]} BY <1>7, <1>8
    <2> QED BY <1>3, <2>1
  <1>10. Shows(FlattenSeq(s), OfNames(T, IdentityNames), Parts(IdentityNames))
    BY <1>1, <1>2, <1>6, <1>8, <1>9, NamesShow
  <1>11. \A t \in IdentityTexts(c) : t \in OfNames(T, IdentityNames)
    BY <1>7 DEF IdentityTexts, OfNames
  <1>12. Shows(FlattenSeq(s), IdentityTexts(c), Parts(IdentityNames))
    BY <1>10, <1>11, ShowsLess
  <1> QED BY <1>5, <1>12 DEF names, PdfIdentity

\* The title falls back on the topic when it is blank.
LEMMA TitleShows ==
    ASSUME NEW c, Put(c)
    PROVE  Shows(<<Entry("title", <<"", 0>>, <<TitleOf(c)>>)>>, {c.text["title"]},
                 Parts({"title"}))
  <1> DEFINE t == TitleOf(c)  e == Entry("title", <<"", 0>>, <<t>>)  own == c.text["title"]
  <1>1. "title" \in TextNames /\ "topic" \in TextNames BY DEF TextNames
  <1>2. "title" \in Words BY <1>1 DEF Words
  <1>3. own \in Written /\ own.ink \in Parts({"title"}) BY <1>1, TextIsPut
  <1>4. c.text["topic"] \in Written /\ c.text["topic"].ink[1] = "topic" BY <1>1, TextIsPut
  <1>5. t = IF Blank(own) THEN c.text["topic"] ELSE own BY DEF TitleOf
  <1> HIDE DEF t, own
  <1>6. t \in Written BY <1>3, <1>4, <1>5
  <1>7. <<t>> \in Seq(Written) /\ <<>> \in Seq(Passages) BY <1>6
  <1>8. e \in Entries /\ e.texts = <<t>> BY <1>2, <1>7, PlainLabel DEF Entry, Entries
  <1> HIDE DEF e
  <1>9. CASE ~Blank(own)
    <2>1. Shows(<<e>>, {t}, {t.ink}) BY <1>6, <1>8, OneTextShows
    <2>2. t = own BY <1>5, <1>9
    <2>3. Shows(<<e>>, {own}, Parts({"title"})) BY <1>3, <2>1, <2>2, ShowsLess
    <2> QED BY <2>3 DEF e, t, own
  <1>10. CASE Blank(own)
    <2>1. Shared(t.ink) BY <1>4, <1>5, <1>10 DEF Shared
    <2>2. DOMAIN <<t>> = {1} /\ <<t>>[1] = t OBVIOUS
    <2>3. Shows(<<e>>, ToSet(e.texts), Parts({"title"})) BY <1>8, <2>1, <2>2, EntryShows
    <2>4. Shows(<<e>>, {own}, Parts({"title"})) BY <1>10, <2>3, ShowsLess
    <2> QED BY <2>4 DEF e, t, own
  <1> QED BY <1>9, <1>10

ModulTexts(c) ==
    {c.text["title"]} \cup IdentityTexts(c) \cup InformationTexts(c) \cup CoreTexts(c)
    \cup AttachmentTexts(c)
ModulParts ==
    {"title"} \cup IdentityNames \cup InformationParts \cup CoreParts \cup AttachmentParts

LEMMA ModulShows ==
    ASSUME NEW c, Put(c) PROVE Shows(GenerateModulPdf(c), ModulTexts(c), Parts(ModulParts))
  <1> DEFINE a1 == <<Entry("title", <<"", 0>>, <<TitleOf(c)>>)>>
             a2 == PdfIdentity(c)
             a3 == PdfInformation(c)
             a4 == PdfCore(c)
             a5 == PdfAttachments(c)
             D1 == {c.text["title"]}  D2 == IdentityTexts(c)  D3 == InformationTexts(c)
             D4 == CoreTexts(c)  D5 == AttachmentTexts(c)
             P1 == {"title"}  P2 == IdentityNames  P3 == InformationParts
             P4 == CoreParts  P5 == AttachmentParts
  <1>1. Shows(a1, D1, Parts(P1)) BY TitleShows
  <1>2. Shows(a2, D2, Parts(P2)) /\ Shows(a3, D3, Parts(P3))
    BY IdentityShows, InformationShows
  <1>3. Shows(a4, D4, Parts(P4)) /\ Shows(a5, D5, Parts(P5)) BY CoreShows, AttachmentsShow
  <1>4. P1 \cap P2 = {} BY DEF IdentityNames
  <1>5. (P1 \cup P2) \cap P3 = {} BY DEF IdentityNames, InformationParts
  <1>6. (P1 \cup P2 \cup P3) \cap P4 = {}
    BY DEF IdentityNames, InformationParts, CoreParts, CoreLists, ClosingLists,
           AssessmentNames
  <1>7. (P1 \cup P2 \cup P3 \cup P4) \cap P5 = {}
    BY DEF IdentityNames, InformationParts, CoreParts, CoreLists, ClosingLists,
           AssessmentNames, AttachmentParts
  <1>8. GenerateModulPdf(c) = a1 \o a2 \o a3 \o a4 \o a5 BY DEF GenerateModulPdf, PdfIdentity
  <1>9. ModulTexts(c) = D1 \cup D2 \cup D3 \cup D4 \cup D5 BY DEF ModulTexts
  <1>10. ModulParts = P1 \cup P2 \cup P3 \cup P4 \cup P5 BY DEF ModulParts
  <1> HIDE DEF a1, a2, a3, a4, a5, D1, D2, D3, D4, D5, P1, P2, P3, P4, P5
  <1>11. Shows(a1 \o a2, D1 \cup D2, Parts(P1 \cup P2)) BY <1>1, <1>2, <1>4, JoinParts
  <1>12. Shows(a1 \o a2 \o a3, D1 \cup D2 \cup D3, Parts(P1 \cup P2 \cup P3))
    BY <1>2, <1>5, <1>11, JoinParts
  <1>13. Shows(a1 \o a2 \o a3 \o a4, D1 \cup D2 \cup D3 \cup D4, Parts(P1 \cup P2 \cup P3 \cup P4))
    BY <1>3, <1>6, <1>12, JoinParts
  <1>14. Shows(a1 \o a2 \o a3 \o a4 \o a5, D1 \cup D2 \cup D3 \cup D4 \cup D5,
               Parts(P1 \cup P2 \cup P3 \cup P4 \cup P5))
    BY <1>3, <1>7, <1>13, JoinParts
  <1> QED BY <1>8, <1>9, <1>10, <1>14

-----------------------------------------------------------------------------
(* Nothing missing and nothing twice, in either file.                       *)

\* What stands somewhere, and nowhere else, stands in one place.
LEMMA OneSpot ==
    ASSUME NEW z, Distinct(z), NEW ink, Has(z, ink), ~Shared(ink)
    PROVE  Cardinality(Spots(z, ink)) = 1
  <1>1. PICK i \in DOMAIN z : \E j \in DOMAIN z[i].texts : z[i].texts[j].ink = ink
    BY DEF Has
  <1>2. PICK j \in DOMAIN z[i].texts : z[i].texts[j].ink = ink BY <1>1
  <1> DEFINE Hits(p) == {<<p, q>> : q \in {k \in DOMAIN z[p].texts : z[p].texts[k].ink = ink}}
  <1>3. Spots(z, ink) = UNION {Hits(p) : p \in DOMAIN z} BY Zenon DEF Spots
  <1>4. <<i, j>> \in Hits(i) BY <1>2
  <1>5. ASSUME NEW p \in DOMAIN z, NEW x \in Hits(p) PROVE x = <<i, j>>
    <2>1. PICK q \in DOMAIN z[p].texts : x = <<p, q>> /\ z[p].texts[q].ink = ink BY <1>5
    <2>2. p = i /\ q = j BY <1>2, <2>1 DEF Distinct
    <2> QED BY <2>1, <2>2
  <1> HIDE DEF Hits
  <1>6. Spots(z, ink) = {<<i, j>>} BY <1>3, <1>4, <1>5
  <1> QED BY <1>6, FS_Singleton

\* What one entry of a list, of a table or of a meeting is called.
LEMMA RowIsNamed ==
    ASSUME NEW texts \in Seq(Written), NEW name, NEW k, NEW i, InRow(texts, name, k, i)
    PROVE  \A t \in ToSet(texts) : t.ink[1] = name
  <1>1. \A j \in 1..Len(texts) : texts[j].ink \in Parts({name}) BY RowTellsApart
  <1>2. DOMAIN texts = 1..Len(texts) OBVIOUS
  <1> QED BY <1>1, <1>2 DEF ToSet, Parts

LEMMA RowsAreNamed ==
    ASSUME NEW cells \in Seq(Seq(Written)), NEW name, NEW k, InRows(cells, name, k)
    PROVE  \A t \in TextsOfRows(cells) : t.ink[1] = name
  <1>1. \A i \in DOMAIN cells : cells[i] \in Seq(Written) /\ InRow(cells[i], name, k, i)
    BY DEF InRows
  <1>2. \A i \in DOMAIN cells : \A t \in ToSet(cells[i]) : t.ink[1] = name
    BY <1>1, RowIsNamed
  <1>3. \A r \in ToSet(cells) : \E i \in DOMAIN cells : r = cells[i] BY DEF ToSet
  <1> QED BY <1>2, <1>3 DEF TextsOfRows

LEMMA TableIsNamed ==
    ASSUME NEW table, IsTable(table), NEW name, NEW k, InTable(table, name, k)
    PROVE  \A t \in TextsOfTable(table) : t.ink[1] = name
  <1>1. table.caption.ink[1] = name BY PlaceOf DEF InTable
  <1>2. \A t \in ToSet(table.columns) : t.ink[1] = name
    <2>1. table.columns \in Seq(Written) /\ InRow(table.columns, name, k, 0)
      BY DEF IsTable, InTable
    <2> QED BY <2>1, RowIsNamed
  <1>3. \A t \in TextsOfRows(table.rows) : t.ink[1] = name
    <2>1. table.rows \in Seq(Seq(Written)) /\ InRows(table.rows, name, k)
      BY DEF IsTable, InTable
    <2> QED BY <2>1, RowsAreNamed
  <1>4. TextsOfTable(table) =
           {table.caption} \cup ToSet(table.columns) \cup TextsOfRows(table.rows)
    BY DEF TextsOfTable, TextsOfRows
  <1> QED BY <1>1, <1>2, <1>3, <1>4

\* Each text that has to stand in the files is one that the sections show, and is
\* not one of those that may stand in several places.
LEMMA OnceTextsAreThere ==
    ASSUME NEW c, Put(c), NEW t \in OnceTexts(c)
    PROVE  t \in ModulTexts(c) /\ ~Shared(t.ink)
  <1>0. \A n : n \notin {"topic", "model", "column", ""} =>
           \A x : x.ink[1] = n => ~Shared(x.ink)
    BY DEF Shared
  <1>1. CASE t \in {c.text[n] : n \in DOMAIN c.text \ {"topic", "model"}}
    <2>1. PICK n \in TextNames \ {"topic", "model"} : t = c.text[n] BY <1>1 DEF Put
    <2>2. t.ink[1] = n BY <2>1, TextIsPut
    <2>3. n \notin {"topic", "model", "column", ""} BY <2>1 DEF TextNames
    <2>4. ~Shared(t.ink) BY <2>2, <2>3 DEF Shared
    <2>5. CASE n \in IdentityNames
      <3>1. t \in IdentityTexts(c) BY <2>1, <2>5 DEF IdentityTexts
      <3> QED BY <2>4, <3>1 DEF ModulTexts
    <2>6. CASE n \notin IdentityNames
      <3>1. n \in {"title", "target", "rationale", "worksheet", "instructions"}
        BY <2>1, <2>6 DEF TextNames, IdentityNames
      <3>2. t \in {c.text["title"]} \cup {c.text["target"]} \cup {c.text["rationale"]}
                  \cup {c.text["worksheet"]} \cup {c.text["instructions"]}
        BY <2>1, <3>1
      <3> QED BY <2>4, <3>2 DEF ModulTexts, InformationTexts, AttachmentTexts
    <2> QED BY <2>4, <2>5, <2>6
  <1>2. CASE t \in UNION {ToSet(c.lists[n]) : n \in DOMAIN c.lists}
    <2>1. PICK n \in ListNames : t \in ToSet(c.lists[n]) BY <1>2 DEF Put
    <2>2. c.lists[n] \in Seq(Written) /\ InRow(c.lists[n], n, 0, 0) BY DEF Put, IsContent
    <2>3. t.ink[1] = n BY <2>1, <2>2, RowIsNamed
    <2>4. n \notin {"topic", "model", "column", ""} BY DEF ListNames
    <2>5. ~Shared(t.ink) BY <2>3, <2>4 DEF Shared
    <2>6. \/ n \in {"initial_competencies"} \/ n \in {"facilities"} \/ n \in CoreLists
          \/ n \in ClosingLists \/ n = "teacher" \/ n = "students" \/ n = "tasks"
      BY DEF ListNames, CoreLists, ClosingLists
    <2>7. \A P : n \in P => t \in ListTexts(c, P) BY <2>1 DEF ListTexts
    <2>8. CASE n \in {"initial_competencies"} \/ n \in {"facilities"}
      <3>1. t \in InformationTexts(c) BY <2>7, <2>8 DEF InformationTexts
      <3> QED BY <2>5, <3>1 DEF ModulTexts
    <2>9. CASE n \in CoreLists \/ n \in ClosingLists \/ n = "teacher" \/ n = "students"
      <3>1. t \in CoreTexts(c) BY <2>1, <2>7, <2>9 DEF CoreTexts
      <3> QED BY <2>5, <3>1 DEF ModulTexts
    <2>10. CASE n = "tasks"
      <3>1. t \in AttachmentTexts(c) BY <2>1, <2>10 DEF AttachmentTexts
      <3> QED BY <2>5, <3>1 DEF ModulTexts
    <2> QED BY <2>6, <2>8, <2>9, <2>10
  <1>3. CASE t \in {o.text : o \in ToSet(c.objectives)}
    <2>1. PICK i \in DOMAIN c.objectives : t = c.objectives[i].text BY <1>3 DEF ToSet
    <2>2. t \in ToSet(Objectives(c)) BY <2>1 DEF ToSet, Objectives
    <2>3. Objectives(c) \in Seq(Written) /\ InRow(Objectives(c), "goal", 0, 0)
      BY DEF Put, IsContent
    <2>4. t.ink[1] = "goal" BY <2>2, <2>3, RowIsNamed
    <2>5. ~Shared(t.ink) BY <2>4 DEF Shared
    <2> QED BY <2>2, <2>5 DEF ModulTexts, CoreTexts
  <1>4. CASE t \in UNION {ToSet(r) : r \in ToSet(c.pancasila) \cup ToSet(c.glossary)}
    <2>1. t \in TextsOfRows(c.pancasila) \/ t \in TextsOfRows(c.glossary)
      BY <1>4 DEF TextsOfRows
    <2>2. /\ c.pancasila \in Seq(Seq(Written)) /\ InRows(c.pancasila, "pancasila", 0)
          /\ c.glossary \in Seq(Seq(Written)) /\ InRows(c.glossary, "glossary", 0)
      BY DEF Put, IsContent, IsTable, Pairs
    <2>3. t.ink[1] = "pancasila" \/ t.ink[1] = "glossary" BY <2>1, <2>2, RowsAreNamed
    <2>4. ~Shared(t.ink) BY <2>3 DEF Shared
    <2>5. t \in InformationTexts(c) \/ t \in AttachmentTexts(c)
      BY <2>1 DEF InformationTexts, AttachmentTexts
    <2> QED BY <2>4, <2>5 DEF ModulTexts
  <1>5. CASE t \in UNION {{m.title} \cup TextsOfTable(m.activities) : m \in ToSet(c.meetings)}
    <2>1. PICK k \in DOMAIN c.meetings : t \in MeetingTexts(c.meetings[k])
      BY <1>5 DEF ToSet, MeetingTexts
    <2> DEFINE m == c.meetings[k]
    <2>2. /\ m.title.ink = <<"meeting", k, 0, 0>> /\ IsTable(m.activities)
          /\ InTable(m.activities, "activities", k)
      BY DEF Put, IsContent
    <2>3. t.ink[1] = "meeting" \/ t.ink[1] = "activities"
      BY <2>1, <2>2, TableIsNamed, PlaceOf DEF MeetingTexts
    <2>4. ~Shared(t.ink) BY <2>3 DEF Shared
    <2>5. t \in AllMeetingTexts(c) BY <2>1 DEF AllMeetingTexts
    <2> QED BY <2>4, <2>5 DEF ModulTexts, CoreTexts
  <1>6. CASE t \in UNION {ToSet(c.assessment[a]) : a \in DOMAIN c.assessment}
    <2>1. PICK a \in AssessmentNames : t \in ToSet(c.assessment[a]) BY <1>6 DEF Put
    <2>2. c.assessment[a] \in Seq(Written) /\ InRow(c.assessment[a], a, 0, 0)
      BY DEF Put, IsContent
    <2>3. t.ink[1] = a BY <2>1, <2>2, RowIsNamed
    <2>4. ~Shared(t.ink) BY <2>3 DEF Shared, AssessmentNames
    <2>5. t \in AssessmentTexts(c) BY <2>1 DEF AssessmentTexts
    <2> QED BY <2>4, <2>5 DEF ModulTexts, CoreTexts
  <1>7. CASE t \in TextsOfTable(c.overview) \cup TextsOfTable(c.rubric)
    <2>1. /\ IsTable(c.overview) /\ InTable(c.overview, "overview", 0)
          /\ IsTable(c.rubric) /\ InTable(c.rubric, "rubric", 0)
      BY DEF Put, IsContent
    <2>2. t.ink[1] = "overview" \/ t.ink[1] = "rubric" BY <1>7, <2>1, TableIsNamed
    <2>3. ~Shared(t.ink) BY <2>2 DEF Shared
    <2> QED BY <1>7, <2>3 DEF ModulTexts, CoreTexts
  <1>8. CASE t \in ToSet(c.reading)
    <2>1. c.reading \in Seq(Written) /\ InRow(c.reading, "reading", 0, 0)
      BY DEF Put, IsContent
    <2>2. t.ink[1] = "reading" BY <1>8, <2>1, RowIsNamed
    <2>3. ~Shared(t.ink) BY <2>2 DEF Shared
    <2> QED BY <1>8, <2>3 DEF ModulTexts, AttachmentTexts
  <1>9. \/ t \in {c.text[n] : n \in DOMAIN c.text \ {"topic", "model"}}
        \/ t \in UNION {ToSet(c.lists[n]) : n \in DOMAIN c.lists}
        \/ t \in {o.text : o \in ToSet(c.objectives)}
        \/ t \in UNION {ToSet(r) : r \in ToSet(c.pancasila) \cup ToSet(c.glossary)}
        \/ t \in UNION {{m.title} \cup TextsOfTable(m.activities) : m \in ToSet(c.meetings)}
        \/ t \in UNION {ToSet(c.assessment[a]) : a \in DOMAIN c.assessment}
        \/ t \in TextsOfTable(c.overview) \cup TextsOfTable(c.rubric)
        \/ t \in ToSet(c.reading)
    BY DEF OnceTexts
  <1> QED BY <1>1, <1>2, <1>3, <1>4, <1>5, <1>6, <1>7, <1>8, <1>9, Zenon

LEMMA ModulIsWhole ==
    ASSUME NEW c, Put(c) PROVE Whole(GenerateModulPdf(c), OnceTexts(c))
  <1> DEFINE x == GenerateModulPdf(c)
  <1>1. Shows(x, ModulTexts(c), Parts(ModulParts)) BY ModulShows
  <1> HIDE DEF x
  <1>2. Distinct(x) /\ \A t \in ModulTexts(c) : Blank(t) \/ Has(x, t.ink)
    BY <1>1 DEF Shows
  <1>3. ASSUME NEW t \in OnceTexts(c), ~Blank(t) PROVE Cardinality(Spots(x, t.ink)) = 1
    <2>1. t \in ModulTexts(c) /\ ~Shared(t.ink) BY OnceTextsAreThere
    <2> QED BY <1>2, <1>3, <2>1, OneSpot
  <1>4. Whole(x, OnceTexts(c)) BY <1>3 DEF Whole
  <1> QED BY <1>4 DEF x

\* Files that read alike show the same in the same places.
LEMMA SameSpots ==
    ASSUME NEW x, NEW y, Reading(x) = Reading(y), NEW ink
    PROVE  Spots(x, ink) = Spots(y, ink)
  <1> DEFINE Hits(z, i) == {<<i, j>> : j \in {k \in DOMAIN z[i].texts : z[i].texts[k].ink = ink}}
  <1>1. \A z : DOMAIN Reading(z) = DOMAIN z
               /\ \A i \in DOMAIN z : Reading(z)[i][3] = Ink(z[i].texts)
    BY DEF Reading
  <1>2. DOMAIN x = DOMAIN y /\ \A i \in DOMAIN x : Ink(x[i].texts) = Ink(y[i].texts)
    BY <1>1, Zenon
  <1>3. ASSUME NEW i \in DOMAIN x PROVE Hits(x, i) = Hits(y, i)
    <2>1. \A texts : DOMAIN Ink(texts) = DOMAIN texts
                     /\ \A j \in DOMAIN texts : Ink(texts)[j] = texts[j].ink
      BY DEF Ink
    <2>2. /\ DOMAIN x[i].texts = DOMAIN y[i].texts
          /\ \A j \in DOMAIN x[i].texts : x[i].texts[j].ink = y[i].texts[j].ink
      BY <1>2, <2>1, Zenon
    <2> QED BY <2>2
  <1>4. \A z : Spots(z, ink) = UNION {Hits(z, i) : i \in DOMAIN z} BY Zenon DEF Spots
  <1> HIDE DEF Hits
  <1>5. UNION {Hits(x, i) : i \in DOMAIN x} = UNION {Hits(y, i) : i \in DOMAIN y}
    BY <1>2, <1>3
  <1> QED BY <1>4, <1>5, Zenon

-----------------------------------------------------------------------------
(* A plan in the first format.                                             *)

\* Entries that are told apart.
LEMMA EntriesShow ==
    ASSUME NEW n \in Nat, NEW z, z = [i \in 1..n |-> z[i]], NEW D, NEW N,
           \A i \in 1..n : Shows(<<z[i]>>, D[i], N[i]),
           \A i, j \in 1..n : i # j => Apart(N[i], N[j])
    PROVE  Shows(z, AllOf(D, n), AllOf(N, n))
  <1>1. \A e : <<e>> \in Seq(Entries) => e \in Entries
    <2>1. ASSUME NEW e, <<e>> \in Seq(Entries) PROVE e \in Entries
      <3>1. \A s \in Seq(Entries) : \A i \in 1..Len(s) : s[i] \in Entries OBVIOUS
      <3>2. Len(<<e>>) = 1 /\ <<e>>[1] = e /\ 1 \in 1..1 OBVIOUS
      <3> QED BY <2>1, <3>1, <3>2
    <2> QED BY <2>1
  <1>2. \A i \in 1..n : z[i] \in Entries BY <1>1 DEF Shows
  <1>3. z \in Seq(Entries) /\ DOMAIN z = 1..n BY <1>2
  <1>4. \A e : DOMAIN <<e>> = {1} /\ <<e>>[1] = e OBVIOUS
  <1>5. ASSUME NEW i \in 1..n
        PROVE  /\ \A j, q \in DOMAIN z[i].texts :
                     z[i].texts[j].ink = z[i].texts[q].ink /\ ~Shared(z[i].texts[j].ink)
                        => j = q
               /\ \A j \in DOMAIN z[i].texts :
                     z[i].texts[j].ink \in N[i] \/ Shared(z[i].texts[j].ink)
               /\ \A t \in D[i] : Blank(t) \/ \E j \in DOMAIN z[i].texts :
                                                 z[i].texts[j].ink = t.ink
    <2> DEFINE e == z[i]
    <2>1. Shows(<<e>>, D[i], N[i]) OBVIOUS
    <2>2. DOMAIN <<e>> = {1} /\ <<e>>[1] = e BY <1>4
    <2> HIDE DEF e
    <2>3. Distinct(<<e>>) BY <2>1 DEF Shows
    <2>4. \A j, q \in DOMAIN e.texts :
             e.texts[j].ink = e.texts[q].ink /\ ~Shared(e.texts[j].ink) => j = q
      BY <2>2, <2>3 DEF Distinct
    <2>5. \A j \in DOMAIN e.texts : e.texts[j].ink \in N[i] \/ Shared(e.texts[j].ink)
      BY <2>1, <2>2 DEF Shows
    <2>6. \A t \in D[i] : Blank(t) \/ \E j \in DOMAIN e.texts : e.texts[j].ink = t.ink
      BY <2>1, <2>2 DEF Shows, Has
    <2> QED BY <2>4, <2>5, <2>6 DEF e
  <1>6. Distinct(z)
    <2> SUFFICES ASSUME NEW i \in 1..n, NEW p \in 1..n,
                        NEW j \in DOMAIN z[i].texts, NEW q \in DOMAIN z[p].texts,
                        z[i].texts[j].ink = z[p].texts[q].ink, ~Shared(z[i].texts[j].ink)
                 PROVE  i = p /\ j = q
      BY <1>3 DEF Distinct
    <2>1. z[i].texts[j].ink \in N[i] /\ z[p].texts[q].ink \in N[p] BY <1>5
    <2>2. i = p BY <2>1 DEF Apart
    <2> QED BY <1>5, <2>2
  <1>7. \A i \in 1..n : \A j \in DOMAIN z[i].texts :
           z[i].texts[j].ink \in AllOf(N, n) \/ Shared(z[i].texts[j].ink)
    BY <1>5, InAllOf
  <1>8. ASSUME NEW t \in AllOf(D, n) PROVE Blank(t) \/ Has(z, t.ink)
    <2>1. PICK i \in 1..n : t \in D[i] BY InAllOf
    <2> QED BY <1>3, <1>5, <2>1 DEF Has
  <1> QED BY <1>3, <1>6, <1>7, <1>8 DEF Shows

\* A blank duration is left out.
LEMMA OldItemShows ==
    ASSUME NEW item \in Text \cup [duration : Text, text : Text], NEW name, NEW i,
           InRow(Texts(item), name, 0, i)
    PROVE  Shows(<<OldItem(item)>>, ToSet(Texts(item)),
                 {ink \in Meeting(name, 0) : ink[3] = i})
  <1> DEFINE ts == Texts(item)  N == {ink \in Meeting(name, 0) : ink[3] = i}
             us == IF "duration" \notin DOMAIN item THEN <<item>>
                   ELSE IF Blank(item.duration) THEN <<item.text>>
                   ELSE <<item.duration, item.text>>
             e == OldItem(item)
  <1>1. /\ ts \in Seq(Written)
        /\ \/ us = ts
           \/ Len(ts) = 2 /\ Blank(ts[1]) /\ us = <<ts[2]>>
    <2>1. CASE "duration" \notin DOMAIN item
      <3>1. item \in Text BY <2>1
      <3>2. ts = <<item>> /\ us = <<item>> BY <2>1 DEF Texts
      <3>3. item \in Written BY <3>1, TextsAreWritten
      <3> QED BY <3>2, <3>3
    <2>2. CASE "duration" \in DOMAIN item
      <3>1. item \in [duration : Text, text : Text] BY <2>2 DEF Text
      <3>2. item.duration \in Written /\ item.text \in Written BY <3>1, TextsAreWritten
      <3>3. ts = <<item.duration, item.text>> BY <2>2 DEF Texts
      <3>4. us = IF Blank(item.duration) THEN <<item.text>> ELSE ts BY <2>2, <3>3
      <3>5. Len(ts) = 2 /\ ts[1] = item.duration /\ ts[2] = item.text BY <3>3
      <3>6. ts \in Seq(Written) BY <3>2, <3>3
      <3> HIDE DEF us, ts
      <3> QED BY <3>4, <3>5, <3>6
    <2> QED BY <2>1, <2>2
  <1>2. e = Entry("item", <<"", 0>>, us) BY DEF OldItem
  <1>3. InRow(ts, name, 0, i) OBVIOUS
  <1> HIDE DEF us, ts, e
  <1>4. us \in Seq(Written)
    <2>1. CASE us = ts BY <1>1, <2>1
    <2>2. CASE Len(ts) = 2 /\ us = <<ts[2]>>
      <3>1. ts[2] \in Written BY <1>1, <2>2
      <3> QED BY <2>2, <3>1
    <2> QED BY <1>1, <2>1, <2>2
  <1>5. e \in Entries /\ e.texts = us
    <2>1. "item" \in Words BY DEF Words
    <2>2. <<>> \in Seq(Passages) OBVIOUS
    <2> QED BY <1>2, <1>4, <2>1, <2>2, PlainLabel DEF Entry, Entries
  <1>6. /\ \A j \in 1..Len(ts) : ts[j].ink \in N
        /\ \A j, q \in 1..Len(ts) : ts[j].ink = ts[q].ink => j = q
    BY <1>1, <1>3, RowTellsApart
  <1> HIDE DEF N
  <1>7. CASE us = ts
    <2>1. DOMAIN e.texts = 1..Len(ts) /\ e.texts = ts BY <1>1, <1>5, <1>7
    <2>2. Shows(<<e>>, ToSet(e.texts), N) BY <1>5, <1>6, <2>1, EntryShows
    <2> QED BY <2>1, <2>2 DEF e, ts, N
  <1>8. CASE Len(ts) = 2 /\ Blank(ts[1]) /\ us = <<ts[2]>>
    <2> DEFINE t == ts[2]
    <2>0. 2 \in 1..Len(ts) BY <1>8
    <2>1. t \in Written /\ t.ink \in N
      <3>1. ts[2] \in Written BY <1>1, <2>0
      <3>2. ts[2].ink \in N BY <1>6, <2>0
      <3> QED BY <3>1, <3>2
    <2>2. \A x \in ToSet(ts) : x \in {t} \/ Blank(x)
      <3>1. \A j \in 1..2 : j = 1 \/ j = 2 OBVIOUS
      <3>2. DOMAIN ts = 1..2 BY <1>1, <1>8
      <3> QED BY <1>8, <3>1, <3>2 DEF ToSet
    <2>3. e.texts = <<t>> BY <1>5, <1>8
    <2> HIDE DEF t
    <2>4. Shows(<<e>>, {t}, {t.ink}) BY <1>5, <2>1, <2>3, OneTextShows
    <2>5. {t.ink} \subseteq N BY <2>1
    <2>6. Shows(<<e>>, ToSet(ts), N) BY <2>2, <2>4, <2>5, ShowsLess
    <2> QED BY <2>6 DEF e, ts, N
  <1> QED BY <1>1, <1>7, <1>8

TextsOfItems(items) == UNION {ToSet(Texts(item)) : item \in ToSet(items)}

\* add_section.
LEMMA OldListShows ==
    ASSUME NEW items \in Seq(Text \cup [duration : Text, text : Text]), NEW name,
           \A i \in DOMAIN items : InRow(Texts(items[i]), name, 0, i)
    PROVE  Shows([i \in DOMAIN items |-> OldItem(items[i])],
                 TextsOfItems(items), Parts({name}))
  <1> DEFINE n == Len(items)
             z == [i \in 1..n |-> OldItem(items[i])]
             D == [i \in 1..n |-> ToSet(Texts(items[i]))]
             N == [i \in 1..n |-> {ink \in Meeting(name, 0) : ink[3] = i}]
             Item == Text \cup [duration : Text, text : Text]
  <1>1. n \in Nat /\ DOMAIN items = 1..n /\ \A i \in 1..n : items[i] \in Item
    <2> HIDE DEF Item
    <2>1. items \in Seq(Item) BY DEF Item
    <2> QED BY <2>1
  <1>2. \A i \in 1..n : InRow(Texts(items[i]), name, 0, i) BY <1>1
  <1>3. z = [i \in 1..n |-> z[i]] OBVIOUS
  <1>4. \A i \in 1..n : /\ z[i] = OldItem(items[i]) /\ D[i] = ToSet(Texts(items[i]))
                        /\ N[i] = {ink \in Meeting(name, 0) : ink[3] = i}
    OBVIOUS
  <1>5. z = [i \in DOMAIN items |-> OldItem(items[i])] BY <1>1, Zenon DEF z
  <1> HIDE DEF n, z, D, N
  <1>6. ASSUME NEW i \in 1..n PROVE Shows(<<z[i]>>, D[i], N[i])
    <2>1. items[i] \in Text \cup [duration : Text, text : Text] BY <1>1
    <2>2. InRow(Texts(items[i]), name, 0, i) BY <1>2
    <2>3. Shows(<<OldItem(items[i])>>, ToSet(Texts(items[i])),
                {ink \in Meeting(name, 0) : ink[3] = i})
      BY <2>1, <2>2, OldItemShows
    <2> QED BY <1>4, <2>3, Zenon
  <1>7. \A i, j \in 1..n : i # j => Apart(N[i], N[j]) BY <1>4 DEF Apart
  <1>8. Shows(z, AllOf(D, n), AllOf(N, n))
    <2>1. n \in Nat BY <1>1
    <2> QED BY <1>3, <1>6, <1>7, <2>1, EntriesShow
  <1>9. AllOf(N, n) \subseteq Parts({name})
    <2>1. \A i \in 1..n : N[i] \subseteq Parts({name}) BY <1>4, NameMeetings
    <2>2. \A ink \in AllOf(N, n) : \E i \in 1..n : ink \in N[i] BY InAllOf
    <2> QED BY <2>1, <2>2
  <1>10. ASSUME NEW t \in TextsOfItems(items)
         PROVE  t \in AllOf(D, n)
    <2>0. PICK item \in ToSet(items) : t \in ToSet(Texts(item)) BY DEF TextsOfItems
    <2>1. PICK i \in 1..n : item = items[i] BY <1>1, <2>0 DEF ToSet
    <2>2. t \in D[i] BY <1>4, <2>0, <2>1
    <2> QED BY <2>2, InAllOf
  <1>11. Shows(z, TextsOfItems(items), Parts({name}))
    BY <1>8, <1>9, <1>10, ShowsLess
  <1> QED BY <1>5, <1>11

SectionTexts(section) ==
    CASE section.form = "text" -> {section.text}
      [] section.form = "list" -> TextsOfItems(section.items)
      [] section.form = "other" -> {}

SectionPlaced(name, section) ==
    /\ section.form = "text" => section.text.ink = <<name, 0, 0, 0>>
    /\ section.form = "list" =>
          \A i \in DOMAIN section.items : InRow(Texts(section.items[i]), name, 0, i)

LEMMA OldSectionShows ==
    ASSUME NEW name \in OldNames, NEW section \in Section, SectionPlaced(name, section)
    PROVE  Shows(OldSection(name, section), SectionTexts(section), Parts({name}))
  <1>1. name \in Words BY DEF OldNames, Words
  <1>2. CASE section.form = "text"
    <2>1. section.text \in Text BY <1>2 DEF Section
    <2> DEFINE t == section.text  ts == <<t>>
    <2>2. t \in Written /\ t.ink \in Parts({name})
      <3>1. t \in Written BY <2>1, TextsAreWritten
      <3>2. t.ink \in Inks BY <3>1 DEF Written
      <3>3. t.ink[1] = name BY <1>2, PlaceOf DEF SectionPlaced
      <3> QED BY <3>1, <3>2, <3>3 DEF Parts
    <2>3. OldSection(name, section) = Heading(name) \o Sentence(ts) BY <1>2 DEF OldSection
    <2>4. SectionTexts(section) = {t} BY <1>2 DEF SectionTexts
    <2> HIDE DEF t
    <2>5. ts \in Seq(Written) /\ Len(ts) = 1 /\ ts[1] = t BY <2>2
    <2>6. \A j \in 1..1 : j = 1 OBVIOUS
    <2> HIDE DEF ts
    <2>7. /\ \A j \in 1..Len(ts) : ts[j].ink \in Parts({name})
          /\ \A j, q \in 1..Len(ts) : j = q
      BY <2>2, <2>5, <2>6
    <2>8. Shows(Sentence(ts), ToSet(ts), Parts({name})) BY <2>5, <2>7, SentenceShows
    <2>9. ToSet(ts) = {t} BY OneMember DEF ts
    <2> QED BY <1>1, <2>3, <2>4, <2>8, <2>9, HeadingsShow
  <1>3. CASE section.form = "list"
    <2> DEFINE items == section.items
               z == [i \in DOMAIN items |-> OldItem(items[i])]
    <2>1. section.form = "list" /\ items \in Seq(Text \cup [duration : Text, text : Text])
      BY <1>3 DEF Section
    <2>2. \A i \in DOMAIN items : InRow(Texts(items[i]), name, 0, i)
      BY <1>3 DEF SectionPlaced
    <2>3. OldSection(name, section) = Heading(name) \o z BY <2>1 DEF OldSection
    <2>4. SectionTexts(section) = TextsOfItems(items)
      BY <1>3 DEF SectionTexts
    <2> HIDE DEF items
    <2>5. Shows(z, TextsOfItems(items), Parts({name}))
      BY <2>1, <2>2, OldListShows
    <2> HIDE DEF z
    <2> QED BY <1>1, <2>3, <2>4, <2>5, HeadingsShow
  <1>4. CASE section.form = "other"
    <2>1. OldSection(name, section) = Heading(name) \o <<>> BY <1>4 DEF OldSection
    <2>2. SectionTexts(section) = {} BY <1>4 DEF SectionTexts
    <2> QED BY <1>1, <2>1, <2>2, NothingShows, HeadingsShow
  <1> QED BY <1>2, <1>3, <1>4 DEF Section

PlanNames == {"subject", "grade", "topic"}

OldIdentity(c) ==
    Each(<<"subject", "grade", "topic">>, LAMBDA n :
        <<Entry("identity", <<n, 0>>, <<c.plan[n]>>)>>)

LEMMA OldIdentityShows ==
    ASSUME NEW c, OldShape(c), OldPlaced(c)
    PROVE  Shows(OldIdentity(c), {}, Parts(PlanNames))
  <1> DEFINE names == <<"subject", "grade", "topic">>
             s == [i \in 1..3 |-> <<Entry("identity", <<names[i], 0>>, <<c.plan[names[i]]>>)>>]
             T == [n \in PlanNames |-> {c.plan[n]}]
  <1>1. /\ names \in [1..3 -> PlanNames]
        /\ \A i, j \in 1..3 : names[i] = names[j] => i = j
    BY DEF PlanNames
  <1>2. \A n \in PlanNames : \E i \in 1..3 : names[i] = n
    <2>1. names[1] = "subject" /\ names[2] = "grade" /\ names[3] = "topic" OBVIOUS
    <2>2. 1 \in 1..3 /\ 2 \in 1..3 /\ 3 \in 1..3 OBVIOUS
    <2> HIDE DEF names
    <2> QED BY <2>1, <2>2 DEF PlanNames
  <1> HIDE DEF names
  <1>3. ASSUME NEW i \in 1..3 PROVE Shows(s[i], T[names[i]], Parts({names[i]}))
    <2> DEFINE n == names[i]  t == c.plan[n]  e == Entry("identity", <<n, 0>>, <<t>>)
    <2>1. n \in PlanNames BY <1>1
    <2>2. n \in Words /\ "identity" \in Words
      <3> HIDE DEF n
      <3>1. n \in TextNames BY <2>1 DEF PlanNames, TextNames
      <3> QED BY <3>1 DEF Words
    <2>3. <<n, 0>> \in Labels
      <3>1. 0 \in Int OBVIOUS
      <3> QED BY <2>2, <3>1, LabelsAre
    <2>4. t \in Written /\ t.ink \in Parts({n})
      <3>1. c.plan \in [PlanNames -> Text] BY DEF OldShape, PlanNames
      <3> HIDE DEF n
      <3>2. t \in Written BY <2>1, <3>1, TextsAreWritten
      <3>3. t.ink = <<n, 0, 0, 0>> BY <2>1, <3>1 DEF OldPlaced
      <3> HIDE DEF t
      <3>4. t.ink[1] = n BY <3>3, PlaceOf
      <3>5. t.ink \in Inks BY <3>2 DEF Written
      <3> QED BY <3>2, <3>4, <3>5 DEF Parts
    <2>5. s[i] = <<e>> /\ T[n] = {t} BY <2>1
    <2> HIDE DEF s, T, n, t
    <2>6. <<t>> \in Seq(Written) /\ <<>> \in Seq(Passages) BY <2>4
    <2>7. e \in Entries /\ e.texts = <<t>> BY <2>2, <2>3, <2>6 DEF Entry, Entries
    <2> HIDE DEF e
    <2>8. Shows(<<e>>, {t}, {t.ink}) BY <2>4, <2>7, OneTextShows
    <2>9. Shows(s[i], T[n], Parts({n})) BY <2>4, <2>5, <2>8, ShowsLess
    <2> QED BY <2>9 DEF n
  <1>4. DOMAIN names = 1..3 BY <1>1
  <1>5. FlattenSeq(s) = Each(names, LAMBDA n : <<Entry("identity", <<n, 0>>, <<c.plan[n]>>)>>)
    BY <1>4, Zenon DEF Each
  <1>6. s = [i \in 1..3 |-> s[i]] /\ 3 \in Nat OBVIOUS
  <1> HIDE DEF s, T
  <1>7. \A i \in 1..3 : names[i] \in PlanNames BY <1>1
  <1>8. Shows(FlattenSeq(s), OfNames(T, PlanNames), Parts(PlanNames))
    BY <1>1, <1>2, <1>3, <1>6, <1>7, NamesShow
  <1>9. Shows(FlattenSeq(s), {}, Parts(PlanNames)) BY <1>8, ShowsLess
  <1> QED BY <1>5, <1>9 DEF names, OldIdentity

OldSections(c) ==
    Each(<<"objectives", "materials", "activities", "assessment", "citations">>, LAMBDA n :
        When(n \in DOMAIN c.sections, OldSection(n, c.sections[n])))

TextsOfSections(c) == UNION {SectionTexts(c.sections[n]) : n \in DOMAIN c.sections}

LEMMA OldSectionsShow ==
    ASSUME NEW c, OldShape(c), OldPlaced(c)
    PROVE  Shows(OldSections(c), TextsOfSections(c), Parts(OldNames))
  <1> DEFINE names == <<"objectives", "materials", "activities", "assessment", "citations">>
             s == [i \in 1..5 |-> When(names[i] \in DOMAIN c.sections,
                                       OldSection(names[i], c.sections[names[i]]))]
             T == [n \in OldNames |->
                      IF n \in DOMAIN c.sections THEN SectionTexts(c.sections[n]) ELSE {}]
  <1>1. /\ names \in [1..5 -> OldNames]
        /\ \A i, j \in 1..5 : names[i] = names[j] => i = j
    <2>1. names \in [1..5 -> OldNames] BY DEF OldNames
    <2>2. \A i, j \in 1..5 : names[i] = names[j] => i = j OBVIOUS
    <2> QED BY <2>1, <2>2
  <1>2. \A n \in OldNames : \E i \in 1..5 : names[i] = n
    <2>1. /\ names[1] = "objectives" /\ names[2] = "materials" /\ names[3] = "activities"
          /\ names[4] = "assessment" /\ names[5] = "citations"
      OBVIOUS
    <2>2. 1 \in 1..5 /\ 2 \in 1..5 /\ 3 \in 1..5 /\ 4 \in 1..5 /\ 5 \in 1..5 OBVIOUS
    <2> HIDE DEF names
    <2> QED BY <2>1, <2>2 DEF OldNames
  <1> HIDE DEF names
  <1>3. ASSUME NEW i \in 1..5 PROVE Shows(s[i], T[names[i]], Parts({names[i]}))
    <2> DEFINE n == names[i]  section == c.sections[n]
    <2>1. n \in OldNames BY <1>1
    <2>2. /\ s[i] = When(n \in DOMAIN c.sections, OldSection(n, section))
          /\ T[n] = IF n \in DOMAIN c.sections THEN SectionTexts(section) ELSE {}
      BY <2>1
    <2> HIDE DEF s, T, n
    <2>3. CASE n \in DOMAIN c.sections
      <3>1. section \in Section BY <2>3 DEF OldShape
      <3>2. SectionPlaced(n, section) BY <2>3, Zenon DEF OldPlaced, SectionPlaced
      <3> HIDE DEF section
      <3>3. Shows(OldSection(n, section), SectionTexts(section), Parts({n}))
        BY <2>1, <3>1, <3>2, OldSectionShows
      <3>4. s[i] = OldSection(n, section) /\ T[n] = SectionTexts(section)
        BY <2>2, <2>3 DEF When
      <3> QED BY <3>3, <3>4 DEF n
    <2>4. CASE n \notin DOMAIN c.sections
      <3>1. s[i] = <<>> /\ T[n] = {} BY <2>2, <2>4 DEF When
      <3> QED BY <3>1, NothingShows DEF n
    <2> QED BY <2>3, <2>4
  <1>4. DOMAIN names = 1..5 BY <1>1
  <1>5. FlattenSeq(s) = Each(names, LAMBDA n : When(n \in DOMAIN c.sections,
                                                    OldSection(n, c.sections[n])))
    BY <1>4, Zenon DEF Each
  <1>6. s = [i \in 1..5 |-> s[i]] /\ 5 \in Nat OBVIOUS
  <1>7. \A n \in OldNames :
           T[n] = IF n \in DOMAIN c.sections THEN SectionTexts(c.sections[n]) ELSE {}
    OBVIOUS
  <1> HIDE DEF s, T
  <1>8. \A i \in 1..5 : names[i] \in OldNames BY <1>1
  <1>9. Shows(FlattenSeq(s), OfNames(T, OldNames), Parts(OldNames))
    BY <1>1, <1>2, <1>3, <1>6, <1>8, NamesShow
  <1>10. \A t \in TextsOfSections(c) : t \in OfNames(T, OldNames)
    <2>1. \A n \in DOMAIN c.sections : n \in OldNames /\ T[n] = SectionTexts(c.sections[n])
      BY <1>7 DEF OldShape
    <2> QED BY <2>1 DEF TextsOfSections, OfNames
  <1>11. Shows(FlattenSeq(s), TextsOfSections(c), Parts(OldNames))
    BY <1>9, <1>10, ShowsLess
  <1> QED BY <1>5, <1>11 DEF names, OldSections

LEMMA OldTitleShows ==
    ASSUME NEW c, OldShape(c), OldPlaced(c)
    PROVE  Shows(<<Entry("title", <<"", 0>>, <<c.title>>)>>, {c.title}, Parts({"title"}))
  <1> DEFINE t == c.title  e == Entry("title", <<"", 0>>, <<t>>)
  <1>1. t \in Written /\ t.ink[1] = "title"
    <2>1. t \in Written BY TextsAreWritten DEF OldShape
    <2>2. t.ink = <<"title", 0, 0, 0>> BY DEF OldPlaced
    <2> HIDE DEF t
    <2> QED BY <2>1, <2>2, PlaceOf
  <1> HIDE DEF t
  <1>2. t.ink \in Parts({"title"}) BY <1>1 DEF Parts, Written
  <1>3. "title" \in Words BY DEF Words, TextNames
  <1>4. <<t>> \in Seq(Written) /\ <<>> \in Seq(Passages) BY <1>1
  <1>5. e \in Entries /\ e.texts = <<t>> BY <1>3, <1>4, PlainLabel DEF Entry, Entries
  <1> HIDE DEF e
  <1>6. Shows(<<e>>, {t}, {t.ink}) BY <1>1, <1>5, OneTextShows
  <1>7. Shows(<<e>>, {t}, Parts({"title"})) BY <1>2, <1>6, ShowsLess
  <1> QED BY <1>7 DEF e, t

\* All that a plan in the first format holds is in its PDF, if it has one.
LEMMA OldPlanIsWhole ==
    ASSUME NEW c, OldShape(c), OldPlaced(c)
    PROVE  Whole(GenerateLessonPlanPdf(c), OldTexts(c))
  <1> DEFINE a1 == OldIdentity(c)
             a2 == <<Entry("title", <<"", 0>>, <<c.title>>)>>
             a3 == OldSections(c)
             D3 == TextsOfSections(c)
             P1 == PlanNames  P2 == {"title"}  P3 == OldNames
             x == GenerateLessonPlanPdf(c)
             N == Parts((P1 \cup P2) \cup P3)
  <1>1. Shows(a1, {}, Parts(P1)) /\ Shows(a2, {c.title}, Parts(P2)) /\ Shows(a3, D3, Parts(P3))
    BY OldIdentityShows, OldTitleShows, OldSectionsShow
  <1>2. P1 \cap P2 = {} /\ (P1 \cup P2) \cap P3 = {} BY DEF PlanNames, OldNames
  <1>3. x = a1 \o a2 \o a3 BY DEF GenerateLessonPlanPdf, OldIdentity, OldSections
  <1>4. OldTexts(c) = {c.title} \cup D3 BY DEF OldTexts, TextsOfSections, SectionTexts, TextsOfItems
  <1>5. \A t \in OldTexts(c) : ~Shared(t.ink)
    <2>1. c.title.ink[1] = "title" BY PlaceOf DEF OldPlaced
    <2>2. ASSUME NEW n \in DOMAIN c.sections, NEW t \in SectionTexts(c.sections[n])
          PROVE  t.ink[1] = n
      <3> DEFINE section == c.sections[n]
      <3>1. SectionPlaced(n, section) BY Zenon DEF OldPlaced, SectionPlaced
      <3>2. t \in SectionTexts(section) OBVIOUS
      <3>3. section \in Section BY DEF OldShape
      <3> HIDE DEF section
      <3>4. CASE section.form = "text"
        <4>1. t = section.text BY <3>2, <3>4 DEF SectionTexts
        <4> QED BY <3>1, <3>4, <4>1, PlaceOf DEF SectionPlaced
      <3>5. CASE section.form = "list"
        <4>1. t \in TextsOfItems(section.items) BY <3>2, <3>5 DEF SectionTexts
        <4>2. PICK item \in ToSet(section.items) : t \in ToSet(Texts(item))
          BY <4>1 DEF TextsOfItems
        <4>3. PICK k \in DOMAIN section.items : item = section.items[k]
          BY <4>2 DEF ToSet
        <4>4. InRow(Texts(item), n, 0, k) BY <3>1, <3>5, <4>3 DEF SectionPlaced
        <4>5. PICK j \in DOMAIN Texts(item) : t = Texts(item)[j] BY <4>2 DEF ToSet
        <4>6. t.ink = <<n, 0, k, j>> BY <4>4, <4>5 DEF InRow
        <4> QED BY <4>6, PlaceOf
      <3>6. section.form # "other" BY <3>2 DEF SectionTexts
      <3> QED BY <3>4, <3>5, <3>3, <3>6 DEF Section
    <2>3. \A n \in OldNames \cup {"title"} : n \notin {"topic", "model", "column", ""}
      BY DEF OldNames
    <2>4. DOMAIN c.sections \subseteq OldNames BY DEF OldShape
    <2>5. \A t \in D3 : \E n \in DOMAIN c.sections : t \in SectionTexts(c.sections[n])
      BY DEF TextsOfSections
    <2>6. \A t \in D3 : ~Shared(t.ink)
      <3> HIDE DEF D3
      <3> TAKE t \in D3
      <3>1. PICK n \in DOMAIN c.sections : t \in SectionTexts(c.sections[n]) BY <2>5
      <3>2. t.ink[1] = n BY <2>2, <3>1
      <3>3. n \notin {"topic", "model", "column", ""} BY <2>3, <2>4
      <3> QED BY <3>2, <3>3 DEF Shared
    <2>7. ~Shared(c.title.ink) BY <2>1, <2>3 DEF Shared
    <2> HIDE DEF D3
    <2> QED BY <1>4, <2>6, <2>7
  <1> HIDE DEF a1, a2, a3, D3, P1, P2, P3, x
  <1>6. Shows(a1 \o a2, {} \cup {c.title}, Parts(P1 \cup P2)) BY <1>1, <1>2, JoinParts
  <1>7. Shows(x, ({} \cup {c.title}) \cup D3, N) BY <1>1, <1>2, <1>3, <1>6, JoinParts
  <1> HIDE DEF N
  <1>8. Distinct(x) /\ \A t \in OldTexts(c) : Blank(t) \/ Has(x, t.ink)
    BY <1>4, <1>7 DEF Shows
  <1>9. ASSUME NEW t \in OldTexts(c), ~Blank(t) PROVE Cardinality(Spots(x, t.ink)) = 1
    BY <1>5, <1>8, <1>9, OneSpot
  <1>10. Whole(x, OldTexts(c)) BY <1>9 DEF Whole
  <1> QED BY <1>10 DEF x

-----------------------------------------------------------------------------
(* Where the texts of what is stored stand.                                *)

\* The texts of a stored module tell where they stand in it.
Located(m) == Placed(m) /\ InRow(Objectives(m), "goal", 0, 0)

LEMMA StoredIsPut ==
    ASSUME NEW m, StoredModule(m), Located(m) PROVE Put(m)
  <1>1. PICK c \in Shape, goals \in Seq(Goal), refs \in Seq(Passages) :
            m = With(goals, refs, c) /\ Valid(m)
    BY DEF StoredModule
  <1>2. IsContent(m) BY <1>1, ModuleIsContent
  <1>3. m.text = c.text /\ m.lists = c.lists /\ m.assessment = c.assessment
    BY <1>1, FieldsOfWith
  <1>4. /\ DOMAIN m.text = TextNames /\ DOMAIN m.lists = ListNames
        /\ DOMAIN m.assessment = AssessmentNames
    BY <1>3 DEF Shape, TextNames, ListNames, AssessmentNames
  <1>5. Placed(m) /\ InRow(Objectives(m), "goal", 0, 0) BY DEF Located
  <1> QED BY <1>2, <1>4, <1>5 DEF Placed, Put

LEMMA WithIsPlaced ==
    ASSUME NEW c \in Shape, Placed(c), NEW goals, NEW refs
    PROVE  Placed(With(goals, refs, c))
  <1> DEFINE m == With(goals, refs, c)
  <1>1. /\ m.text = c.text /\ m.lists = c.lists /\ m.assessment = c.assessment
        /\ m.pancasila = c.pancasila /\ m.glossary = c.glossary
        /\ m.meetings = c.meetings /\ m.overview = c.overview /\ m.rubric = c.rubric
        /\ m.reading = c.reading
    BY FieldsOfWith
  <1> HIDE DEF m
  <1>2. Placed(m) BY <1>1 DEF Placed
  <1> QED BY <1>2 DEF m

\* The objectives of an answer are given the texts in their order.
LEMMA ObjectivesInOrder ==
    ASSUME NEW c \in Shape, InRow(c.goals, "goal", 0, 0),
           NEW a, NEW goals \in InOrder(a, c.goals), goals \in Seq(Goal), NEW refs
    PROVE  InRow(Objectives(With(goals, refs, c)), "goal", 0, 0)
  <1>1. PICK q \in SetToSeqs(a) :
           /\ Len(q) <= Len(c.goals)
           /\ \E cites \in {f \in [DOMAIN q -> UNION {SetToSeqs(o.sources) : o \in a}] :
                               \A i \in DOMAIN q : ToSet(f[i]) = q[i].sources} :
                 goals = [i \in DOMAIN q |-> [text |-> c.goals[i], sources |-> cites[i],
                                              grounded |-> q[i].grounded]]
    BY DEF InOrder
  <1>2. PICK cites :
           goals = [i \in DOMAIN q |-> [text |-> c.goals[i], sources |-> cites[i],
                                        grounded |-> q[i].grounded]]
    BY <1>1
  <1>3. DOMAIN goals = DOMAIN q /\ \A i \in DOMAIN q : goals[i].text = c.goals[i] BY <1>2
  <1>4. Objectives(With(goals, refs, c)) = [i \in DOMAIN goals |-> goals[i].text]
    BY FieldsOfWith DEF Objectives
  <1>5. DOMAIN q \subseteq DOMAIN c.goals
    <2>1. PICK n \in Nat : DOMAIN q = 1..n
      <3>1. DOMAIN goals = 1..Len(goals) /\ Len(goals) \in Nat OBVIOUS
      <3> QED BY <1>3, <3>1
    <2>2. Len(q) = n BY <2>1
    <2>3. c.goals \in Seq(Text) BY DEF Shape
    <2> QED BY <1>1, <2>1, <2>2, <2>3
  <1> QED BY <1>3, <1>4, <1>5 DEF InRow

\* What was stored keeps telling where its texts stand, and a plan in the first
\* format has the PDF of what it holds.
PlacesAreKept ==
    /\ version = 2 /\ stage = "done" => Located(saved)
    /\ version = 1 =>
          /\ saved \in OldContents
          /\ \/ pdf = NotExported
             \/ \E raises \in BOOLEAN : pdf = Rendered(GenerateLessonPlanPdf(saved), raises)

LEMMA PlacesInit == ExportInit => PlacesAreKept
  BY DEF ExportInit, Init, PlacesAreKept

LEMMA PlacesComplete ==
    ASSUME ExportIInv, Complete PROVE PlacesAreKept'
  <1>1. stage = "returned" /\ UNCHANGED version BY DEF Complete
  <1>2. ReturnedIsClean /\ version = 2 BY <1>1 DEF ExportIInv, GenerationIs, PlanIs
  <1>3. PICK c \in Shapes : \E goals \in InOrder(content.objectives, c.goals) :
             saved' = With(goals, Ordered(goals, references), c)
    BY DEF Complete
  <1>4. PICK goals \in InOrder(content.objectives, c.goals) :
            saved' = With(goals, Ordered(goals, references), c)
    BY <1>3
  <1>5. c \in Shape BY ShapesAssumption
  <1>6. c.goals \in Seq(Text) BY <1>5 DEF Shape
  <1>7. goals \in Seq(Goal) BY <1>2, <1>6, InOrderCitesTheSame DEF ReturnedIsClean
  <1>8. Placed(c) /\ InRow(c.goals, "goal", 0, 0) BY PlacesAssumption
  <1>9. Placed(saved') BY <1>4, <1>5, <1>8, WithIsPlaced
  <1>10. InRow(Objectives(saved'), "goal", 0, 0)
    BY <1>4, <1>5, <1>7, <1>8, ObjectivesInOrder
  <1>11. Located(saved') BY <1>9, <1>10 DEF Located
  <1> QED BY <1>1, <1>2, <1>11 DEF PlacesAreKept

LEMMA PlacesUpdate ==
    ASSUME ExportIInv, PlacesAreKept, status = "completed", NEW c \in Sent, UpdateContent(c)
    PROVE  PlacesAreKept'
  <1>1. saved' = c /\ pdf' = NotExported /\ UNCHANGED <<version, stage>>
    BY DEF UpdateContent, vars
  <1>2. CASE version = 1
    <2>1. c \in OldContents BY <1>2 DEF Sent
    <2> QED BY <1>1, <1>2, <2>1 DEF PlacesAreKept
  <1>3. CASE version # 1
    <2>1. version = 2 /\ stage = "done" BY <1>3 DEF ExportIInv, PlanIs
    <2>2. Located(saved) BY <2>1 DEF PlacesAreKept
    <2>3. PICK r \in {saved.references, <<>>}, e \in EditedShapes :
              c = With(saved.objectives, r, e)
      BY <1>3 DEF Sent
    <2>4. e \in Shape /\ Placed(e) BY ShapesAssumption, PlacesAssumption
    <2>5. Placed(c) BY <2>3, <2>4, WithIsPlaced
    <2>6. c.objectives = saved.objectives BY <2>3, <2>4, FieldsOfWith
    <2>7. Objectives(c) = Objectives(saved) BY <2>6 DEF Objectives
    <2>8. Located(c) BY <2>2, <2>5, <2>7 DEF Located
    <2> QED BY <1>1, <2>1, <2>8 DEF PlacesAreKept
  <1> QED BY <1>2, <1>3

LEMMA PlacesStep ==
    ASSUME ExportIInv, PlacesAreKept, ExportIInv', [ExportNext]_exportVars
    PROVE  PlacesAreKept'
  <1>1. CASE Generate
    <2>1. UNCHANGED planVars /\ status = "pending" /\ version = 2 BY <1>1 DEF Generate
    <2>2. UNCHANGED <<version, status, saved>> BY <2>1 DEF planVars
    <2>3. stage' # "done" BY <2>1, <2>2 DEF ExportIInv, PlanIs
    <2> QED BY <2>1, <2>2, <2>3 DEF PlacesAreKept
  <1>2. CASE Return
    <2>1. stage = "saved" /\ stage' = "returned" /\ UNCHANGED <<planVars, fileVars>>
      BY <1>2 DEF Return
    <2>2. version # 1 BY <2>1 DEF ExportIInv, PlanIs
    <2> QED BY <2>1, <2>2 DEF PlacesAreKept, planVars
  <1>3. CASE Complete BY <1>3, PlacesComplete
  <1>4. CASE status = "completed" /\ \E c \in Sent : UpdateContent(c)
    BY <1>4, PlacesUpdate
  <1>5. CASE ExportPdf
    <2>1. UNCHANGED <<vars, planVars>> BY <1>5 DEF ExportPdf
    <2>2. UNCHANGED <<stage, version, saved>> BY <2>1 DEF vars, planVars
    <2>3. ASSUME version = 1
          PROVE \E raises \in BOOLEAN : pdf' = Rendered(GenerateLessonPlanPdf(saved), raises)
      <3> DEFINE x == GenerateLessonPlanPdf(saved)
                 entries == IF version = 2 THEN GenerateModulPdf(saved) ELSE x
      <3>1. \E raises \in BOOLEAN : pdf' = Rendered(entries, raises)
        BY <1>5, Zenon DEF ExportPdf
      <3>2. entries = x BY <2>3
      <3> HIDE DEF x, entries
      <3> QED BY <3>1, <3>2 DEF x
    <2> QED BY <2>2, <2>3 DEF PlacesAreKept
  <1>6. CASE ExportDocx
    <2>1. UNCHANGED <<vars, planVars, pdf>> /\ version = 2 BY <1>6 DEF ExportDocx
    <2>2. UNCHANGED <<stage, version, saved>> BY <2>1 DEF vars, planVars
    <2> QED BY <2>1, <2>2 DEF PlacesAreKept
  <1>7. CASE UNCHANGED exportVars
    BY <1>7 DEF exportVars, vars, planVars, fileVars, PlacesAreKept
  <1> QED BY <1>1, <1>2, <1>3, <1>4, <1>5, <1>6, <1>7 DEF ExportNext

LEMMA PlacesInvariant == ExportSpec => []PlacesAreKept
  BY ExportInitInv, ExportStepInv, PlacesInit, PlacesStep, PTL DEF ExportSpec

-----------------------------------------------------------------------------
(* What holds of every run.                                                *)

\* The owner's two files of a module have the same sections in the same order,
\* with the same numbers, texts and citations (utils/modul_pdf, utils/modul_docx),
\* whatever the model or the owner wrote.
THEOREM ExportsAlwaysAgree == ExportSpec => []ExportsAgree
  <1>1. ASSUME ExportIInv PROVE ExportsAgree
    <2> SUFFICES ASSUME pdf.result = "shown", docx.result = "shown"
                 PROVE  Reading(pdf.entries) = Reading(docx.entries)
      BY DEF ExportsAgree
    <2>1. docx # NotExported BY DEF NotExported
    <2>2. version = 2 /\ stage = "done" BY <1>1, <2>1 DEF ExportIInv, PlanIs
    <2>3. StoredModule(saved) /\ FilesAreCurrent BY <1>1, <2>2 DEF ExportIInv, PlanIs
    <2>4. pdf.entries = GenerateModulPdf(saved) /\ docx.entries = GenerateModulDocx(saved)
      BY <2>3 DEF FilesAreCurrent, NotExported, Rendered
    <2> QED BY <2>3, <2>4, StoredModulesExport
  <1> QED BY <1>1, ExportInvariant, PTL

\* In a module as generation left it, what a file cites was retrieved, and has one
\* line in its list of references, which lists nothing else (build_references).
THEOREM CitationsAlwaysResolve == ExportSpec => []CitationsResolve
  <1>1. ASSUME ExportIInv PROVE CitationsResolve
    <2> SUFFICES ASSUME version = 2, ~edited, NEW file \in {pdf, docx}
                 PROVE  /\ \A id \in Cites(file.entries) :
                              id \in Passages /\ Cardinality(Lines(id, file.entries)) = 1
                        /\ \A id \in Passages : Lines(id, file.entries) # {} =>
                              \E o \in ToSet(saved.objectives) : id \in ToSet(o.sources)
      BY DEF CitationsResolve
    <2>1. CASE file = NotExported
      <3>1. file.entries = <<>> BY <2>1 DEF NotExported
      <3>2. Cites(<<>>) = {} BY NoMembers DEF Cites
      <3>3. \A id : Lines(id, <<>>) = {} BY DEF Lines
      <3> QED BY <3>1, <3>2, <3>3
    <2>2. CASE file # NotExported
      <3>1. stage = "done" BY <1>1, <2>2 DEF ExportIInv, PlanIs
      <3>2. StoredModule(saved) /\ FilesAreCurrent /\ ListsWhatItCites(saved)
        BY <1>1, <3>1 DEF ExportIInv, PlanIs
      <3>3. file.entries \in {GenerateModulPdf(saved), GenerateModulDocx(saved)}
        BY <2>2, <3>2 DEF FilesAreCurrent, Rendered
      <3>4. /\ \A id \in Cites(file.entries) :
                  id \in Passages /\ Cardinality(Lines(id, file.entries)) = 1
            /\ \A id : Lines(id, file.entries) # {} => id \in CitedBy(saved)
        BY <3>2, <3>3, StoredModulesExport
      <3>5. \A id \in CitedBy(saved) :
               \E o \in ToSet(saved.objectives) : id \in ToSet(o.sources)
        BY DEF CitedBy, ToSet
      <3> QED BY <3>4, <3>5
    <2> QED BY <2>1, <2>2
  <1> QED BY <1>1, ExportInvariant, PTL

\* Whatever the model writes and the owner sends, every text of a stored module that
\* is not blank stands, once, in the PDF and the Word file that are shown, and Word's
\* fails for noncharacters only (modul_docx._clean takes the control characters); an
\* old plan's PDF, if it is shown, shows all that the sections read hold (modul_pdf,
\* modul_docx, pdf_generator).
THEOREM ExportsAreWhole == ExportSpec => []ExportsWhole
  <1>1. ASSUME ExportIInv, PlacesAreKept PROVE ExportsWhole
    <2>1. ASSUME version = 2, NEW file \in {pdf, docx}, file.result = "shown"
          PROVE  Whole(file.entries, OnceTexts(saved))
      <3> DEFINE x == GenerateModulPdf(saved)  y == GenerateModulDocx(saved)
      <3>1. file # NotExported BY <2>1 DEF NotExported
      <3>2. stage = "done" BY <1>1, <2>1, <3>1 DEF ExportIInv, PlanIs
      <3>3. StoredModule(saved) /\ FilesAreCurrent /\ Located(saved)
        BY <1>1, <2>1, <3>2 DEF ExportIInv, PlanIs, PlacesAreKept
      <3>4. \E raises \in BOOLEAN : file = Rendered(x, raises) \/ file = Rendered(y, raises)
        BY <3>1, <3>3 DEF FilesAreCurrent
      <3>5. Whole(x, OnceTexts(saved)) BY <3>3, StoredIsPut, ModulIsWhole
      <3>6. Reading(x) = Reading(y) BY <3>3, StoredModulesExport
      <3> HIDE DEF x, y
      <3>7. \A ink : Spots(x, ink) = Spots(y, ink) BY <3>6, SameSpots
      <3>8. Whole(y, OnceTexts(saved)) BY <3>5, <3>7, Zenon DEF Whole
      <3>9. file.entries \in {x, y} BY <3>4 DEF Rendered
      <3> QED BY <3>5, <3>8, <3>9
    <2>3. ASSUME version = 2, docx.result = "error"
          PROVE  ~Free(docx.entries, "noncharacter")
      <3>1. docx # NotExported BY <2>3 DEF NotExported
      <3>2. FilesAreCurrent BY <1>1, <2>3, <3>1 DEF ExportIInv, PlanIs
      <3> DEFINE y == GenerateModulDocx(saved)
      <3>3. PICK raises \in BOOLEAN :
                docx = Rendered(y, raises) /\ (raises => ~Free(y, "noncharacter"))
        BY <3>1, <3>2 DEF FilesAreCurrent
      <3> HIDE DEF y
      <3>4. raises /\ docx.entries = y BY <2>3, <3>3 DEF Rendered
      <3> QED BY <3>3, <3>4
    <2>2. ASSUME version = 1, pdf.result = "shown"
          PROVE  Whole(pdf.entries, OldTexts(saved))
      <3>1. pdf # NotExported BY <2>2 DEF NotExported
      <3>2. saved \in OldContents /\ pdf.entries = GenerateLessonPlanPdf(saved)
        BY <1>1, <2>2, <3>1 DEF PlacesAreKept, Rendered
      <3>3. OldShape(saved) /\ OldPlaced(saved) BY <3>2, PlacesAssumption
      <3> QED BY <3>2, <3>3, OldPlanIsWhole
    <2> QED BY <2>1, <2>2, <2>3 DEF ExportsWhole
  <1> QED BY <1>1, ExportInvariant, PlacesInvariant, PTL

\* A module saved on its way to the plan is grounded as in generation by itself.
THEOREM ExportedModulesAreGrounded == ExportSpec => []SavedIsGrounded
  <1>1. ExportIInv => SavedIsGrounded
    BY DEF ExportIInv, GenerationIs, IInv, SavedIsGrounded
  <1> QED BY <1>1, ExportInvariant, PTL

\* And has cost no more calls.
THEOREM ExportedCallsAreBounded == ExportSpec => []CallsBounded
  <1>1. ExportIInv => CallsBounded BY DEF ExportIInv, GenerationIs, CallsCounted
  <1> QED BY <1>1, ExportInvariant, PTL

=============================================================================
