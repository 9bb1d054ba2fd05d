----------------------------- MODULE ModulExport -----------------------------
(***************************************************************************)
(* A lesson plan from its generation to the files its owner downloads: what *)
(* ModulGeneration saves is completed to a stored module, which the owner   *)
(* may edit and export to PDF and to Word.  A plan of the first format is   *)
(* there already; it has a PDF only.                                        *)
(*                                                                         *)
(* An export reads the row once and renders what it read in a thread, so it *)
(* is one step.                                                             *)
(***************************************************************************)
EXTENDS ModulGeneration, Export

CONSTANTS
    Shapes,         \* what the model may write beside the objectives
    EditedShapes,   \* and what the owner may send for it
    OldContents     \* contents of plans in the first format

\* Table._rows_match_columns, of every table.
ValidTable(table) == \A i \in DOMAIN table.rows : Len(table.rows[i]) = Len(table.columns)
Valid(c) ==
    /\ ValidTable(c.overview) /\ ValidTable(c.rubric)
    /\ \A i \in DOMAIN c.meetings : ValidTable(c.meetings[i].activities)

\* An answer of the model that is not valid is no module ("invalid").
ASSUME ShapesAssumption ==
    /\ Shapes \subseteq {c \in Shape : Valid(c)}
    /\ EditedShapes \subseteq Shape

\* The inks of the texts of a module tell where they stand.
InRow(texts, part, k, i) == \A j \in DOMAIN texts : texts[j].ink = <<part, k, i, j>>
InRows(rows, part, k) == \A i \in DOMAIN rows : InRow(rows[i], part, k, i)
InTable(table, part, k) ==
    /\ table.caption.ink = <<part, k, 0, 0>>
    /\ InRow(table.columns, part, k, 0) /\ InRows(table.rows, part, k)
Placed(c) ==
    /\ \A n \in DOMAIN c.text : c.text[n].ink = <<n, 0, 0, 0>>
    /\ \A n \in DOMAIN c.lists : InRow(c.lists[n], n, 0, 0)
    /\ \A a \in DOMAIN c.assessment : InRow(c.assessment[a], a, 0, 0)
    /\ InRows(c.pancasila, "pancasila", 0) /\ InRows(c.glossary, "glossary", 0)
    /\ \A k \in DOMAIN c.meetings : /\ c.meetings[k].title.ink = <<"meeting", k, 0, 0>>
                                    /\ InTable(c.meetings[k].activities, "activities", k)
    /\ InTable(c.overview, "overview", 0) /\ InTable(c.rubric, "rubric", 0)
    /\ InRow(c.reading, "reading", 0, 0)

Texts(item) == IF "duration" \in DOMAIN item THEN <<item.duration, item.text>> ELSE <<item>>
OldPlaced(c) ==
    /\ c.title.ink = <<"title", 0, 0, 0>>
    /\ \A n \in DOMAIN c.plan : c.plan[n].ink = <<n, 0, 0, 0>>
    /\ \A n \in DOMAIN c.sections :
          /\ c.sections[n].form = "text" => c.sections[n].text.ink = <<n, 0, 0, 0>>
          /\ c.sections[n].form = "list" =>
                \A i \in DOMAIN c.sections[n].items :
                    InRow(Texts(c.sections[n].items[i]), n, 0, i)

ASSUME PlacesAssumption ==
    /\ \A c \in Shapes \cup EditedShapes : Placed(c) /\ InRow(c.goals, "goal", 0, 0)
    /\ \A c \in OldContents : OldShape(c) /\ OldPlaced(c)

VARIABLES
    version,    \* schema_version of the plan
    status,     \* of the plan
    saved,      \* generated_content
    edited,     \* the owner has changed it
    pdf, docx   \* the exports of the content as it is now, once asked for

planVars == <<version, status, saved, edited>>
fileVars == <<pdf, docx>>
exportVars == <<vars, planVars, fileVars>>

NotExported == [result |-> "none", entries |-> <<>>]

ExportInit ==
    /\ Init
    /\ \/ version = 2 /\ status = "pending" /\ saved = None
       \/ version = 1 /\ status = "completed" /\ saved \in OldContents
    /\ edited = FALSE
    /\ pdf = NotExported /\ docx = NotExported

Generate == version = 2 /\ status = "pending" /\ Next /\ UNCHANGED <<planVars, fileVars>>

-----------------------------------------------------------------------------
\* build_references: the ids in the order in which the objectives cite them.
Ordered(objectives, ids) ==
    LET cited == FlattenSeq([i \in DOMAIN objectives |-> objectives[i].sources])
        First(i) == cited[i] \in ids /\ \A j \in 1 .. i - 1 : cited[j] # cited[i]
    IN  FlattenSeq([i \in DOMAIN cited |-> IF First(i) THEN <<cited[i]>> ELSE <<>>])

\* The objectives of an answer, in some order, each with its sources in some order
\* and one of the texts.
InOrder(objectives, texts) ==
    UNION {{[i \in DOMAIN s |-> [text |-> texts[i], sources |-> cites[i],
                                 grounded |-> s[i].grounded]] :
            cites \in {f \in [DOMAIN s -> UNION {SetToSeqs(o.sources) : o \in objectives}] :
                          \A i \in DOMAIN s : ToSet(f[i]) = s[i].sources}} :
           s \in {q \in SetToSeqs(objectives) : Len(q) <= Len(texts)}}

\* A module: its objectives and references, and the rest of it.
With(goals, refs, c) ==
    [n \in DOMAIN c \cup {"objectives", "references"} |->
        IF n = "objectives" THEN goals ELSE IF n = "references" THEN refs ELSE c[n]]

\* generate_modul returns: its locals are gone.
Return ==
    /\ stage = "saved"
    /\ stage' = "returned" /\ tries' = 0 /\ calls' = 0 /\ first' = None
    /\ UNCHANGED <<content, references, warnings, error, planVars, fileVars>>

\* The worker stores what it returned, and the plan is completed.
Complete ==
    /\ stage = "returned"
    /\ stage' = "done"
    /\ \E c \in Shapes : \E goals \in InOrder(content.objectives, c.goals) :
           saved' = With(goals, Ordered(goals, references), c)
    /\ status' = "completed"
    /\ content' = None /\ references' = {} /\ warnings' = FALSE
    /\ UNCHANGED <<tries, calls, first, error, version, edited, fileVars>>

\* What the owner sends: other texts and tables, with the references or without.
Sent ==
    IF version = 1 THEN OldContents
    ELSE {With(saved.objectives, r, c) :
             r \in {saved.references, <<>>}, c \in EditedShapes}

\* Variant of UpdateContent: the edit is stored as it is sent.
UpdateContent_Unchecked(c) ==
    /\ status = "completed"
    /\ saved' = c
    /\ edited' = TRUE
    /\ pdf' = NotExported /\ docx' = NotExported
    /\ UNCHANGED <<vars, version, status>>

\* update_content: an edit of a module must still be one.
UpdateContent(c) ==
    /\ status = "completed"
    /\ version = 2 => Valid(c)
    /\ saved' = c
    /\ edited' = TRUE
    /\ pdf' = NotExported /\ docx' = NotExported
    /\ UNCHANGED <<vars, version, status>>

\* _get_exportable.
Exportable == status = "completed" /\ (version = 1 => ~saved.empty)

\* What an export answers: its entries, or an error if the library raises.
Rendered(entries, raises) ==
    [result |-> IF raises THEN "error" ELSE "shown", entries |-> entries]

ExportPdf ==
    LET entries == IF version = 2 THEN GenerateModulPdf(saved)
                                  ELSE GenerateLessonPlanPdf(saved) IN
    /\ Exportable
    /\ \E raises \in BOOLEAN :
          /\ version = 2 /\ Fits(entries) => ~raises
          /\ version = 1 => raises = ~(Free(entries, "wide") /\ Free(entries, "noncharacter"))
          /\ pdf' = Rendered(entries, raises)
    /\ UNCHANGED <<vars, planVars, docx>>

\* Word export of full modules only.
ExportDocx ==
    LET entries == GenerateModulDocx(saved) IN
    /\ Exportable
    /\ version = 2
    /\ docx' = Rendered(entries, ~(Free(entries, "control") /\ Free(entries, "noncharacter")))
    /\ UNCHANGED <<vars, planVars, pdf>>

ExportNext ==
    \/ Generate
    \/ Return
    \/ Complete
    \/ status = "completed" /\ \E c \in Sent : UpdateContent(c)
    \/ ExportPdf
    \/ ExportDocx

ExportSpec == ExportInit /\ [][ExportNext]_exportVars

-----------------------------------------------------------------------------
(* Properties.                                                             *)

Ink(texts) == [i \in DOMAIN texts |-> texts[i].ink]
Reading(entries) ==
    [i \in DOMAIN entries |-> <<entries[i].style, entries[i].label,
                                Ink(entries[i].texts), entries[i].marks>>]

\* "The same sections in the same order", with the same numbers, texts and
\* citations: the two exports of one content read alike, whatever in it is empty,
\* blank or not to be written in Word.
ExportsAgree ==
    pdf.result = "shown" /\ docx.result = "shown" =>
        Reading(pdf.entries) = Reading(docx.entries)

TextsOfTable(table) == {table.caption} \cup ToSet(table.columns)
                          \cup UNION {ToSet(r) : r \in ToSet(table.rows)}
OnceTexts(c) ==
    {c.text[n] : n \in DOMAIN c.text \ {"topic", "model"}}
    \cup (UNION {ToSet(c.lists[n]) : n \in DOMAIN c.lists})
    \cup {o.text : o \in ToSet(c.objectives)}
    \cup (UNION {ToSet(r) : r \in ToSet(c.pancasila) \cup ToSet(c.glossary)})
    \cup (UNION {{m.title} \cup TextsOfTable(m.activities) : m \in ToSet(c.meetings)})
    \cup (UNION {ToSet(c.assessment[a]) : a \in DOMAIN c.assessment})
    \cup TextsOfTable(c.overview) \cup TextsOfTable(c.rubric) \cup ToSet(c.reading)
OldTexts(c) ==
    {c.title} \cup UNION {
        CASE c.sections[n].form = "text" -> {c.sections[n].text}
          [] c.sections[n].form = "list" ->
                UNION {ToSet(Texts(item)) : item \in ToSet(c.sections[n].items)}
          [] c.sections[n].form = "other" -> {} :
        n \in DOMAIN c.sections}

\* Every one of the texts that is not blank stands in the export, and once.
Spots(entries, ink) ==
    UNION {{<<i, j>> : j \in {k \in DOMAIN entries[i].texts : entries[i].texts[k].ink = ink}} :
           i \in DOMAIN entries}
Whole(entries, texts) ==
    \A t \in texts : Blank(t) \/ Cardinality(Spots(entries, t.ink)) = 1

\* No edit and no text of the model makes an export lose anything: every text of
\* the module stands in the file, once, and Word's fails for noncharacters only,
\* wherever the control characters are.  The PDF may fail for a table that does not
\* fit.  A plan in the first format may fail to export, but otherwise shows every
\* text in the sections that are read.
ExportsWhole ==
    /\ version = 2 =>
         /\ docx.result = "error" => ~Free(docx.entries, "noncharacter")
         /\ \A file \in {pdf, docx} : file.result = "shown" =>
                Whole(file.entries, OnceTexts(saved))
    /\ version = 1 /\ pdf.result = "shown" => Whole(pdf.entries, OldTexts(saved))

Cites(entries) ==
    UNION {ToSet(e.marks) : e \in {x \in ToSet(entries) : x.texts # <<>>}}
Lines(id, entries) ==
    {i \in DOMAIN entries : entries[i].texts = <<>> /\ entries[i].marks = <<id>>}

\* In a module its owner has not edited, every citation an export shows is of a
\* passage that was retrieved and has its line in the list of references, once;
\* and the list has only what the objectives cite.
CitationsResolve ==
    version = 2 /\ ~edited =>
        \A file \in {pdf, docx} :
            /\ \A id \in Cites(file.entries) :
                   id \in Passages /\ Cardinality(Lines(id, file.entries)) = 1
            /\ \A id \in Passages : Lines(id, file.entries) # {} =>
                   \E o \in ToSet(saved.objectives) : id \in ToSet(o.sources)

=============================================================================
