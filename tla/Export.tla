-------------------------------- MODULE Export --------------------------------
(***************************************************************************)
(* What the two exports of a module show (utils/modul_pdf, utils/modul_docx)*)
(* and the PDF of a plan in the first format (utils/pdf_generator): the     *)
(* sequence of entries that each writes.  Fonts, widths, colours and page   *)
(* breaks are left out, but for what makes a library raise.                 *)
(*                                                                         *)
(* A text is [ink, kind]: where it stands in the module (the part, and in   *)
(* it the number of the meeting, the row and the column), and its kind:     *)
(* "blank", "plain", or with what a library cannot write: a "control"       *)
(* character or a "noncharacter" (U+FFFE, U+FFFF; both excluded from the    *)
(* XML of Word and from the core PDF fonts), a "wide" character (from those *)
(* fonts), or too "long" for a PDF table, whose rows stay on one page.      *)
(***************************************************************************)
EXTENDS Integers, Sequences, SequencesExt

CONSTANT MaxColumns     \* columns of a PDF table that leave room for a character

ASSUME ColumnsAssumption == MaxColumns \in Nat

Kinds == {"blank", "plain", "control", "noncharacter", "wide", "long"}
Text == [ink : STRING \X Nat \X Nat \X Nat, kind : Kinds]

Table == [caption : Text, columns : Seq(Text), rows : Seq(Seq(Text))]

\* The sections of a module, but for its objectives (of which these are the
\* texts) and references.
Shape ==
    [text : [{"title", "topic", "subject", "grade", "time", "model", "target",
              "rationale", "worksheet", "instructions"} -> Text],
     lists : [{"initial_competencies", "facilities", "meaningful_understanding",
               "trigger_questions", "preparation", "enrichment", "remedial",
               "teacher", "students", "tasks"} -> Seq(Text)],
     goals : Seq(Text),
     pancasila : Seq({r \in Seq(Text) : Len(r) = 2}),
     glossary : Seq({r \in Seq(Text) : Len(r) = 2}),
     meetings : Seq([number : Int, title : Text, activities : Table]),
     assessment : [{"diagnostic", "formative", "summative"} -> Seq(Text)],
     overview : Table, rubric : Table,
     reading : Seq(Text)]

Blank(t) == t.kind = "blank"

\* An entry: how it is written, its marker or label, its texts and the sources
\* it cites.
Entry(style, label, texts) ==
    [style |-> style, label |-> label, texts |-> texts, marks |-> <<>>]
Part(name) == <<Entry("part", <<name, 0>>, <<>>)>>
Heading(name) == <<Entry("heading", <<name, 0>>, <<>>)>>
HeadingOf(name, text) == <<Entry("heading", <<name, 0>>, <<text>>)>>
Label(name) == <<Entry("label", <<name, 0>>, <<>>)>>
Sentence(texts) == <<Entry("paragraph", <<"", 0>>, texts)>>
When(condition, entries) == IF condition THEN entries ELSE <<>>
Each(s, F(_)) == FlattenSeq([i \in DOMAIN s |-> F(s[i])])

\* No text of the kind, which python-docx, or a core PDF font, raises on.
Free(entries, kind) == \A e \in ToSet(entries) : \A t \in ToSet(e.texts) : t.kind # kind

\* fpdf2's tables raise on a row higher than a page and on columns too narrow for a
\* character; one without columns may too.
Fits(entries) ==
    \A e \in ToSet(entries) : e.style \in {"identity", "header", "row"} =>
        /\ Len(e.texts) \in 1..MaxColumns
        /\ \A t \in ToSet(e.texts) : t.kind # "long"

-----------------------------------------------------------------------------
(* modul_pdf.                                                              *)

PdfParagraph(t) == When(~Blank(t), <<Entry("paragraph", <<"", 0>>, <<t>>)>>)

\* _write_list: blank items are passed over; numbers and suffixes go by position.
PdfItems(items, numbered, suffixes) ==
    FlattenSeq([i \in DOMAIN items |->
        When(~Blank(items[i]),
             <<[style |-> "item", label |-> <<"", IF numbered THEN i ELSE 0>>,
                texts |-> <<items[i]>>, marks |-> suffixes[i]]>>)])

NoMarks(items) == [i \in DOMAIN items |-> <<>>]
PdfList(items) == PdfItems(items, FALSE, NoMarks(items))
PdfNumbered(items) == PdfItems(items, TRUE, NoMarks(items))

PdfTable(table) ==
    When(~Blank(table.caption), <<Entry("caption", <<"", 0>>, <<table.caption>>)>>)
    \o <<Entry("header", <<"", 0>>, table.columns)>>
    \o [i \in DOMAIN table.rows |-> Entry("row", <<"", i>>, table.rows[i])]

\* The two tables whose columns the code names.
Pairs(rows) ==
    [caption |-> [ink |-> <<"", 0, 0, 0>>, kind |-> "blank"],
     columns |-> [i \in 1..2 |-> [ink |-> <<"column", 0, 0, i>>, kind |-> "plain"]],
     rows |-> rows]

\* The title falls back on the topic.
TitleOf(c) == IF Blank(c.text["title"]) THEN c.text["topic"] ELSE c.text["title"]

Objectives(c) == [i \in DOMAIN c.objectives |-> c.objectives[i].text]
Citations(c) == [i \in DOMAIN c.objectives |-> c.objectives[i].sources]

\* reference_line: the id comes first.
ReferenceLine(id) == [style |-> "item", label |-> <<"", 0>>, texts |-> <<>>, marks |-> <<id>>]
ReferenceLines(c) == [i \in DOMAIN c.references |-> ReferenceLine(c.references[i])]

PdfLists(c, names) ==
    Each(names, LAMBDA n : When(c.lists[n] # <<>>, Heading(n) \o PdfList(c.lists[n])))

PdfInformation(c) ==
    Part("A. INFORMASI UMUM")
    \o PdfLists(c, <<"initial_competencies">>)
    \o When(c.pancasila # <<>>, Heading("pancasila_profile") \o PdfTable(Pairs(c.pancasila)))
    \o PdfLists(c, <<"facilities">>)
    \o When(~Blank(c.text["target"]),
            Heading("target_students") \o PdfParagraph(c.text["target"]))
    \o Heading("learning_model") \o Sentence(<<c.text["model"], c.text["rationale"]>>)

PdfCore(c) ==
    Part("B. KOMPONEN INTI")
    \o Heading("learning_objectives") \o PdfItems(Objectives(c), TRUE, Citations(c))
    \o PdfLists(c, <<"meaningful_understanding", "trigger_questions", "preparation">>)
    \o Heading("meetings")
    \o Each(c.meetings, LAMBDA m :
           <<Entry("label", <<"Pertemuan", m.number>>, <<m.title>>)>> \o PdfTable(m.activities))
    \o Heading("assessment")
    \o Each(<<"diagnostic", "formative", "summative">>, LAMBDA a :
           Label(a) \o Sentence(c.assessment[a]))
    \o PdfTable(c.overview) \o PdfTable(c.rubric)
    \o PdfLists(c, <<"enrichment", "remedial">>)
    \o When(c.lists["teacher"] # <<>> \/ c.lists["students"] # <<>>,
            Heading("reflection")
            \o When(c.lists["teacher"] # <<>>, Label("teacher") \o PdfList(c.lists["teacher"]))
            \o When(c.lists["students"] # <<>>, Label("students") \o PdfList(c.lists["students"])))

PdfAttachments(c) ==
    Part("C. LAMPIRAN")
    \o HeadingOf("LKPD", c.text["worksheet"])
    \o PdfParagraph(c.text["instructions"])
    \o PdfNumbered(c.lists["tasks"])
    \o When(\E i \in DOMAIN c.reading : ~Blank(c.reading[i]),
            Heading("reading_material") \o Each(c.reading, PdfParagraph))
    \o When(c.glossary # <<>>, Heading("glossary") \o PdfTable(Pairs(c.glossary)))
    \o When(c.references # <<>>, Heading("references") \o ReferenceLines(c))

\* generate_modul_pdf.
GenerateModulPdf(c) ==
    <<Entry("title", <<"", 0>>, <<TitleOf(c)>>)>>
    \o Each(<<"subject", "grade", "topic", "time", "model">>, LAMBDA n :
           <<Entry("identity", <<n, 0>>, <<c.text[n]>>)>>)
    \o PdfInformation(c) \o PdfCore(c) \o PdfAttachments(c)

-----------------------------------------------------------------------------
(* modul_docx.                                                             *)

\* _clean, on every text that is written.
Clean(t) == [t EXCEPT !.kind = IF @ = "control" THEN "plain" ELSE @]
CleanAll(texts) == [i \in DOMAIN texts |-> Clean(texts[i])]

DocxParagraph(t) == When(~Blank(t), <<Entry("paragraph", <<"", 0>>, <<Clean(t)>>)>>)

\* Variant of DocxItems: the numbers count the items shown.
DocxItems_CountsShown(items, numbered, suffixes) ==
    LET Shown(i) == Len(SelectSeq(SubSeq(items, 1, i), LAMBDA t : ~Blank(t))) IN
    FlattenSeq([i \in DOMAIN items |->
        When(~Blank(items[i]),
             <<[style |-> "item", label |-> <<"", IF numbered THEN Shown(i) ELSE 0>>,
                texts |-> <<Clean(items[i])>>, marks |-> suffixes[i]]>>)])

\* _write_list.
DocxItems(items, numbered, suffixes) ==
    FlattenSeq([i \in DOMAIN items |->
        When(~Blank(items[i]),
             <<[style |-> "item", label |-> <<"", IF numbered THEN i ELSE 0>>,
                texts |-> <<Clean(items[i])>>, marks |-> suffixes[i]]>>)])

DocxList(items) == DocxItems(items, FALSE, NoMarks(items))

UpTo(n, s) == SubSeq(s, 1, IF n < Len(s) THEN n ELSE Len(s))

\* _write_table: a row is filled as far as there are columns.
DocxTable(table) ==
    When(~Blank(table.caption), <<Entry("caption", <<"", 0>>, <<Clean(table.caption)>>)>>)
    \o <<Entry("header", <<"", 0>>, CleanAll(table.columns))>>
    \o [i \in DOMAIN table.rows |-> Entry("row", <<"", i>>,
            UpTo(Len(table.columns), CleanAll(table.rows[i])))]

DocxLists(c, names) ==
    Each(names, LAMBDA n : When(c.lists[n] # <<>>, Heading(n) \o DocxList(c.lists[n])))

DocxInformation(c) ==
    Part("A. INFORMASI UMUM")
    \o DocxLists(c, <<"initial_competencies">>)
    \o When(c.pancasila # <<>>, Heading("pancasila_profile") \o DocxTable(Pairs(c.pancasila)))
    \o DocxLists(c, <<"facilities">>)
    \o When(~Blank(c.text["target"]),
            Heading("target_students") \o DocxParagraph(c.text["target"]))
    \o Heading("learning_model")
    \o Sentence(CleanAll(<<c.text["model"], c.text["rationale"]>>))

DocxCore(c) ==
    Part("B. KOMPONEN INTI")
    \o Heading("learning_objectives") \o DocxItems(Objectives(c), TRUE, Citations(c))
    \o DocxLists(c, <<"meaningful_understanding", "trigger_questions", "preparation">>)
    \o Heading("meetings")
    \o Each(c.meetings, LAMBDA m :
           <<Entry("label", <<"Pertemuan", m.number>>, <<Clean(m.title)>>)>>
           \o DocxTable(m.activities))
    \o Heading("assessment")
    \o Each(<<"diagnostic", "formative", "summative">>, LAMBDA a :
           Label(a) \o Sentence(CleanAll(c.assessment[a])))
    \o DocxTable(c.overview) \o DocxTable(c.rubric)
    \o DocxLists(c, <<"enrichment", "remedial">>)
    \o When(c.lists["teacher"] # <<>> \/ c.lists["students"] # <<>>,
            Heading("reflection")
            \o When(c.lists["teacher"] # <<>>, Label("teacher") \o DocxList(c.lists["teacher"]))
            \o When(c.lists["students"] # <<>>, Label("students") \o DocxList(c.lists["students"])))

DocxAttachments(c) ==
    Part("C. LAMPIRAN")
    \o HeadingOf("LKPD", Clean(c.text["worksheet"]))
    \o DocxParagraph(c.text["instructions"])
    \o DocxItems(c.lists["tasks"], TRUE, NoMarks(c.lists["tasks"]))
    \o When(\E i \in DOMAIN c.reading : ~Blank(c.reading[i]),
            Heading("reading_material") \o Each(c.reading, DocxParagraph))
    \o When(c.glossary # <<>>, Heading("glossary") \o DocxTable(Pairs(c.glossary)))
    \o When(c.references # <<>>, Heading("references") \o ReferenceLines(c))

\* generate_modul_docx.
GenerateModulDocx(c) ==
    <<Entry("title", <<"", 0>>, <<Clean(TitleOf(c))>>)>>
    \o Each(<<"subject", "grade", "topic", "time", "model">>, LAMBDA n :
           <<Entry("identity", <<n, 0>>, <<Clean(c.text[n])>>)>>)
    \o DocxInformation(c) \o DocxCore(c) \o DocxAttachments(c)

-----------------------------------------------------------------------------
(* pdf_generator: a plan in the first format, which its owner may replace   *)
(* by any JSON.  Each of its sections is absent, a text, a list of texts    *)
(* (whatever their JSON) or of activities [duration, text], or of another   *)
(* form, which is not read.                                                 *)

\* What such a plan holds.
OldNames == {"objectives", "materials", "activities", "assessment", "citations"}
Section == [form : {"text"}, text : Text]
           \cup [form : {"list"}, items : Seq(Text \cup [duration : Text, text : Text])]
           \cup [form : {"other"}]
OldShape(c) ==
    /\ c.plan \in [{"subject", "grade", "topic"} -> Text] /\ c.title \in Text
    /\ c.empty \in BOOLEAN
    /\ DOMAIN c.sections \subseteq OldNames
    /\ \A n \in DOMAIN c.sections : c.sections[n] \in Section

OldItem(item) ==
    Entry("item", <<"", 0>>,
          IF "duration" \notin DOMAIN item THEN <<item>>
          ELSE IF Blank(item.duration) THEN <<item.text>> ELSE <<item.duration, item.text>>)

\* add_section.
OldSection(name, section) ==
    Heading(name)
    \o CASE section.form = "list" -> [i \in DOMAIN section.items |-> OldItem(section.items[i])]
         [] section.form = "text" -> Sentence(<<section.text>>)
         [] section.form = "other" -> <<>>

GenerateLessonPlanPdf(c) ==
    Each(<<"subject", "grade", "topic">>, LAMBDA n :
        <<Entry("identity", <<n, 0>>, <<c.plan[n]>>)>>)
    \o <<Entry("title", <<"", 0>>, <<c.title>>)>>
    \o Each(<<"objectives", "materials", "activities", "assessment", "citations">>, LAMBDA n :
           When(n \in DOMAIN c.sections, OldSection(n, c.sections[n])))

=============================================================================
