--------------------------- MODULE DocumentReading ---------------------------
(***************************************************************************)
(* ingest_document from the bytes of a PDF to the rows of its chunks: the  *)
(* PDF is read, pages without text are transcribed by the OCR model, a few *)
(* at a time, the text is chunked, and the chunks are embedded in batches. *)
(* Ingestion models what the database sees of it; here it is what becomes  *)
(* of the text.  A call of the model answers, is skipped (PAGE_ERRORS, an  *)
(* answer that is no JSON) or raises.  A page that raises fails the run;   *)
(* what the calls beside it still do changes nothing of the document.      *)
(***************************************************************************)
EXTENDS PdfReading

CONSTANTS
    Documents,          \* [pages, answers]: what the PDF libraries see of a
                        \* file, and what OCR may answer for its pages
    OcrMaxPages, OcrConcurrency, BatchSize

ASSUME DocumentsAssumption ==
    /\ OcrMaxPages \in Nat /\ BatchSize \in Nat \ {0}
    /\ \A d \in Documents : /\ d.pages \in Seq(Page)
                            /\ d.answers \in [1..Len(d.pages) -> SUBSET Text]

VARIABLES
    doc,            \* the file that is read
    stage,          \* "start", "ocr", "chunk", "embed", "stored" or "failed"
    pages, warned,  \* the extraction: blocks and "no text" warnings by page
    ocr,            \* per selected page: "waiting", "asked", or the answer
    chunks,         \* what chunk_document returned
    rows            \* the chunks stored so far, each with what was embedded

vars == <<doc, stage, pages, warned, ocr, chunks, rows>>

NoAnswer == <<<<"none", 0>>>>       \* the page was skipped
Waiting == <<<<"waiting", 0>>>>
Asked == <<<<"asked", 0>>>>

Init ==
    /\ doc \in Documents
    /\ stage = "start"
    /\ pages = <<>> /\ warned = {}
    /\ ocr = <<>>
    /\ chunks = <<>> /\ rows = <<>>

-----------------------------------------------------------------------------
\* The first OcrMaxPages pages without text.
Selected(extraction) ==
    LET unreadable == Places(PagesWithoutText(extraction), Len(extraction.pages)) IN
    ToSet(SubSeq(unreadable, 1, SmallestOf({OcrMaxPages, Len(unreadable)})))

\* extract_pdf, and which pages OCR is to read.
Extract ==
    /\ stage = "start"
    /\ \E extraction \in {ExtractPdf(doc.pages)} :
        /\ pages' = extraction.pages
        /\ warned' = extraction.warned
        /\ ocr' = [n \in Selected(extraction) |-> Waiting]
    /\ stage' = IF ocr' = <<>> THEN "chunk" ELSE "ocr"
    /\ UNCHANGED <<doc, chunks, rows>>

\* pypdf cannot read the file either, a page cannot be rendered, a call of
\* the model or a cost row fails: the run ends and stores nothing.
Raise ==
    /\ stage \in {"start", "ocr", "embed"}
    /\ stage' = "failed"
    /\ UNCHANGED <<doc, pages, warned, ocr, chunks, rows>>

\* _read_page gets the semaphore, in the order of the pages.
AskPage(n) ==
    /\ stage = "ocr"
    /\ n \in DOMAIN ocr
    /\ ocr[n] = Waiting
    /\ \A m \in DOMAIN ocr : m < n => ocr[m] # Waiting
    /\ Cardinality({m \in DOMAIN ocr : ocr[m] = Asked}) < OcrConcurrency
    /\ ocr' = [ocr EXCEPT ![n] = Asked]
    /\ UNCHANGED <<doc, stage, pages, warned, chunks, rows>>

\* The answers that OCR may give for page n; a blank page has an empty one.
AnswerPage(n) ==
    /\ stage = "ocr"
    /\ n \in DOMAIN ocr
    /\ ocr[n] = Asked
    /\ \E text \in doc.answers[n] \cup {NoAnswer} :
        ocr' = [ocr EXCEPT ![n] = IF text = NoAnswer THEN text ELSE Strip(text)]
    /\ UNCHANGED <<doc, stage, pages, warned, chunks, rows>>

\* Variant of ReadByOcr: a page that was skipped counts as read.
ReadByOcr_Skipped == {n \in DOMAIN ocr : ocr[n] # <<>>}

ReadByOcr == {n \in DOMAIN ocr : ocr[n] \notin {<<>>, NoAnswer}}

\* apply_ocr: pages that were read get blocks and lose their warning.
ApplyOcr ==
    /\ stage = "ocr"
    /\ \A n \in DOMAIN ocr : ocr[n] \notin {Waiting, Asked}
    /\ pages' = [n \in DOMAIN pages |->
                    IF n \in ReadByOcr /\ ocr[n] # NoAnswer
                    THEN PlainTextBlocks(ocr[n], n) ELSE pages[n]]
    /\ warned' = warned \ ReadByOcr
    /\ stage' = "chunk"
    /\ UNCHANGED <<doc, ocr, chunks, rows>>

\* chunk_document, unless there is no text; without chunks the run fails.
ChunkPages ==
    /\ stage = "chunk"
    /\ chunks' = ChunkDocument(FlattenSeq(pages))
    /\ stage' = IF chunks' = <<>> THEN "failed" ELSE "embed"
    /\ UNCHANGED <<doc, pages, warned, ocr, rows>>

Batch == Len(rows) + 1 .. SmallestOf({Len(rows) + BatchSize, Len(chunks)})

\* Variant of Embeddings: the answer is used whatever its length.
Embeddings_AsAnswered(answer) == answer

\* embed_texts: if the answer has not one vector per text, each text is sent
\* by itself.  A vector is named by the chunk it was made for.
Embeddings(answer) ==
    IF Len(answer) = Cardinality(Batch) THEN answer
    ELSE Places(Batch, Len(chunks))

\* One batch is embedded; zip pairs chunks and vectors in order.
EmbedBatch ==
    /\ stage = "embed"
    /\ Batch # {}
    /\ \E got \in SUBSET Batch :
        LET vectors == Embeddings(Places(got, Len(chunks)))
            first == Len(rows)
            paired == SmallestOf({Len(vectors), Cardinality(Batch)})
        IN rows' = rows \o [k \in 1..paired |->
                       [chunk |-> first + k, vector |-> vectors[k]]]
    /\ UNCHANGED <<doc, stage, pages, warned, ocr, chunks>>

Store ==
    /\ stage = "embed"
    /\ Batch = {}
    /\ stage' = "stored"
    /\ UNCHANGED <<doc, pages, warned, ocr, chunks, rows>>

Next ==
    \/ Extract \/ Raise
    \/ \E n \in DOMAIN ocr : AskPage(n) \/ AnswerPage(n)
    \/ ApplyOcr \/ ChunkPages \/ EmbedBatch \/ Store

Spec == Init /\ [][Next]_vars

-----------------------------------------------------------------------------
(* Properties.                                                             *)

Blocks == FlattenSeq(pages)
Chunked == stage \in {"embed", "stored"}
Heads == {i \in DOMAIN Blocks : /\ Blocks[i].kind = "text"
                               /\ IsHeading(Blocks[i], BodySize(Blocks))}

\* The characters of the document in t that are not blank: all, and in order.
InkSet(t) == {t[i][2] : i \in InkAt(t)} \ {0}
Inks(t) == LET own == Kept(t, {i \in InkAt(t) : t[i][2] # 0})
           IN [k \in DOMAIN own |-> own[k][2]]
PageOf(ink) == ink \div 100
BlockOf(ink) == CHOOSE i \in DOMAIN Blocks : ink \in InkSet(Blocks[i].text)

InksOf(texts) == UNION {InkSet(t) : t \in texts}

\* What pages hold: the words and cells of a page, or what pypdf or OCR read.
CellsOf(table) == ToSet(FlattenSeq(table.rows)) \ {NoCell}
Layout(page) == {w.text : w \in ToSet(page.words)}
                  \cup UNION {CellsOf(t) : t \in ToSet(page.tables)}
Broken == \E n \in DOMAIN doc.pages : doc.pages[n].broken
Printed(n) == IF Broken THEN {doc.pages[n].plain} ELSE Layout(doc.pages[n])
Source(n) == InksOf(Printed(n) \cup IF n \in ReadByOcr THEN {ocr[n]} ELSE {})

\* pdfplumber: a cell has no text on a page without characters.
ASSUME LayoutAssumption ==
    \A d \in Documents : \A p \in ToSet(d.pages) : \A t \in ToSet(p.tables) :
        HasChars(p) \/ InksOf(CellsOf(t)) = {}

\* Words that pdfplumber found in the area of a table that has a text, but in
\* none of the page's cells.
Framed(page) ==
    LET texted == {t \in ToSet(page.tables) : TableToMarkdown(t.rows) # <<>>}
        covered == {w \in ToSet(page.words) : ~Outside(w, {t.box : t \in texted})}
    IN InksOf({w.text : w \in covered})
         \ InksOf(UNION {CellsOf(t) : t \in ToSet(page.tables)})

\* A large table without rows under its first two lines.
HeaderOnly(b) == /\ b.kind = "table"
                 /\ Len(Strip(b.text)) > MaxTableChars
                 /\ Len(LinesOf(Strip(b.text))) <= 2

\* The headings that stand over block i: the nearest one before it, under the
\* nearest one before that which is more important.
HeadsOver(i) ==
    LET before == {j \in Heads : j < i}
        near == LargestOf(before)
        above == {j \in before : Rank(Blocks[j]) < Rank(Blocks[near])}
    IN IF before = {} THEN <<>>
       ELSE IF above = {} THEN <<near>>
       ELSE <<LargestOf(above), near>>

HeadingOver(i) ==
    LET heads == HeadsOver(i)
    IN [k \in DOMAIN heads |-> Strip(Blocks[heads[k]].text)]

\* Blocks of text or rows, which become chunks.
Body == {j \in DOMAIN Blocks \ Heads :
            InkSet(Blocks[j].text) # {} /\ ~HeaderOnly(Blocks[j])}

\* A heading over no text: before one as important, or at the end; or one that
\* two lower headings separate from all text under it.
Bare(i) == i \in Heads /\ \A j \in Body : i \notin ToSet(HeadsOver(j))

KeptInks == UNION {InkSet(chunks[k].text) \cup InksOf(ToSet(chunks[k].heading)) :
                      k \in DOMAIN chunks}

\* What could be read on a page, by OCR too, is in the text or the heading of a
\* chunk, whatever the splits, the joins and the order of the blocks, except
\* three things only: a table over the limit that consists of its header, words
\* in the area of a table that are in none of its cells, and a heading over no
\* text.  A heading that has text is kept, and so is each of its characters.
NothingLost ==
    Chunked => \A n \in DOMAIN pages : \A ink \in Source(n) \ KeptInks :
        \/ ~Broken /\ ink \in Framed(doc.pages[n])
        \/ \E i \in DOMAIN Blocks : /\ HeaderOnly(Blocks[i]) \/ Bare(i)
                                   /\ ink \in InkSet(Blocks[i].text)

\* "A table is its own chunk (split by rows, header repeated, only if it is very
\* large)": every table of a chunked document is found in its chunks.
TablesKept ==
    stage = "stored" => \A i \in DOMAIN Blocks : Blocks[i].kind = "table" =>
        InkSet(Blocks[i].text) \subseteq
            UNION {InkSet(chunks[k].text) : k \in DOMAIN chunks}

\* No chunk of text is over the limit, unless an intro line ending in ":" keeps
\* what it introduces, and then by half at most; a part of a table is over its
\* own limit only if it has one row.
ChunksFit ==
    \A k \in DOMAIN chunks :
        LET t == chunks[k].text IN
        IF chunks[k].chunk_type = "table"
        THEN Len(t) <= MaxTableChars \/ Len(LinesOf(t)) = 3
        ELSE \/ Len(t) <= MaxChars
             \/ /\ 2 * Len(t) <= 3 * MaxChars
                /\ \E i \in 1..(Len(t) - 2) :
                      t[i][1] = ":" /\ t[i + 1] = Break /\ t[i + 2] = Break

\* Two chunks that share a paragraph overlap: the second begins with the last
\* few characters of the first.  Nothing else is in two chunks of text.
OverlapLinks ==
    \A k \in 2..Len(chunks) :
        LET s == Inks(chunks[k - 1].text)
            t == Inks(chunks[k].text)
            common == ToSet(s) \cap ToSet(t)
        IN \A x \in {chunks[k - 1].chunk_type, chunks[k].chunk_type} : x = "text" =>
           /\ common = {} <=> BlockOf(Last(s)) # BlockOf(t[1])
           /\ Cardinality(common) <= OverlapChars
           /\ common = ToSet(SubSeq(t, 1, Cardinality(common)))
           /\ common = ToSet(SubSeq(s, Len(s) - Cardinality(common) + 1, Len(s)))

\* A chunk cites the heading its text stands under, all of it, and the pages
\* from which its first and last characters come.
WellCited ==
    \A k \in DOMAIN chunks :
        LET inks == Inks(chunks[k].text) IN
        /\ \A ink \in ToSet(inks) :
              chunks[k].heading = HeadingOver(BlockOf(ink))
        /\ chunks[k].page_number = PageOf(inks[1])
        /\ chunks[k].page_end = PageOf(Last(inks))

\* After OCR a page is warned about exactly if it still has no text; pages on
\* which pdfplumber saw characters, all blank, were never warned about.
WarningsTrue ==
    Chunked => warned =
        {n \in PagesWithoutText([pages |-> pages]) :
            \/ ~HasChars(doc.pages[n])
            \/ \E m \in DOMAIN pages : doc.pages[m].broken}

\* Every stored chunk has the vector that was made for it, and a document is
\* stored with all its chunks, however many vectors each answer held.
VectorsPaired ==
    /\ \A k \in DOMAIN rows : rows[k] = [chunk |-> k, vector |-> k]
    /\ stage = "stored" => Len(rows) = Len(chunks)

=============================================================================
