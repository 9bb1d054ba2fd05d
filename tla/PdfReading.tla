----------------------------- MODULE PdfReading -----------------------------
(***************************************************************************)
(* utils/pdf_extract.py: how the pages of a PDF become blocks of text and  *)
(* tables.  What the PDF libraries find on a page is its input:            *)
(*   words    pdfplumber's words, [text, top, bottom, x0, x1, size, bold]  *)
(*   tables   its ruled tables, [rows, box]; a cell is a text or NoCell    *)
(*   spaces   it has characters, if only blank ones                        *)
(*   broken   pdfplumber raises on it                                      *)
(*   plain    the text that pypdf returns                                  *)
(* Texts are those of Chunking; coordinates are whole points, downwards.   *)
(***************************************************************************)
EXTENDS Chunking

NoCell == <<<<"none", 0>>>>
Bar == <<"|", 0>>
Filler == <<"x", 0>>            \* a character the code adds

Cell == Text \cup {NoCell}
Box == [x0 : Int, top : Int, x1 : Int, bottom : Int]
Table == [rows : Seq(Seq(Cell)), box : Box]
Word == [text : Text, top : Int, bottom : Int, x0 : Int, x1 : Int,
         size : Nat, bold : BOOLEAN]
Page == [words : Seq(Word), tables : Seq(Table), spaces : BOOLEAN,
         broken : BOOLEAN, plain : Text]

Larger(a, b) == IF a >= b THEN a ELSE b

WithSpaces(parts) == Join(parts, <<Space>>)

-----------------------------------------------------------------------------
(* Tables.                                                                 *)

\* A cell inside a merged span has the value of the cell above.
FilledCell(rows, r, i) ==
    LET above == {q \in 1..(r - 1) : i \in DOMAIN rows[q]
                                        /\ rows[q][i] # NoCell}
    IN IF rows[r][i] = NoCell /\ above # {}
       THEN rows[LargestOf(above)][i] ELSE rows[r][i]

\* The code also makes one space of each run of blanks within the cell and puts
\* a backslash before a "|": neither changes which characters are kept.
CleanCell(cell) == IF cell = NoCell THEN <<>> ELSE Strip(cell)

RowText(cells) ==
    <<Bar>> \o FlattenSeq([k \in DOMAIN cells |->
                   <<Space>> \o cells[k] \o <<Space, Bar>>])

InkedRows(rows) ==
    LET clean == [r \in DOMAIN rows |-> [i \in DOMAIN rows[r] |->
                     CleanCell(FilledCell(rows, r, i))]]
    IN Kept(clean, {r \in DOMAIN clean :
                       \E i \in DOMAIN clean[r] : clean[r][i] # <<>>})

CellAt(row, i) == IF i \in DOMAIN row THEN row[i] ELSE <<>>

\* Every row cut down to the columns in which some row has a text.
InkedColumns(rows) ==
    LET width == LargestOf({0} \cup {Len(rows[r]) : r \in DOMAIN rows})
        inked == {i \in 1..width :
                     \E r \in DOMAIN rows : CellAt(rows[r], i) # <<>>}
        columns == Places(inked, width)
    IN [r \in DOMAIN rows |->
           [k \in DOMAIN columns |-> CellAt(rows[r], columns[k])]]

\* A Markdown table, or plain text if only one row or one column is left.
Markdown(cells) ==
    LET header == [k \in DOMAIN cells[1] |->
                      IF cells[1][k] = <<>> THEN <<Filler>> ELSE cells[1][k]]
        rule == [k \in DOMAIN cells[1] |-> <<Filler, Filler, Filler>>]
        body == [r \in 1..(Len(cells) - 1) |-> cells[r + 1]]
        texts(rows) == [r \in DOMAIN rows |-> RowText(rows[r])]
        cell == FlattenSeq(cells)
    IN  IF Len(cells) < 2 \/ \A r \in DOMAIN cells : Len(cells[r]) < 2
        THEN WithSpaces(Kept(cell, {i \in DOMAIN cell : cell[i] # <<>>}))
        ELSE JoinLines(texts(<<header, rule>> \o body))

\* Cells that pdfplumber merged are filled; empty rows and columns are dropped.
TableToMarkdown(rows) == Markdown(InkedColumns(InkedRows(rows)))

-----------------------------------------------------------------------------
(* Text.                                                                   *)

\* Python's sort keeps the order of equals.
Before(words) ==
    {e \in (DOMAIN words) \X (DOMAIN words) :
        LET v == words[e[1]] w == words[e[2]] IN
        \/ v.top < w.top
        \/ v.top = w.top /\ v.x0 < w.x0
        \/ v.top = w.top /\ v.x0 = w.x0 /\ e[1] < e[2]}
LeftToRight(words) ==
    {e \in (DOMAIN words) \X (DOMAIN words) :
        LET v == words[e[1]] w == words[e[2]] IN
        v.x0 < w.x0 \/ (v.x0 = w.x0 /\ e[1] < e[2])}

LineOf(words) ==
    LET ordered == Sorted(words, LeftToRight(words)) IN
    [text |-> WithSpaces([i \in DOMAIN ordered |-> ordered[i].text]),
     top |-> words[1].top, bottom |-> LargestOf({w.bottom : w \in ToSet(words)}),
     size |-> LargestOf({w.size : w \in ToSet(words)}),
     bold |-> \A w \in ToSet(words) : w.bold]

\* Words whose tops are close to that of its first word belong to one line.
WordsToLines(words) ==
    LET sorted == Sorted(words, Before(words))
        near(v, w) == 2 * (w.top - v.top) <= Larger(4, Larger(w.bottom - w.top, 1))
        first[i \in DOMAIN sorted] ==
            IF i = 1 THEN 1
            ELSE LET j == first[i - 1] IN
                 IF near(sorted[j], sorted[i]) THEN j ELSE i
        lines == Runs(sorted, {i \in DOMAIN sorted : first[i] = i})
    IN [k \in DOMAIN lines |-> LineOf(lines[k])]

\* A gap, or a change of font size or weight, starts a new paragraph.
StartsParagraph(line, previous) ==
    LET height == Larger(previous.bottom - previous.top, 1) IN
    \/ 10 * (line.top - previous.bottom) > 6 * height
    \/ /\ NoSize \notin {line.size, previous.size}
       /\ line.size - previous.size \notin -1..1
    \/ line.bold # previous.bold

ListItem(t) == Len(t) > 1 /\ t[1][1] = "-" /\ Blank(t[2])

\* Wrapped lines are joined again; a list item keeps its line break.
LinesToBlocks(lines, page) ==
    LET starts == {i \in 2..Len(lines) : StartsParagraph(lines[i], lines[i - 1])}
        groups == Runs(lines, starts)
        glue(t) == IF ListItem(t) THEN <<Break>> ELSE <<Space>>
        joined(group) ==
            FlattenSeq([i \in DOMAIN group |->
                IF i = 1 THEN group[i].text ELSE glue(group[i].text) \o group[i].text])
    IN [g \in DOMAIN groups |->
           [kind |-> "text", text |-> joined(groups[g]),
            page |-> page, top |-> groups[g][1].top,
            size |-> LargestOf({l.size : l \in ToSet(groups[g])}),
            bold |-> \A l \in ToSet(groups[g]) : l.bold]]

-----------------------------------------------------------------------------
(* Pages and documents.                                                    *)

\* _outside: the middle of the word lies in none of the boxes.  The code asks
\* this of each character and builds the words from those that are left; here a
\* word is left or taken whole, so no box cuts through one.
Outside(w, boxes) ==
    \A b \in boxes : ~ /\ w.x0 + w.x1 \in (2 * b.x0)..(2 * b.x1)
                       /\ w.top + w.bottom \in (2 * b.top)..(2 * b.bottom)

\* From top to bottom, blocks at the same height in their order.
Downwards(blocks) ==
    {e \in (DOMAIN blocks) \X (DOMAIN blocks) :
        \/ blocks[e[1]].top < blocks[e[2]].top
        \/ blocks[e[1]].top = blocks[e[2]].top /\ e[1] < e[2]}

InPageOrder(blocks) ==
    LET placed(b) == [kind |-> b.kind, text |-> b.text, page |-> b.page,
                      size |-> b.size, bold |-> b.bold]
        sorted == Sorted(blocks, Downwards(blocks))
    IN [i \in DOMAIN sorted |-> placed(sorted[i])]

HasChars(page) == page.spaces \/ page.words # <<>>

\* The tables that have a text, and the words outside of them.
ExtractPage(page, number) ==
    LET tables == [i \in DOMAIN page.tables |->
                      [text |-> TableToMarkdown(page.tables[i].rows),
                       box |-> page.tables[i].box]]
        found == Kept(tables, {i \in DOMAIN tables : tables[i].text # <<>>})
        block(t) == [kind |-> IF t.text[1] = Bar THEN "table" ELSE "text",
                     text |-> t.text, page |-> number, top |-> t.box.top,
                     size |-> NoSize, bold |-> FALSE]
        boxes == {t.box : t \in ToSet(found)}
        words == Kept(page.words,
                      {i \in DOMAIN page.words : Outside(page.words[i], boxes)})
    IN  IF ~HasChars(page) THEN <<>>
        ELSE InPageOrder([i \in DOMAIN found |-> block(found[i])]
                           \o LinesToBlocks(WordsToLines(words), number))

\* pypdf: paragraphs between empty lines, without a layout.
PypdfPage(page, number) ==
    LET paragraphs == Paragraphs(page.plain)
    IN [i \in DOMAIN paragraphs |->
           [kind |-> "text", text |-> paragraphs[i], page |-> number,
            size |-> NoSize, bold |-> FALSE]]

\* extract_pdf: the blocks of every page, and the pages with a warning that
\* they have no text.  If pdfplumber fails on one page, pypdf reads them all.
ExtractPdf(pages) ==
    LET broken == \E n \in DOMAIN pages : pages[n].broken IN
    IF broken
    THEN [pages |-> [n \in DOMAIN pages |-> PypdfPage(pages[n], n)],
          warned |-> {n \in DOMAIN pages : Strip(pages[n].plain) = <<>>}]
    ELSE [pages |-> [n \in DOMAIN pages |-> ExtractPage(pages[n], n)],
          warned |-> {n \in DOMAIN pages : ~HasChars(pages[n])}]

PagesWithoutText(extraction) ==
    {n \in DOMAIN extraction.pages :
        \A i \in DOMAIN extraction.pages[n] :
            Strip(extraction.pages[n][i].text) = <<>>}

=============================================================================
