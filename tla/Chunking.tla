------------------------------ MODULE Chunking ------------------------------
(***************************************************************************)
(* utils/chunking.py: how the blocks of a document become chunks.          *)
(*                                                                         *)
(* A text is a sequence of characters <<kind, origin>>.  The kinds are     *)
(* those the code looks at: " ", a line break, "." (also ";"), ":", "|",   *)
(* "-" (a list marker), "K" and "N" at the start of a line (a heading      *)
(* keyword or capitals; a number or letter that counts), "x" for all else. *)
(* The origin says where in the document a character stood, so that a      *)
(* property can follow it; 0 is what the code adds.  Lengths are counted   *)
(* as the code counts them.                                                *)
(***************************************************************************)
EXTENDS Lists

CONSTANTS
    MaxChars, OverlapChars, MaxTableChars,
    BodyChars,      \* longer blocks count for the body font size (40)
    HeadingChars    \* [any, larger, worded, numbered]: 120, 100, 90, 80

ASSUME SizesAssumption ==
    /\ MaxChars \in Nat /\ OverlapChars \in Nat /\ MaxTableChars \in Nat
    /\ 2 * (OverlapChars + 1) <= MaxChars       \* 1500 and 150

Kinds == {" ", "\n", ".", ":", "|", "-", "K", "N", "x"}
Char == Kinds \X Nat
Text == Seq(Char)

NoSize == 0         \* font_size is None
Space == <<" ", 0>>
Break == <<"\n", 0>>
Blank(c) == c[1] \in {" ", "\n"}
Mark(c) == c[1] \in {".", ":"}

SmallestOf(S) == CHOOSE x \in S : \A y \in S : x <= y
LargestOf(S) == CHOOSE x \in S : \A y \in S : x >= y

InkAt(t) == {i \in DOMAIN t : ~Blank(t[i])}
Around(t, S) == IF S = {} THEN <<>>
                ELSE SubSeq(t, SmallestOf(S), LargestOf(S))
Strip(t) == Around(t, InkAt(t))

\* The parts of t between the positions in Cuts, stripped, without empty ones.
Pieces(t, Cuts) ==
    LET parts == Between(t, Cuts)
        stripped == [k \in DOMAIN parts |-> Strip(parts[k])]
    IN Kept(stripped, {k \in DOMAIN stripped : stripped[k] # <<>>})

-----------------------------------------------------------------------------
(* Splitting long text.                                                    *)

\* _SENTENCE_END: a line break, or blanks right after a mark that ends a
\* sentence (":" is not one of them).
SentenceEnds(t) ==
    {i \in DOMAIN t :
        \/ t[i][1] = "\n"
        \/ /\ Blank(t[i])
           /\ \E j \in 1..(i - 1) : /\ t[j][1] = "."
                                    /\ \A k \in (j + 1)..i : Blank(t[k])}

\* At the last space before the limit, if it is in the second half.
HardCut(rest, max) ==
    LET spaces == {i \in 1..max : rest[i] = Space}
        last == IF spaces = {} THEN 0 ELSE LargestOf(spaces) - 1
    IN IF last > max \div 2 THEN last ELSE max

\* Variant of CutOff: what follows the cut loses its first character.
CutOff_SkipsOne(s, max) ==
    LET cut == HardCut(s.rest, max) IN
    IF Len(s.rest) <= max THEN s
    ELSE [pieces |-> Append(s.pieces, Strip(SubSeq(s.rest, 1, cut))),
          rest |-> Strip(SubSeq(s.rest, cut + 2, Len(s.rest)))]

\* One turn of the loop, if the rest is still over the limit.
CutOff(s, max) ==
    LET cut == HardCut(s.rest, max) IN
    IF Len(s.rest) <= max THEN s
    ELSE [pieces |-> Append(s.pieces, Strip(SubSeq(s.rest, 1, cut))),
          rest |-> Strip(SubSeq(s.rest, cut + 1, Len(s.rest)))]

WithRest(pieces, rest) == IF rest = <<>> THEN pieces ELSE Append(pieces, rest)

\* There are fewer turns than the text has characters.
HardSplit(text, max) ==
    LET s[i \in 0..Len(text)] ==
            IF i = 0 THEN [pieces |-> <<>>, rest |-> Strip(text)]
            ELSE CutOff(s[i - 1], max)
        end == s[Len(text)]
    IN WithRest(end.pieces, end.rest)

\* Variant of OverlapTail: the first characters are taken.
OverlapTail_FromStart(t, size) ==
    IF Len(t) <= size THEN <<>> ELSE SubSeq(t, 1, size)

\* _tail: the last `size` characters, from a word boundary if there is one.
OverlapTail(t, size) ==
    LET tail == SubSeq(t, Len(t) - size + 1, Len(t))
        spaces == {i \in DOMAIN tail : tail[i] = Space}
    IN  IF size <= 0 \/ Len(t) <= size THEN <<>>
        ELSE IF spaces = {} THEN tail
        ELSE SubSeq(tail, SmallestOf(spaces) + 1, Len(tail))

\* Leaves room for the overlap and the space that joins it to a unit.
UnitLimit(max, overlap) == LargestOf({max - overlap - 1, max \div 2})

Units(t, limit) ==
    LET unit(u) == IF Len(u) > limit THEN HardSplit(u, limit) ELSE <<u>>
        sentences == Pieces(t, SentenceEnds(t))
    IN FlattenSeq([k \in DOMAIN sentences |-> unit(sentences[k])])

\* A unit that does not fit begins a piece, after the end of the one before.
AddUnit(s, u, max, overlap) ==
    IF s.current # <<>> /\ Len(s.current) + 1 + Len(u) > max
    THEN [pieces |-> Append(s.pieces, s.current),
          current |-> Strip(OverlapTail(s.current, overlap) \o <<Space>> \o u)]
    ELSE [s EXCEPT !.current = Strip(@ \o <<Space>> \o u)]

SplitOversize(t, max, overlap) ==
    LET units == Units(t, UnitLimit(max, overlap))
        s[i \in 0..Len(units)] ==
            IF i = 0 THEN [pieces |-> <<>>, current |-> <<>>]
            ELSE AddUnit(s[i - 1], units[i], max, overlap)
        end == s[Len(units)]
    IN WithRest(end.pieces, end.current)

-----------------------------------------------------------------------------
(* Tables.                                                                 *)

LinesOf(t) == Between(t, {i \in DOMAIN t : t[i] = Break})
JoinLines(lines) == Join(lines, <<Break>>)

\* A row that does not fit begins a part; a line break counts with every line.
AddRow(s, r, header, max) ==
    IF s.rows # <<>> /\ Len(JoinLines(header \o Append(s.rows, r))) + 1 > max
    THEN [parts |-> Append(s.parts, JoinLines(header \o s.rows)), rows |-> <<r>>]
    ELSE [s EXCEPT !.rows = Append(@, r)]

\* A large table is split by rows; every part repeats its first two lines.
SplitTable(t, max) ==
    LET lines == LinesOf(t)
        header == SubSeq(lines, 1, SmallestOf({2, Len(lines)}))
        rows == SubSeq(lines, 3, Len(lines))
        s[i \in 0..Len(rows)] ==
            IF i = 0 THEN [parts |-> <<>>, rows |-> <<>>]
            ELSE AddRow(s[i - 1], rows[i], header, max)
        end == s[Len(rows)]
    IN  IF Len(t) <= max THEN <<t>>
        ELSE IF end.rows = <<>> THEN end.parts
        ELSE Append(end.parts, JoinLines(header \o end.rows))

-----------------------------------------------------------------------------
(* Headings.  A block is [kind, text, page, size, bold].                   *)

\* Twice the median font size of the running text, NoSize if there is none.
BodySize(blocks) ==
    LET body == SelectSeq(blocks, LAMBDA b : /\ b.kind = "text"
                                             /\ b.size # NoSize
                                             /\ Len(b.text) > BodyChars)
        sizes == SortSeq([i \in DOMAIN body |-> body[i].size], <)
        n == Len(sizes)
    IN  IF n = 0 THEN NoSize
        ELSE sizes[(n + 1) \div 2] + sizes[(n \div 2) + 1]

IsHeading(b, body) ==
    LET t == Strip(b.text)
        fits(limit) == Len(t) <= limit
        larger == /\ body # NoSize
                  /\ b.size # NoSize
                  /\ b.size * 200 >= body * 112
    IN  /\ t # <<>>
        /\ \A i \in DOMAIN t : t[i][1] # "\n"
        /\ fits(HeadingChars.any)
        /\ \/ larger /\ fits(HeadingChars.larger)
           \/ /\ ~Mark(Last(t))
              /\ fits(HeadingChars.worded)
              /\ \/ b.bold
                 \/ t[1][1] = "K"
                 \/ t[1][1] = "N" /\ fits(HeadingChars.numbered)

\* _heading_rank: the larger the font, the smaller the rank.
Rank(b) == -b.size

-----------------------------------------------------------------------------
(* Chunking.                                                               *)

NoPending == [parts |-> <<>>, length |-> 0, first |-> 0, last |-> 0,
              heading |-> <<>>]

\* _Pending.add
AddTo(pending, piece, page, heading) ==
    LET begun == IF pending.parts # <<>> THEN pending
                 ELSE [pending EXCEPT !.first = page, !.heading = heading]
    IN  [begun EXCEPT !.parts = Append(@, piece), !.last = page,
                      !.length = @ + Len(piece) + 2]

\* The parts of a chunk are joined by an empty line.
JoinParts(parts) == Join(parts, <<Break, Break>>)

\* heading_path[-2:], with its ranks left out.
CurrentHeading(path) ==
    [i \in 1..SmallestOf({2, Len(path)}) |->
        path[Len(path) - SmallestOf({2, Len(path)}) + i].text]

Flush(s) ==
    IF s.pending.parts = <<>> THEN s
    ELSE [s EXCEPT !.pending = NoPending,
                   !.chunks = Append(@,
              [text |-> JoinParts(s.pending.parts),
               page_number |-> s.pending.first, page_end |-> s.pending.last,
               heading |-> s.pending.heading, chunk_type |-> "text"])]

AddTable(s, b) ==
    LET parts == SplitTable(Strip(b.text), MaxTableChars) IN
    [Flush(s) EXCEPT !.chunks = @ \o [k \in DOMAIN parts |->
         [text |-> parts[k], page_number |-> b.page, page_end |-> b.page,
          heading |-> CurrentHeading(s.path), chunk_type |-> "table"]]]

\* Variant of AddHeading: headings of the same rank are kept above it.
AddHeading_KeepsEqual(s, b) ==
    LET above == {i \in DOMAIN s.path : s.path[i].rank <= Rank(b)} IN
    [Flush(s) EXCEPT !.path =
        Append(Kept(@, above), [rank |-> Rank(b), text |-> Strip(b.text)])]

\* Ranks grow along the path, so popping its end keeps the smaller ones.
AddHeading(s, b) ==
    LET above == {i \in DOMAIN s.path : s.path[i].rank < Rank(b)} IN
    [Flush(s) EXCEPT !.path =
        Append(Kept(@, above), [rank |-> Rank(b), text |-> Strip(b.text)])]

AwaitsMore(pending) ==
    pending.parts # <<>> /\ Last(Last(pending.parts))[1] = ":"

\* Variant of AddPiece: the length before the piece is compared.
AddPiece_LateCheck(s, piece, page) ==
    LET length == s.pending.length
        together == AwaitsMore(s.pending) /\ 2 * length <= 3 * MaxChars
        room == IF s.pending.parts # <<>> /\ length > MaxChars /\ ~together
                THEN Flush(s) ELSE s
    IN [room EXCEPT !.pending = AddTo(@, piece, page, CurrentHeading(s.path))]

\* A piece that does not fit starts a chunk, but an intro line ending in ":"
\* stays with what it introduces, up to one and a half times the limit.
AddPiece(s, piece, page) ==
    LET length == s.pending.length + Len(piece)
        together == AwaitsMore(s.pending) /\ 2 * length <= 3 * MaxChars
        room == IF s.pending.parts # <<>> /\ length > MaxChars /\ ~together
                THEN Flush(s) ELSE s
    IN [room EXCEPT !.pending = AddTo(@, piece, page, CurrentHeading(s.path))]

AddText(state, b) ==
    LET t == Strip(b.text)
        pieces == IF Len(t) > MaxChars
                  THEN SplitOversize(t, MaxChars, OverlapChars) ELSE <<t>>
        begun == IF state.pending.heading # CurrentHeading(state.path)
                 THEN Flush(state) ELSE state
        s[i \in 0..Len(pieces)] ==
            IF i = 0 THEN begun ELSE AddPiece(s[i - 1], pieces[i], b.page)
    IN s[Len(pieces)]

AddBlock(s, b, body) ==
    IF Strip(b.text) = <<>> THEN s
    ELSE IF b.kind = "table" THEN AddTable(s, b)
    ELSE IF IsHeading(b, body) THEN AddHeading(s, b)
    ELSE AddText(s, b)

\* chunk_document, over the blocks of all pages in order.
ChunkDocument(blocks) ==
    LET body == BodySize(blocks)
        s[i \in 0..Len(blocks)] ==
            IF i = 0 THEN [chunks |-> <<>>, pending |-> NoPending, path |-> <<>>]
            ELSE AddBlock(s[i - 1], blocks[i], body)
    IN  Flush(s[Len(blocks)]).chunks

\* Paragraphs end at an empty line.
Paragraphs(text) ==
    LET t == Strip(text)
        break(i) == t[i][1] = "\n"
        empty == {i \in DOMAIN t : break(i) /\ \E j \in DOMAIN t \ {i} :
                     break(j) /\ \A k \in (i..j) \cup (j..i) : Blank(t[k])}
    IN Pieces(t, empty)

\* blocks_from_plain_text: lines that start with "|" form tables.
PlainTextBlocks(text, page) ==
    LET paragraphs == Paragraphs(text)
        kind(line) == IF line[1][1] = "|" THEN "table" ELSE "text"
        lines(p) == Pieces(p, {i \in DOMAIN p : p[i][1] = "\n"})
        changes(ls) == {i \in 2..Len(ls) : kind(ls[i]) # kind(ls[i - 1])}
        runsOf(p) == Runs(lines(p), changes(lines(p)))
        runs == FlattenSeq([k \in DOMAIN paragraphs |-> runsOf(paragraphs[k])])
    IN  [k \in DOMAIN runs |->
            [kind |-> kind(runs[k][1]), text |-> JoinLines(runs[k]),
             page |-> page, size |-> NoSize, bold |-> FALSE]]

=============================================================================
