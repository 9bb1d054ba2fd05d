------------------------- MODULE MCDocumentReading -------------------------
(* Instances of DocumentReading for TLC: families of small documents. *)
EXTENDS DocumentReading

Limits == [any |-> 4, larger |-> 4, worded |-> 3, numbered |-> 2]

\* A text on page n, whose characters are told apart from number `from` on.
TextFrom(n, from, kinds) ==
    [i \in DOMAIN kinds |->
        IF kinds[i] \in {" ", "\n"} THEN <<kinds[i], 0>>
        ELSE <<kinds[i], 100 * n + from + i>>]
TextOn(n, kinds) == TextFrom(n, 0, kinds)

Blank_ == [words |-> <<>>, tables |-> <<>>, spaces |-> FALSE,
           broken |-> FALSE, plain |-> <<>>]
WordAt(n, from, kinds, top, x0, size, bold) ==
    [text |-> TextFrom(n, from, kinds), top |-> top, bottom |-> top + 6,
     x0 |-> x0, x1 |-> x0 + 8, size |-> size, bold |-> bold]
Scan(n) == {TextOn(n, <<>>), TextOn(n, <<"x", "\n", "\n", "|", "\n", "|", "x">>)}

\* Texts without a layout, as pypdf returns them: every way to split them.
Plain(kinds) == [Blank_ EXCEPT !.broken = TRUE, !.plain = TextOn(1, kinds)]
Splits == {[pages |-> <<Plain(<<"x">> \o k \o <<"x">>)>>, answers |-> <<{}>>] :
              k \in [1..8 -> {"x", " ", "."}] \cup [1..6 -> {"x", " ", ":", "\n"}]}

\* Five paragraphs on two pages: headings of three sizes, a list, body text.
Line(n, i, what) ==
    CASE what = "body" -> <<WordAt(n, 10 * i, <<"x", "x", "x", ".">>, 20 * i, 0, 10, FALSE)>>
      [] what = "list" -> <<WordAt(n, 10 * i, <<"x", ":">>, 20 * i, 0, 10, FALSE),
                            WordAt(n, 10 * i + 4, <<"-">>, 20 * i + 8, 0, 10, FALSE),
                            WordAt(n, 10 * i + 6, <<"x", "x", "x">>, 20 * i + 8, 9, 10, FALSE)>>
      [] what = "bold" -> <<WordAt(n, 10 * i, <<"x">>, 20 * i, 0, 10, TRUE)>>
      [] what = "large" -> <<WordAt(n, 10 * i, <<"N", "x">>, 20 * i, 0, 14, FALSE)>>
Outline(n, items) ==
    [Blank_ EXCEPT !.words = FlattenSeq([i \in DOMAIN items |-> Line(n, i, items[i])])]
Outlines == {[pages |-> <<Outline(1, <<o[1], o[2], o[3]>>), Outline(2, <<o[4], o[5]>>)>>,
              answers |-> <<{}, {}>>] :
                 o \in [1..5 -> {"body", "list", "bold", "large"}]}

\* A table of three rows and two columns, and a line that moves: over the
\* table, in its area but in no cell, or under it.
CellFor(r, i, c) == CASE c = "none" -> NoCell
                   [] c = "empty" -> <<>>
                   [] OTHER -> TextFrom(1, 10 * r + i, <<c>>)
TableBox == [x0 |-> 0, top |-> 20, x1 |-> 40, bottom |-> 60]
Tabled(cells, top) ==
    [Blank_ EXCEPT
        !.tables = <<[box |-> TableBox, rows |-> [r \in 1..3 |->
                         [i \in 1..2 |-> CellFor(r, i, cells[r][i])]]]>>,
        !.words = FlattenSeq([r \in 1..3 |-> SelectSeq(
                      [i \in 1..2 |-> [WordAt(1, 10 * r + i, <<"x">>, 12 + 12 * r,
                                            16 * i - 12, 10, FALSE)
                                       EXCEPT !.text = CellFor(r, i, cells[r][i])]],
                      LAMBDA w : w.text \notin {NoCell, <<>>})])
                  \o <<WordAt(1, 50, <<"x", "x", "x", ".">>, top, 4, 10, FALSE)>>]
Tables == {[pages |-> <<Tabled(c, top)>>, answers |-> <<{}>>] :
              c \in [1..3 -> [1..2 -> {"none", "empty", "x"}]], top \in {0, 40, 70}}

\* Four pages of which some have no text, or nothing but blanks.
PageFor(n, what) ==
    CASE what = "text" -> Outline(n, <<"large", "body">>)
      [] what = "spaces" -> [Blank_ EXCEPT !.spaces = TRUE]
      [] what = "scan" -> Blank_
Scans == {[pages |-> [n \in 1..4 |-> PageFor(n, p[n])], answers |-> [n \in 1..4 |-> Scan(n)]] :
             p \in [1..4 -> {"text", "spaces", "scan"}]}

\* A scan of one wide table, in one, two or three lines.
Wide(lines) == FlattenSeq([k \in 1..lines |-> <<"|">> \o [i \in 1..20 |-> "x"] \o <<"\n">>])
Wides == {[pages |-> <<Blank_, Outline(2, <<"body">>)>>,
           answers |-> <<{TextOn(1, Wide(k))}, {}>>] : k \in 1..4}

AllDocuments == Splits \cup Outlines \cup Tables \cup Scans \cup Wides

=============================================================================
