----------------------- MODULE DocumentReading_proofs -----------------------
(***************************************************************************)
(* What a run makes of a PDF, for every document, every answer of the      *)
(* model, and any limits that SizesAssumption allows.                      *)
(*                                                                         *)
(* The functions come first, in the order of the code: splitting long text *)
(* and tables, chunking, reading a page.  Each loop keeps a typed state in *)
(* which the lengths are bounded; what pends is counted with the empty     *)
(* line that would join it to more.  Then what has ink (a character that   *)
(* is not blank) keeps some through every step, and, in the second half,   *)
(* every single ink is found again in what a step returns; a heading is    *)
(* found in the path that the chunks under it carry.  The run itself needs *)
(* an invariant of four parts: what each stage holds is of its type        *)
(* (Read), the rows so far are those of the first chunks, in order         *)
(* (Written), after the extraction the pages warned about are those        *)
(* without text (Told), and the blocks of a page hold what is printed on   *)
(* it, but for words in a table's area, and what OCR read (Held).          *)
(***************************************************************************)
EXTENDS DocumentReading, ListLemmas

-----------------------------------------------------------------------------
(* Texts and their parts.                                                  *)

LEMMA CharTypes == Space \in Char /\ Break \in Char
  <1>1. " " \in Kinds /\ "\n" \in Kinds BY DEF Kinds
  <1> QED BY <1>1 DEF Space, Break, Char

\* Among finitely many positions one is the first and one the last.
LEMMA FirstAndLast ==
    ASSUME NEW n \in Nat, NEW S \in SUBSET (1..n), S # {}
    PROVE  /\ SmallestOf(S) \in S /\ \A x \in S : SmallestOf(S) <= x
           /\ LargestOf(S) \in S /\ \A x \in S : x <= LargestOf(S)
  <1>1. S \in SUBSET Nat OBVIOUS
  <1>2. PICK a \in S : \A x \in S : a <= x BY <1>1, LeastNumber
  <1> DEFINE D == {n - x : x \in S}
  <1>3. D \in SUBSET Nat /\ D # {} OBVIOUS
  <1>4. PICK d \in D : \A e \in D : d <= e
    <2> HIDE DEF D
    <2> QED BY <1>3, LeastNumber
  <1>5. PICK b \in S : d = n - b BY <1>4
  <1>6. \A x \in S : x <= b
    <2> TAKE x \in S
    <2>1. d <= n - x BY <1>4
    <2>2. x \in Nat /\ b \in Nat BY <1>1
    <2> QED BY <1>5, <2>1, <2>2
  <1>7. \E x \in S : \A y \in S : x <= y BY <1>2
  <1>8. \E x \in S : \A y \in S : x >= y
    <2>1. \A y \in S : b >= y BY <1>1, <1>6
    <2> QED BY <2>1
  <1>9. SmallestOf(S) \in S /\ \A y \in S : SmallestOf(S) <= y BY <1>7 DEF SmallestOf
  <1>10. LargestOf(S) \in S /\ \A y \in S : LargestOf(S) >= y BY <1>8 DEF LargestOf
  <1>11. \A y \in S : y <= LargestOf(S)
    <2> TAKE y \in S
    <2>1. y \in Nat /\ LargestOf(S) \in Nat BY <1>1, <1>10
    <2> QED BY <1>10, <2>1
  <1> QED BY <1>9, <1>10, <1>11

\* Strip leaves what stands between the first and the last ink.
LEMMA StripIsPart ==
    ASSUME NEW t \in Text
    PROVE  /\ Strip(t) \in Text /\ Len(Strip(t)) <= Len(t)
           /\ InkAt(t) = {} => Strip(t) = <<>>
           /\ InkAt(t) # {} =>
                \E a, b \in 1..Len(t) :
                    /\ a <= b /\ a \in InkAt(t) /\ b \in InkAt(t)
                    /\ \A i \in InkAt(t) : a <= i /\ i <= b
                    /\ Strip(t) = SubSeq(t, a, b)
                    /\ Len(Strip(t)) = b - a + 1
                    /\ \A i \in 1..(b - a + 1) : Strip(t)[i] = t[a + i - 1]
  <1> DEFINE S == InkAt(t)  n == Len(t)
  <1>1. n \in Nat /\ DOMAIN t = 1..n BY DEF Text
  <1>2. S \in SUBSET (1..n) BY <1>1 DEF InkAt
  <1>3. CASE S = {}
    <2>1. Strip(t) = <<>> BY <1>3 DEF Strip, Around
    <2> QED BY <1>1, <1>3, <2>1 DEF Text
  <1>4. CASE S # {}
    <2> DEFINE a == SmallestOf(S)  b == LargestOf(S)
    <2>1. /\ a \in S /\ \A x \in S : a <= x
          /\ b \in S /\ \A x \in S : x <= b
      <3> HIDE DEF S, n
      <3> QED BY <1>1, <1>2, <1>4, FirstAndLast
    <2>2. Strip(t) = SubSeq(t, a, b) BY <1>4 DEF Strip, Around
    <2> HIDE DEF a, b, S
    <2>3. a \in 1..n /\ b \in 1..n /\ a <= b BY <1>2, <2>1
    <2>4. /\ SubSeq(t, a, b) \in Text
          /\ Len(SubSeq(t, a, b)) = b - a + 1
          /\ \A i \in 1..(b - a + 1) : SubSeq(t, a, b)[i] = t[a + i - 1]
      BY <2>3 DEF Text
    <2>5. b - a + 1 <= n BY <1>1, <2>3
    <2> QED BY <1>4, <2>1, <2>2, <2>3, <2>4, <2>5 DEF S
  <1> QED BY <1>3, <1>4

LEMMA StripOfJoin ==
    ASSUME NEW u \in Text
    PROVE  <<Space>> \o u \in Text /\ Len(Strip(<<Space>> \o u)) <= Len(u)
  <1> DEFINE t == <<Space>> \o u
  <1>0. Space \in Char BY CharTypes
  <1>1. /\ u \in Seq(Char) /\ t \in Seq(Char) /\ Len(t) = Len(u) + 1 /\ t[1] = Space
        /\ Len(u) \in Nat
    BY <1>0 DEF Text
  <1> HIDE DEF t
  <1>2. t \in Text BY <1>1 DEF Text
  <1>3. CASE InkAt(t) = {}
    <2>1. Strip(t) = <<>> BY <1>2, <1>3, StripIsPart
    <2> QED BY <1>1, <1>2, <2>1 DEF t
  <1>4. CASE InkAt(t) # {}
    <2>1. PICK a, b \in 1..Len(t) : /\ a <= b /\ a \in InkAt(t)
                                    /\ Len(Strip(t)) = b - a + 1
      BY <1>2, <1>4, StripIsPart
    <2>2. a # 1
      <3>1. Blank(Space) BY DEF Blank, Space
      <3> QED BY <1>1, <2>1, <3>1 DEF InkAt
    <2>3. b - a + 1 <= Len(u) BY <1>1, <2>1, <2>2
    <2> QED BY <1>2, <2>1, <2>3 DEF t
  <1> QED BY <1>3, <1>4

\* The overlap is no longer than asked for.
LEMMA OverlapFits ==
    ASSUME NEW t \in Text, NEW size \in Nat
    PROVE  OverlapTail(t, size) \in Text /\ Len(OverlapTail(t, size)) <= size
  <1> DEFINE n == Len(t)
             tail == SubSeq(t, n - size + 1, n)
             spaces == {i \in DOMAIN tail : tail[i] = Space}
  <1>1. n \in Nat BY DEF Text
  <1>2. CASE size <= 0 \/ n <= size
    <2>1. OverlapTail(t, size) = <<>> BY <1>2 DEF OverlapTail
    <2> QED BY <2>1 DEF Text
  <1>3. CASE ~(size <= 0 \/ n <= size)
    <2>1. tail \in Text /\ Len(tail) = size /\ DOMAIN tail = 1..size
      BY <1>1, <1>3 DEF Text
    <2>2. OverlapTail(t, size) =
             IF spaces = {} THEN tail
             ELSE SubSeq(tail, SmallestOf(spaces) + 1, Len(tail))
      BY <1>3 DEF OverlapTail
    <2> HIDE DEF tail
    <2>3. CASE spaces = {} BY <2>1, <2>2, <2>3
    <2>4. CASE spaces # {}
      <3> DEFINE a == SmallestOf(spaces)
      <3>1. a \in 1..size
        <4>1. spaces \in SUBSET (1..size) BY <2>1
        <4> HIDE DEF spaces
        <4>2. a \in spaces BY <2>4, <4>1, FirstAndLast
        <4> QED BY <4>1, <4>2
      <3> HIDE DEF a
      <3>2. SubSeq(tail, a + 1, size) \in Text /\ Len(SubSeq(tail, a + 1, size)) <= size
        <4>1. CASE a = size BY <2>1, <3>1, <4>1 DEF Text
        <4>2. CASE a < size BY <2>1, <3>1, <4>2 DEF Text
        <4> QED BY <3>1, <4>1, <4>2
      <3> QED BY <2>1, <2>2, <2>4, <3>2 DEF a
    <2> QED BY <2>3, <2>4
  <1> QED BY <1>2, <1>3

\* The parts of a text are texts, none of them empty.
LEMMA PiecesAreTexts ==
    ASSUME NEW t \in Text, NEW Cuts
    PROVE  /\ Pieces(t, Cuts) \in Seq(Text)
           /\ \A k \in 1..Len(Pieces(t, Cuts)) :
                 Pieces(t, Cuts)[k] # <<>> /\ Len(Pieces(t, Cuts)[k]) <= Len(t)
  <1> DEFINE parts == Between(t, Cuts)
             stripped == [k \in DOMAIN parts |-> Strip(parts[k])]
             S == {k \in DOMAIN stripped : stripped[k] # <<>>}
             Short == {u \in Text : u = <<>> \/ Len(u) <= Len(t)}
  <1>1. parts \in Seq(Text) /\ \A k \in 1..Len(parts) : Len(parts[k]) <= Len(t)
    <2>1. t \in Seq(Char) BY DEF Text
    <2>2. parts \in Seq(Seq(Char)) /\ \A k \in 1..Len(parts) : Len(parts[k]) <= Len(t)
      BY <2>1, BetweenCuts DEF Separates
    <2> QED BY <2>2 DEF Text
  <1>2. Pieces(t, Cuts) = Kept(stripped, S) BY DEF Pieces
  <1> HIDE DEF parts
  <1>3. \A k \in 1..Len(parts) : Strip(parts[k]) \in Text /\ Len(Strip(parts[k])) <= Len(t)
    <2> TAKE k \in 1..Len(parts)
    <2>1. parts[k] \in Text /\ Len(parts[k]) <= Len(t) BY <1>1
    <2>2. Strip(parts[k]) \in Text /\ Len(Strip(parts[k])) <= Len(parts[k])
      BY <2>1, StripIsPart
    <2>3. \A u \in Text : Len(u) \in Nat BY DEF Text
    <2>4. Len(Strip(parts[k])) \in Nat /\ Len(parts[k]) \in Nat /\ Len(t) \in Nat
      BY <2>1, <2>2, <2>3
    <2> QED BY <2>1, <2>2, <2>4
  <1>4. stripped \in Seq(Text) /\ DOMAIN stripped = 1..Len(parts)
    <2>1. Len(parts) \in Nat /\ DOMAIN parts = 1..Len(parts) BY <1>1
    <2>2. \A k \in 1..Len(parts) : Strip(parts[k]) \in Text BY <1>3
    <2> QED BY <2>1, <2>2
  <1>5. \A k \in S : stripped[k] # <<>> /\ Len(stripped[k]) <= Len(t) BY <1>3, <1>4
  <1>6. S \in SUBSET DOMAIN stripped OBVIOUS
  <1> HIDE DEF stripped, S
  <1> DEFINE kept == Kept(stripped, S)
  <1>7. /\ kept \in Seq(Text)
        /\ \E p \in [1..Len(kept) -> S] : \A i \in 1..Len(kept) : kept[i] = stripped[p[i]]
    BY <1>4, <1>6, KeptKeepsOrder
  <1> HIDE DEF kept
  <1>8. \A i \in 1..Len(kept) : kept[i] # <<>> /\ Len(kept[i]) <= Len(t)
    BY <1>5, <1>7
  <1> QED BY <1>2, <1>7, <1>8 DEF kept

-----------------------------------------------------------------------------
(* Splitting long text.                                                    *)

LEMMA TextLengths == \A t \in Text : Len(t) \in Nat /\ (t = <<>> <=> Len(t) = 0)
  BY DEF Text

\* A cut leaves a piece within the limit, and less than there was.
LEMMA HardCutIsWithin ==
    ASSUME NEW rest \in Text, NEW max \in Nat \ {0}, Len(rest) > max
    PROVE  HardCut(rest, max) \in 1..max
  <1> DEFINE spaces == {i \in 1..max : rest[i] = Space}
             last == IF spaces = {} THEN 0 ELSE LargestOf(spaces) - 1
  <1>1. last \in 0..max
    <2>1. CASE spaces = {} BY <2>1
    <2>2. CASE spaces # {}
      <3>1. spaces \in SUBSET (1..max) OBVIOUS
      <3> HIDE DEF spaces
      <3>2. LargestOf(spaces) \in spaces BY <2>2, <3>1, FirstAndLast
      <3>3. LargestOf(spaces) \in 1..max BY <3>1, <3>2
      <3> QED BY <2>2, <3>3
    <2> QED BY <2>1, <2>2
  <1>2. HardCut(rest, max) = IF last > max \div 2 THEN last ELSE max BY DEF HardCut
  <1> HIDE DEF last
  <1> QED BY <1>1, <1>2

\* A turn of the loop cuts one piece off, if the rest is over the limit.
CutTexts(max) == {u \in Text : Len(u) <= max}
Cuttings(max) == [pieces : Seq(CutTexts(max)), rest : Text]

LEMMA CutOffShortens ==
    ASSUME NEW max \in Nat \ {0}, NEW s \in Cuttings(max)
    PROVE  /\ CutOff(s, max) \in Cuttings(max)
           /\ Len(s.rest) <= max => CutOff(s, max) = s
           /\ Len(s.rest) > max => Len(CutOff(s, max).rest) < Len(s.rest)
  <1> DEFINE rest == s.rest  n == Len(s.rest)  cut == HardCut(rest, max)
             head == SubSeq(rest, 1, cut)  tail == SubSeq(rest, cut + 1, n)
  <1>1. rest \in Text /\ n \in Nat /\ s.pieces \in Seq(CutTexts(max))
    BY TextLengths DEF Cuttings
  <1>2. CASE n <= max
    <2>1. CutOff(s, max) = s BY <1>2 DEF CutOff
    <2> QED BY <1>1, <1>2, <2>1
  <1>3. CASE n > max
    <2>1. cut \in 1..max BY <1>1, <1>3, HardCutIsWithin
    <2>2. CutOff(s, max) = [pieces |-> Append(s.pieces, Strip(head)), rest |-> Strip(tail)]
      BY <1>1, <1>3 DEF CutOff
    <2> HIDE DEF cut
    <2>3. /\ head \in Text /\ Len(head) <= max
          /\ tail \in Text /\ Len(tail) < n
      BY <1>1, <1>3, <2>1 DEF Text
    <2> HIDE DEF head, tail
    <2>4. /\ Strip(head) \in Text /\ Len(Strip(head)) <= Len(head)
          /\ Strip(tail) \in Text /\ Len(Strip(tail)) <= Len(tail)
      BY <2>3, StripIsPart
    <2>5. Strip(head) \in CutTexts(max) /\ Len(Strip(tail)) < n
      BY <1>1, <2>3, <2>4, TextLengths DEF CutTexts
    <2>6. Append(s.pieces, Strip(head)) \in Seq(CutTexts(max)) BY <1>1, <2>5
    <2>7. CutOff(s, max) \in Cuttings(max) BY <2>2, <2>4, <2>6 DEF Cuttings
    <2>8. CutOff(s, max).rest = Strip(tail) BY <2>2
    <2>9. ~(n <= max) BY <1>1, <1>3
    <2> QED BY <2>5, <2>7, <2>8, <2>9
  <1> QED BY <1>1, <1>2, <1>3

LEMMA WithRestKeeps ==
    ASSUME NEW T, NEW pieces \in Seq(T), NEW rest, rest # <<>> => rest \in T
    PROVE  WithRest(pieces, rest) \in Seq(T)
  BY DEF WithRest

\* The turns of the loops of the code: s[i] is the state after i turns, and the
\* result comes from the last one.
HardSplitLoop(s, text, max) ==
    /\ s[0] = [pieces |-> <<>>, rest |-> Strip(text)]
    /\ \A i \in 1..Len(text) : s[i] = CutOff(s[i - 1], max)
    /\ \A i \in 0..Len(text) : s[i] \in Cuttings(max)
    /\ Len(s[Len(text)].rest) <= max
    /\ HardSplit(text, max) = WithRest(s[Len(text)].pieces, s[Len(text)].rest)

\* The loop has a turn for every character, which is enough.
LEMMA HardSplitTurns ==
    ASSUME NEW text \in Text, NEW max \in Nat \ {0}
    PROVE  \E s : HardSplitLoop(s, text, max)
  <1> DEFINE n == Len(text)
             V == Cuttings(max)
             b == [pieces |-> <<>>, rest |-> Strip(text)]
             step == [e \in V \X (1..n) |-> CutOff(e[1], max)]
             body(f) == [i \in 0..n |-> IF i = 0 THEN b ELSE CutOff(f[i - 1], max)]
             s == CHOOSE f : f = body(f)
  <1>1. n \in Nat BY TextLengths
  <1>2. b \in V /\ Len(b.rest) <= n BY StripIsPart DEF Cuttings
  <1>3. \A v \in V : CutOff(v, max) \in V BY CutOffShortens
  <1>4. HardSplit(text, max) = WithRest(s[n].pieces, s[n].rest) BY DEF HardSplit
  <1> HIDE DEF b, V
  <1>5. step \in Turns(V, n) BY <1>3 DEF Turns
  <1>6. \A v \in V, i \in 1..n : step[<<v, i>>] = CutOff(v, max) OBVIOUS
  <1> HIDE DEF step, n
  <1>7. s = body(s)
    <2>1. PICK f \in [0..n -> V] :
              f = [i \in 0..n |-> IF i = 0 THEN b ELSE step[<<f[i - 1], i>>]]
      BY <1>1, <1>2, <1>5, LoopsExist
    <2>2. \A i \in 1..n : step[<<f[i - 1], i>>] = CutOff(f[i - 1], max)
      <3> TAKE i \in 1..n
      <3>1. i - 1 \in 0..n BY <1>1
      <3> QED BY <1>6, <3>1
    <2>3. \A i \in 0..n : i # 0 => i \in 1..n BY <1>1
    <2>4. f = body(f)
      <3>1. \A i \in 0..n : f[i] = IF i = 0 THEN b ELSE CutOff(f[i - 1], max)
        BY <2>1, <2>2, <2>3
      <3> QED BY <2>1, <3>1
    <2> HIDE DEF body
    <2> QED BY <2>4
  <1> HIDE DEF s
  <1>8. s[0] = b /\ \A i \in 1..n : s[i] = CutOff(s[i - 1], max)
    <2>1. \A i \in 0..n : s[i] = IF i = 0 THEN b ELSE CutOff(s[i - 1], max) BY <1>7
    <2>2. 0 \in 0..n /\ \A i \in 1..n : i \in 0..n /\ i # 0 BY <1>1
    <2> QED BY <2>1, <2>2
  <1> DEFINE U == {i \in 0..n : s[i] \in V /\ (Len(s[i].rest) <= max
                                                \/ Len(s[i].rest) <= n - i)}
  <1>9. 0 \in U BY <1>1, <1>2, <1>8
  <1>10. ASSUME NEW i \in 1..n, i - 1 \in U PROVE i \in U
    <2> DEFINE a == s[i - 1]
    <2>1. a \in V /\ (Len(a.rest) <= max \/ Len(a.rest) <= n - (i - 1)) BY <1>10
    <2>2. s[i] = CutOff(a, max) BY <1>8
    <2> HIDE DEF a
    <2>3. s[i] \in V BY <1>3, <2>1, <2>2
    <2>4. Len(a.rest) \in Nat /\ Len(s[i].rest) \in Nat
      BY <2>1, <2>3, TextLengths DEF V, Cuttings
    <2>5. CASE Len(a.rest) <= max
      <3>1. s[i] = a BY <2>1, <2>2, <2>5, CutOffShortens DEF V
      <3> QED BY <2>3, <2>5, <3>1
    <2>6. CASE ~(Len(a.rest) <= max)
      <3>1. Len(s[i].rest) < Len(a.rest) BY <2>1, <2>2, <2>4, <2>6, CutOffShortens DEF V
      <3>2. Len(a.rest) <= n - (i - 1) BY <2>1, <2>6
      <3>3. Len(s[i].rest) <= n - i BY <1>1, <2>4, <3>1, <3>2
      <3> QED BY <2>3, <3>3
    <2> QED BY <2>5, <2>6
  <1>11. \A i \in 0..n : i \in U
    <2> HIDE DEF U
    <2> QED BY <1>1, <1>9, <1>10, CountingUp
  <1>12. s[n] \in V /\ (Len(s[n].rest) <= max \/ Len(s[n].rest) <= n - n) BY <1>1, <1>11
  <1>13. Len(s[n].rest) <= max
    <2>1. s[n].rest \in Text BY <1>12 DEF V, Cuttings
    <2>2. Len(s[n].rest) \in Nat BY <2>1, TextLengths
    <2> QED BY <1>1, <1>12, <2>2
  <1> QED BY <1>4, <1>8, <1>11, <1>13 DEF V, n, b, HardSplitLoop

LEMMA HardSplitFits ==
    ASSUME NEW text \in Text, NEW max \in Nat \ {0}
    PROVE  HardSplit(text, max) \in Seq(CutTexts(max))
  <1> DEFINE n == Len(text)
  <1>1. PICK s : HardSplitLoop(s, text, max) BY HardSplitTurns
  <1>2. n \in 0..n BY TextLengths
  <1>3. s[n] \in Cuttings(max) /\ Len(s[n].rest) <= max
    BY <1>1, <1>2 DEF HardSplitLoop
  <1>4. s[n].rest \in CutTexts(max) /\ s[n].pieces \in Seq(CutTexts(max))
    BY <1>3 DEF Cuttings, CutTexts
  <1>5. HardSplit(text, max) = WithRest(s[n].pieces, s[n].rest)
    BY <1>1 DEF HardSplitLoop
  <1> QED BY <1>4, <1>5, WithRestKeeps

\* A unit leaves room for the overlap before it, and the space between.
LEMMA UnitLimitLeavesRoom ==
    ASSUME NEW max \in Nat, NEW overlap \in Nat, 2 * (overlap + 1) <= max
    PROVE  /\ UnitLimit(max, overlap) \in Nat \ {0}
           /\ UnitLimit(max, overlap) + overlap + 1 <= max
  <1> DEFINE a == max - overlap - 1  b == max \div 2
  <1>1. a \in Nat /\ b \in Nat /\ a >= b /\ a >= 1 /\ a + overlap + 1 <= max OBVIOUS
  <1>2. UnitLimit(max, overlap) = LargestOf({a, b}) BY DEF UnitLimit
  <1> HIDE DEF a, b
  <1>3. LargestOf({a, b}) = a
    <2>1. \A y \in {a, b} : a >= y BY <1>1
    <2>2. \E x \in {a, b} : \A y \in {a, b} : x >= y BY <2>1
    <2>3. /\ LargestOf({a, b}) \in {a, b}
          /\ \A y \in {a, b} : LargestOf({a, b}) >= y
      BY <2>2 DEF LargestOf
    <2>4. LargestOf({a, b}) >= a BY <2>3
    <2> QED BY <1>1, <2>3, <2>4
  <1> QED BY <1>1, <1>2, <1>3

LEMMA UnitsFit ==
    ASSUME NEW t \in Text, NEW limit \in Nat \ {0}
    PROVE  Units(t, limit) \in Seq(CutTexts(limit))
  <1> DEFINE unit(u) == IF Len(u) > limit THEN HardSplit(u, limit) ELSE <<u>>
             sentences == Pieces(t, SentenceEnds(t))
             split == [k \in DOMAIN sentences |-> unit(sentences[k])]
  <1>1. sentences \in Seq(Text) BY PiecesAreTexts
  <1>2. Units(t, limit) = FlattenSeq(split) BY DEF Units
  <1> HIDE DEF sentences
  <1>3. \A k \in 1..Len(sentences) : unit(sentences[k]) \in Seq(CutTexts(limit))
    <2> TAKE k \in 1..Len(sentences)
    <2> DEFINE u == sentences[k]
    <2>1. u \in Text BY <1>1
    <2> HIDE DEF u
    <2>2. CASE Len(u) > limit BY <2>1, <2>2, HardSplitFits DEF u
    <2>3. CASE ~(Len(u) > limit)
      <3>1. Len(u) <= limit BY <2>1, <2>3, TextLengths
      <3>2. u \in CutTexts(limit) BY <2>1, <3>1 DEF CutTexts
      <3>3. <<u>> \in Seq(CutTexts(limit)) BY <3>2
      <3> QED BY <2>3, <3>3 DEF u
    <2> QED BY <2>2, <2>3 DEF u
  <1> HIDE DEF unit
  <1>4. split \in Seq(Seq(CutTexts(limit)))
    <2>1. Len(sentences) \in Nat /\ DOMAIN sentences = 1..Len(sentences) BY <1>1
    <2> QED BY <1>3, <2>1
  <1> HIDE DEF split
  <1> QED BY <1>2, <1>4, FlattenMembers

\* A piece is within the limit, and so is the one that is being made.
InkTexts(max) == CutTexts(max) \ {<<>>}
Splits(max) == [pieces : Seq(InkTexts(max)), current : CutTexts(max)]

LEMMA AddUnitFits ==
    ASSUME NEW max \in Nat, NEW overlap \in Nat, NEW limit \in Nat,
           limit + overlap + 1 <= max,
           NEW s \in Splits(max), NEW u \in CutTexts(limit)
    PROVE  AddUnit(s, u, max, overlap) \in Splits(max)
  <1> DEFINE cur == s.current  tail == OverlapTail(cur, overlap)
             over == cur # <<>> /\ Len(cur) + 1 + Len(u) > max
  <1>1. /\ cur \in Text /\ Len(cur) <= max /\ s.pieces \in Seq(InkTexts(max))
        /\ u \in Text /\ Len(u) <= limit
    BY DEF Splits, CutTexts
  <1>2. s = [pieces |-> s.pieces, current |-> cur] BY DEF Splits
  <1>3. tail \in Text /\ Len(tail) <= overlap BY <1>1, OverlapFits
  <1>4. AddUnit(s, u, max, overlap) =
           IF over
           THEN [pieces |-> Append(s.pieces, cur), current |-> Strip(tail \o <<Space>> \o u)]
           ELSE [s EXCEPT !.current = Strip(cur \o <<Space>> \o u)]
    BY DEF AddUnit
  <1> HIDE DEF cur, tail
  <1>5. Space \in Char BY CharTypes
  <1>6. ASSUME NEW v \in Text, v = <<>> \/ Len(v) + 1 + Len(u) <= max
        PROVE  Strip(v \o <<Space>> \o u) \in CutTexts(max)
    <2> DEFINE w == v \o <<Space>> \o u
    <2>0. Len(v) \in Nat /\ Len(u) \in Nat BY <1>1, TextLengths
    <2>1. w \in Text /\ Len(w) = Len(v) + 1 + Len(u)
      <3>1. v \in Seq(Char) /\ u \in Seq(Char) BY <1>1 DEF Text
      <3>2. w \in Seq(Char) /\ Len(w) = Len(v) + 1 + Len(u) BY <1>5, <3>1
      <3> QED BY <3>2 DEF Text
    <2>2. CASE v = <<>>
      <3>1. <<>> \o <<Space>> = <<Space>> OBVIOUS
      <3>2. w = <<Space>> \o u BY <2>2, <3>1
      <3>3. Len(Strip(w)) <= Len(u) BY <1>1, <3>2, StripOfJoin
      <3>4. Strip(w) \in Text BY <2>1, StripIsPart
      <3>5. Len(Strip(w)) <= max BY <1>1, <2>0, <3>3, <3>4, TextLengths
      <3> QED BY <3>4, <3>5 DEF CutTexts
    <2>3. CASE Len(v) + 1 + Len(u) <= max
      <3>1. Strip(w) \in Text /\ Len(Strip(w)) <= Len(w) BY <2>1, StripIsPart
      <3>2. Len(Strip(w)) <= max BY <2>0, <2>1, <2>3, <3>1, TextLengths
      <3> QED BY <3>1, <3>2 DEF CutTexts
    <2> QED BY <1>6, <2>2, <2>3
  <1>7. CASE over
    <2>1. Len(tail) + 1 + Len(u) <= max BY <1>1, <1>3, TextLengths
    <2>2. Strip(tail \o <<Space>> \o u) \in CutTexts(max) BY <1>3, <1>6, <2>1
    <2>3. cur \in InkTexts(max) BY <1>1, <1>7 DEF InkTexts, CutTexts
    <2>4. Append(s.pieces, cur) \in Seq(InkTexts(max)) BY <1>1, <2>3
    <2> QED BY <1>4, <1>7, <2>2, <2>4 DEF Splits
  <1>8. CASE ~over
    <2>1. cur = <<>> \/ Len(cur) + 1 + Len(u) <= max
      <3>1. Len(cur) \in Nat /\ Len(u) \in Nat BY <1>1, TextLengths
      <3> QED BY <1>8, <3>1
    <2>2. Strip(cur \o <<Space>> \o u) \in CutTexts(max) BY <1>1, <1>6, <2>1
    <2> HIDE DEF over
    <2>3. AddUnit(s, u, max, overlap) =
             [pieces |-> s.pieces, current |-> Strip(cur \o <<Space>> \o u)]
      BY <1>2, <1>4, <1>8
    <2> QED BY <1>1, <2>2, <2>3 DEF Splits
  <1> QED BY <1>7, <1>8

SplitOversizeLoop(s, t, max, overlap) ==
    LET units == Units(t, UnitLimit(max, overlap))
        n == Len(units)
    IN /\ s[0] = [pieces |-> <<>>, current |-> <<>>]
       /\ \A i \in 1..n : s[i] = AddUnit(s[i - 1], units[i], max, overlap)
       /\ \A i \in 0..n : s[i] \in Splits(max)
       /\ SplitOversize(t, max, overlap) = WithRest(s[n].pieces, s[n].current)

LEMMA SplitOversizeTurns ==
    ASSUME NEW t \in Text, NEW max \in Nat, NEW overlap \in Nat,
           2 * (overlap + 1) <= max
    PROVE  LET limit == UnitLimit(max, overlap)
           IN /\ limit \in Nat \ {0} /\ limit + overlap + 1 <= max
              /\ Units(t, limit) \in Seq(CutTexts(limit))
              /\ \E s : SplitOversizeLoop(s, t, max, overlap)
  <1> DEFINE limit == UnitLimit(max, overlap)
             units == Units(t, limit)
             n == Len(units)
             V == Splits(max)
             b == [pieces |-> <<>>, current |-> <<>>]
             step == [e \in V \X (1..n) |-> AddUnit(e[1], units[e[2]], max, overlap)]
             body(f) == [i \in 0..n |-> IF i = 0 THEN b
                                        ELSE AddUnit(f[i - 1], units[i], max, overlap)]
             s == CHOOSE f : f = body(f)
  <1>1. limit \in Nat \ {0} /\ limit + overlap + 1 <= max BY UnitLimitLeavesRoom
  <1>2. SplitOversize(t, max, overlap) = WithRest(s[n].pieces, s[n].current)
    BY DEF SplitOversize
  <1> HIDE DEF limit
  <1>3. units \in Seq(CutTexts(limit)) BY <1>1, UnitsFit
  <1> HIDE DEF units
  <1>4. n \in Nat /\ \A i \in 1..n : units[i] \in CutTexts(limit) BY <1>3
  <1>5. b \in V
    <2>1. <<>> \in CutTexts(max) BY TextLengths DEF CutTexts, Text
    <2> QED BY <2>1 DEF Splits
  <1>6. \A v \in V, i \in 1..n : AddUnit(v, units[i], max, overlap) \in V
    BY <1>1, <1>4, AddUnitFits
  <1> HIDE DEF b, V
  <1>7. step \in Turns(V, n) BY <1>6 DEF Turns
  <1>8. \A v \in V, i \in 1..n : step[<<v, i>>] = AddUnit(v, units[i], max, overlap) OBVIOUS
  <1> HIDE DEF step, n
  <1>9. s = body(s)
    <2>1. PICK f \in [0..n -> V] :
              f = [i \in 0..n |-> IF i = 0 THEN b ELSE step[<<f[i - 1], i>>]]
      BY <1>4, <1>5, <1>7, LoopsExist
    <2>2. \A i \in 1..n : step[<<f[i - 1], i>>] = AddUnit(f[i - 1], units[i], max, overlap)
      <3> TAKE i \in 1..n
      <3>1. i - 1 \in 0..n BY <1>4
      <3> QED BY <1>8, <3>1
    <2>3. \A i \in 0..n : i # 0 => i \in 1..n BY <1>4
    <2>4. f = body(f)
      <3>1. \A i \in 0..n : f[i] = IF i = 0 THEN b
                                   ELSE AddUnit(f[i - 1], units[i], max, overlap)
        BY <2>1, <2>2, <2>3
      <3> QED BY <2>1, <3>1
    <2> HIDE DEF body
    <2> QED BY <2>4
  <1> HIDE DEF s
  <1>10. s[0] = b /\ \A i \in 1..n : s[i] = AddUnit(s[i - 1], units[i], max, overlap)
    <2>1. \A i \in 0..n : s[i] = IF i = 0 THEN b
                                 ELSE AddUnit(s[i - 1], units[i], max, overlap)
      BY <1>9
    <2>2. 0 \in 0..n /\ \A i \in 1..n : i \in 0..n /\ i # 0 BY <1>4
    <2> QED BY <2>1, <2>2
  <1> DEFINE U == {i \in 0..n : s[i] \in V}
  <1>11. 0 \in U BY <1>4, <1>5, <1>10
  <1>12. \A i \in 1..n : i - 1 \in U => i \in U BY <1>4, <1>6, <1>10
  <1>13. \A i \in 0..n : i \in U
    <2> HIDE DEF U
    <2> QED BY <1>4, <1>11, <1>12, CountingUp
  <1> QED BY <1>1, <1>2, <1>3, <1>10, <1>13 DEF V, n, b, units, limit, SplitOversizeLoop

\* "No piece is longer than max_chars", given room for an overlap.
LEMMA SplitOversizeFits ==
    ASSUME NEW t \in Text, NEW max \in Nat, NEW overlap \in Nat,
           2 * (overlap + 1) <= max
    PROVE  SplitOversize(t, max, overlap) \in Seq(InkTexts(max))
  <1> DEFINE units == Units(t, UnitLimit(max, overlap))
             n == Len(units)
  <1>1. PICK s : SplitOversizeLoop(s, t, max, overlap) BY SplitOversizeTurns
  <1>2. units \in Seq(CutTexts(UnitLimit(max, overlap))) BY SplitOversizeTurns
  <1>3. n \in 0..n BY <1>2
  <1>4. s[n] \in Splits(max) BY <1>1, <1>3 DEF SplitOversizeLoop
  <1>5. s[n].pieces \in Seq(InkTexts(max)) /\ s[n].current \in CutTexts(max)
    BY <1>4 DEF Splits
  <1>6. s[n].current # <<>> => s[n].current \in InkTexts(max) BY <1>5 DEF InkTexts
  <1>7. SplitOversize(t, max, overlap) = WithRest(s[n].pieces, s[n].current)
    BY <1>1 DEF SplitOversizeLoop
  <1> QED BY <1>5, <1>6, <1>7, WithRestKeeps

-----------------------------------------------------------------------------
(* Tables.                                                                 *)

Rows == {u \in Text : \A i \in 1..Len(u) : u[i] # Break}

LEMMA LinesAreRows ==
    ASSUME NEW t \in Text PROVE LinesOf(t) \in Seq(Rows)
  <1> DEFINE Cuts == {i \in DOMAIN t : t[i] = Break}
  <1>1. t \in Seq(Char) /\ DOMAIN t = 1..Len(t) BY DEF Text
  <1>2. LinesOf(t) = Between(t, Cuts) BY DEF LinesOf
  <1>3. \A j \in (1..Len(t)) \ Cuts : t[j] # Break BY <1>1
  <1> HIDE DEF Cuts
  <1> DEFINE parts == Between(t, Cuts)
  <1>4. /\ parts \in Seq(Seq(Char))
        /\ \A k \in 1..Len(parts) : \A i \in 1..Len(parts[k]) :
              \E j \in (1..Len(t)) \ Cuts : parts[k][i] = t[j]
    <2>1. Separates(parts, Char, t, Cuts) BY <1>1, BetweenCuts
    <2> HIDE DEF parts
    <2> QED BY <2>1 DEF Separates
  <1> HIDE DEF parts
  <1>5. \A k \in 1..Len(parts) : parts[k] \in Rows
    <2> TAKE k \in 1..Len(parts)
    <2>1. parts[k] \in Text BY <1>4 DEF Text
    <2>2. \A i \in 1..Len(parts[k]) : parts[k][i] # Break BY <1>3, <1>4
    <2> QED BY <2>1, <2>2 DEF Rows
  <1>6. parts \in Seq(Rows) BY <1>4, <1>5
  <1> QED BY <1>2, <1>6 DEF parts

\* Two cuts are at two places.
LEMMA TwoPlaces ==
    ASSUME NEW n \in Nat, NEW a \in 1..n, NEW b \in 1..n, a < b
    PROVE  Len(Places({a, b}, n)) = 2
  <1> DEFINE p == Places({a, b}, n)  m == Len(p)
  <1>1. Rises(p, {a, b}, n) BY PlacesRise
  <1> HIDE DEF p
  <1>2. m \in Nat BY <1>1 DEF Rises
  <1>3. /\ \A k \in 1..m : p[k] = a \/ p[k] = b
        /\ \A k, l \in 1..m : k < l => p[k] < p[l]
        /\ \E k \in 1..m : p[k] = a
        /\ \E k \in 1..m : p[k] = b
    BY <1>1 DEF Rises
  <1> HIDE DEF m
  <1>4. m >= 2
    <2>1. PICK k \in 1..m : p[k] = a BY <1>3
    <2>2. PICK l \in 1..m : p[l] = b BY <1>3
    <2>3. k # l BY <2>1, <2>2
    <2> QED BY <1>2, <2>3
  <1>5. ASSUME m >= 3 PROVE FALSE
    <2>1. 1 \in 1..m /\ 2 \in 1..m /\ 3 \in 1..m BY <1>2, <1>5
    <2>2. p[1] < p[2] /\ p[2] < p[3] BY <1>3, <2>1
    <2> QED BY <1>3, <2>1, <2>2
  <1>6. m = 2 BY <1>2, <1>4, <1>5
  <1> QED BY <1>6 DEF m, p

LEMMA ThreeLines ==
    ASSUME NEW x \in Rows, NEW y \in Rows, NEW z \in Rows
    PROVE  Len(LinesOf(JoinLines(<<x, y, z>>))) = 3
  <1> DEFINE t == JoinLines(<<x, y, z>>)
             a == Len(x) + 1  b == Len(x) + Len(y) + 2
             n == Len(x) + Len(y) + Len(z) + 2
             xy == x \o (<<Break>> \o y)
  <1>0. Break \in Char BY CharTypes
  <1>1. /\ x \in Seq(Char) /\ y \in Seq(Char) /\ z \in Seq(Char)
        /\ Len(x) \in Nat /\ Len(y) \in Nat /\ Len(z) \in Nat
        /\ \A i \in 1..Len(x) : x[i] # Break
        /\ \A i \in 1..Len(y) : y[i] # Break
        /\ \A i \in 1..Len(z) : z[i] # Break
    BY DEF Rows, Text
  <1>2. t = xy \o (<<Break>> \o z)
    <2> DEFINE g == <<Break>>  none == <<>>  one == <<x>>  two == <<x, y>>
               all == <<x, y, z>>
    <2>1. g \in Seq(Char) BY <1>0
    <2>2. /\ none \in Seq(Seq(Char)) /\ one \in Seq(Seq(Char)) /\ two \in Seq(Seq(Char))
          /\ one = Append(none, x) /\ two = Append(one, y) /\ all = Append(two, z)
          /\ none = <<>> /\ one # <<>> /\ two # <<>>
      BY <1>1
    <2> HIDE DEF g, none, one, two, all
    <2>0. Adds(none, x, g) /\ Adds(one, y, g) /\ Adds(two, z, g)
      BY <1>1, <2>1, <2>2, JoinAppend
    <2>3. Join(one, g) = x BY <2>0, <2>2 DEF Adds
    <2>4. Join(two, g) = x \o (g \o y) BY <2>0, <2>2, <2>3 DEF Adds
    <2>5. Join(all, g) = (x \o (g \o y)) \o (g \o z) BY <2>0, <2>2, <2>4 DEF Adds
    <2> QED BY <2>5 DEF g, all, JoinLines
  <1> HIDE DEF t
  <1>3. /\ xy \in Seq(Char) /\ Len(xy) = Len(x) + 1 + Len(y)
        /\ \A i \in 1..Len(x) : xy[i] = x[i]
        /\ xy[a] = Break
        /\ \A i \in 1..Len(y) : xy[a + i] = y[i]
    BY <1>0, <1>1
  <1> HIDE DEF xy
  <1>4. /\ t \in Seq(Char) /\ Len(t) = n
        /\ \A i \in 1..(Len(x) + 1 + Len(y)) : t[i] = xy[i]
        /\ t[b] = Break
        /\ \A i \in 1..Len(z) : t[b + i] = z[i]
    <2> DEFINE yz == <<Break>> \o z
    <2>1. yz \in Seq(Char) /\ Len(yz) = 1 + Len(z) /\ yz[1] = Break
          /\ \A i \in 1..Len(z) : yz[1 + i] = z[i]
      BY <1>0, <1>1
    <2> HIDE DEF yz
    <2>2. t = xy \o yz BY <1>2 DEF yz
    <2>3. /\ t \in Seq(Char) /\ Len(t) = Len(xy) + Len(yz)
          /\ \A i \in 1..Len(xy) : t[i] = xy[i]
          /\ \A i \in 1..Len(yz) : t[Len(xy) + i] = yz[i]
      <3>1. \A v, w \in Seq(Char) :
               /\ v \o w \in Seq(Char) /\ Len(v \o w) = Len(v) + Len(w)
               /\ \A i \in 1..Len(v) : (v \o w)[i] = v[i]
               /\ \A i \in 1..Len(w) : (v \o w)[Len(v) + i] = w[i]
        OBVIOUS
      <3> QED BY <1>3, <2>1, <2>2, <3>1, Zenon
    <2>4. Len(t) = n BY <1>1, <1>3, <2>1, <2>3
    <2>5. 1 \in 1..Len(yz) /\ b = Len(xy) + 1 BY <1>1, <1>3, <2>1
    <2>6. t[b] = Break BY <2>1, <2>3, <2>5
    <2>7. \A i \in 1..Len(z) : t[b + i] = z[i]
      <3> TAKE i \in 1..Len(z)
      <3>1. 1 + i \in 1..Len(yz) /\ b + i = Len(xy) + (1 + i) BY <1>1, <1>3, <2>1
      <3>0. \A j \in 1..Len(yz) : t[Len(xy) + j] = yz[j] BY <2>3, Zenon
      <3>2. t[Len(xy) + (1 + i)] = yz[1 + i]
        <4> DEFINE j == 1 + i
        <4>1. j \in 1..Len(yz) BY <3>1
        <4> HIDE DEF j
        <4>2. t[Len(xy) + j] = yz[j] BY <3>0, <4>1
        <4> QED BY <4>2 DEF j
      <3> HIDE DEF b
      <3> QED BY <2>1, <3>1, <3>2
    <2> QED BY <1>3, <2>3, <2>4, <2>6, <2>7
  <1> DEFINE Cuts == {i \in DOMAIN t : t[i] = Break}
  <1>5. a \in 1..n /\ b \in 1..n /\ a < b /\ n \in Nat BY <1>1
  <1>6. Cuts = {a, b}
    <2>1. a \in Cuts /\ b \in Cuts
      <3>1. a \in 1..(Len(x) + 1 + Len(y)) BY <1>1
      <3>2. t[a] = Break BY <1>3, <1>4, <3>1
      <3>3. DOMAIN t = 1..n BY <1>4
      <3> QED BY <1>4, <1>5, <3>2, <3>3
    <2>2. ASSUME NEW i \in 1..n, i # a, i # b PROVE t[i] # Break
      <3>1. CASE i \in 1..Len(x)
        <4>1. i \in 1..(Len(x) + 1 + Len(y)) BY <1>1, <3>1
        <4> QED BY <1>1, <1>3, <1>4, <3>1, <4>1
      <3>2. CASE i \in (a + 1)..(b - 1)
        <4>1. i - a \in 1..Len(y) /\ i = a + (i - a) BY <1>1, <3>2
        <4>2. i \in 1..(Len(x) + 1 + Len(y)) BY <1>1, <3>2
        <4>3. xy[a + (i - a)] = y[i - a] BY <1>3, <4>1
        <4>4. t[i] = xy[i] BY <1>4, <4>2
        <4>5. y[i - a] # Break BY <1>1, <4>1
        <4> HIDE DEF a
        <4>6. xy[i] = y[i - a] BY <4>1, <4>3
        <4> QED BY <4>4, <4>5, <4>6
      <3>3. CASE i \in (b + 1)..n
        <4>1. i - b \in 1..Len(z) /\ i = b + (i - b) BY <1>1, <3>3
        <4>2. t[b + (i - b)] = z[i - b] BY <1>4, <4>1
        <4>3. z[i - b] # Break BY <1>1, <4>1
        <4> HIDE DEF b
        <4> QED BY <4>1, <4>2, <4>3
      <3>4. i \in 1..Len(x) \/ i \in (a + 1)..(b - 1) \/ i \in (b + 1)..n
        <4>1. \A p, q, r \in Nat : \A h \in 1..(p + q + r + 2) :
                 \/ h \in 1..p \/ h = p + 1 \/ h \in (p + 2)..(p + q + 1)
                 \/ h = p + q + 2 \/ h \in (p + q + 3)..(p + q + r + 2)
          OBVIOUS
        <4>2. \/ i \in 1..Len(x) \/ i \in (Len(x) + 2)..(Len(x) + Len(y) + 1)
              \/ i \in (Len(x) + Len(y) + 3)..n
          BY <1>1, <2>2, <4>1
        <4>3. a + 1 = Len(x) + 2 /\ b - 1 = Len(x) + Len(y) + 1
              /\ b + 1 = Len(x) + Len(y) + 3
          BY <1>1
        <4> QED BY <4>2, <4>3
      <3> QED BY <3>1, <3>2, <3>3, <3>4
    <2>3. DOMAIN t = 1..n BY <1>4
    <2> HIDE DEF n
    <2>4. \A i \in DOMAIN t : t[i] = Break => i = a \/ i = b BY <2>2, <2>3
    <2> HIDE DEF a, b
    <2> QED BY <2>1, <2>4
  <1> HIDE DEF Cuts
  <1>7. Len(Between(t, Cuts)) = Len(Places(Cuts, Len(t))) + 1
    <2>1. t \in Seq(Char) BY <1>4
    <2>2. Separates(Between(t, Cuts), Char, t, Cuts) BY <2>1, BetweenCuts
    <2> QED BY <2>2 DEF Separates
  <1>8. Len(Places(Cuts, n)) = 2 BY <1>5, <1>6, TwoPlaces
  <1>9. LinesOf(t) = Between(t, Cuts) BY DEF LinesOf, Cuts
  <1>10. Len(LinesOf(t)) = 2 + 1 BY <1>4, <1>7, <1>8, <1>9, Zenon
  <1> QED BY <1>10 DEF t

\* A part of a table is within the limit or has one row under its header.
PartTexts(max) == {u \in Text : Len(u) <= max \/ Len(LinesOf(u)) = 3}
RowLists(header, max) ==
    {q \in Seq(Rows) : q = <<>> \/ Len(q) = 1 \/ Len(JoinLines(header \o q)) <= max}
Parts(header, max) == [parts : Seq(PartTexts(max)), rows : RowLists(header, max)]

LEMMA LinesJoin ==
    ASSUME NEW lines \in Seq(Rows) PROVE JoinLines(lines) \in Text
  <1>1. \A k \in 1..Len(lines) : lines[k] \in Seq(Char) BY DEF Rows, Text
  <1>2. lines \in Seq(Seq(Char)) BY <1>1
  <1>3. <<Break>> \in Seq(Char) /\ <<>> \in Seq(Char) BY CharTypes
  <1>4. Join(lines, <<Break>>) \in Seq(Char) BY <1>2, <1>3, JoinAppend
  <1> QED BY <1>4 DEF JoinLines, Text

LEMMA TwoAndOne ==
    ASSUME NEW T, NEW h \in Seq(T), NEW w \in Seq(T)
    PROVE  Len(h) = 2 /\ Len(w) = 1 =>
              /\ h \o w \in Seq(T) /\ Len(h \o w) = 3
              /\ (h \o w)[1] = h[1] /\ (h \o w)[2] = h[2] /\ (h \o w)[3] = w[1]
  <1> DEFINE v == h \o w  m == Len(h)  n == Len(w)
  <1>1. /\ v \in Seq(T) /\ Len(v) = m + n
        /\ \A i \in 1..m : v[i] = h[i]
        /\ \A i \in 1..n : v[m + i] = w[i]
    OBVIOUS
  <1> HIDE DEF v, m, n
  <1>2. ASSUME m = 2, n = 1
        PROVE  v \in Seq(T) /\ Len(v) = 3 /\ v[1] = h[1] /\ v[2] = h[2] /\ v[3] = w[1]
    <2>1. 1 \in 1..m /\ 2 \in 1..m /\ 1 \in 1..n /\ m + 1 = 3 /\ m + n = 3 BY <1>2
    <2>2. v[1] = h[1] /\ v[2] = h[2] /\ v[m + 1] = w[1] BY <1>1, <2>1
    <2> QED BY <1>1, <2>1, <2>2
  <1> QED BY <1>2 DEF v, m, n

LEMMA PartsFit ==
    ASSUME NEW max \in Nat, NEW header \in Seq(Rows), Len(header) = 2,
           NEW q \in RowLists(header, max), q # <<>>
    PROVE  JoinLines(header \o q) \in PartTexts(max)
  <1>1. q \in Seq(Rows) BY DEF RowLists
  <1>2. header \o q \in Seq(Rows) BY <1>1
  <1>3. JoinLines(header \o q) \in Text BY <1>2, LinesJoin
  <1>4. CASE Len(q) = 1
    <2>1. header[1] \in Rows /\ header[2] \in Rows /\ q[1] \in Rows BY <1>1, <1>4
    <2>2. header \o q = <<header[1], header[2], q[1]>>
      <3> DEFINE v == header \o q
      <3>1. /\ v \in Seq(Rows) /\ Len(v) = 3
            /\ v[1] = header[1] /\ v[2] = header[2] /\ v[3] = q[1]
        <4>1. /\ v \in Seq(Rows) /\ Len(v) = 3
              /\ v[1] = header[1] /\ v[2] = header[2] /\ v[3] = q[1]
          BY <1>1, <1>4, TwoAndOne
        <4> HIDE DEF v
        <4> QED BY <4>1
      <3> HIDE DEF v
      <3>2. v = <<v[1], v[2], v[3]>> BY <3>1
      <3> QED BY <3>1, <3>2 DEF v
    <2>3. Len(LinesOf(JoinLines(header \o q))) = 3 BY <2>1, <2>2, ThreeLines
    <2> QED BY <1>3, <2>3 DEF PartTexts
  <1>5. CASE Len(q) # 1
    <2>1. Len(JoinLines(header \o q)) <= max BY <1>5 DEF RowLists
    <2> QED BY <1>3, <2>1 DEF PartTexts
  <1> QED BY <1>4, <1>5

LEMMA AddRowFits ==
    ASSUME NEW max \in Nat, NEW header \in Seq(Rows), Len(header) = 2,
           NEW s \in Parts(header, max), NEW r \in Rows
    PROVE  AddRow(s, r, header, max) \in Parts(header, max)
  <1> DEFINE q == s.rows
             over == q # <<>> /\ Len(JoinLines(header \o Append(q, r))) + 1 > max
  <1>1. q \in RowLists(header, max) /\ s.parts \in Seq(PartTexts(max)) BY DEF Parts
  <1>2. s = [parts |-> s.parts, rows |-> q] BY DEF Parts
  <1>3. q \in Seq(Rows) BY <1>1 DEF RowLists
  <1>4. AddRow(s, r, header, max) =
           IF over
           THEN [parts |-> Append(s.parts, JoinLines(header \o q)), rows |-> <<r>>]
           ELSE [s EXCEPT !.rows = Append(q, r)]
    BY DEF AddRow
  <1> HIDE DEF q
  <1>5. CASE over
    <2>1. JoinLines(header \o q) \in PartTexts(max) BY <1>1, <1>5, PartsFit
    <2>2. Append(s.parts, JoinLines(header \o q)) \in Seq(PartTexts(max)) BY <1>1, <2>1
    <2>3. <<r>> \in Seq(Rows) /\ Len(<<r>>) = 1 OBVIOUS
    <2>4. <<r>> \in RowLists(header, max) BY <2>3 DEF RowLists
    <2> QED BY <1>4, <1>5, <2>2, <2>4 DEF Parts
  <1>6. CASE ~over
    <2> DEFINE more == Append(q, r)
    <2>1. more \in Seq(Rows) /\ (q = <<>> => Len(more) = 1) BY <1>3
    <2>2. q # <<>> => Len(JoinLines(header \o more)) <= max
      <3>1. header \o more \in Seq(Rows) BY <2>1
      <3>2. JoinLines(header \o more) \in Text BY <3>1, LinesJoin
      <3>3. Len(JoinLines(header \o more)) \in Nat BY <3>2, TextLengths
      <3> QED BY <1>6, <3>3
    <2> HIDE DEF more
    <2>3. more \in RowLists(header, max) BY <2>1, <2>2 DEF RowLists
    <2>4. AddRow(s, r, header, max) = [parts |-> s.parts, rows |-> more]
      <3> HIDE DEF over
      <3> QED BY <1>2, <1>4, <1>6 DEF more
    <2> QED BY <1>1, <2>3, <2>4 DEF Parts
  <1> QED BY <1>5, <1>6

HeaderOf(t) == SubSeq(LinesOf(t), 1, SmallestOf({2, Len(LinesOf(t))}))
RowsOf(t) == SubSeq(LinesOf(t), 3, Len(LinesOf(t)))

SplitTableLoop(s, t, max) ==
    LET header == HeaderOf(t)  under == RowsOf(t)  n == Len(under)
    IN /\ s[0] = [parts |-> <<>>, rows |-> <<>>]
       /\ \A i \in 1..n : s[i] = AddRow(s[i - 1], under[i], header, max)
       /\ \A i \in 0..n : s[i] \in Parts(header, max)
       /\ SplitTable(t, max) =
            IF Len(t) <= max THEN <<t>>
            ELSE IF s[n].rows = <<>> THEN s[n].parts
            ELSE Append(s[n].parts, JoinLines(header \o s[n].rows))

\* The loop over the rows, if there are any.
LEMMA SplitTableTurns ==
    ASSUME NEW t \in Text, NEW max \in Nat
    PROVE  LET header == HeaderOf(t)  under == RowsOf(t)
           IN /\ under \in Seq(Rows)
              /\ Len(under) > 0 => header \in Seq(Rows) /\ Len(header) = 2
              /\ \E s : SplitTableLoop(s, t, max)
  <1> DEFINE lines == LinesOf(t)
             header == HeaderOf(t)
             under == RowsOf(t)
             n == Len(under)
             V == Parts(header, max)
             b == [parts |-> <<>>, rows |-> <<>>]
             step == [e \in V \X (1..n) |-> AddRow(e[1], under[e[2]], header, max)]
             body(f) == [i \in 0..n |-> IF i = 0 THEN b
                                        ELSE AddRow(f[i - 1], under[i], header, max)]
             s == CHOOSE f : f = body(f)
  <1>1. SplitTable(t, max) =
           IF Len(t) <= max THEN <<t>>
           ELSE IF s[n].rows = <<>> THEN s[n].parts
           ELSE Append(s[n].parts, JoinLines(header \o s[n].rows))
    BY DEF SplitTable, HeaderOf, RowsOf
  <1>0. /\ header = SubSeq(lines, 1, SmallestOf({2, Len(lines)}))
        /\ under = SubSeq(lines, 3, Len(lines))
    BY DEF HeaderOf, RowsOf
  <1>2. lines \in Seq(Rows) BY LinesAreRows
  <1> HIDE DEF lines, under, header
  <1>3. under \in Seq(Rows) /\ n \in Nat /\ \A i \in 1..n : under[i] \in Rows
    <2>1. Len(lines) \in Nat BY <1>2
    <2>2. under \in Seq(Rows)
      <3>1. CASE Len(lines) < 3
        <4>1. under = <<>> BY <1>0, <1>2, <2>1, <3>1
        <4> QED BY <4>1
      <3>2. CASE Len(lines) >= 3 BY <1>0, <1>2, <2>1, <3>2
      <3> QED BY <2>1, <3>1, <3>2
    <2> QED BY <2>2
  <1>4. n > 0 => header \in Seq(Rows) /\ Len(header) = 2
    <2> HAVE n > 0
    <2>1. Len(lines) >= 3
      <3>1. CASE Len(lines) < 3
        <4>1. under = <<>> BY <1>0, <1>2, <3>1
        <4> QED BY <4>1
      <3>2. Len(lines) \in Nat BY <1>2
      <3> QED BY <3>1, <3>2
    <2>2. SmallestOf({2, Len(lines)}) = 2
      <3> DEFINE m == Len(lines)
      <3>1. m \in Nat /\ m >= 3 BY <1>2, <2>1
      <3> HIDE DEF m
      <3>2. \A y \in {2, m} : 2 <= y BY <3>1
      <3>3. \E x \in {2, m} : \A y \in {2, m} : x <= y BY <3>2
      <3>4. SmallestOf({2, m}) \in {2, m} /\ SmallestOf({2, m}) <= 2
        BY <3>3 DEF SmallestOf
      <3>5. SmallestOf({2, m}) = 2 BY <3>1, <3>4
      <3> QED BY <3>5 DEF m
    <2>3. header = SubSeq(lines, 1, 2) BY <1>0, <2>2
    <2>4. SubSeq(lines, 1, 2) \in Seq(Rows) /\ Len(SubSeq(lines, 1, 2)) = 2 BY <1>2, <2>1
    <2> QED BY <2>3, <2>4
  <1>5. b \in V BY DEF Parts, RowLists
  <1>6. \A v \in V, i \in 1..n : AddRow(v, under[i], header, max) \in V
    <2> TAKE v \in V, i \in 1..n
    <2>1. n > 0 BY <1>3
    <2> QED BY <1>3, <1>4, <2>1, AddRowFits
  <1>15. b.parts = <<>> /\ b.rows = <<>> OBVIOUS
  <1> HIDE DEF b, V
  <1>7. step \in Turns(V, n) BY <1>6 DEF Turns
  <1>8. \A v \in V, i \in 1..n : step[<<v, i>>] = AddRow(v, under[i], header, max) OBVIOUS
  <1> HIDE DEF step, n
  <1>9. s = body(s)
    <2>1. PICK f \in [0..n -> V] :
              f = [i \in 0..n |-> IF i = 0 THEN b ELSE step[<<f[i - 1], i>>]]
      BY <1>3, <1>5, <1>7, LoopsExist
    <2>2. \A i \in 1..n : step[<<f[i - 1], i>>] = AddRow(f[i - 1], under[i], header, max)
      <3> TAKE i \in 1..n
      <3>1. i - 1 \in 0..n BY <1>3
      <3> QED BY <1>8, <3>1
    <2>3. \A i \in 0..n : i # 0 => i \in 1..n BY <1>3
    <2>4. f = body(f)
      <3>1. \A i \in 0..n : f[i] = IF i = 0 THEN b
                                   ELSE AddRow(f[i - 1], under[i], header, max)
        BY <2>1, <2>2, <2>3
      <3> QED BY <2>1, <3>1
    <2> HIDE DEF body
    <2> QED BY <2>4
  <1> HIDE DEF s
  <1>10. s[0] = b /\ \A i \in 1..n : s[i] = AddRow(s[i - 1], under[i], header, max)
    <2>1. \A i \in 0..n : s[i] = IF i = 0 THEN b
                                 ELSE AddRow(s[i - 1], under[i], header, max)
      BY <1>9
    <2>2. 0 \in 0..n /\ \A i \in 1..n : i \in 0..n /\ i # 0 BY <1>3
    <2> QED BY <2>1, <2>2
  <1> DEFINE U == {i \in 0..n : s[i] \in V}
  <1>11. 0 \in U BY <1>3, <1>5, <1>10
  <1>12. \A i \in 1..n : i - 1 \in U => i \in U BY <1>3, <1>6, <1>10
  <1>13. \A i \in 0..n : i \in U
    <2> HIDE DEF U
    <2> QED BY <1>3, <1>11, <1>12, CountingUp
  <1> QED BY <1>1, <1>3, <1>4, <1>10, <1>13 DEF V, n, b, under, header, SplitTableLoop

LEMMA SplitTableFits ==
    ASSUME NEW t \in Text, NEW max \in Nat
    PROVE  SplitTable(t, max) \in Seq(PartTexts(max))
  <1> DEFINE header == HeaderOf(t)  under == RowsOf(t)  n == Len(under)
  <1>0. PICK s : SplitTableLoop(s, t, max) BY SplitTableTurns
  <1>1. /\ s[0] = [parts |-> <<>>, rows |-> <<>>]
        /\ \A i \in 0..n : s[i] \in Parts(header, max)
        /\ SplitTable(t, max) =
             IF Len(t) <= max THEN <<t>>
             ELSE IF s[n].rows = <<>> THEN s[n].parts
             ELSE Append(s[n].parts, JoinLines(header \o s[n].rows))
    BY <1>0 DEF SplitTableLoop
  <1>2. /\ under \in Seq(Rows)
        /\ n > 0 => header \in Seq(Rows) /\ Len(header) = 2
    BY SplitTableTurns
  <1>3. n \in Nat BY <1>2
  <1> HIDE DEF header, under, n
  <1>4. s[n].parts \in Seq(PartTexts(max)) /\ s[n].rows \in RowLists(header, max)
    BY <1>1, <1>3 DEF Parts
  <1>5. CASE Len(t) <= max
    <2>1. t \in PartTexts(max) BY <1>5 DEF PartTexts
    <2> QED BY <1>1, <1>5, <2>1
  <1>6. CASE ~(Len(t) <= max) /\ s[n].rows = <<>> BY <1>1, <1>4, <1>6
  <1>7. CASE ~(Len(t) <= max) /\ s[n].rows # <<>>
    <2>1. n > 0
      <3>1. n # 0 BY <1>1, <1>7
      <3> QED BY <1>3, <3>1
    <2>2. JoinLines(header \o s[n].rows) \in PartTexts(max)
      BY <1>2, <1>4, <1>7, <2>1, PartsFit
    <2> QED BY <1>1, <1>4, <1>7, <2>2
  <1> QED BY <1>5, <1>6, <1>7

-----------------------------------------------------------------------------
(* Chunks.                                                                 *)

LEMMA SizesAreNumbers ==
    /\ MaxChars \in Nat /\ OverlapChars \in Nat /\ MaxTableChars \in Nat
    /\ 2 * (OverlapChars + 1) <= MaxChars
  BY SizesAssumption

\* A text within the limit; or over it by half at most, with an intro line.
Introduces(t) == \E i \in 1..(Len(t) - 2) :
                    t[i][1] = ":" /\ t[i + 1] = Break /\ t[i + 2] = Break
FitTexts == {t \in Text : \/ Len(t) <= MaxChars
                          \/ 2 * Len(t) <= 3 * MaxChars /\ Introduces(t)}

Block == [kind : {"text", "table"}, text : Text, page : Nat, size : Nat,
          bold : BOOLEAN]
Titles == Seq(Text)
TextChunk == [text : FitTexts, page_number : Nat, page_end : Nat,
              heading : Titles, chunk_type : {"text"}]
TableChunk == [text : PartTexts(MaxTableChars), page_number : Nat, page_end : Nat,
               heading : Titles, chunk_type : {"table"}]
FitChunks == TextChunk \cup TableChunk

\* What is pending would be a chunk that fits, and its length is counted with
\* the empty line that would follow it.
Pending ==
    {p \in [parts : Seq(Text), length : Nat, first : Nat, last : Nat,
            heading : Titles] :
        /\ p.parts = <<>> => p.length = 0
        /\ p.parts # <<>> => /\ JoinParts(p.parts) \in FitTexts
                             /\ p.length = Len(JoinParts(p.parts)) + 2
        /\ \A k \in 1..Len(p.parts) : p.parts[k] # <<>>}
Level == [rank : Int, text : Text]
Path == Seq(Level)
State == [chunks : Seq(FitChunks), pending : Pending, path : Path]

LEMMA NothingPends == NoPending \in Pending
  <1> DEFINE none == [parts |-> <<>>, length |-> 0, first |-> 0, last |-> 0,
                      heading |-> <<>>]
  <1>1. none \in [parts : Seq(Text), length : Nat, first : Nat, last : Nat,
                  heading : Titles]
    BY DEF Titles
  <1> QED BY <1>1 DEF NoPending, Pending

LEMMA FlushFits ==
    ASSUME NEW s \in State
    PROVE  /\ Flush(s) \in State /\ Flush(s).pending.parts = <<>>
           /\ Flush(s).path = s.path
  <1> DEFINE p == s.pending
             c == [text |-> JoinParts(p.parts), page_number |-> p.first,
                   page_end |-> p.last, heading |-> p.heading, chunk_type |-> "text"]
  <1>1. s.chunks \in Seq(FitChunks) /\ p \in Pending /\ s.path \in Path BY DEF State
  <1>2. s = [chunks |-> s.chunks, pending |-> p, path |-> s.path] BY DEF State
  <1>3. CASE p.parts = <<>> BY <1>3 DEF Flush
  <1>4. CASE p.parts # <<>>
    <2>1. c \in TextChunk BY <1>1, <1>4 DEF Pending, TextChunk
    <2>2. Flush(s) = [s EXCEPT !.pending = NoPending, !.chunks = Append(@, c)]
      BY <1>4 DEF Flush
    <2> HIDE DEF c, p
    <2>3. Flush(s) = [chunks |-> Append(s.chunks, c), pending |-> NoPending,
                      path |-> s.path]
      BY <1>2, <2>2
    <2>4. Append(s.chunks, c) \in Seq(FitChunks) BY <1>1, <2>1 DEF FitChunks
    <2>5. NoPending.parts = <<>> BY DEF NoPending
    <2> QED BY <1>1, <2>3, <2>4, <2>5, NothingPends DEF State
  <1> QED BY <1>3, <1>4

LEMMA HeadingsAreTitles ==
    ASSUME NEW path \in Path PROVE CurrentHeading(path) \in Titles
  <1> DEFINE n == Len(path)  m == SmallestOf({2, n})
  <1>1. n \in Nat /\ \A i \in 1..n : path[i].text \in Text
    <2>1. n \in Nat /\ \A i \in 1..n : path[i] \in Level BY DEF Path
    <2> QED BY <2>1 DEF Level
  <1>2. m \in Nat /\ m <= n
    <2> HIDE DEF n
    <2>1. \E x \in {2, n} : \A y \in {2, n} : x <= y
      <3>1. CASE 2 <= n BY <1>1, <3>1
      <3>2. CASE n <= 2 BY <1>1, <3>2
      <3> QED BY <1>1, <3>1, <3>2
    <2>2. m \in {2, n} /\ \A y \in {2, n} : m <= y BY <2>1 DEF SmallestOf
    <2> QED BY <1>1, <2>2
  <1>3. CurrentHeading(path) = [i \in 1..m |-> path[n - m + i].text] BY DEF CurrentHeading
  <1> HIDE DEF n, m
  <1>4. \A i \in 1..m : n - m + i \in 1..n BY <1>1, <1>2
  <1>5. \A i \in 1..m : path[n - m + i].text \in Text BY <1>1, <1>4
  <1> QED BY <1>2, <1>3, <1>5 DEF Titles

\* The last character of what is joined is that of its last part.
LEMMA LastOfJoin ==
    ASSUME NEW parts \in Seq(Text), parts # <<>>, Last(parts) # <<>>
    PROVE  LET t == JoinParts(parts)
           IN t \in Text /\ Len(t) > 0 /\ t[Len(t)] = Last(Last(parts))
  <1> DEFINE n == Len(parts)  x == parts[n]
             g == <<Break, Break>>  t == JoinParts(parts)
  <1>1. n \in Nat \ {0} /\ x \in Seq(Char) /\ parts \in Seq(Seq(Char)) BY DEF Text
  <1>2. PICK front \in Seq(Seq(Char)) : parts = Append(front, x)
    <2> DEFINE L == Seq(Char)
    <2> HIDE DEF L, n
    <2>1. parts \in Seq(L) /\ parts # <<>> BY <1>1 DEF L
    <2>2. \E front \in Seq(L) : parts = Append(front, parts[Len(parts)])
      BY <2>1, FrontAndLast
    <2> QED BY <2>2 DEF L, n
  <1>3. Last(parts) = x BY DEF Last
  <1>4. g \in Seq(Char) /\ Len(g) = 2 BY CharTypes
  <1> HIDE DEF n, x, g
  <1>5. t = Join(Append(front, x), g) BY <1>2 DEF JoinParts, g
  <1>6. Adds(front, x, g) /\ Join(front, g) \in Seq(Char) BY <1>1, <1>2, <1>4, JoinAppend
  <1>7. Len(x) \in Nat \ {0} BY <1>1, <1>3
  <1> HIDE DEF t
  <1>8. CASE front = <<>>
    <2>1. t = x BY <1>5, <1>6, <1>8 DEF Adds
    <2> QED BY <1>1, <1>3, <1>7, <2>1 DEF Text, Last, t
  <1>9. CASE front # <<>>
    <2> DEFINE a == Join(front, g)  gx == g \o x
    <2>1. gx \in Seq(Char) /\ Len(gx) = 2 + Len(x) /\ gx[2 + Len(x)] = x[Len(x)]
      <3> DEFINE k == Len(x)
      <3>1. /\ g \o x \in Seq(Char) /\ Len(g \o x) = Len(g) + k
            /\ \A i \in 1..k : (g \o x)[Len(g) + i] = x[i]
        <4>1. g \in Seq(Char) /\ x \in Seq(Char) BY <1>1, <1>4
        <4> QED BY <4>1
      <3> HIDE DEF k, gx
      <3>2. k \in 1..k BY <1>7 DEF k
      <3> QED BY <1>4, <3>1, <3>2 DEF k, gx
    <2>2. t = a \o gx BY <1>5, <1>6, <1>9 DEF Adds
    <2> HIDE DEF a, gx
    <2>3. t \in Seq(Char) /\ Len(t) = Len(a) + Len(gx) /\ t[Len(a) + Len(gx)] = gx[Len(gx)]
      <3>0. a \in Seq(Char) BY <1>6 DEF a
      <3>1. /\ a \o gx \in Seq(Char) /\ Len(a \o gx) = Len(a) + Len(gx)
            /\ \A i \in 1..Len(gx) : (a \o gx)[Len(a) + i] = gx[i]
        <4>1. a \in Seq(Char) /\ gx \in Seq(Char) BY <2>1, <3>0
        <4> QED BY <4>1
      <3>2. Len(gx) \in 1..Len(gx) BY <1>7, <2>1
      <3> QED BY <2>2, <3>1, <3>2
    <2>4. Len(t) > 0
      <3>1. Len(a) \in Nat BY <1>6 DEF a
      <3> QED BY <1>7, <2>1, <2>3, <3>1
    <2> QED BY <1>3, <2>1, <2>3, <2>4 DEF Text, Last, t
  <1> QED BY <1>8, <1>9

\* A piece is added to what is pending, or begins it anew.
LEMMA AddToFits ==
    ASSUME NEW p \in Pending, NEW piece \in InkTexts(MaxChars), NEW page \in Nat,
           NEW heading \in Titles,
           p.parts # <<>> =>
               \/ p.length + Len(piece) <= MaxChars
               \/ AwaitsMore(p) /\ 2 * (p.length + Len(piece)) <= 3 * MaxChars
    PROVE  AddTo(p, piece, page, heading) \in Pending
  <1> DEFINE q == AddTo(p, piece, page, heading)
             parts == p.parts
             more == Append(parts, piece)
             k == Len(piece)
             g == <<Break, Break>>
  <1>1. /\ parts \in Seq(Text) /\ p.length \in Nat /\ p.first \in Nat
        /\ p.heading \in Titles
        /\ parts = <<>> => p.length = 0
        /\ parts # <<>> => p.length = Len(JoinParts(parts)) + 2
        /\ \A i \in 1..Len(parts) : parts[i] # <<>>
        /\ p = [parts |-> parts, length |-> p.length, first |-> p.first,
                last |-> p.last, heading |-> p.heading]
    BY DEF Pending
  <1>2. piece \in Text /\ piece # <<>> /\ k <= MaxChars /\ k \in Nat
    BY TextLengths DEF InkTexts, CutTexts
  <1>3. \E f \in Nat, h \in Titles :
           q = [parts |-> more, length |-> p.length + k + 2, first |-> f,
                last |-> page, heading |-> h]
    <2>1. CASE parts # <<>>
      <3> HIDE DEF parts
      <3>1. q = [p EXCEPT !.parts = Append(@, piece), !.last = page,
                          !.length = @ + Len(piece) + 2]
        BY <2>1 DEF AddTo, parts
      <3>2. q = [parts |-> more, length |-> p.length + k + 2, first |-> p.first,
                 last |-> page, heading |-> p.heading]
        BY <1>1, <3>1 DEF parts
      <3> QED BY <1>1, <3>2
    <2>2. CASE parts = <<>>
      <3> DEFINE r == [p EXCEPT !.first = page, !.heading = heading]
      <3>1. q = [r EXCEPT !.parts = Append(@, piece), !.last = page,
                          !.length = @ + Len(piece) + 2]
        BY <2>2 DEF AddTo
      <3> HIDE DEF parts
      <3>2. r = [parts |-> parts, length |-> p.length, first |-> page,
                 last |-> p.last, heading |-> heading]
        <4>1. p = [parts |-> p.parts, length |-> p.length, first |-> p.first,
                   last |-> p.last, heading |-> p.heading]
          BY <1>1 DEF parts
        <4>2. r = [parts |-> p.parts, length |-> p.length, first |-> page,
                   last |-> p.last, heading |-> heading]
          <5> DEFINE a == p.parts  m == p.length  f == p.first  l == p.last  h == p.heading
          <5>1. p = [parts |-> a, length |-> m, first |-> f, last |-> l, heading |-> h]
            BY <4>1
          <5> HIDE DEF a, m, f, l, h
          <5>2. r = [parts |-> a, length |-> m, first |-> page, last |-> l,
                     heading |-> heading]
            <6> DEFINE r1 == [p EXCEPT !.first = page]
            <6>1. r1 = [parts |-> a, length |-> m, first |-> page, last |-> l,
                        heading |-> h]
              BY <5>1
            <6>2. r = [r1 EXCEPT !.heading = heading] OBVIOUS
            <6> HIDE DEF r1, r
            <6> QED BY <6>1, <6>2
          <5> QED BY <5>2 DEF a, m, l
        <4> QED BY <4>2 DEF parts
      <3> HIDE DEF r
      <3>3. q = [parts |-> more, length |-> p.length + k + 2, first |-> page,
                 last |-> page, heading |-> heading]
        BY <3>1, <3>2
      <3> QED BY <3>3
    <2> QED BY <2>1, <2>2
  <1>4. /\ more \in Seq(Text) /\ more # <<>>
        /\ \A i \in 1..Len(more) : more[i] # <<>>
    <2> HIDE DEF parts
    <2>1. more \in Seq(Text) /\ Len(more) = Len(parts) + 1 /\ Len(parts) \in Nat
      BY <1>1, <1>2
    <2>2. \A i \in 1..Len(parts) : more[i] = parts[i] BY <1>1, <1>2
    <2>3. more[Len(parts) + 1] = piece BY <1>1, <1>2
    <2>4. \A i \in 1..(Len(parts) + 1) : i \in 1..Len(parts) \/ i = Len(parts) + 1 BY <2>1
    <2> HIDE DEF more
    <2> QED BY <1>1, <1>2, <2>1, <2>2, <2>3, <2>4
  <1>5. /\ Adds(parts, piece, g) /\ g \in Seq(Char) /\ Len(g) = 2
        /\ g[1] = Break /\ g[2] = Break
        /\ JoinParts(parts) = Join(parts, g) /\ JoinParts(more) = Join(more, g)
        /\ JoinParts(parts) \in Seq(Char)
    <2>1. g \in Seq(Char) /\ Len(g) = 2 /\ g[1] = Break /\ g[2] = Break BY CharTypes
    <2>2. parts \in Seq(Seq(Char)) /\ piece \in Seq(Char) BY <1>1, <1>2 DEF Text
    <2> HIDE DEF g, parts
    <2>3. Adds(parts, piece, g) /\ Join(parts, g) \in Seq(Char) BY <2>1, <2>2, JoinAppend
    <2> QED BY <2>1, <2>3 DEF JoinParts, g
  <1> HIDE DEF g
  <1>6. JoinParts(more) \in FitTexts /\ Len(JoinParts(more)) = p.length + k
    <2>1. CASE parts = <<>>
      <3>1. JoinParts(more) = piece BY <1>5, <2>1 DEF Adds
      <3>2. p.length = 0 BY <1>1, <2>1
      <3> QED BY <1>2, <3>1, <3>2 DEF FitTexts
    <2>2. CASE parts # <<>>
      <3> DEFINE a == JoinParts(parts)  gx == g \o piece  t == JoinParts(more)
                 m == Len(a)
      <3>1. t = a \o gx BY <1>5, <2>2 DEF Adds
      <3>2. /\ gx \in Seq(Char) /\ Len(gx) = 2 + k
            /\ gx[1] = Break /\ gx[2] = Break
        <4> HIDE DEF k
        <4>1. g \in Seq(Char) /\ piece \in Seq(Char) BY <1>2, <1>5 DEF Text
        <4>2. /\ gx \in Seq(Char) /\ Len(gx) = Len(g) + Len(piece)
              /\ \A i \in 1..Len(g) : gx[i] = g[i]
          BY <4>1
        <4> HIDE DEF gx
        <4>3. 1 \in 1..Len(g) /\ 2 \in 1..Len(g) BY <1>5
        <4> QED BY <1>5, <4>2, <4>3 DEF k
      <3> HIDE DEF a, gx, t
      <3>3. /\ t \in Seq(Char) /\ Len(t) = m + Len(gx) /\ m \in Nat
            /\ \A i \in 1..m : t[i] = a[i]
            /\ \A i \in 1..Len(gx) : t[m + i] = gx[i]
        <4>1. a \in Seq(Char) /\ gx \in Seq(Char) BY <1>5, <3>2 DEF a
        <4> QED BY <3>1, <4>1
      <3>4. p.length = m + 2 BY <1>1, <2>2 DEF a
      <3> HIDE DEF m, k
      <3>5. k \in Nat BY <1>2
      <3>6. t \in Text /\ Len(t) = p.length + k /\ Len(t) = m + 2 + k
        BY <3>2, <3>3, <3>4, <3>5 DEF Text
      <3>7. CASE p.length + k <= MaxChars
        BY <3>6, <3>7 DEF FitTexts, t
      <3>8. CASE AwaitsMore(p) /\ 2 * (p.length + k) <= 3 * MaxChars
        <4>1. /\ m > 0 /\ a[m] = Last(Last(parts))
          <5>1. Len(parts) \in 1..Len(parts)
            <6>1. Len(parts) \in Nat /\ Len(parts) # 0 BY <1>1, <2>2
            <6> HIDE DEF parts
            <6> QED BY <6>1
          <5>2. Last(parts) # <<>> BY <1>1, <5>1 DEF Last
          <5> HIDE DEF parts
          <5> QED BY <1>1, <2>2, <5>2, LastOfJoin DEF a, m
        <4>2. a[m][1] = ":" BY <3>8, <4>1 DEF AwaitsMore
        <4>3. m \in 1..m /\ 1 \in 1..Len(gx) /\ 2 \in 1..Len(gx) /\ m \in 1..(Len(t) - 2)
          BY <3>2, <3>3, <3>5, <3>6, <4>1
        <4>4. t[m] = a[m] /\ t[m + 1] = Break /\ t[m + 2] = Break
          BY <3>2, <3>3, <4>3
        <4>5. Introduces(t) BY <4>2, <4>3, <4>4 DEF Introduces
        <4>6. 2 * Len(t) <= 3 * MaxChars BY <3>6, <3>8
        <4> QED BY <3>6, <4>5, <4>6 DEF FitTexts, t
      <3> QED BY <2>2, <3>7, <3>8 DEF k
    <2> QED BY <2>1, <2>2
  <1> HIDE DEF q, more, k, parts
  <1>7. PICK f \in Nat : \E h \in Titles :
           q = [parts |-> more, length |-> p.length + k + 2, first |-> f,
                last |-> page, heading |-> h]
    BY <1>3
  <1>8. PICK h \in Titles :
           q = [parts |-> more, length |-> p.length + k + 2, first |-> f,
                last |-> page, heading |-> h]
    BY <1>7
  <1>9. p.length + k + 2 \in Nat BY <1>1, <1>2
  <1>10. q \in [parts : Seq(Text), length : Nat, first : Nat, last : Nat, heading : Titles]
    BY <1>4, <1>8, <1>9
  <1>11. q.parts = more /\ q.length = p.length + k + 2 BY <1>8
  <1>12. q \in Pending BY <1>4, <1>6, <1>10, <1>11 DEF Pending
  <1> QED BY <1>12 DEF q

\* A piece that would make the chunk too long begins a new one.
LEMMA AddPieceFits ==
    ASSUME NEW s \in State, NEW piece \in InkTexts(MaxChars), NEW page \in Nat
    PROVE  AddPiece(s, piece, page) \in State
  <1> DEFINE length == s.pending.length + Len(piece)
             together == AwaitsMore(s.pending) /\ 2 * length <= 3 * MaxChars
             over == s.pending.parts # <<>> /\ length > MaxChars /\ ~together
             room == IF over THEN Flush(s) ELSE s
             heading == CurrentHeading(s.path)
             p == AddTo(room.pending, piece, page, heading)
  <1>1. room \in State /\ room.path = s.path BY FlushFits
  <1>2. room.pending.parts # <<>> =>
            \/ room.pending.length + Len(piece) <= MaxChars
            \/ AwaitsMore(room.pending)
                 /\ 2 * (room.pending.length + Len(piece)) <= 3 * MaxChars
    <2>1. CASE over BY <2>1, FlushFits
    <2>2. CASE ~over
      <3>1. room = s BY <2>2
      <3>2. length \in Nat
        <4>1. s.pending.length \in Nat BY DEF State, Pending
        <4>2. Len(piece) \in Nat BY TextLengths DEF InkTexts, CutTexts
        <4> QED BY <4>1, <4>2
      <3>3. s.pending.parts # <<>> => length <= MaxChars \/ together
        <4> HIDE DEF length, together
        <4> QED BY <2>2, <3>2, SizesAreNumbers
      <3> HIDE DEF room
      <3> QED BY <3>1, <3>3
    <2> QED BY <2>1, <2>2
  <1>3. heading \in Titles
    <2>1. s.path \in Path BY DEF State
    <2> QED BY <2>1, HeadingsAreTitles
  <1>4. room.pending \in Pending /\ room.chunks \in Seq(FitChunks) /\ room.path \in Path
        /\ room = [chunks |-> room.chunks, pending |-> room.pending, path |-> room.path]
    <2> HIDE DEF room
    <2> QED BY <1>1 DEF State
  <1>5. AddPiece(s, piece, page) = [room EXCEPT !.pending = p] BY DEF AddPiece
  <1> HIDE DEF room, heading
  <1>6. p \in Pending BY <1>2, <1>3, <1>4, AddToFits
  <1> HIDE DEF p
  <1>7. AddPiece(s, piece, page) =
           [chunks |-> room.chunks, pending |-> p, path |-> room.path]
    BY <1>4, <1>5
  <1> QED BY <1>4, <1>6, <1>7 DEF State

LEMMA BlockFields ==
    ASSUME NEW b \in Block
    PROVE  /\ Strip(b.text) \in Text /\ b.page \in Nat /\ Rank(b) \in Int
  <1>1. b.text \in Text /\ b.page \in Nat /\ b.size \in Nat BY DEF Block
  <1>2. -b.size \in Int BY <1>1
  <1> QED BY <1>1, <1>2, StripIsPart DEF Rank

LEMMA AddTableFits ==
    ASSUME NEW s \in State, NEW b \in Block
    PROVE  AddTable(s, b) \in State
  <1> DEFINE parts == SplitTable(Strip(b.text), MaxTableChars)
             chunk(k) == [text |-> parts[k], page_number |-> b.page,
                          page_end |-> b.page, heading |-> CurrentHeading(s.path),
                          chunk_type |-> "table"]
             more == [k \in DOMAIN parts |-> chunk(k)]
             f == Flush(s)
  <1>1. parts \in Seq(PartTexts(MaxTableChars))
    BY BlockFields, SplitTableFits, SizesAreNumbers
  <1>2. AddTable(s, b) = [f EXCEPT !.chunks = @ \o more] BY DEF AddTable
  <1> HIDE DEF parts
  <1>3. CurrentHeading(s.path) \in Titles
    <2>1. s.path \in Path BY DEF State
    <2> QED BY <2>1, HeadingsAreTitles
  <1>4. \A k \in 1..Len(parts) : chunk(k) \in TableChunk
    BY <1>1, <1>3, BlockFields DEF TableChunk
  <1> HIDE DEF chunk
  <1>5. more \in Seq(FitChunks)
    <2>1. DOMAIN parts = 1..Len(parts) /\ Len(parts) \in Nat BY <1>1
    <2>2. \A k \in 1..Len(parts) : chunk(k) \in FitChunks BY <1>4 DEF FitChunks
    <2> QED BY <2>1, <2>2
  <1>6. f \in State BY FlushFits
  <1> HIDE DEF f, more
  <1>7. f.chunks \in Seq(FitChunks) /\ f.pending \in Pending /\ f.path \in Path
        /\ f = [chunks |-> f.chunks, pending |-> f.pending, path |-> f.path]
    BY <1>6 DEF State
  <1>8. AddTable(s, b) = [chunks |-> f.chunks \o more, pending |-> f.pending,
                          path |-> f.path]
    BY <1>2, <1>7
  <1>9. f.chunks \o more \in Seq(FitChunks) BY <1>5, <1>7
  <1> QED BY <1>7, <1>8, <1>9 DEF State

LEMMA AddHeadingFits ==
    ASSUME NEW s \in State, NEW b \in Block
    PROVE  AddHeading(s, b) \in State
  <1> DEFINE above == {i \in DOMAIN s.path : s.path[i].rank < Rank(b)}
             f == Flush(s)
             level == [rank |-> Rank(b), text |-> Strip(b.text)]
             kept == Kept(s.path, above)
  <1>1. f \in State /\ f.path = s.path BY FlushFits
  <1>2. AddHeading(s, b) = [f EXCEPT !.path = Append(Kept(@, above), level)]
    BY DEF AddHeading
  <1>3. level \in Level BY BlockFields DEF Level
  <1>4. kept \in Path
    <2>1. above \in SUBSET DOMAIN s.path OBVIOUS
    <2>2. s.path \in Seq(Level) BY DEF State, Path
    <2> HIDE DEF above
    <2> QED BY <2>1, <2>2, KeptKeepsOrder DEF Path
  <1> HIDE DEF f, level, above
  <1>5. f.chunks \in Seq(FitChunks) /\ f.pending \in Pending
        /\ f = [chunks |-> f.chunks, pending |-> f.pending, path |-> f.path]
    BY <1>1 DEF State
  <1>6. AddHeading(s, b) = [chunks |-> f.chunks, pending |-> f.pending,
                            path |-> Append(kept, level)]
    BY <1>1, <1>2, <1>5
  <1> HIDE DEF kept
  <1>7. Append(kept, level) \in Path BY <1>3, <1>4 DEF Path
  <1> QED BY <1>5, <1>6, <1>7 DEF State

\* The pieces of a block are added to the pending chunk one by one.
PiecesOf(b) == IF Len(Strip(b.text)) > MaxChars
               THEN SplitOversize(Strip(b.text), MaxChars, OverlapChars)
               ELSE <<Strip(b.text)>>
Begun(state) == IF state.pending.heading # CurrentHeading(state.path)
                THEN Flush(state) ELSE state

AddTextLoop(s, state, b) ==
    LET pieces == PiecesOf(b) IN
    /\ s[0] = Begun(state)
    /\ \A i \in 1..Len(pieces) : s[i] = AddPiece(s[i - 1], pieces[i], b.page)
    /\ \A i \in 0..Len(pieces) : s[i] \in State
    /\ AddText(state, b) = s[Len(pieces)]

LEMMA AddTextTurns ==
    ASSUME NEW state \in State, NEW b \in Block, Strip(b.text) # <<>>
    PROVE  /\ PiecesOf(b) \in Seq(InkTexts(MaxChars)) /\ Begun(state) \in State
           /\ \E s : AddTextLoop(s, state, b)
  <1> DEFINE t == Strip(b.text)
             pieces == PiecesOf(b)
             begun == Begun(state)
             n == Len(pieces)
             V == State
             step == [e \in V \X (1..n) |-> AddPiece(e[1], pieces[e[2]], b.page)]
             body(f) == [i \in 0..n |-> IF i = 0 THEN begun
                                        ELSE AddPiece(f[i - 1], pieces[i], b.page)]
             s == CHOOSE f : f = body(f)
  <1>1. AddText(state, b) = s[n] BY DEF AddText, PiecesOf, Begun
  <1>2. begun \in V BY FlushFits DEF Begun
  <1>3. pieces \in Seq(InkTexts(MaxChars))
    <2>1. t \in Text BY BlockFields
    <2>2. CASE Len(t) > MaxChars BY <2>1, <2>2, SplitOversizeFits, SizesAreNumbers DEF PiecesOf
    <2>3. CASE ~(Len(t) > MaxChars)
      <3>1. Len(t) <= MaxChars BY <2>1, <2>3, TextLengths, SizesAreNumbers
      <3>2. t \in InkTexts(MaxChars) BY <2>1, <3>1 DEF InkTexts, CutTexts
      <3> HIDE DEF t
      <3>3. <<t>> \in Seq(InkTexts(MaxChars)) BY <3>2
      <3> QED BY <2>3, <3>3 DEF PiecesOf, t
    <2> QED BY <2>2, <2>3
  <1>4. b.page \in Nat BY BlockFields
  <1> HIDE DEF pieces, begun
  <1>5. n \in Nat /\ \A i \in 1..n : pieces[i] \in InkTexts(MaxChars) BY <1>3
  <1>6. \A v \in V, i \in 1..n : AddPiece(v, pieces[i], b.page) \in V
    BY <1>4, <1>5, AddPieceFits
  <1> HIDE DEF V
  <1>7. step \in Turns(V, n) BY <1>6 DEF Turns
  <1>8. \A v \in V, i \in 1..n : step[<<v, i>>] = AddPiece(v, pieces[i], b.page) OBVIOUS
  <1> HIDE DEF step, n
  <1>9. s = body(s)
    <2>1. PICK f \in [0..n -> V] :
              f = [i \in 0..n |-> IF i = 0 THEN begun ELSE step[<<f[i - 1], i>>]]
      BY <1>2, <1>5, <1>7, LoopsExist
    <2>2. \A i \in 1..n : step[<<f[i - 1], i>>] = AddPiece(f[i - 1], pieces[i], b.page)
      <3> TAKE i \in 1..n
      <3>1. i - 1 \in 0..n BY <1>5
      <3> QED BY <1>8, <3>1
    <2>3. \A i \in 0..n : i # 0 => i \in 1..n BY <1>5
    <2>4. f = body(f)
      <3>1. \A i \in 0..n : f[i] = IF i = 0 THEN begun
                                   ELSE AddPiece(f[i - 1], pieces[i], b.page)
        BY <2>1, <2>2, <2>3
      <3> QED BY <2>1, <3>1
    <2> HIDE DEF body
    <2> QED BY <2>4
  <1> HIDE DEF s
  <1>10. s[0] = begun /\ \A i \in 1..n : s[i] = AddPiece(s[i - 1], pieces[i], b.page)
    <2>1. \A i \in 0..n : s[i] = IF i = 0 THEN begun
                                 ELSE AddPiece(s[i - 1], pieces[i], b.page)
      BY <1>9
    <2>2. 0 \in 0..n /\ \A i \in 1..n : i \in 0..n /\ i # 0 BY <1>5
    <2> QED BY <2>1, <2>2
  <1> DEFINE U == {i \in 0..n : s[i] \in V}
  <1>11. 0 \in U BY <1>2, <1>5, <1>10
  <1>12. \A i \in 1..n : i - 1 \in U => i \in U BY <1>5, <1>6, <1>10
  <1>13. \A i \in 0..n : i \in U
    <2> HIDE DEF U
    <2> QED BY <1>5, <1>11, <1>12, CountingUp
  <1> QED BY <1>1, <1>2, <1>3, <1>10, <1>13 DEF V, n, pieces, begun, AddTextLoop

LEMMA AddTextFits ==
    ASSUME NEW state \in State, NEW b \in Block, Strip(b.text) # <<>>
    PROVE  AddText(state, b) \in State
  <1> DEFINE n == Len(PiecesOf(b))
  <1>1. PICK s : AddTextLoop(s, state, b) BY AddTextTurns
  <1>2. PiecesOf(b) \in Seq(InkTexts(MaxChars)) BY AddTextTurns
  <1>3. n \in 0..n BY <1>2
  <1> QED BY <1>1, <1>3 DEF AddTextLoop

LEMMA AddBlockFits ==
    ASSUME NEW s \in State, NEW b \in Block, NEW body
    PROVE  AddBlock(s, b, body) \in State
  <1>1. CASE Strip(b.text) = <<>> BY <1>1 DEF AddBlock
  <1>2. CASE Strip(b.text) # <<>>
    <2>1. CASE b.kind = "table" BY <1>2, <2>1, AddTableFits DEF AddBlock
    <2>2. CASE b.kind # "table" /\ IsHeading(b, body)
      BY <1>2, <2>2, AddHeadingFits DEF AddBlock
    <2>3. CASE b.kind # "table" /\ ~IsHeading(b, body)
      BY <1>2, <2>3, AddTextFits DEF AddBlock
    <2> QED BY <2>1, <2>2, <2>3
  <1> QED BY <1>1, <1>2

ChunkDocumentLoop(s, blocks) ==
    /\ s[0] = [chunks |-> <<>>, pending |-> NoPending, path |-> <<>>]
    /\ \A i \in 1..Len(blocks) : s[i] = AddBlock(s[i - 1], blocks[i], BodySize(blocks))
    /\ \A i \in 0..Len(blocks) : s[i] \in State
    /\ ChunkDocument(blocks) = Flush(s[Len(blocks)]).chunks

\* The loop over the blocks keeps a state.
LEMMA ChunkDocumentTurns ==
    ASSUME NEW blocks \in Seq(Block)
    PROVE  \E s : ChunkDocumentLoop(s, blocks)
  <1> DEFINE size == BodySize(blocks)
             n == Len(blocks)
             V == State
             none == [chunks |-> <<>>, pending |-> NoPending, path |-> <<>>]
             step == [e \in V \X (1..n) |-> AddBlock(e[1], blocks[e[2]], size)]
             body(f) == [i \in 0..n |-> IF i = 0 THEN none
                                        ELSE AddBlock(f[i - 1], blocks[i], size)]
             s == CHOOSE f : f = body(f)
  <1>1. ChunkDocument(blocks) = Flush(s[n]).chunks BY DEF ChunkDocument
  <1>2. none \in V
    <2>1. <<>> \in Seq(FitChunks) /\ <<>> \in Path BY DEF Path
    <2> HIDE DEF V
    <2> QED BY <2>1, NothingPends DEF State, V
  <1> HIDE DEF none, size
  <1>5. n \in Nat /\ \A i \in 1..n : blocks[i] \in Block OBVIOUS
  <1>6. \A v \in V, i \in 1..n : AddBlock(v, blocks[i], size) \in V
    BY <1>5, AddBlockFits
  <1> HIDE DEF V
  <1>7. step \in Turns(V, n) BY <1>6 DEF Turns
  <1>8. \A v \in V, i \in 1..n : step[<<v, i>>] = AddBlock(v, blocks[i], size) OBVIOUS
  <1> HIDE DEF step, n
  <1>9. s = body(s)
    <2>0. n \in Nat BY <1>5
    <2>1. PICK f \in [0..n -> V] :
              f = [i \in 0..n |-> IF i = 0 THEN none ELSE step[<<f[i - 1], i>>]]
      BY <1>2, <2>0, <1>7, LoopsExist
    <2>2. \A i \in 1..n : step[<<f[i - 1], i>>] = AddBlock(f[i - 1], blocks[i], size)
      <3> TAKE i \in 1..n
      <3>1. i - 1 \in 0..n BY <1>5
      <3> QED BY <1>8, <3>1
    <2>3. \A i \in 0..n : i # 0 => i \in 1..n BY <1>5
    <2>4. f = body(f)
      <3>1. \A i \in 0..n : f[i] = IF i = 0 THEN none
                                   ELSE AddBlock(f[i - 1], blocks[i], size)
        BY <2>1, <2>2, <2>3
      <3> QED BY <2>1, <3>1
    <2> HIDE DEF body
    <2> QED BY <2>4
  <1> HIDE DEF s
  <1>10. s[0] = none /\ \A i \in 1..n : s[i] = AddBlock(s[i - 1], blocks[i], size)
    <2>1. \A i \in 0..n : s[i] = IF i = 0 THEN none
                                 ELSE AddBlock(s[i - 1], blocks[i], size)
      BY <1>9
    <2>2. 0 \in 0..n /\ \A i \in 1..n : i \in 0..n /\ i # 0 BY <1>5
    <2> QED BY <2>1, <2>2
  <1> DEFINE U == {i \in 0..n : s[i] \in V}
  <1>11. 0 \in U BY <1>2, <1>5, <1>10
  <1>12. \A i \in 1..n : i - 1 \in U => i \in U BY <1>5, <1>6, <1>10
  <1>13. \A i \in 0..n : i \in U
    <2> HIDE DEF U
    <2> QED BY <1>5, <1>11, <1>12, CountingUp
  <1> QED BY <1>1, <1>10, <1>13 DEF V, n, size, none, ChunkDocumentLoop

\* Whatever the blocks of a document, its chunks fit.
LEMMA ChunkDocumentFits ==
    ASSUME NEW blocks \in Seq(Block)
    PROVE  ChunkDocument(blocks) \in Seq(FitChunks)
  <1> DEFINE n == Len(blocks)
  <1>1. PICK s : ChunkDocumentLoop(s, blocks) BY ChunkDocumentTurns
  <1>2. n \in 0..n OBVIOUS
  <1>3. s[n] \in State /\ ChunkDocument(blocks) = Flush(s[n]).chunks
    BY <1>1, <1>2 DEF ChunkDocumentLoop
  <1>4. Flush(s[n]) \in State BY <1>3, FlushFits
  <1> QED BY <1>3, <1>4 DEF State

-----------------------------------------------------------------------------
(* Tables of a page become texts.                                          *)

\* The largest of some numbers is one of them, and no other is larger.
LEMMA LargestIsLast ==
    ASSUME NEW n \in Nat \ {0}, NEW f \in [1..n -> Int]
    PROVE  LET S == {f[i] : i \in 1..n}
           IN LargestOf(S) \in S /\ \A y \in S : LargestOf(S) >= y
  <1> DEFINE S == {f[i] : i \in 1..n}
  <1>1. PICK m \in 1..n : \A i \in 1..n : f[m] >= f[i] BY OneIsLargest
  <1>2. \E x \in S : \A y \in S : x >= y
    <2>1. f[m] \in S /\ \A y \in S : f[m] >= y BY <1>1
    <2> HIDE DEF S
    <2> QED BY <2>1
  <1> HIDE DEF S
  <1>3. LargestOf(S) \in S /\ \A y \in S : LargestOf(S) >= y BY <1>2 DEF LargestOf
  <1> QED BY <1>3 DEF S

LEMMA LargestIsThere ==
    ASSUME NEW n \in Nat \ {0}, NEW f \in [1..n -> Int]
    PROVE  LET S == {f[i] : i \in 1..n} IN LargestOf(S) \in S
  BY LargestIsLast

LEMMA JoinsAreTexts ==
    ASSUME NEW parts \in Seq(Text), NEW glue \in Seq(Char)
    PROVE  Join(parts, glue) \in Text
  <1>1. parts \in Seq(Seq(Char)) /\ <<>> \in Seq(Char) BY DEF Text
  <1>2. Join(parts, glue) \in Seq(Char) BY <1>1, JoinAppend
  <1> QED BY <1>2 DEF Text

LEMMA MarksAreChars ==
    /\ Bar \in Char /\ Filler \in Char
    /\ <<Space>> \in Seq(Char) /\ <<Break>> \in Seq(Char) /\ <<>> \in Text
  <1>1. "|" \in Kinds /\ "x" \in Kinds BY DEF Kinds
  <1> QED BY <1>1, CharTypes DEF Bar, Filler, Char, Text

LEMMA CellsAreCells ==
    ASSUME NEW table \in Seq(Seq(Cell)), NEW r \in DOMAIN table, NEW i \in DOMAIN table[r]
    PROVE  CleanCell(FilledCell(table, r, i)) \in Text
  <1> DEFINE above == {q \in 1..(r - 1) : i \in DOMAIN table[q] /\ table[q][i] # NoCell}
             n == Len(table)
             c == FilledCell(table, r, i)
  <1>1. n \in Nat /\ r \in 1..n /\ \A q \in 1..n : table[q] \in Seq(Cell) OBVIOUS
  <1>2. \A q \in 1..n : \A j \in DOMAIN table[q] : table[q][j] \in Cell
    <2> TAKE q \in 1..n
    <2>1. table[q] \in Seq(Cell) BY <1>1
    <2> QED BY <2>1
  <1>3. c = IF table[r][i] = NoCell /\ above # {}
            THEN table[LargestOf(above)][i] ELSE table[r][i]
    BY DEF FilledCell
  <1>4. above \in SUBSET (1..n) /\ \A q \in above : i \in DOMAIN table[q]
    BY <1>1
  <1> HIDE DEF above, n, c
  <1>5. c \in Cell
    <2>1. CASE table[r][i] = NoCell /\ above # {}
      <3>1. LargestOf(above) \in above BY <1>1, <1>4, <2>1, FirstAndLast
      <3>2. LargestOf(above) \in 1..n /\ i \in DOMAIN table[LargestOf(above)]
        BY <1>4, <3>1
      <3>3. table[LargestOf(above)][i] \in Cell BY <1>2, <3>2
      <3> QED BY <1>3, <2>1, <3>3
    <2>2. CASE ~(table[r][i] = NoCell /\ above # {})
      <3>1. table[r][i] \in Cell BY <1>1, <1>2
      <3> QED BY <1>3, <2>2, <3>1
    <2> QED BY <2>1, <2>2
  <1>6. CASE c = NoCell BY <1>6, MarksAreChars DEF CleanCell, c
  <1>7. CASE c # NoCell
    <2>1. c \in Text BY <1>5, <1>7 DEF Cell
    <2> QED BY <1>7, <2>1, StripIsPart DEF CleanCell, c
  <1> QED BY <1>6, <1>7

LEMMA InkedRowsAreTexts ==
    ASSUME NEW table \in Seq(Seq(Cell))
    PROVE  InkedRows(table) \in Seq(Seq(Text))
  <1> DEFINE row(r) == [i \in DOMAIN table[r] |-> CleanCell(FilledCell(table, r, i))]
             clean == [r \in DOMAIN table |-> row(r)]
             S == {r \in DOMAIN clean : \E i \in DOMAIN clean[r] : clean[r][i] # <<>>}
  <1>1. InkedRows(table) = Kept(clean, S) BY DEF InkedRows
  <1>2. ASSUME NEW r \in 1..Len(table) PROVE row(r) \in Seq(Text)
    <2>1. table[r] \in Seq(Cell) /\ r \in DOMAIN table OBVIOUS
    <2>2. DOMAIN table[r] = 1..Len(table[r]) /\ Len(table[r]) \in Nat BY <2>1
    <2>3. \A i \in DOMAIN table[r] : CleanCell(FilledCell(table, r, i)) \in Text
      BY <2>1, CellsAreCells
    <2> QED BY <2>2, <2>3
  <1> HIDE DEF row
  <1>3. clean \in Seq(Seq(Text))
    <2>1. DOMAIN table = 1..Len(table) /\ Len(table) \in Nat OBVIOUS
    <2>2. clean = [r \in 1..Len(table) |-> row(r)] BY <2>1
    <2> QED BY <1>2, <2>1, <2>2
  <1>4. S \in SUBSET DOMAIN clean OBVIOUS
  <1> HIDE DEF S, clean
  <1> QED BY <1>1, <1>3, <1>4, KeptKeepsOrder

LEMMA InkedColumnsAreTexts ==
    ASSUME NEW table \in Seq(Seq(Text))
    PROVE  InkedColumns(table) \in Seq(Seq(Text))
  <1> DEFINE n == Len(table)
             lengths == {0} \cup {Len(table[r]) : r \in DOMAIN table}
             width == LargestOf(lengths)
             inked == {i \in 1..width :
                          \E r \in DOMAIN table : CellAt(table[r], i) # <<>>}
             columns == Places(inked, width)
             row(r) == [k \in DOMAIN columns |-> CellAt(table[r], columns[k])]
  <1>1. InkedColumns(table) = [r \in DOMAIN table |-> row(r)] BY DEF InkedColumns
  <1>2. n \in Nat /\ DOMAIN table = 1..n /\ \A r \in 1..n : table[r] \in Seq(Text)
    OBVIOUS
  <1> HIDE DEF n
  <1>3. width \in Nat
    <2> DEFINE f == [i \in 1..(n + 1) |-> IF i = n + 1 THEN 0 ELSE Len(table[i])]
    <2>1. \A r \in 1..n : Len(table[r]) \in Nat BY <1>2
    <2>2. \A i \in 1..(n + 1) : i \in 1..n \/ i = n + 1 BY <1>2
    <2>3. f \in [1..(n + 1) -> Int] /\ \A i \in 1..(n + 1) : f[i] \in Nat BY <2>1, <2>2
    <2>4. lengths = {f[i] : i \in 1..(n + 1)}
      <3>1. n + 1 \in 1..(n + 1) /\ f[n + 1] = 0 BY <1>2
      <3>2. \A r \in 1..n : r \in 1..(n + 1) /\ f[r] = Len(table[r]) BY <1>2
      <3> HIDE DEF f
      <3> QED BY <1>2, <2>2, <3>1, <3>2
    <2> HIDE DEF f, lengths
    <2>5. LargestOf(lengths) \in lengths
      <3>1. n + 1 \in Nat \ {0} BY <1>2
      <3> QED BY <2>3, <2>4, <3>1, LargestIsThere
    <2> QED BY <2>3, <2>4, <2>5
  <1> HIDE DEF width, inked
  <1>4. DOMAIN columns = 1..Len(columns) /\ Len(columns) \in Nat
    <2>1. Rises(columns, inked, width) BY <1>3, PlacesRise
    <2> HIDE DEF columns
    <2>2. columns \in Seq(1..width) BY <2>1 DEF Rises
    <2> QED BY <2>2
  <1> HIDE DEF columns
  <1>5. ASSUME NEW r \in 1..n PROVE row(r) \in Seq(Text)
    <2>1. table[r] \in Seq(Text) BY <1>2
    <2>2. \A i : CellAt(table[r], i) \in Text BY <2>1, MarksAreChars DEF CellAt
    <2> QED BY <1>4, <2>2
  <1> HIDE DEF row
  <1>6. [r \in 1..n |-> row(r)] \in Seq(Seq(Text)) BY <1>2, <1>5
  <1> QED BY <1>1, <1>2, <1>6

LEMMA RowTextsAreTexts ==
    ASSUME NEW cells \in Seq(Text) PROVE RowText(cells) \in Text
  <1> DEFINE cell(k) == <<Space>> \o cells[k] \o <<Space, Bar>>
             parts == [k \in DOMAIN cells |-> cell(k)]
  <1>1. RowText(cells) = <<Bar>> \o FlattenSeq(parts) BY DEF RowText
  <1>2. <<Space>> \in Seq(Char) /\ <<Space, Bar>> \in Seq(Char) /\ <<Bar>> \in Seq(Char)
    BY CharTypes, MarksAreChars
  <1>3. DOMAIN cells = 1..Len(cells) /\ Len(cells) \in Nat OBVIOUS
  <1>4. \A k \in 1..Len(cells) : cell(k) \in Seq(Char)
    <2> TAKE k \in 1..Len(cells)
    <2>1. cells[k] \in Seq(Char) BY DEF Text
    <2> QED BY <1>2, <2>1
  <1> HIDE DEF cell
  <1>5. parts \in Seq(Seq(Char)) BY <1>3, <1>4
  <1> HIDE DEF parts
  <1>6. FlattenSeq(parts) \in Seq(Char) BY <1>5, FlattenMembers
  <1>7. <<Bar>> \o FlattenSeq(parts) \in Seq(Char) BY <1>2, <1>6
  <1> QED BY <1>1, <1>7 DEF Text

LEMMA TablesAreTexts ==
    ASSUME NEW table \in Seq(Seq(Cell))
    PROVE  TableToMarkdown(table) \in Text
  <1> DEFINE cells == InkedColumns(InkedRows(table))
  <1>1. cells \in Seq(Seq(Text)) BY InkedRowsAreTexts, InkedColumnsAreTexts
  <1>2. TableToMarkdown(table) = Markdown(cells) BY DEF TableToMarkdown
  <1> HIDE DEF cells
  <1> DEFINE header == [k \in DOMAIN cells[1] |->
                           IF cells[1][k] = <<>> THEN <<Filler>> ELSE cells[1][k]]
             rule == [k \in DOMAIN cells[1] |-> <<Filler, Filler, Filler>>]
             body == [r \in 1..(Len(cells) - 1) |-> cells[r + 1]]
             all == <<header, rule>> \o body
             texts == [r \in DOMAIN all |-> RowText(all[r])]
             cell == FlattenSeq(cells)
             S == {i \in DOMAIN cell : cell[i] # <<>>}
             flat == Len(cells) < 2 \/ \A r \in DOMAIN cells : Len(cells[r]) < 2
  <1>3. Markdown(cells) = IF flat THEN WithSpaces(Kept(cell, S)) ELSE JoinLines(texts)
    BY DEF Markdown
  <1>4. WithSpaces(Kept(cell, S)) \in Text
    <2>1. cell \in Seq(Text) BY <1>1, FlattenMembers
    <2>2. S \in SUBSET DOMAIN cell OBVIOUS
    <2> HIDE DEF cell, S
    <2>3. Kept(cell, S) \in Seq(Text) BY <2>1, <2>2, KeptKeepsOrder
    <2> QED BY <2>3, MarksAreChars, JoinsAreTexts DEF WithSpaces
  <1>5. ASSUME ~flat PROVE JoinLines(texts) \in Text
    <2>1. Len(cells) \in Nat /\ Len(cells) >= 2 BY <1>1, <1>5
    <2>2. cells[1] \in Seq(Text) BY <1>1, <2>1
    <2>3. DOMAIN cells[1] = 1..Len(cells[1]) /\ Len(cells[1]) \in Nat
          /\ \A k \in 1..Len(cells[1]) : cells[1][k] \in Text
      BY <2>2
    <2>4. <<Filler>> \in Text /\ <<Filler, Filler, Filler>> \in Text
      BY MarksAreChars DEF Text
    <2>5. header \in Seq(Text)
      <3>1. \A k \in 1..Len(cells[1]) :
               (IF cells[1][k] = <<>> THEN <<Filler>> ELSE cells[1][k]) \in Text
        BY <2>3, <2>4
      <3> QED BY <2>3, <3>1
    <2>6. rule \in Seq(Text) BY <2>3, <2>4
    <2>7. body \in Seq(Seq(Text))
      <3>1. \A r \in 1..(Len(cells) - 1) : cells[r + 1] \in Seq(Text) BY <1>1, <2>1
      <3>2. Len(cells) - 1 \in Nat BY <2>1
      <3> QED BY <3>1, <3>2
    <2> HIDE DEF header, rule, body
    <2>8. all \in Seq(Seq(Text)) BY <2>5, <2>6, <2>7
    <2> HIDE DEF all
    <2>9. texts \in Seq(Text)
      <3>1. DOMAIN all = 1..Len(all) /\ Len(all) \in Nat BY <2>8
      <3>2. \A r \in 1..Len(all) : RowText(all[r]) \in Text BY <2>8, RowTextsAreTexts
      <3> QED BY <3>1, <3>2
    <2> HIDE DEF texts
    <2> QED BY <2>9, MarksAreChars, JoinsAreTexts DEF JoinLines
  <1> HIDE DEF flat, texts, cell, S
  <1> QED BY <1>2, <1>3, <1>4, <1>5

-----------------------------------------------------------------------------
(* Words of a page become blocks of text.                                  *)

LineRecord == [text : Text, top : Int, bottom : Int, size : Nat, bold : BOOLEAN]
PlacedBlock == [kind : {"text", "table"}, text : Text, page : Nat, top : Int,
                size : Nat, bold : BOOLEAN]

LEMMA WordFields ==
    ASSUME NEW w \in Word
    PROVE  /\ w.text \in Text /\ w.top \in Int /\ w.bottom \in Int
           /\ w.x0 \in Int /\ w.x1 \in Int /\ w.size \in Nat /\ w.bold \in BOOLEAN
  BY DEF Word

LEMMA WordsAreOrdered ==
    ASSUME NEW words \in Seq(Word)
    PROVE  /\ Orders(DOMAIN words, Before(words))
           /\ Orders(DOMAIN words, LeftToRight(words))
  <1> DEFINE n == Len(words)  D == DOMAIN words
  <1>1. n \in Nat /\ D = 1..n /\ \A i \in 1..n : words[i] \in Word OBVIOUS
  <1>2. PICK top \in [1..n -> Int] : \A i \in 1..n : top[i] = words[i].top
    <2>1. [i \in 1..n |-> words[i].top] \in [1..n -> Int] BY <1>1, WordFields
    <2> QED BY <2>1
  <1>3. PICK x0 \in [1..n -> Int] : \A i \in 1..n : x0[i] = words[i].x0
    <2>1. [i \in 1..n |-> words[i].x0] \in [1..n -> Int] BY <1>1, WordFields
    <2> QED BY <2>1
  <1> HIDE DEF n, D
  <1>4. \A i, j \in D : <<i, j>> \in Before(words) <=>
            \/ top[i] < top[j]
            \/ top[i] = top[j] /\ x0[i] < x0[j]
            \/ top[i] = top[j] /\ x0[i] = x0[j] /\ i < j
    <2> TAKE i, j \in D
    <2>1. <<i, j>> \in Before(words) <=>
            \/ words[i].top < words[j].top
            \/ words[i].top = words[j].top /\ words[i].x0 < words[j].x0
            \/ words[i].top = words[j].top /\ words[i].x0 = words[j].x0 /\ i < j
      BY DEF Before, D
    <2> QED BY <1>1, <1>2, <1>3, <2>1
  <1>5. \A i, j \in D : <<i, j>> \in LeftToRight(words) <=>
            x0[i] < x0[j] \/ (x0[i] = x0[j] /\ i < j)
    <2> TAKE i, j \in D
    <2>1. <<i, j>> \in LeftToRight(words) <=>
            \/ words[i].x0 < words[j].x0
            \/ words[i].x0 = words[j].x0 /\ i < j
      BY DEF LeftToRight, D
    <2> QED BY <1>1, <1>3, <2>1
  <1>6. \A i \in D : i \in Int /\ top[i] \in Int /\ x0[i] \in Int BY <1>1, <1>2, <1>3
  <1>7. Orders(D, Before(words))
    <2>1. \A i \in D : <<i, i>> \notin Before(words) BY <1>4, <1>6
    <2>2. \A i, j \in D : i = j \/ <<i, j>> \in Before(words) \/ <<j, i>> \in Before(words)
      <3> TAKE i, j \in D
      <3> DEFINE a == top[i]  b == top[j]  u == x0[i]  v == x0[j]
      <3>1. /\ a \in Int /\ b \in Int /\ u \in Int /\ v \in Int
            /\ i \in Int /\ j \in Int
        BY <1>6
      <3>2. <<i, j>> \in Before(words) <=>
              a < b \/ (a = b /\ u < v) \/ (a = b /\ u = v /\ i < j)
        BY <1>4
      <3>3. <<j, i>> \in Before(words) <=>
              b < a \/ (b = a /\ v < u) \/ (b = a /\ v = u /\ j < i)
        BY <1>4
      <3> HIDE DEF a, b, u, v
      <3> QED BY <3>1, <3>2, <3>3
    <2>3. \A i, j, k \in D : <<i, j>> \in Before(words) /\ <<j, k>> \in Before(words)
                               => <<i, k>> \in Before(words)
      <3> TAKE i, j, k \in D
      <3> DEFINE a == top[i]  b == top[j]  c == top[k]
                 u == x0[i]  v == x0[j]  w == x0[k]
      <3>1. /\ a \in Int /\ b \in Int /\ c \in Int /\ u \in Int /\ v \in Int /\ w \in Int
            /\ i \in Int /\ j \in Int /\ k \in Int
        BY <1>6
      <3>2. <<i, j>> \in Before(words) <=>
              a < b \/ (a = b /\ u < v) \/ (a = b /\ u = v /\ i < j)
        BY <1>4
      <3>3. <<j, k>> \in Before(words) <=>
              b < c \/ (b = c /\ v < w) \/ (b = c /\ v = w /\ j < k)
        BY <1>4
      <3>4. <<i, k>> \in Before(words) <=>
              a < c \/ (a = c /\ u < w) \/ (a = c /\ u = w /\ i < k)
        BY <1>4
      <3> HIDE DEF a, b, c, u, v, w
      <3> QED BY <3>1, <3>2, <3>3, <3>4
    <2> QED BY <2>1, <2>2, <2>3 DEF Orders
  <1>8. Orders(D, LeftToRight(words))
    <2>1. \A i \in D : <<i, i>> \notin LeftToRight(words) BY <1>5, <1>6
    <2>2. \A i, j \in D :
             i = j \/ <<i, j>> \in LeftToRight(words) \/ <<j, i>> \in LeftToRight(words)
      <3> TAKE i, j \in D
      <3> DEFINE u == x0[i]  v == x0[j]
      <3>1. u \in Int /\ v \in Int /\ i \in Int /\ j \in Int BY <1>6
      <3>2. <<i, j>> \in LeftToRight(words) <=> u < v \/ (u = v /\ i < j) BY <1>5
      <3>3. <<j, i>> \in LeftToRight(words) <=> v < u \/ (v = u /\ j < i) BY <1>5
      <3> HIDE DEF u, v
      <3> QED BY <3>1, <3>2, <3>3
    <2>3. \A i, j, k \in D :
             <<i, j>> \in LeftToRight(words) /\ <<j, k>> \in LeftToRight(words)
               => <<i, k>> \in LeftToRight(words)
      BY <1>5, <1>6
    <2> QED BY <2>1, <2>2, <2>3 DEF Orders
  <1> QED BY <1>7, <1>8 DEF D

\* The largest of a field of the members of a sequence.
LEMMA LargestOfFields ==
    ASSUME NEW n \in Nat \ {0}, NEW f \in [1..n -> Nat]
    PROVE  LargestOf({f[i] : i \in 1..n}) \in Nat
  <1>1. f \in [1..n -> Int] OBVIOUS
  <1>2. LargestOf({f[i] : i \in 1..n}) \in {f[i] : i \in 1..n} BY <1>1, LargestIsThere
  <1> DEFINE S == {f[i] : i \in 1..n}
  <1>3. S \subseteq Nat OBVIOUS
  <1>4. LargestOf(S) \in S BY <1>2
  <1> HIDE DEF S
  <1>5. LargestOf(S) \in Nat BY <1>3, <1>4
  <1> QED BY <1>5 DEF S

LEMMA LinesAreRecords ==
    ASSUME NEW words \in Seq(Word), words # <<>>
    PROVE  LineOf(words) \in LineRecord
  <1> DEFINE n == Len(words)
             ordered == Sorted(words, LeftToRight(words))
             texts == [i \in DOMAIN ordered |-> ordered[i].text]
             text == WithSpaces(texts)
             bottom == LargestOf({w.bottom : w \in ToSet(words)})
             size == LargestOf({w.size : w \in ToSet(words)})
             bold == \A w \in ToSet(words) : w.bold
  <1>1. n \in Nat \ {0} /\ \A i \in 1..n : words[i] \in Word
    <2>1. n \in Nat /\ n # 0 OBVIOUS
    <2> QED BY <2>1
  <1>2. LineOf(words) = [text |-> text, top |-> words[1].top, bottom |-> bottom,
                         size |-> size, bold |-> bold]
    BY DEF LineOf
  <1>3. text \in Text
    <2>1. ordered \in Seq(Word) BY WordsAreOrdered, SortedKeeps
    <2> HIDE DEF ordered
    <2>2. DOMAIN ordered = 1..Len(ordered) /\ Len(ordered) \in Nat BY <2>1
    <2>3. \A i \in 1..Len(ordered) : ordered[i].text \in Text BY <2>1, WordFields
    <2>4. texts \in Seq(Text) BY <2>2, <2>3
    <2> HIDE DEF texts
    <2> QED BY <2>4, MarksAreChars, JoinsAreTexts DEF WithSpaces
  <1>4. bottom \in Int
    <2> DEFINE f == [i \in 1..n |-> words[i].bottom]  S == {f[i] : i \in 1..n}
    <2>1. f \in [1..n -> Int] BY <1>1, WordFields
    <2>2. {w.bottom : w \in ToSet(words)} = S BY DEF ToSet
    <2>3. S \subseteq Int BY <2>1
    <2>4. LargestOf(S) \in S
      <3> HIDE DEF f, n
      <3> QED BY <1>1, <2>1, LargestIsThere
    <2> HIDE DEF S
    <2> QED BY <2>2, <2>3, <2>4
  <1>5. size \in Nat
    <2> DEFINE f == [i \in 1..n |-> words[i].size]  S == {f[i] : i \in 1..n}
    <2>1. f \in [1..n -> Nat] BY <1>1, WordFields
    <2>2. {w.size : w \in ToSet(words)} = S BY DEF ToSet
    <2>3. LargestOf(S) \in Nat
      <3> HIDE DEF f, n
      <3> QED BY <1>1, <2>1, LargestOfFields
    <2> QED BY <2>2, <2>3
  <1>6. words[1].top \in Int
    <2>1. 1 \in 1..n BY <1>1
    <2> QED BY <1>1, <2>1, WordFields
  <1>7. bold \in BOOLEAN OBVIOUS
  <1> HIDE DEF text, bottom, size, bold
  <1> QED BY <1>2, <1>3, <1>4, <1>5, <1>6, <1>7 DEF LineRecord

LEMMA WordsMakeLines ==
    ASSUME NEW words \in Seq(Word)
    PROVE  WordsToLines(words) \in Seq(LineRecord)
  <1> DEFINE sorted == Sorted(words, Before(words))
             near(v, w) == 2 * (w.top - v.top) <= Larger(4, Larger(w.bottom - w.top, 1))
             first[i \in DOMAIN sorted] ==
                 IF i = 1 THEN 1
                 ELSE LET j == first[i - 1] IN
                      IF near(sorted[j], sorted[i]) THEN j ELSE i
             starts == {i \in DOMAIN sorted : first[i] = i}
             lines == Runs(sorted, starts)
  <1>1. sorted \in Seq(Word) BY WordsAreOrdered, SortedKeeps
  <1>2. WordsToLines(words) = [k \in DOMAIN lines |-> LineOf(lines[k])]
    BY DEF WordsToLines
  <1> HIDE DEF sorted, starts, first
  <1>3. lines \in Seq(Seq(Word)) /\ \A k \in 1..Len(lines) : lines[k] # <<>>
    BY <1>1, RunsAreParts
  <1> HIDE DEF lines
  <1> DEFINE T == Seq(Word)
  <1>4. /\ DOMAIN lines = 1..Len(lines) /\ Len(lines) \in Nat
        /\ \A k \in 1..Len(lines) : lines[k] \in T
    <2>1. lines \in Seq(T) BY <1>3
    <2> HIDE DEF T
    <2> QED BY <2>1
  <1>5. \A k \in 1..Len(lines) : LineOf(lines[k]) \in LineRecord
    <2> TAKE k \in 1..Len(lines)
    <2>1. lines[k] \in Seq(Word) /\ lines[k] # <<>> BY <1>3, <1>4
    <2> QED BY <2>1, LinesAreRecords
  <1> QED BY <1>2, <1>4, <1>5

LEMMA LineFields ==
    ASSUME NEW l \in LineRecord
    PROVE  /\ l.text \in Text /\ l.top \in Int /\ l.bottom \in Int /\ l.size \in Nat
           /\ l.bold \in BOOLEAN
  BY DEF LineRecord

\* A group of lines becomes one text.
Glued(group) ==
    FlattenSeq([i \in DOMAIN group |->
        IF i = 1 THEN group[i].text
        ELSE (IF ListItem(group[i].text) THEN <<Break>> ELSE <<Space>>) \o group[i].text])

LEMMA GluedIsText ==
    ASSUME NEW group \in Seq(LineRecord) PROVE Glued(group) \in Text
  <1> DEFINE part(i) == IF i = 1 THEN group[i].text
                        ELSE (IF ListItem(group[i].text) THEN <<Break>> ELSE <<Space>>)
                               \o group[i].text
             parts == [i \in DOMAIN group |-> part(i)]
  <1>1. Glued(group) = FlattenSeq(parts) BY DEF Glued
  <1>2. DOMAIN group = 1..Len(group) /\ Len(group) \in Nat OBVIOUS
  <1>3. \A i \in 1..Len(group) : part(i) \in Seq(Char)
    <2> TAKE i \in 1..Len(group)
    <2> DEFINE t == group[i].text  g == IF ListItem(t) THEN <<Break>> ELSE <<Space>>
    <2>1. t \in Seq(Char) BY <1>2, LineFields DEF Text
    <2>2. g \in Seq(Char) BY MarksAreChars
    <2>3. part(i) = IF i = 1 THEN t ELSE g \o t OBVIOUS
    <2> HIDE DEF t, g, part
    <2>4. g \o t \in Seq(Char) BY <2>1, <2>2
    <2> QED BY <2>1, <2>3, <2>4
  <1> HIDE DEF part
  <1>4. parts \in Seq(Seq(Char)) BY <1>2, <1>3
  <1> HIDE DEF parts
  <1>5. FlattenSeq(parts) \in Seq(Char) BY <1>4, FlattenMembers
  <1> QED BY <1>1, <1>5 DEF Text

LEMMA LinesMakeBlocks ==
    ASSUME NEW lines \in Seq(LineRecord), NEW page \in Nat
    PROVE  LinesToBlocks(lines, page) \in Seq(PlacedBlock)
  <1> DEFINE starts == {i \in 2..Len(lines) : StartsParagraph(lines[i], lines[i - 1])}
             groups == Runs(lines, starts)
             block(group) ==
                [kind |-> "text", text |-> Glued(group),
                 page |-> page, top |-> group[1].top,
                 size |-> LargestOf({l.size : l \in ToSet(group)}),
                 bold |-> \A l \in ToSet(group) : l.bold]
  <1>1. LinesToBlocks(lines, page) = [g \in DOMAIN groups |-> block(groups[g])]
    BY DEF LinesToBlocks, Glued
  <1> HIDE DEF starts
  <1> DEFINE T == Seq(LineRecord)
  <1>2. groups \in Seq(T) /\ \A k \in 1..Len(groups) : groups[k] # <<>>
    BY RunsAreParts
  <1> HIDE DEF groups, block
  <1>3. \A group \in T : group # <<>> => block(group) \in PlacedBlock
    <2> SUFFICES ASSUME NEW group \in Seq(LineRecord), group # <<>>
                 PROVE  block(group) \in PlacedBlock
      OBVIOUS
    <2> DEFINE n == Len(group)
               text == Glued(group)
               size == LargestOf({l.size : l \in ToSet(group)})
               bold == \A l \in ToSet(group) : l.bold
               top == group[1].top
    <2>1. n \in Nat \ {0} /\ \A i \in 1..n : group[i] \in LineRecord
      <3>1. n \in Nat /\ n # 0 OBVIOUS
      <3> QED BY <3>1
    <2>2. text \in Text BY GluedIsText
    <2>3. size \in Nat
      <3> DEFINE f == [i \in 1..n |-> group[i].size]  S == {f[i] : i \in 1..n}
      <3>1. f \in [1..n -> Nat] BY <2>1, LineFields
      <3>2. {l.size : l \in ToSet(group)} = S BY DEF ToSet
      <3>3. LargestOf(S) \in Nat
        <4> HIDE DEF f, n
        <4> QED BY <2>1, <3>1, LargestOfFields
      <3> QED BY <3>2, <3>3
    <2>4. top \in Int
      <3>1. 1 \in 1..n BY <2>1
      <3> QED BY <2>1, <3>1, LineFields
    <2>5. bold \in BOOLEAN OBVIOUS
    <2>6. block(group) = [kind |-> "text", text |-> text, page |-> page, top |-> top,
                          size |-> size, bold |-> bold]
      BY DEF block
    <2> HIDE DEF text, size, bold, top
    <2> QED BY <2>2, <2>3, <2>4, <2>5, <2>6 DEF PlacedBlock
  <1>4. /\ DOMAIN groups = 1..Len(groups) /\ Len(groups) \in Nat
        /\ \A k \in 1..Len(groups) : groups[k] \in T
    <2> HIDE DEF T
    <2> QED BY <1>2
  <1>5. \A k \in 1..Len(groups) : block(groups[k]) \in PlacedBlock
    <2> HIDE DEF T
    <2> QED BY <1>2, <1>3, <1>4
  <1> QED BY <1>1, <1>4, <1>5

-----------------------------------------------------------------------------
(* A page becomes blocks: its tables, and the text outside of them.        *)

LEMMA PlacedFields ==
    ASSUME NEW b \in PlacedBlock
    PROVE  /\ b.kind \in {"text", "table"} /\ b.text \in Text /\ b.page \in Nat
           /\ b.top \in Int /\ b.size \in Nat /\ b.bold \in BOOLEAN
  BY DEF PlacedBlock

LEMMA BlocksAreOrdered ==
    ASSUME NEW blocks \in Seq(PlacedBlock)
    PROVE  Orders(DOMAIN blocks, Downwards(blocks))
  <1> DEFINE n == Len(blocks)  D == DOMAIN blocks
  <1>1. n \in Nat /\ D = 1..n /\ \A i \in 1..n : blocks[i] \in PlacedBlock OBVIOUS
  <1>2. PICK top \in [1..n -> Int] : \A i \in 1..n : top[i] = blocks[i].top
    <2>1. [i \in 1..n |-> blocks[i].top] \in [1..n -> Int] BY <1>1, PlacedFields
    <2> QED BY <2>1
  <1> HIDE DEF n, D
  <1>3. \A i, j \in D : <<i, j>> \in Downwards(blocks) <=>
            top[i] < top[j] \/ (top[i] = top[j] /\ i < j)
    <2> TAKE i, j \in D
    <2>1. <<i, j>> \in Downwards(blocks) <=>
            \/ blocks[i].top < blocks[j].top
            \/ blocks[i].top = blocks[j].top /\ i < j
      BY DEF Downwards, D
    <2> QED BY <1>1, <1>2, <2>1
  <1>4. \A i \in D : i \in Int /\ top[i] \in Int BY <1>1, <1>2
  <1>5. \A i \in D : <<i, i>> \notin Downwards(blocks) BY <1>3, <1>4
  <1>6. \A i, j \in D : i = j \/ <<i, j>> \in Downwards(blocks) \/ <<j, i>> \in Downwards(blocks)
    <2> TAKE i, j \in D
    <2> DEFINE a == top[i]  b == top[j]
    <2>1. a \in Int /\ b \in Int /\ i \in Int /\ j \in Int BY <1>4
    <2>2. <<i, j>> \in Downwards(blocks) <=> a < b \/ (a = b /\ i < j) BY <1>3
    <2>3. <<j, i>> \in Downwards(blocks) <=> b < a \/ (b = a /\ j < i) BY <1>3
    <2> HIDE DEF a, b
    <2> QED BY <2>1, <2>2, <2>3
  <1>7. \A i, j, k \in D : <<i, j>> \in Downwards(blocks) /\ <<j, k>> \in Downwards(blocks)
                             => <<i, k>> \in Downwards(blocks)
    <2> TAKE i, j, k \in D
    <2> DEFINE a == top[i]  b == top[j]  c == top[k]
    <2>1. a \in Int /\ b \in Int /\ c \in Int /\ i \in Int /\ j \in Int /\ k \in Int
      BY <1>4
    <2>2. <<i, j>> \in Downwards(blocks) <=> a < b \/ (a = b /\ i < j) BY <1>3
    <2>3. <<j, k>> \in Downwards(blocks) <=> b < c \/ (b = c /\ j < k) BY <1>3
    <2>4. <<i, k>> \in Downwards(blocks) <=> a < c \/ (a = c /\ i < k) BY <1>3
    <2> HIDE DEF a, b, c
    <2> QED BY <2>1, <2>2, <2>3, <2>4
  <1> QED BY <1>5, <1>6, <1>7 DEF Orders, D

LEMMA PageOrderKeeps ==
    ASSUME NEW blocks \in Seq(PlacedBlock)
    PROVE  InPageOrder(blocks) \in Seq(Block)
  <1> DEFINE sorted == Sorted(blocks, Downwards(blocks))
             placed(b) == [kind |-> b.kind, text |-> b.text, page |-> b.page,
                           size |-> b.size, bold |-> b.bold]
  <1>1. sorted \in Seq(PlacedBlock) BY BlocksAreOrdered, SortedKeeps
  <1>2. InPageOrder(blocks) = [i \in DOMAIN sorted |-> placed(sorted[i])]
    BY DEF InPageOrder
  <1> HIDE DEF sorted
  <1>3. \A b \in PlacedBlock : placed(b) \in Block BY PlacedFields DEF Block
  <1>4. /\ DOMAIN sorted = 1..Len(sorted) /\ Len(sorted) \in Nat
        /\ \A i \in 1..Len(sorted) : sorted[i] \in PlacedBlock
    BY <1>1
  <1> HIDE DEF placed
  <1> QED BY <1>2, <1>3, <1>4

LEMMA PageFields ==
    ASSUME NEW page \in Page
    PROVE  /\ page.words \in Seq(Word) /\ page.tables \in Seq(Table)
           /\ page.plain \in Text
  BY DEF Page

LEMMA TableFields ==
    ASSUME NEW t \in Table
    PROVE  t.rows \in Seq(Seq(Cell)) /\ t.box.top \in Int
  <1>1. t.rows \in Seq(Seq(Cell)) /\ t.box \in Box BY DEF Table
  <1> QED BY <1>1 DEF Box

\* A table of a page with its text.
TextedTable == [text : Text, box : Box]

LEMMA PagesAreBlocks ==
    ASSUME NEW page \in Page, NEW number \in Nat
    PROVE  ExtractPage(page, number) \in Seq(Block)
  <1> DEFINE texted(t) == [text |-> TableToMarkdown(t.rows), box |-> t.box]
             tables == [i \in DOMAIN page.tables |-> texted(page.tables[i])]
             S == {i \in DOMAIN tables : tables[i].text # <<>>}
             found == Kept(tables, S)
             block(t) == [kind |-> IF t.text[1] = Bar THEN "table" ELSE "text",
                          text |-> t.text, page |-> number, top |-> t.box.top,
                          size |-> NoSize, bold |-> FALSE]
             boxes == {t.box : t \in ToSet(found)}
             W == {i \in DOMAIN page.words : Outside(page.words[i], boxes)}
             words == Kept(page.words, W)
             above == [i \in DOMAIN found |-> block(found[i])]
             lines == LinesToBlocks(WordsToLines(words), number)
  <1>1. ExtractPage(page, number) \in {<<>>, InPageOrder(above \o lines)}
    BY DEF ExtractPage
  <1>2. tables \in Seq(TextedTable)
    <2>1. /\ page.tables \in Seq(Table)
          /\ DOMAIN page.tables = 1..Len(page.tables) /\ Len(page.tables) \in Nat
      BY PageFields
    <2>2. \A t \in Table : texted(t) \in TextedTable
      <3> TAKE t \in Table
      <3>1. t.box \in Box BY DEF Table
      <3>2. TableToMarkdown(t.rows) \in Text BY TableFields, TablesAreTexts
      <3> QED BY <3>1, <3>2 DEF TextedTable
    <2> HIDE DEF texted
    <2> QED BY <2>1, <2>2
  <1>3. S \subseteq DOMAIN tables OBVIOUS
  <1> HIDE DEF tables, S
  <1>4. found \in Seq(TextedTable) BY <1>2, <1>3, KeptKeepsOrder
  <1>5. page.words \in Seq(Word) /\ W \in SUBSET DOMAIN page.words BY PageFields
  <1> HIDE DEF W
  <1>6. words \in Seq(Word) BY <1>5, KeptKeepsOrder
  <1> HIDE DEF found, words
  <1>7. above \in Seq(PlacedBlock)
    <2>1. DOMAIN found = 1..Len(found) /\ Len(found) \in Nat BY <1>4
    <2>2. \A t \in TextedTable : block(t) \in PlacedBlock
      <3> TAKE t \in TextedTable
      <3>1. t.text \in Text /\ t.box \in Box BY DEF TextedTable
      <3>2. t.box.top \in Int BY <3>1 DEF Box
      <3>3. NoSize \in Nat BY DEF NoSize
      <3> QED BY <3>1, <3>2, <3>3 DEF PlacedBlock
    <2> HIDE DEF block
    <2> QED BY <1>4, <2>1, <2>2
  <1>8. lines \in Seq(PlacedBlock) BY <1>6, WordsMakeLines, LinesMakeBlocks
  <1> HIDE DEF above, lines
  <1>9. above \o lines \in Seq(PlacedBlock) BY <1>7, <1>8
  <1>10. <<>> \in Seq(Block)
    <2> DEFINE B == Block
    <2> HIDE DEF B
    <2>1. <<>> \in Seq(B) OBVIOUS
    <2> QED BY <2>1 DEF B
  <1> QED BY <1>1, <1>9, <1>10, PageOrderKeeps

LEMMA ParagraphsAreTexts ==
    ASSUME NEW t \in Text
    PROVE  /\ Paragraphs(t) \in Seq(Text)
           /\ \A k \in 1..Len(Paragraphs(t)) : Paragraphs(t)[k] # <<>>
  <1> DEFINE u == Strip(t)
             break(i) == u[i][1] = "\n"
             empty == {i \in DOMAIN u : break(i) /\ \E j \in DOMAIN u \ {i} :
                          break(j) /\ \A k \in (i..j) \cup (j..i) : Blank(u[k])}
  <1>1. Paragraphs(t) = Pieces(u, empty) BY DEF Paragraphs
  <1>2. u \in Text BY StripIsPart
  <1> HIDE DEF u, empty
  <1> QED BY <1>1, <1>2, PiecesAreTexts

LEMMA PypdfPagesAreBlocks ==
    ASSUME NEW page \in Page, NEW number \in Nat
    PROVE  PypdfPage(page, number) \in Seq(Block)
  <1> DEFINE p == Paragraphs(page.plain)
             block(t) == [kind |-> "text", text |-> t, page |-> number,
                          size |-> NoSize, bold |-> FALSE]
  <1>1. p \in Seq(Text) BY PageFields, ParagraphsAreTexts
  <1>2. PypdfPage(page, number) = [i \in DOMAIN p |-> block(p[i])] BY DEF PypdfPage
  <1>3. \A t \in Text : block(t) \in Block BY DEF Block, NoSize
  <1> HIDE DEF p, block
  <1>4. DOMAIN p = 1..Len(p) /\ Len(p) \in Nat BY <1>1
  <1> QED BY <1>1, <1>2, <1>3, <1>4

LEMMA ExtractionIsTyped ==
    ASSUME NEW file \in Seq(Page)
    PROVE  LET e == ExtractPdf(file)
           IN e.pages \in Seq(Seq(Block)) /\ Len(e.pages) = Len(file)
  <1> DEFINE B == Seq(Block)  n == Len(file)
             layout == [i \in DOMAIN file |-> ExtractPage(file[i], i)]
             plain == [i \in DOMAIN file |-> PypdfPage(file[i], i)]
  <1>1. n \in Nat /\ DOMAIN file = 1..n /\ \A i \in 1..n : file[i] \in Page OBVIOUS
  <1>2. \A i \in 1..n : i \in Nat BY <1>1
  <1>3. \A i \in 1..n : ExtractPage(file[i], i) \in B BY <1>1, <1>2, PagesAreBlocks
  <1>4. \A i \in 1..n : PypdfPage(file[i], i) \in B BY <1>1, <1>2, PypdfPagesAreBlocks
  <1> HIDE DEF B, n
  <1>5. layout \in Seq(B) /\ Len(layout) = n BY <1>1, <1>3
  <1>6. plain \in Seq(B) /\ Len(plain) = n BY <1>1, <1>4
  <1>7. ExtractPdf(file).pages \in {layout, plain} BY DEF ExtractPdf
  <1> QED BY <1>5, <1>6, <1>7 DEF B, n

\* What OCR returns becomes lines, and runs of lines become blocks.
LEMMA PlainTextIsBlocks ==
    ASSUME NEW text \in Text, NEW page \in Nat
    PROVE  PlainTextBlocks(text, page) \in Seq(Block)
  <1> DEFINE paragraphs == Paragraphs(text)
             kind(line) == IF line[1][1] = "|" THEN "table" ELSE "text"
             lines(p) == Pieces(p, {i \in DOMAIN p : p[i][1] = "\n"})
             changes(ls) == {i \in 2..Len(ls) : kind(ls[i]) # kind(ls[i - 1])}
             runsOf(p) == Runs(lines(p), changes(lines(p)))
             parts == [k \in DOMAIN paragraphs |-> runsOf(paragraphs[k])]
             runs == FlattenSeq(parts)
             block(run) == [kind |-> kind(run[1]), text |-> JoinLines(run),
                            page |-> page, size |-> NoSize, bold |-> FALSE]
             L == Seq(Text)
  <1>1. PlainTextBlocks(text, page) = [k \in DOMAIN runs |-> block(runs[k])]
    BY DEF PlainTextBlocks
  <1>2. paragraphs \in Seq(Text) BY ParagraphsAreTexts
  <1>3. \A p \in Text : runsOf(p) \in Seq(L)
    <2> TAKE p \in Text
    <2> DEFINE ls == lines(p)  C == changes(ls)
    <2>1. ls \in Seq(Text) BY PiecesAreTexts
    <2> HIDE DEF ls, C
    <2>2. Runs(ls, C) \in Seq(Seq(Text)) BY <2>1, RunsAreParts
    <2> QED BY <2>2 DEF ls, C
  <1> HIDE DEF runsOf, paragraphs
  <1>4. DOMAIN paragraphs = 1..Len(paragraphs) /\ Len(paragraphs) \in Nat BY <1>2
  <1>5. parts \in Seq(Seq(L))
    <2> HIDE DEF L
    <2> QED BY <1>2, <1>3, <1>4
  <1> HIDE DEF parts
  <1>6. runs \in Seq(L)
    <2> HIDE DEF L
    <2> QED BY <1>5, FlattenMembers
  <1> HIDE DEF runs
  <1>7. \A run \in L : block(run) \in Block
    <2> TAKE run \in L
    <2>1. JoinLines(run) \in Text BY MarksAreChars, JoinsAreTexts DEF JoinLines
    <2> QED BY <2>1 DEF Block, NoSize
  <1> HIDE DEF L, block
  <1>8. DOMAIN runs = 1..Len(runs) /\ Len(runs) \in Nat BY <1>6
  <1> QED BY <1>1, <1>6, <1>7, <1>8

-----------------------------------------------------------------------------
(* What has ink keeps some: warnings are about the pages without.          *)

InkedText == {t \in Text : InkAt(t) # {}}

LEMMA StripKeepsInk ==
    ASSUME NEW t \in Text
    PROVE  /\ t \in InkedText => Strip(t) \in InkedText /\ Strip(t) # <<>>
           /\ t \notin InkedText => Strip(t) = <<>>
  <1>1. Strip(t) \in Text BY StripIsPart
  <1>2. CASE t \in InkedText
    <2>1. InkAt(t) # {} BY <1>2 DEF InkedText
    <2>2. PICK a, b \in 1..Len(t) :
             /\ a <= b /\ a \in InkAt(t)
             /\ Len(Strip(t)) = b - a + 1
             /\ \A i \in 1..(b - a + 1) : Strip(t)[i] = t[a + i - 1]
      BY <2>1, StripIsPart
    <2> DEFINE u == Strip(t)
    <2>3. 1 \in 1..(b - a + 1) /\ a + 1 - 1 = a BY <2>2
    <2>4. u[1] = t[a] /\ ~Blank(t[a]) BY <2>2, <2>3 DEF InkAt
    <2> HIDE DEF u
    <2>5. u \in Text /\ 1 \in 1..Len(u) BY <1>1, <2>2, <2>3 DEF u
    <2>6. 1 \in DOMAIN u /\ u # <<>> BY <2>5 DEF Text
    <2>7. 1 \in InkAt(u) BY <2>4, <2>6 DEF InkAt
    <2> QED BY <1>2, <2>5, <2>6, <2>7 DEF InkedText, u
  <1>3. CASE t \notin InkedText
    <2>1. InkAt(t) = {} BY <1>3 DEF InkedText
    <2> QED BY <1>3, <2>1, StripIsPart
  <1> QED BY <1>2, <1>3

\* A piece has ink, and there is one if some ink is no cut.
LEMMA PiecesAreInked ==
    ASSUME NEW t \in Text, NEW Cuts
    PROVE  /\ Pieces(t, Cuts) \in Seq(InkedText)
           /\ (\E j \in InkAt(t) : j \notin Cuts) => Pieces(t, Cuts) # <<>>
           /\ InkAt(t) = {} => Pieces(t, Cuts) = <<>>
  <1> DEFINE parts == Between(t, Cuts)
             m == Len(parts)
             stripped == [k \in DOMAIN parts |-> Strip(parts[k])]
             S == {k \in DOMAIN stripped : stripped[k] # <<>>}
             kept == Kept(stripped, S)
  <1>1. /\ parts \in Seq(Text) /\ m \in Nat
        /\ \A k \in 1..m : \A i \in 1..Len(parts[k]) : \E j \in 1..Len(t) : parts[k][i] = t[j]
        /\ \A j \in (1..Len(t)) \ Cuts :
              \E k \in 1..m : \E i \in 1..Len(parts[k]) : parts[k][i] = t[j]
    <2>1. t \in Seq(Char) BY DEF Text
    <2>2. Separates(parts, Char, t, Cuts) BY <2>1, BetweenCuts
    <2> HIDE DEF parts
    <2>3. parts \in Seq(Seq(Char)) /\ m \in Nat BY <2>2 DEF Separates
    <2>4. \A k \in 1..m : \A i \in 1..Len(parts[k]) : \E j \in 1..Len(t) : parts[k][i] = t[j]
      BY <2>2 DEF Separates
    <2>5. \A j \in (1..Len(t)) \ Cuts :
              \E k \in 1..m : \E i \in 1..Len(parts[k]) : parts[k][i] = t[j]
      BY <2>2 DEF Separates
    <2> QED BY <2>3, <2>4, <2>5 DEF Text
  <1>2. Pieces(t, Cuts) = kept BY DEF Pieces
  <1>3. DOMAIN t = 1..Len(t) BY DEF Text
  <1> HIDE DEF parts, m
  <1>4. DOMAIN parts = 1..m BY <1>1 DEF m
  <1>5. \A k \in 1..m : /\ parts[k] \in Text /\ Strip(parts[k]) \in Text
                        /\ DOMAIN parts[k] = 1..Len(parts[k])
    <2> TAKE k \in 1..m
    <2>1. parts[k] \in Text BY <1>1, <1>4
    <2>2. DOMAIN parts[k] = 1..Len(parts[k]) BY <2>1 DEF Text
    <2> QED BY <2>1, <2>2, StripIsPart
  <1>6. /\ stripped \in Seq(Text) /\ DOMAIN stripped = 1..m
        /\ \A k \in 1..m : stripped[k] = Strip(parts[k])
    <2>1. \A k \in 1..m : Strip(parts[k]) \in Text BY <1>5
    <2> QED BY <1>1, <1>4, <2>1
  <1>7. S \in SUBSET DOMAIN stripped OBVIOUS
  <1>8. \A k \in S : k \in 1..m /\ stripped[k] \in InkedText
    <2> TAKE k \in S
    <2>1. k \in 1..m /\ Strip(parts[k]) # <<>> BY <1>6
    <2>2. parts[k] \in InkedText BY <1>5, <2>1, StripKeepsInk
    <2> QED BY <1>5, <1>6, <2>1, <2>2, StripKeepsInk
  <1>9. \A k \in 1..m : parts[k] \in InkedText => k \in S BY <1>5, <1>6, StripKeepsInk
  <1>10. \A k \in S : parts[k] \in InkedText
    BY <1>5, <1>6, StripKeepsInk
  <1> HIDE DEF stripped, S
  <1>11. kept \in Seq(Text) BY <1>6, <1>7, KeptKeepsOrder
  <1>12. PICK p \in [1..Len(kept) -> S] :
            /\ \A i \in 1..Len(kept) : kept[i] = stripped[p[i]]
            /\ \A x \in S : \E i \in 1..Len(kept) : p[i] = x
            /\ \A i, j \in 1..Len(kept) : i < j => p[i] < p[j]
    BY <1>6, <1>7, KeptKeepsOrder
  <1> HIDE DEF kept
  <1>13. kept \in Seq(InkedText)
    <2>1. \A i \in 1..Len(kept) : kept[i] \in InkedText BY <1>8, <1>12
    <2> QED BY <1>11, <2>1
  <1>14. ASSUME NEW j \in InkAt(t), j \notin Cuts PROVE kept # <<>>
    <2>1. j \in (1..Len(t)) \ Cuts /\ ~Blank(t[j]) BY <1>3, <1>14 DEF InkAt
    <2>2. PICK k \in 1..m : \E i \in 1..Len(parts[k]) : parts[k][i] = t[j] BY <1>1, <2>1
    <2>3. InkAt(parts[k]) # {} BY <1>5, <2>1, <2>2 DEF InkAt
    <2>4. k \in S BY <1>5, <1>9, <2>3 DEF InkedText
    <2>5. \E i \in 1..Len(kept) : TRUE BY <1>12, <2>4
    <2> QED BY <2>5
  <1>15. ASSUME InkAt(t) = {} PROVE kept = <<>>
    <2>1. \A k \in 1..m : parts[k] \notin InkedText
      <3> SUFFICES ASSUME NEW k \in 1..m, parts[k] \in InkedText PROVE FALSE OBVIOUS
      <3>1. PICK i \in 1..Len(parts[k]) : ~Blank(parts[k][i])
        BY <1>5 DEF InkedText, InkAt
      <3>2. PICK j \in 1..Len(t) : parts[k][i] = t[j] BY <1>1
      <3>3. j \in InkAt(t) BY <1>3, <3>1, <3>2 DEF InkAt
      <3> QED BY <1>15, <3>3
    <2>2. S = {} BY <1>8, <1>10, <2>1
    <2>3. \A i \in 1..Len(kept) : FALSE BY <1>12, <2>2
    <2> QED BY <1>11, <2>3
  <1> QED BY <1>2, <1>13, <1>14, <1>15

LEMMA ParagraphsAreInked ==
    ASSUME NEW t \in Text
    PROVE  /\ Paragraphs(t) \in Seq(InkedText)
           /\ t \in InkedText => Paragraphs(t) # <<>>
           /\ t \notin InkedText => Paragraphs(t) = <<>>
  <1> DEFINE u == Strip(t)
             break(i) == u[i][1] = "\n"
             empty == {i \in DOMAIN u : break(i) /\ \E j \in DOMAIN u \ {i} :
                          break(j) /\ \A k \in (i..j) \cup (j..i) : Blank(u[k])}
  <1>1. Paragraphs(t) = Pieces(u, empty) BY DEF Paragraphs
  <1>2. u \in Text BY StripIsPart
  <1>3. \A i \in empty : Blank(u[i]) BY DEF Blank
  <1>4. t \in InkedText => u \in InkedText BY StripKeepsInk
  <1>5. t \notin InkedText => u = <<>> BY StripKeepsInk
  <1> HIDE DEF u, empty
  <1>6. Pieces(u, empty) \in Seq(InkedText) BY <1>2, PiecesAreInked
  <1>7. ASSUME t \in InkedText PROVE Pieces(u, empty) # <<>>
    <2>1. PICK j \in InkAt(u) : TRUE BY <1>4, <1>7 DEF InkedText
    <2>2. j \notin empty BY <1>3, <2>1 DEF InkAt
    <2> QED BY <1>2, <2>2, PiecesAreInked
  <1>8. ASSUME t \notin InkedText PROVE Pieces(u, empty) = <<>>
    <2>1. InkAt(u) = {} BY <1>5, <1>8 DEF InkAt
    <2> QED BY <1>2, <2>1, PiecesAreInked
  <1> QED BY <1>1, <1>6, <1>7, <1>8

LEMMA JoinedLinesAreInked ==
    ASSUME NEW lines \in Seq(InkedText), lines # <<>>
    PROVE  JoinLines(lines) \in InkedText
  <1> DEFINE x == lines[Len(lines)]  g == <<Break>>
  <1>1. x \in InkedText OBVIOUS
  <1>2. PICK front \in Seq(InkedText) : lines = Append(front, x) BY FrontAndLast
  <1>3. g \in Seq(Char) BY CharTypes
  <1> HIDE DEF x, g
  <1>4. x \in Seq(Char) /\ front \in Seq(Seq(Char)) BY <1>1, <1>2 DEF InkedText, Text
  <1>5. Adds(front, x, g) /\ Join(front, g) \in Seq(Char) BY <1>3, <1>4, JoinAppend
  <1>6. JoinLines(lines) = Join(Append(front, x), g) BY <1>2 DEF JoinLines, g
  <1>7. PICK i \in 1..Len(x) : ~Blank(x[i])
    <2>1. DOMAIN x = 1..Len(x) BY <1>4
    <2> QED BY <1>1, <2>1 DEF InkedText, InkAt
  <1>8. CASE front = <<>>
    <2>1. JoinLines(lines) = x BY <1>5, <1>6, <1>8 DEF Adds
    <2> QED BY <1>1, <2>1
  <1>9. CASE front # <<>>
    <2> DEFINE a == Join(front, g)  gx == g \o x
    <2>1. /\ gx \in Seq(Char) /\ \A k \in 1..Len(x) : gx[Len(g) + k] = x[k]
          /\ Len(gx) = Len(g) + Len(x)
      BY <1>3, <1>4, Concatenation
    <2>2. JoinLines(lines) = a \o gx BY <1>5, <1>6, <1>9 DEF Adds
    <2> HIDE DEF a, gx
    <2>3. /\ a \o gx \in Seq(Char) /\ Len(a \o gx) = Len(a) + Len(gx)
          /\ \A k \in 1..Len(gx) : (a \o gx)[Len(a) + k] = gx[k]
      <3>1. a \in Seq(Char) BY <1>5 DEF a
      <3>2. \A v, w \in Seq(Char) :
               /\ v \o w \in Seq(Char) /\ Len(v \o w) = Len(v) + Len(w)
               /\ \A k \in 1..Len(w) : (v \o w)[Len(v) + k] = w[k]
        OBVIOUS
      <3> QED BY <2>1, <3>1, <3>2, Zenon
    <2> DEFINE j == Len(g) + i
    <2>4. j \in 1..Len(gx) /\ gx[j] = x[i]
      <3>1. Len(g) \in Nat /\ Len(x) \in Nat BY <1>3, <1>4
      <3> QED BY <2>1, <3>1
    <2> HIDE DEF j
    <2>5. Len(a) \in Nat /\ Len(gx) \in Nat BY <1>5, <2>1 DEF a
    <2>6. Len(a) + j \in 1..Len(a \o gx) /\ (a \o gx)[Len(a) + j] = x[i]
      BY <2>3, <2>4, <2>5
    <2>7. Len(a) + j \in InkAt(a \o gx) BY <1>7, <2>3, <2>6 DEF InkAt
    <2> QED BY <2>2, <2>3, <2>7 DEF InkedText, Text
  <1> QED BY <1>8, <1>9

\* A text with ink has a block with ink.
LEMMA PlainTextIsInked ==
    ASSUME NEW text \in InkedText, NEW page
    PROVE  LET blocks == PlainTextBlocks(text, page)
           IN \E i \in DOMAIN blocks : Strip(blocks[i].text) # <<>>
  <1> DEFINE paragraphs == Paragraphs(text)
             kind(line) == IF line[1][1] = "|" THEN "table" ELSE "text"
             lines(p) == Pieces(p, {i \in DOMAIN p : p[i][1] = "\n"})
             changes(ls) == {i \in 2..Len(ls) : kind(ls[i]) # kind(ls[i - 1])}
             runsOf(p) == Runs(lines(p), changes(lines(p)))
             parts == [k \in DOMAIN paragraphs |-> runsOf(paragraphs[k])]
             runs == FlattenSeq(parts)
             block(run) == [kind |-> kind(run[1]), text |-> JoinLines(run),
                            page |-> page, size |-> NoSize, bold |-> FALSE]
             L == Seq(InkedText)
             N == L \ {<<>>}
  <1>1. PlainTextBlocks(text, page) = [k \in DOMAIN runs |-> block(runs[k])]
    BY DEF PlainTextBlocks
  <1>2. paragraphs \in Seq(InkedText) /\ paragraphs # <<>>
    <2>1. text \in Text BY DEF InkedText
    <2> QED BY <2>1, ParagraphsAreInked
  <1>3. \A p \in InkedText : runsOf(p) \in Seq(N) /\ runsOf(p) # <<>>
    <2> TAKE p \in InkedText
    <2> DEFINE breaks == {i \in DOMAIN p : p[i][1] = "\n"}
               ls == Pieces(p, breaks)  C == changes(ls)
    <2>1. p \in Text /\ \E j \in InkAt(p) : j \notin breaks
      BY DEF InkedText, InkAt, Blank
    <2> HIDE DEF breaks
    <2>2. ls \in Seq(InkedText) /\ ls # <<>> BY <2>1, PiecesAreInked
    <2>3. runsOf(p) = Runs(ls, C) BY DEF breaks
    <2> HIDE DEF ls, C
    <2>4. /\ Runs(ls, C) \in Seq(L) /\ Runs(ls, C) # <<>>
          /\ \A k \in 1..Len(Runs(ls, C)) : Runs(ls, C)[k] # <<>>
      BY <2>2, RunsAreParts
    <2> DEFINE r == Runs(ls, C)
    <2> HIDE DEF r, L, runsOf
    <2>5. r \in Seq(N) BY <2>4 DEF r
    <2> QED BY <2>3, <2>4, <2>5 DEF r
  <1> HIDE DEF runsOf, paragraphs
  <1>4. DOMAIN paragraphs = 1..Len(paragraphs) /\ Len(paragraphs) \in Nat \ {0}
    BY <1>2
  <1>5. /\ parts \in Seq(Seq(N))
        /\ 1 \in 1..Len(parts) /\ parts[1] # <<>>
    <2> HIDE DEF N
    <2>1. \A k \in 1..Len(paragraphs) :
             runsOf(paragraphs[k]) \in Seq(N) /\ runsOf(paragraphs[k]) # <<>>
      BY <1>2, <1>3
    <2> QED BY <1>4, <2>1
  <1> HIDE DEF parts
  <1>6. runs \in Seq(N) /\ runs # <<>>
    <2> HIDE DEF N
    <2>1. /\ runs \in Seq(N)
          /\ ToSet(runs) = UNION {ToSet(parts[i]) : i \in 1..Len(parts)}
      BY <1>5, FlattenMembers
    <2>2. parts[1][1] \in ToSet(parts[1])
      <3>1. parts[1] \in Seq(N) /\ parts[1] # <<>> BY <1>5
      <3>2. 1 \in DOMAIN parts[1] BY <3>1
      <3> QED BY <3>2 DEF ToSet
    <2>3. ToSet(runs) # {} BY <1>5, <2>1, <2>2
    <2> HIDE DEF runs
    <2>4. ToSet(<<>>) = {} BY DEF ToSet
    <2> QED BY <2>1, <2>3, <2>4
  <1> HIDE DEF runs
  <1>7. 1 \in DOMAIN runs /\ runs[1] \in N
    <2> HIDE DEF N
    <2> QED BY <1>6
  <1>8. JoinLines(runs[1]) \in InkedText BY <1>7, JoinedLinesAreInked
  <1>9. Strip(JoinLines(runs[1])) # <<>>
    <2>1. JoinLines(runs[1]) \in Text BY <1>8 DEF InkedText
    <2> QED BY <1>8, <2>1, StripKeepsInk
  <1>10. block(runs[1]).text = JoinLines(runs[1]) OBVIOUS
  <1> HIDE DEF block
  <1> QED BY <1>1, <1>7, <1>9, <1>10

\* pypdf's page has a block with text exactly if it has text.
LEMMA PypdfPageHasText ==
    ASSUME NEW page \in Page, NEW number
    PROVE  LET blocks == PypdfPage(page, number)
           IN (\A i \in DOMAIN blocks : Strip(blocks[i].text) = <<>>)
                <=> Strip(page.plain) = <<>>
  <1> DEFINE p == Paragraphs(page.plain)
             block(t) == [kind |-> "text", text |-> t, page |-> number,
                          size |-> NoSize, bold |-> FALSE]
  <1>1. PypdfPage(page, number) = [i \in DOMAIN p |-> block(p[i])] BY DEF PypdfPage
  <1>2. page.plain \in Text BY PageFields
  <1>3. \A t : block(t).text = t OBVIOUS
  <1> HIDE DEF p, block
  <1>4. CASE page.plain \in InkedText
    <2>1. p \in Seq(InkedText) /\ p # <<>> BY <1>2, <1>4, ParagraphsAreInked DEF p
    <2>2. 1 \in DOMAIN p /\ p[1] \in InkedText BY <2>1
    <2>3. Strip(p[1]) # <<>>
      <3>1. p[1] \in Text BY <2>2 DEF InkedText
      <3> QED BY <2>2, <3>1, StripKeepsInk
    <2>4. Strip(page.plain) # <<>> BY <1>2, <1>4, StripKeepsInk
    <2> QED BY <1>1, <1>3, <2>2, <2>3, <2>4
  <1>5. CASE page.plain \notin InkedText
    <2>1. p = <<>> BY <1>2, <1>5, ParagraphsAreInked DEF p
    <2>2. Strip(page.plain) = <<>> BY <1>2, <1>5, StripKeepsInk
    <2>3. DOMAIN p = {} BY <2>1
    <2> QED BY <1>1, <2>2, <2>3
  <1> QED BY <1>4, <1>5

-----------------------------------------------------------------------------
(* From a file to the rows of its chunks.                                  *)

\* What OCR may have said of a page.
Replies == InkedText \cup {<<>>, NoAnswer, Waiting, Asked}

\* The inductive invariant: what is read is well formed, chunks fit, and the
\* rows so far are those of the first chunks, in their order.
Read ==
    /\ doc \in Documents
    /\ stage \in {"start", "ocr", "chunk", "embed", "stored", "failed"}
    /\ pages \in Seq(Seq(Block))
    /\ \A n \in DOMAIN ocr : /\ n \in 1..Len(doc.pages)
                             /\ ocr[n] \in Replies
Written ==
    /\ chunks \in Seq(FitChunks)
    /\ rows \in Seq([chunk : Nat, vector : Nat])
    /\ Len(rows) <= Len(chunks)
    /\ \A k \in 1..Len(rows) : rows[k] = [chunk |-> k, vector |-> k]
    /\ stage \in {"start", "ocr", "chunk"} => rows = <<>>
    /\ stage = "stored" => Len(rows) = Len(chunks)

LEMMA SelectedAreNumbers ==
    ASSUME NEW e, Len(e.pages) \in Nat
    PROVE  \A n \in Selected(e) : n \in 1..Len(e.pages) /\ n \in PagesWithoutText(e)
  <1> DEFINE m == Len(e.pages)
             U == PagesWithoutText(e)
             P == {n \in 1..m : n \in U}
             p == Places(U, m)
             k == SmallestOf({OcrMaxPages, Len(p)})
  <1>1. p \in Seq(P)
    <2>1. p \in Seq(1..m) /\ \A j \in 1..Len(p) : p[j] \in U BY PlacesRise DEF Rises
    <2>2. \A S, Q : \A q \in Seq(S) : (\A j \in 1..Len(q) : q[j] \in Q) => q \in Seq(Q)
      OBVIOUS
    <2>3. \A S : \A q \in Seq(S) : \A j \in 1..Len(q) : q[j] \in S OBVIOUS
    <2> DEFINE M == 1..m
    <2>4. \A x \in M : x \in U => x \in P OBVIOUS
    <2>5. p \in Seq(M) BY <2>1
    <2> HIDE DEF p, U, P, M
    <2>6. \A j \in 1..Len(p) : p[j] \in P BY <2>1, <2>3, <2>4, <2>5
    <2> QED BY <2>2, <2>5, <2>6
  <1>2. Selected(e) = ToSet(SubSeq(p, 1, k)) BY DEF Selected
  <1>3. Len(p) \in Nat /\ OcrMaxPages \in Nat BY <1>1, DocumentsAssumption
  <1> HIDE DEF p
  <1>4. k \in Nat /\ k <= Len(p)
    <2>1. \A a, b \in Nat : SmallestOf({a, b}) \in {a, b} /\ SmallestOf({a, b}) <= b
      <3> TAKE a, b \in Nat
      <3>1. \E x \in {a, b} : \A y \in {a, b} : x <= y OBVIOUS
      <3> QED BY <3>1 DEF SmallestOf
    <2>2. k \in {OcrMaxPages, Len(p)} /\ k <= Len(p) BY <1>3, <2>1
    <2> QED BY <1>3, <2>2
  <1> HIDE DEF k
  <1>5. \A S : \A q \in Seq(S) : \A j \in 0..Len(q) :
            \A i \in 1..Len(SubSeq(q, 1, j)) : SubSeq(q, 1, j)[i] \in S
    OBVIOUS
  <1>6. k \in 0..Len(p) BY <1>3, <1>4
  <1> HIDE DEF P
  <1>7. \A i \in 1..Len(SubSeq(p, 1, k)) : SubSeq(p, 1, k)[i] \in P
    BY <1>1, <1>5, <1>6
  <1>8. DOMAIN SubSeq(p, 1, k) = 1..Len(SubSeq(p, 1, k)) BY <1>1, <1>6
  <1>9. ToSet(SubSeq(p, 1, k)) \subseteq P BY <1>7, <1>8 DEF ToSet
  <1> QED BY <1>2, <1>9 DEF P, m, U

\* A batch is a part of the chunks without rows, and they are taken in order.
LEMMA BatchesFollow ==
    ASSUME Written
    PROVE  LET a == Len(rows)  n == Len(chunks)
           IN \E b \in a..n : /\ Batch = (a + 1)..b
                              /\ Batch = {} => a = n
                              /\ Cardinality(Batch) = b - a
  <1> DEFINE a == Len(rows)  n == Len(chunks)
             b == SmallestOf({a + BatchSize, n})
  <1>1. a \in Nat /\ n \in Nat /\ a <= n BY DEF Written
  <1>2. BatchSize \in Nat \ {0} BY DocumentsAssumption
  <1>3. Batch = (a + 1)..b BY DEF Batch
  <1> HIDE DEF a, n
  <1>4. \A x, y \in Nat : SmallestOf({x, y}) \in {x, y}
    <2> TAKE x, y \in Nat
    <2>1. \E u \in {x, y} : \A v \in {x, y} : u <= v OBVIOUS
    <2> QED BY <2>1 DEF SmallestOf
  <1>5. b \in {a + BatchSize, n} /\ b <= n
    <2>1. a + BatchSize \in Nat BY <1>1, <1>2
    <2>2. \A x, y \in Nat : SmallestOf({x, y}) <= y
      <3> TAKE x, y \in Nat
      <3>1. \E u \in {x, y} : \A v \in {x, y} : u <= v OBVIOUS
      <3> QED BY <3>1 DEF SmallestOf
    <2> QED BY <1>1, <1>4, <2>1, <2>2
  <1> HIDE DEF b
  <1>6. b \in a..n BY <1>1, <1>2, <1>5
  <1>7. Batch = {} => a = n BY <1>1, <1>2, <1>3, <1>5
  <1>8. Cardinality((a + 1)..b) = b - a
    <2>1. a + 1 \in Int /\ b \in Int BY <1>1, <1>6
    <2>2. Cardinality((a + 1)..b) = IF a + 1 > b THEN 0 ELSE b - (a + 1) + 1
      BY <2>1, FS_Interval
    <2> QED BY <1>1, <1>6, <2>2
  <1>9. Cardinality(Batch) = b - a BY <1>3, <1>8
  <1> QED BY <1>3, <1>6, <1>7, <1>9 DEF a, n

\* However many vectors the answer has, the batch gets the vectors of its own
\* chunks: an answer of another length is thrown away, and one of this length
\* has them all.
LEMMA EveryTextIsEmbedded ==
    ASSUME Written, NEW got \in SUBSET Batch
    PROVE  Embeddings(Places(got, Len(chunks))) = Places(Batch, Len(chunks))
  <1> DEFINE n == Len(chunks)  answer == Places(got, n)
  <1>1. PICK b \in Len(rows)..n : Batch = (Len(rows) + 1)..b BY BatchesFollow
  <1>2. n \in Nat /\ Len(rows) \in Nat BY DEF Written
  <1>3. IsFiniteSet(Batch) BY <1>1, <1>2, FS_Interval
  <1>4. Rises(answer, got, n) BY <1>2, PlacesRise
  <1>5. Batch \subseteq 1..n BY <1>1, <1>2
  <1> HIDE DEF n, answer
  <1>6. CASE Len(answer) = Cardinality(Batch)
    <2>1. Len(answer) \in Nat /\ answer \in [1..Len(answer) -> got]
      BY <1>4 DEF Rises
    <2>2. \A x \in got : \E k \in 1..Len(answer) : answer[k] = x
      BY <1>4, <1>5 DEF Rises
    <2>3. \A k, l \in 1..Len(answer) : answer[k] = answer[l] => k = l
      <3>1. \A k, l \in 1..Len(answer) :
               /\ k \in Nat /\ l \in Nat /\ answer[k] \in Int /\ answer[l] \in Int
               /\ k < l => answer[k] < answer[l]
        BY <1>2, <1>4 DEF Rises, n
      <3> QED BY <3>1
    <2>4. answer \in Bijection(1..Len(answer), got)
      BY <2>1, <2>2, <2>3 DEF Bijection, Injection, Surjection, IsInjective
    <2>5. Cardinality(got) = Len(answer)
      <3>1. IsFiniteSet(got) BY <1>3, FS_Subset
      <3>2. ExistsBijection(1..Len(answer), got) BY <2>4 DEF ExistsBijection
      <3> QED BY <2>1, <3>1, <3>2, FS_CountingElements
    <2>6. got = Batch BY <1>3, <1>6, <2>5, FS_Subset
    <2> QED BY <1>6, <2>6 DEF Embeddings, answer, n
  <1>7. CASE Len(answer) # Cardinality(Batch) BY <1>7 DEF Embeddings, answer, n
  <1> QED BY <1>6, <1>7 DEF answer, n

LEMMA BatchesAreRows ==
    ASSUME Written, stage = "embed", EmbedBatch PROVE Written'
  <1> DEFINE a == Len(rows)  n == Len(chunks)
             vectors == Places(Batch, n)
  <1>1. PICK b \in a..n : Batch = (a + 1)..b /\ Cardinality(Batch) = b - a
    BY BatchesFollow
  <1>2. n \in Nat /\ a \in Nat /\ b \in Nat BY <1>1 DEF Written
  <1>3. /\ Len(vectors) = b - a
        /\ \A k \in 1..(b - a) : vectors[k] = a + k
    <2>1. a \in 0..n BY <1>2, <1>1
    <2> HIDE DEF a, n
    <2>2. /\ Len(Places((a + 1)..b, n)) = b - a
          /\ \A k \in 1..(b - a) : Places((a + 1)..b, n)[k] = a + k
      BY <1>1, <1>2, <2>1, PlacesOfInterval
    <2> QED BY <1>1, <2>2
  <1> DEFINE more == [k \in 1..(b - a) |-> [chunk |-> a + k, vector |-> a + k]]
  <1>4. rows' = rows \o more
    <2>1. PICK got \in SUBSET Batch :
             LET v == Embeddings(Places(got, Len(chunks)))
                 first == Len(rows)
                 paired == SmallestOf({Len(v), Cardinality(Batch)})
             IN rows' = rows \o [k \in 1..paired |->
                            [chunk |-> first + k, vector |-> v[k]]]
      BY DEF EmbedBatch
    <2>2. Embeddings(Places(got, n)) = vectors BY EveryTextIsEmbedded
    <2> DEFINE paired == SmallestOf({Len(vectors), Cardinality(Batch)})
    <2>3. rows' = rows \o [k \in 1..paired |-> [chunk |-> a + k, vector |-> vectors[k]]]
      BY <2>1, <2>2
    <2>4. paired = b - a
      <3>1. \A x \in Nat : SmallestOf({x, x}) = x BY DEF SmallestOf
      <3>2. b - a \in Nat BY <1>2
      <3> QED BY <1>1, <1>3, <3>1, <3>2
    <2>5. [k \in 1..paired |-> [chunk |-> a + k, vector |-> vectors[k]]] = more
      <3> HIDE DEF paired, vectors, a
      <3> QED BY <1>3, <2>4
    <2> HIDE DEF more, paired
    <2> QED BY <2>3, <2>5
  <1> DEFINE Row == [chunk : Nat, vector : Nat]
  <1>5. rows \in Seq(Row) /\ \A k \in 1..a : rows[k] = [chunk |-> k, vector |-> k]
    BY DEF Written
  <1>6. /\ more \in Seq(Row) /\ Len(more) = b - a
        /\ \A k \in 1..(b - a) : more[k] = [chunk |-> a + k, vector |-> a + k]
    <2>1. \A k \in 1..(b - a) : [chunk |-> a + k, vector |-> a + k] \in Row BY <1>2
    <2>2. b - a \in Nat BY <1>2
    <2>3. \A k \in 1..(b - a) : more[k] = [chunk |-> a + k, vector |-> a + k]
      OBVIOUS
    <2>4. \A m \in Nat : \A f \in [1..m -> Row] : f \in Seq(Row) /\ Len(f) = m
      <3> HIDE DEF Row
      <3> QED OBVIOUS
    <2> HIDE DEF Row
    <2>5. more \in [1..(b - a) -> Row] BY <2>1
    <2> HIDE DEF more
    <2> QED BY <2>2, <2>3, <2>4, <2>5
  <1> HIDE DEF more, Row
  <1>7. /\ rows' \in Seq(Row) /\ Len(rows') = a + (b - a)
        /\ \A k \in 1..a : (rows')[k] = rows[k]
        /\ \A k \in 1..(b - a) : (rows')[a + k] = more[k]
    <2>1. /\ Len(rows \o more) = Len(rows) + Len(more)
          /\ \A k \in 1..Len(rows) : (rows \o more)[k] = rows[k]
          /\ \A k \in 1..Len(more) : (rows \o more)[Len(rows) + k] = more[k]
      BY <1>5, <1>6, Concatenation
    <2>2. rows \o more \in Seq(Row) BY <1>5, <1>6
    <2> QED BY <1>4, <1>6, <2>1, <2>2
  <1>8. \A k \in 1..b : (rows')[k] = [chunk |-> k, vector |-> k]
    <2> TAKE k \in 1..b
    <2>1. CASE k \in 1..a BY <1>5, <1>7, <2>1
    <2>2. CASE k \notin 1..a
      <3> DEFINE j == k - a
      <3>1. j \in 1..(b - a) /\ a + j = k BY <1>2, <2>2
      <3> HIDE DEF j
      <3> QED BY <1>6, <1>7, <3>1
    <2> QED BY <2>1, <2>2
  <1>9. Len(rows') = b BY <1>2, <1>7
  <1>10. chunks' = chunks /\ stage' = "embed" BY DEF EmbedBatch
  <1>11. /\ chunks \in Seq(FitChunks) /\ Len(rows') <= Len(chunks)
    BY <1>1, <1>2, <1>9 DEF Written
  <1> QED BY <1>7, <1>8, <1>9, <1>10, <1>11 DEF Written, Row

-----------------------------------------------------------------------------
(* Every step keeps it.                                                    *)

LEMMA ReadAtFirst ==
    ASSUME Init PROVE Read /\ Written
  <1>1. /\ doc \in Documents /\ stage = "start" /\ pages = <<>> /\ ocr = <<>>
        /\ chunks = <<>> /\ rows = <<>>
    BY DEF Init
  <1>2. Read
    <2>1. pages \in Seq(Seq(Block)) /\ DOMAIN ocr = {}
      <3> DEFINE B == Seq(Block)
      <3> HIDE DEF B
      <3>1. pages \in Seq(B) BY <1>1
      <3>2. DOMAIN ocr = {} BY <1>1
      <3> QED BY <3>1, <3>2 DEF B
    <2> QED BY <1>1, <2>1 DEF Read
  <1>3. Written BY <1>1 DEF Written
  <1> QED BY <1>2, <1>3

LEMMA DocumentsAreFiles ==
    ASSUME doc \in Documents
    PROVE  /\ doc.pages \in Seq(Page) /\ Len(doc.pages) \in Nat
           /\ \A n \in 1..Len(doc.pages) : doc.answers[n] \in SUBSET Text
  <1>1. doc.pages \in Seq(Page) /\ doc.answers \in [1..Len(doc.pages) -> SUBSET Text]
    BY DocumentsAssumption
  <1> QED BY <1>1

LEMMA ExtractReads ==
    ASSUME Read, Written, Extract PROVE (Read /\ Written)'
  <1> DEFINE e == ExtractPdf(doc.pages)
  <1>1. /\ stage = "start" /\ pages' = e.pages
        /\ ocr' = [n \in Selected(e) |-> Waiting]
        /\ stage' \in {"chunk", "ocr"}
        /\ doc' = doc /\ chunks' = chunks /\ rows' = rows
    BY DEF Extract
  <1>2. doc \in Documents /\ doc.pages \in Seq(Page) /\ Len(doc.pages) \in Nat
    BY DocumentsAreFiles DEF Read
  <1>3. e.pages \in Seq(Seq(Block)) /\ Len(e.pages) = Len(doc.pages)
    BY <1>2, ExtractionIsTyped
  <1> HIDE DEF e
  <1>4. \A n \in Selected(e) : n \in 1..Len(doc.pages)
    BY <1>2, <1>3, SelectedAreNumbers
  <1>5. \A n \in DOMAIN ocr' : n \in 1..Len(doc'.pages) /\ ocr'[n] \in Replies
    BY <1>1, <1>4 DEF Replies
  <1>6. Read' BY <1>1, <1>2, <1>3, <1>5 DEF Read
  <1>7. Written' BY <1>1 DEF Written
  <1> QED BY <1>6, <1>7

LEMMA AnswersAreReplies ==
    ASSUME Read, NEW n \in DOMAIN ocr, AskPage(n) \/ AnswerPage(n)
    PROVE  Read'
  <1>1. /\ doc' = doc /\ stage' = stage /\ pages' = pages
    BY DEF AskPage, AnswerPage
  <1>2. \E reply \in Replies : ocr' = [ocr EXCEPT ![n] = reply]
    <2>1. CASE AskPage(n) BY <2>1 DEF AskPage, Replies
    <2>2. CASE AnswerPage(n)
      <3>1. PICK text \in doc.answers[n] \cup {NoAnswer} :
              ocr' = [ocr EXCEPT ![n] = IF text = NoAnswer THEN text ELSE Strip(text)]
        BY <2>2 DEF AnswerPage
      <3> DEFINE reply == IF text = NoAnswer THEN text ELSE Strip(text)
      <3>2. doc.answers[n] \in SUBSET Text BY DocumentsAreFiles DEF Read
      <3>3. reply \in Replies
        <4>1. CASE text = NoAnswer BY <4>1 DEF Replies
        <4>2. CASE text # NoAnswer BY <3>1, <3>2, <4>2, StripKeepsInk DEF Replies
        <4> QED BY <4>1, <4>2
      <3> QED BY <3>1, <3>3
    <2> QED BY <2>1, <2>2
  <1>3. \A m \in DOMAIN ocr' : m \in 1..Len(doc'.pages) /\ ocr'[m] \in Replies
    BY <1>1, <1>2 DEF Read
  <1> QED BY <1>1, <1>3 DEF Read

LEMMA ReadPagesAreBlocks ==
    ASSUME Read, ApplyOcr PROVE Read'
  <1> DEFINE B == Seq(Block)
             page(n) == IF n \in ReadByOcr /\ ocr[n] # NoAnswer
                        THEN PlainTextBlocks(ocr[n], n) ELSE pages[n]
  <1>1. /\ doc' = doc /\ ocr' = ocr /\ stage' = "chunk"
        /\ pages' = [n \in DOMAIN pages |-> page(n)]
    BY DEF ApplyOcr
  <1>2. pages \in Seq(B) BY DEF Read
  <1>3. \A n \in 1..Len(pages) : page(n) \in B
    <2> TAKE n \in 1..Len(pages)
    <2>1. CASE n \in ReadByOcr /\ ocr[n] # NoAnswer
      <3>1. n \in DOMAIN ocr BY <2>1 DEF ReadByOcr
      <3>2. ocr[n] \in Replies /\ ocr[n] \notin {<<>>, Waiting, Asked, NoAnswer}
        BY <2>1, <3>1 DEF Read, ReadByOcr, ApplyOcr
      <3>3. ocr[n] \in Text /\ n \in Nat BY <3>2 DEF Replies, InkedText
      <3> QED BY <2>1, <3>3, PlainTextIsBlocks
    <2>2. CASE ~(n \in ReadByOcr /\ ocr[n] # NoAnswer)
      <3>1. page(n) = pages[n] BY <2>2
      <3> HIDE DEF B
      <3> QED BY <1>2, <3>1
    <2> QED BY <2>1, <2>2
  <1> HIDE DEF B, page
  <1>4. pages' \in Seq(B) BY <1>1, <1>2, <1>3
  <1>5. stage' \in {"start", "ocr", "chunk", "embed", "stored", "failed"} BY <1>1
  <1> QED BY <1>1, <1>4, <1>5 DEF Read, B

LEMMA ChunkPagesFits ==
    ASSUME Read, Written, ChunkPages PROVE (Read /\ Written)'
  <1>1. /\ stage = "chunk" /\ chunks' = ChunkDocument(FlattenSeq(pages))
        /\ stage' \in {"failed", "embed"}
        /\ doc' = doc /\ pages' = pages /\ ocr' = ocr /\ rows' = rows
    BY DEF ChunkPages
  <1>2. FlattenSeq(pages) \in Seq(Block) BY FlattenMembers DEF Read
  <1>3. chunks' \in Seq(FitChunks) BY <1>1, <1>2, ChunkDocumentFits
  <1>4. rows = <<>> BY <1>1 DEF Written
  <1>5. Len(chunks') \in Nat
    <2> HIDE DEF FitChunks
    <2> QED BY <1>3
  <1>6. Written' BY <1>1, <1>3, <1>4, <1>5 DEF Written
  <1>7. Read' BY <1>1 DEF Read
  <1> QED BY <1>6, <1>7

LEMMA ReadStep ==
    ASSUME Read, Written, [Next]_vars PROVE (Read /\ Written)'
  <1>1. CASE Extract BY <1>1, ExtractReads
  <1>2. CASE Raise BY <1>2 DEF Raise, Read, Written
  <1>3. CASE \E n \in DOMAIN ocr : AskPage(n) \/ AnswerPage(n)
    <2>1. chunks' = chunks /\ rows' = rows /\ stage' = stage
      BY <1>3 DEF AskPage, AnswerPage
    <2> QED BY <1>3, <2>1, AnswersAreReplies DEF Written
  <1>4. CASE ApplyOcr
    <2>1. chunks' = chunks /\ rows' = rows /\ stage = "ocr" /\ stage' = "chunk"
      BY <1>4 DEF ApplyOcr
    <2> QED BY <1>4, <2>1, ReadPagesAreBlocks DEF Written
  <1>5. CASE ChunkPages BY <1>5, ChunkPagesFits
  <1>6. CASE EmbedBatch
    <2>1. stage = "embed" /\ UNCHANGED <<doc, stage, pages, ocr>> BY <1>6 DEF EmbedBatch
    <2> QED BY <1>6, <2>1, BatchesAreRows DEF Read
  <1>7. CASE Store
    <2>1. /\ stage' = "stored" /\ Batch = {}
          /\ UNCHANGED <<doc, pages, ocr, chunks, rows>>
      BY <1>7 DEF Store
    <2>2. Len(rows) = Len(chunks) BY <2>1, BatchesFollow
    <2> QED BY <2>1, <2>2 DEF Read, Written
  <1>8. CASE UNCHANGED vars BY <1>8 DEF vars, Read, Written
  <1> QED BY <1>1, <1>2, <1>3, <1>4, <1>5, <1>6, <1>7, <1>8 DEF Next

\* What is read stays well formed: the blocks of every page, the answers of OCR
\* for the pages that were selected, the chunks and the rows so far.
THEOREM ReadingIsTyped == Spec => [](Read /\ Written)
  <1>1. Init => Read /\ Written BY ReadAtFirst
  <1>2. Read /\ Written /\ [Next]_vars => (Read /\ Written)' BY ReadStep
  <1> QED BY <1>1, <1>2, PTL DEF Spec

LEMMA FitChunksFit == ASSUME Written PROVE ChunksFit
  <1> SUFFICES ASSUME NEW k \in DOMAIN chunks
               PROVE  LET t == chunks[k].text IN
                      IF chunks[k].chunk_type = "table"
                      THEN Len(t) <= MaxTableChars \/ Len(LinesOf(t)) = 3
                      ELSE \/ Len(t) <= MaxChars
                           \/ /\ 2 * Len(t) <= 3 * MaxChars
                              /\ Introduces(t)
    BY DEF ChunksFit, Introduces
  <1>1. chunks[k] \in FitChunks
    <2>1. chunks \in Seq(FitChunks) BY DEF Written
    <2> QED BY <2>1
  <1>2. CASE chunks[k] \in TextChunk
    <2>1. chunks[k].text \in FitTexts /\ chunks[k].chunk_type = "text"
      BY <1>2 DEF TextChunk
    <2> QED BY <2>1 DEF FitTexts
  <1>3. CASE chunks[k] \in TableChunk
    <2>1. chunks[k].text \in PartTexts(MaxTableChars) /\ chunks[k].chunk_type = "table"
      BY <1>3 DEF TableChunk
    <2> QED BY <2>1 DEF PartTexts
  <1> QED BY <1>1, <1>2, <1>3 DEF FitChunks

\* Whatever a document holds, and whichever of its pages OCR reads: a chunk of
\* text is over the limit only where an intro line ending in ":" keeps what it
\* introduces, and then by half at most, and a part of a table is over its own
\* limit only if it has one row (chunk_document, split_oversize, _hard_split).
THEOREM ChunksAlwaysFit == Spec => []ChunksFit
  <1>1. Written => ChunksFit BY FitChunksFit
  <1> QED BY <1>1, ReadingIsTyped, PTL

\* Every stored chunk has the vector of its own text, however many vectors the
\* answers held, and a document is stored with all of its chunks (embed_texts,
\* and the zip of chunks and vectors in ingest_document).
THEOREM VectorsArePaired == Spec => []VectorsPaired
  <1>1. Written => VectorsPaired
    <2> SUFFICES ASSUME Written PROVE VectorsPaired OBVIOUS
    <2>1. DOMAIN rows = 1..Len(rows) BY DEF Written
    <2> QED BY <2>1 DEF Written, VectorsPaired
  <1> QED BY <1>1, ReadingIsTyped, PTL

-----------------------------------------------------------------------------
(* Warnings.                                                               *)

\* From the extraction on, the pages that are warned about are those that must be.
ToWarn(ps) ==
    {n \in PagesWithoutText([pages |-> ps]) :
        \/ ~HasChars(doc.pages[n])
        \/ \E m \in DOMAIN ps : doc.pages[m].broken}
Told == stage \notin {"start", "failed"} => warned = ToWarn(pages)

LEMMA ExtractionTells ==
    ASSUME doc \in Documents
    PROVE  ExtractPdf(doc.pages).warned = ToWarn(ExtractPdf(doc.pages).pages)
  <1> DEFINE file == doc.pages
             layout == [n \in DOMAIN file |-> ExtractPage(file[n], n)]
             plain == [n \in DOMAIN file |-> PypdfPage(file[n], n)]
             broken == \E n \in DOMAIN file : file[n].broken
  <1>1. file \in Seq(Page) BY DocumentsAreFiles
  <1>2. CASE broken
    <2>1. /\ ExtractPdf(file).pages = plain
          /\ ExtractPdf(file).warned = {n \in DOMAIN file : Strip(file[n].plain) = <<>>}
      BY <1>2 DEF ExtractPdf
    <2>2. ASSUME NEW n \in DOMAIN file
          PROVE  (\A i \in DOMAIN plain[n] : Strip(plain[n][i].text) = <<>>)
                    <=> Strip(file[n].plain) = <<>>
      <3>1. file[n] \in Page BY <1>1
      <3> QED BY <3>1, PypdfPageHasText
    <2>3. DOMAIN plain = DOMAIN file OBVIOUS
    <2>4. PagesWithoutText([pages |-> plain])
             = {n \in DOMAIN plain : \A i \in DOMAIN plain[n] : Strip(plain[n][i].text) = <<>>}
      BY DEF PagesWithoutText
    <2>5. \E m \in DOMAIN plain : doc.pages[m].broken BY <1>2
    <2> HIDE DEF plain
    <2>6. ToWarn(plain) = {n \in DOMAIN file : Strip(file[n].plain) = <<>>}
      BY <2>2, <2>3, <2>4, <2>5 DEF ToWarn
    <2> QED BY <2>1, <2>6
  <1>3. CASE ~broken
    <2>1. /\ ExtractPdf(file).pages = layout
          /\ ExtractPdf(file).warned = {n \in DOMAIN file : ~HasChars(file[n])}
      BY <1>3 DEF ExtractPdf
    <2>2. ASSUME NEW n \in DOMAIN file, ~HasChars(file[n])
          PROVE  DOMAIN layout[n] = {}
      <3>1. layout[n] = <<>> BY <2>2 DEF ExtractPage
      <3> QED BY <3>1
    <2>3. DOMAIN layout = DOMAIN file OBVIOUS
    <2>4. PagesWithoutText([pages |-> layout])
             = {n \in DOMAIN layout :
                   \A i \in DOMAIN layout[n] : Strip(layout[n][i].text) = <<>>}
      BY DEF PagesWithoutText
    <2>5. ~ \E m \in DOMAIN layout : doc.pages[m].broken BY <1>3
    <2> HIDE DEF layout
    <2>6. ToWarn(layout) = {n \in DOMAIN file : ~HasChars(file[n])}
      BY <2>2, <2>3, <2>4, <2>5 DEF ToWarn
    <2> QED BY <2>1, <2>6
  <1> QED BY <1>2, <1>3

LEMMA OcrTells ==
    ASSUME Read, Told, ApplyOcr PROVE Told'
  <1>1. /\ doc' = doc /\ stage = "ocr" /\ stage' = "chunk"
        /\ pages' = [n \in DOMAIN pages |->
                        IF n \in ReadByOcr /\ ocr[n] # NoAnswer
                        THEN PlainTextBlocks(ocr[n], n) ELSE pages[n]]
        /\ warned' = warned \ ReadByOcr
    BY DEF ApplyOcr
  <1>2. DOMAIN pages' = DOMAIN pages BY <1>1
  <1>3. ASSUME NEW n \in DOMAIN pages
        PROVE  (\A i \in DOMAIN pages'[n] : Strip(pages'[n][i].text) = <<>>)
                  <=> /\ n \notin ReadByOcr
                      /\ \A i \in DOMAIN pages[n] : Strip(pages[n][i].text) = <<>>
    <2>1. CASE n \in ReadByOcr
      <3>1. n \in DOMAIN ocr /\ ocr[n] \notin {<<>>, NoAnswer} BY <2>1 DEF ReadByOcr
      <3>2. ocr[n] \in Replies /\ ocr[n] \notin {Waiting, Asked}
        BY <3>1 DEF Read, ApplyOcr
      <3>3. ocr[n] \in InkedText BY <3>1, <3>2 DEF Replies
      <3>4. pages'[n] = PlainTextBlocks(ocr[n], n) BY <1>1, <2>1, <3>1
      <3> QED BY <2>1, <3>3, <3>4, PlainTextIsInked
    <2>2. CASE n \notin ReadByOcr
      <3>1. pages'[n] = pages[n] BY <1>1, <2>2
      <3> QED BY <2>2, <3>1
    <2> QED BY <2>1, <2>2
  <1> DEFINE after == pages'
  <1>4. \A ps : PagesWithoutText([pages |-> ps])
           = {n \in DOMAIN ps : \A i \in DOMAIN ps[n] : Strip(ps[n][i].text) = <<>>}
    BY DEF PagesWithoutText
  <1>5. PagesWithoutText([pages |-> after])
           = PagesWithoutText([pages |-> pages]) \ ReadByOcr
    BY <1>2, <1>3, <1>4
  <1>6. ToWarn(after) = ToWarn(pages) \ ReadByOcr BY <1>2, <1>5 DEF ToWarn
  <1>7. warned' = ToWarn(after) BY <1>1, <1>6 DEF Told
  <1>8. ToWarn(pages)' = ToWarn(after) BY <1>1 DEF ToWarn
  <1> QED BY <1>7, <1>8 DEF Told

LEMMA ToldStep ==
    ASSUME Read, Told, [Next]_vars PROVE Told'
  <1>1. CASE Extract
    <2>1. /\ doc' = doc /\ pages' = ExtractPdf(doc.pages).pages
          /\ warned' = ExtractPdf(doc.pages).warned
      BY <1>1 DEF Extract
    <2>2. warned' = ToWarn(pages') BY <2>1, ExtractionTells DEF Read
    <2>3. ToWarn(pages)' = ToWarn(pages') BY <2>1 DEF ToWarn
    <2> QED BY <2>2, <2>3 DEF Told
  <1>2. CASE Raise BY <1>2 DEF Raise, Told
  <1>3. CASE ApplyOcr BY <1>3, OcrTells
  <1>4. CASE UNCHANGED <<doc, pages, warned>> /\ (stage' = stage \/ stage \notin {"start", "failed"})
    <2>1. ToWarn(pages)' = ToWarn(pages) BY <1>4 DEF ToWarn
    <2> QED BY <1>4, <2>1 DEF Told
  <1>5. CASE \E n \in DOMAIN ocr : AskPage(n) \/ AnswerPage(n)
    BY <1>4, <1>5 DEF AskPage, AnswerPage
  <1>6. CASE ChunkPages BY <1>4, <1>6 DEF ChunkPages
  <1>7. CASE EmbedBatch BY <1>4, <1>7 DEF EmbedBatch
  <1>8. CASE Store BY <1>4, <1>8 DEF Store
  <1>9. CASE UNCHANGED vars BY <1>4, <1>9 DEF vars
  <1> QED BY <1>1, <1>2, <1>3, <1>5, <1>6, <1>7, <1>8, <1>9 DEF Next

\* When the text is chunked, a page is warned about exactly if it still has no
\* text, whatever the layout, pypdf and OCR made of it (_extract_page,
\* _extract_with_pypdf, apply_ocr); pages whose characters are all blank never
\* are, unless pypdf read the file.
THEOREM WarningsAreTrue == Spec => []WarningsTrue
  <1>1. Init => Told BY DEF Init, Told
  <1>2. Read /\ Written /\ Told /\ [Next]_vars => Told' BY ToldStep
  <1>3. Told => WarningsTrue BY DEF Told, WarningsTrue, Chunked, ToWarn
  <1>4. Spec => []Told BY <1>1, <1>2, ReadingIsTyped, PTL DEF Spec
  <1> QED BY <1>3, <1>4, PTL

-----------------------------------------------------------------------------
(* No ink is lost.                                                         *)

\* The inks of a text are those of its characters that are not blank.
LEMMA InkedBy ==
    ASSUME NEW t
    PROVE  \A x : x \in InkSet(t) <=> x # 0 /\ \E c \in ToSet(t) : ~Blank(c) /\ c[2] = x
  <1>1. \A x : x \in InkSet(t) <=> x # 0 /\ \E i \in DOMAIN t : ~Blank(t[i]) /\ t[i][2] = x
    BY DEF InkSet, InkAt
  <1>2. \A c : c \in ToSet(t) <=> \E i \in DOMAIN t : t[i] = c BY DEF ToSet
  <1> QED BY <1>1, <1>2, Zenon

LEMMA InkGrows ==
    ASSUME NEW t, NEW u, \A c \in ToSet(t) : ~Blank(c) => c \in ToSet(u)
    PROVE  InkSet(t) \subseteq InkSet(u)
  BY InkedBy, Zenon

LEMMA InkOfTwo ==
    ASSUME NEW a \in Text, NEW b \in Text
    PROVE  InkSet(a \o b) = InkSet(a) \cup InkSet(b)
  <1>1. ToSet(a \o b) = ToSet(a) \cup ToSet(b) BY MembersOfJoin DEF Text
  <1>2. \A x : x \in InkSet(a \o b) <=> x \in InkSet(a) \/ x \in InkSet(b)
    BY <1>1, InkedBy, Zenon
  <1> QED BY <1>2

LEMMA InkOfNothing == InkSet(<<>>) = {}
  BY DEF InkSet, InkAt

LEMMA InkOfStrip ==
    ASSUME NEW t \in Text
    PROVE  InkSet(Strip(t)) = InkSet(t)
  <1> DEFINE s == Strip(t)
  <1>1. CASE InkAt(t) = {}
    <2>1. s = <<>> BY <1>1, StripIsPart
    <2>2. InkSet(t) = {} BY <1>1 DEF InkSet
    <2> QED BY <2>1, <2>2, InkOfNothing
  <1>2. CASE InkAt(t) # {}
    <2>1. PICK a \in 1..Len(t), b \in 1..Len(t) :
             /\ a <= b
             /\ \A i \in InkAt(t) : a <= i /\ i <= b
             /\ Len(s) = b - a + 1
             /\ \A i \in 1..(b - a + 1) : s[i] = t[a + i - 1]
      BY <1>2, StripIsPart
    <2>2. s \in Text BY StripIsPart
    <2>3. DOMAIN s = 1..(b - a + 1) /\ DOMAIN t = 1..Len(t) /\ Len(t) \in Nat
      BY <2>1, <2>2 DEF Text
    <2> HIDE DEF s
    <2>4. ASSUME NEW c \in ToSet(s) PROVE c \in ToSet(t)
      <3>1. PICK i \in 1..(b - a + 1) : s[i] = c BY <2>3 DEF ToSet
      <3>2. a + i - 1 \in DOMAIN t BY <2>1, <2>3
      <3> QED BY <2>1, <3>1, <3>2 DEF ToSet
    <2>5. ASSUME NEW c \in ToSet(t), ~Blank(c) PROVE c \in ToSet(s)
      <3>1. PICK i \in DOMAIN t : t[i] = c BY DEF ToSet
      <3>2. i \in InkAt(t) BY <2>5, <3>1 DEF InkAt
      <3>3. a <= i /\ i <= b BY <2>1, <3>2
      <3>4. i - a + 1 \in 1..(b - a + 1) /\ a + (i - a + 1) - 1 = i BY <2>1, <2>3, <3>1, <3>3
      <3>5. s[i - a + 1] = c BY <2>1, <3>1, <3>4
      <3> QED BY <2>3, <3>4, <3>5 DEF ToSet
    <2>6. InkSet(s) \subseteq InkSet(t) BY <2>4, InkGrows
    <2>7. InkSet(t) \subseteq InkSet(s) BY <2>5, InkGrows
    <2> QED BY <2>6, <2>7 DEF s
  <1> QED BY <1>1, <1>2

\* The inks of some texts are those of all of them.
LEMMA InksAreUnion ==
    ASSUME NEW texts
    PROVE  \A x : x \in InksOf(texts) <=> \E t \in texts : x \in InkSet(t)
  BY DEF InksOf

LEMMA InkOfFlatten ==
    ASSUME NEW parts \in Seq(Text)
    PROVE  InkSet(FlattenSeq(parts)) = InksOf(ToSet(parts))
  <1>1. ToSet(FlattenSeq(parts)) = UNION {ToSet(parts[k]) : k \in 1..Len(parts)}
    BY FlattenMembers DEF Text
  <1>2. DOMAIN parts = 1..Len(parts) BY DEF Text
  <1>3. \A c : c \in ToSet(FlattenSeq(parts)) <=> \E t \in ToSet(parts) : c \in ToSet(t)
    <2>1. \A t : t \in ToSet(parts) <=> \E k \in 1..Len(parts) : parts[k] = t
      BY <1>2 DEF ToSet
    <2> QED BY <1>1, <2>1
  <1>4. ASSUME NEW x \in InkSet(FlattenSeq(parts)) PROVE x \in InksOf(ToSet(parts))
    <2>1. x # 0 /\ \E c \in ToSet(FlattenSeq(parts)) : ~Blank(c) /\ c[2] = x
      BY InkedBy
    <2>2. PICK c \in ToSet(FlattenSeq(parts)) : ~Blank(c) /\ c[2] = x BY <2>1
    <2>3. PICK t \in ToSet(parts) : c \in ToSet(t) BY <1>3
    <2>4. x \in InkSet(t) BY <2>1, <2>2, <2>3, InkedBy
    <2> QED BY <2>4, InksAreUnion
  <1>5. ASSUME NEW t \in ToSet(parts) PROVE InkSet(t) \subseteq InkSet(FlattenSeq(parts))
    <2>1. \A c \in ToSet(t) : c \in ToSet(FlattenSeq(parts)) BY <1>3
    <2> QED BY <2>1, InkGrows
  <1> QED BY <1>4, <1>5, InksAreUnion

LEMMA InkOfJoin ==
    ASSUME NEW parts \in Seq(Text), NEW glue \in Text
    PROVE  InksOf(ToSet(parts)) \subseteq InkSet(Join(parts, glue))
  <1>1. \A k \in 1..Len(parts) : ToSet(parts[k]) \subseteq ToSet(Join(parts, glue))
    BY JoinHoldsAll DEF Text
  <1>2. DOMAIN parts = 1..Len(parts) BY DEF Text
  <1>3. ASSUME NEW t \in ToSet(parts) PROVE InkSet(t) \subseteq InkSet(Join(parts, glue))
    <2>1. ToSet(t) \subseteq ToSet(Join(parts, glue)) BY <1>1, <1>2 DEF ToSet
    <2> QED BY <2>1, InkGrows
  <1> QED BY <1>3, InksAreUnion

\* If all cuts are blank, no ink is cut away.
LEMMA InkOfBetween ==
    ASSUME NEW t \in Text, NEW Cuts, \A i \in Cuts \cap DOMAIN t : Blank(t[i])
    PROVE  InkSet(t) \subseteq InksOf(ToSet(Between(t, Cuts)))
  <1> DEFINE parts == Between(t, Cuts)
  <1>1. /\ parts \in Seq(Text)
        /\ \A j \in (1..Len(t)) \ Cuts :
             \E k \in 1..Len(parts) : \E i \in 1..Len(parts[k]) : parts[k][i] = t[j]
    BY BetweenCuts DEF Separates, Text
  <1>2. DOMAIN t = 1..Len(t) BY DEF Text
  <1>3. DOMAIN parts = 1..Len(parts) BY <1>1
  <1> HIDE DEF parts
  <1>4. ASSUME NEW c \in ToSet(t), ~Blank(c)
        PROVE  \E part \in ToSet(parts) : c \in ToSet(part)
    <2>1. PICK j \in 1..Len(t) : t[j] = c BY <1>2 DEF ToSet
    <2>2. j \notin Cuts BY <1>2, <1>4, <2>1
    <2>3. PICK k \in 1..Len(parts) : \E i \in 1..Len(parts[k]) : parts[k][i] = c
      BY <1>1, <2>1, <2>2
    <2>4. parts[k] \in Text BY <1>1
    <2>5. DOMAIN parts[k] = 1..Len(parts[k]) BY <2>4 DEF Text
    <2>6. c \in ToSet(parts[k]) /\ parts[k] \in ToSet(parts)
      BY <1>3, <2>3, <2>5 DEF ToSet
    <2> QED BY <2>6
  <1>5. \A x : x \in InkSet(t) => x \in InksOf(ToSet(parts))
    BY <1>4, InkedBy, InksAreUnion, Zenon
  <1> QED BY <1>5 DEF parts

\* Nor if only what has no ink is left out.
LEMMA InkOfKept ==
    ASSUME NEW T, NEW s \in Seq(T), NEW S \in SUBSET DOMAIN s
    PROVE  /\ ToSet(Kept(s, S)) = {s[i] : i \in S}
           /\ Kept(s, S) \in Seq(T)
  <1> DEFINE kept == Kept(s, S)
  <1>1. kept \in Seq(T) BY KeptKeepsOrder
  <1>2. PICK p \in [1..Len(kept) -> S] :
           /\ \A i \in 1..Len(kept) : kept[i] = s[p[i]]
           /\ \A x \in S : \E i \in 1..Len(kept) : p[i] = x
           /\ \A i, j \in 1..Len(kept) : i < j => p[i] < p[j]
    BY KeptKeepsOrder, Zenon
  <1>3. DOMAIN kept = 1..Len(kept) BY <1>1
  <1> HIDE DEF kept
  <1>4. \A c \in ToSet(kept) : \E i \in S : s[i] = c BY <1>2, <1>3 DEF ToSet
  <1>5. \A i \in S : s[i] \in ToSet(kept) BY <1>2, <1>3 DEF ToSet
  <1>6. ToSet(kept) = {s[i] : i \in S} BY <1>4, <1>5
  <1> QED BY <1>1, <1>6 DEF kept

LEMMA InkOfPieces ==
    ASSUME NEW t \in Text, NEW Cuts, \A i \in Cuts \cap DOMAIN t : Blank(t[i])
    PROVE  InkSet(t) \subseteq InksOf(ToSet(Pieces(t, Cuts)))
  <1> DEFINE parts == Between(t, Cuts)
             stripped == [k \in DOMAIN parts |-> Strip(parts[k])]
             S == {k \in DOMAIN stripped : stripped[k] # <<>>}
  <1>1. parts \in Seq(Text) BY BetweenCuts DEF Separates, Text
  <1>2. Pieces(t, Cuts) = Kept(stripped, S) BY DEF Pieces
  <1>3. InkSet(t) \subseteq InksOf(ToSet(parts)) BY InkOfBetween
  <1> HIDE DEF parts
  <1>4. \A k \in DOMAIN parts : parts[k] \in Text BY <1>1
  <1>5. /\ stripped \in Seq(Text) /\ DOMAIN stripped = DOMAIN parts
        /\ \A k \in DOMAIN parts : stripped[k] = Strip(parts[k])
    <2>1. \A k \in DOMAIN parts : Strip(parts[k]) \in Text BY <1>4, StripIsPart
    <2>2. DOMAIN parts = 1..Len(parts) BY <1>1
    <2> QED BY <1>1, <2>1, <2>2
  <1> HIDE DEF stripped
  <1>6. ToSet(Kept(stripped, S)) = {stripped[k] : k \in S} BY <1>5, InkOfKept
  <1>7. ASSUME NEW x \in InksOf(ToSet(parts))
        PROVE  x \in InksOf(ToSet(Kept(stripped, S)))
    <2>1. PICK k \in DOMAIN parts : x \in InkSet(parts[k])
      BY <1>7, InksAreUnion DEF ToSet
    <2>2. x \in InkSet(stripped[k]) BY <1>4, <1>5, <2>1, InkOfStrip
    <2>3. stripped[k] # <<>> BY <2>2, InkOfNothing
    <2>4. stripped[k] \in ToSet(Kept(stripped, S)) BY <1>5, <1>6, <2>3
    <2> QED BY <2>2, <2>4, InksAreUnion
  <1> QED BY <1>2, <1>3, <1>7

\* What is appended is there with the rest.
LEMMA AppendHolds ==
    ASSUME NEW T, NEW s \in Seq(T), NEW x \in T
    PROVE  /\ Append(s, x) \in Seq(T)
           /\ ToSet(Append(s, x)) = ToSet(s) \cup {x}
  <1> DEFINE r == Append(s, x)  n == Len(s)
  <1>1. /\ n \in Nat /\ r \in Seq(T) /\ DOMAIN s = 1..n /\ DOMAIN r = 1..(n + 1)
        /\ r[n + 1] = x /\ \A i \in 1..n : r[i] = s[i]
    OBVIOUS
  <1> HIDE DEF r, n
  <1>2. \A c : c \in ToSet(r) => c \in ToSet(s) \cup {x}
    <2> TAKE c
    <2> HAVE c \in ToSet(r)
    <2>1. PICK i \in 1..(n + 1) : r[i] = c BY <1>1 DEF ToSet
    <2>2. i \in 1..n \/ i = n + 1 BY <1>1
    <2> QED BY <1>1, <2>1, <2>2 DEF ToSet
  <1>3. \A c : c \in ToSet(s) \cup {x} => c \in ToSet(r)
    <2>1. x \in ToSet(r)
      <3>1. n + 1 \in 1..(n + 1) BY <1>1
      <3> QED BY <1>1, <3>1 DEF ToSet
    <2>2. \A i \in 1..n : r[i] \in ToSet(r)
      <3>1. \A i \in 1..n : i \in 1..(n + 1) BY <1>1
      <3> QED BY <1>1, <3>1 DEF ToSet
    <2> QED BY <1>1, <2>1, <2>2 DEF ToSet
  <1> QED BY <1>1, <1>2, <1>3 DEF r

LEMMA InksOfMore ==
    ASSUME NEW a, NEW b
    PROVE  /\ InksOf(a \cup b) = InksOf(a) \cup InksOf(b)
           /\ a \subseteq b => InksOf(a) \subseteq InksOf(b)
  BY DEF InksOf

LEMMA InksOfOne == ASSUME NEW t PROVE InksOf({t}) = InkSet(t)
  BY DEF InksOf

\* The two parts of a text hold its ink.
LEMMA InkOfParts ==
    ASSUME NEW t \in Text, NEW cut \in 0..Len(t)
    PROVE  LET head == SubSeq(t, 1, cut)  tail == SubSeq(t, cut + 1, Len(t))
           IN /\ head \in Text /\ tail \in Text
              /\ InkSet(t) \subseteq InkSet(head) \cup InkSet(tail)
  <1> DEFINE n == Len(t)  head == SubSeq(t, 1, cut)  tail == SubSeq(t, cut + 1, n)
  <1>1. t \in Seq(Char) /\ n \in Nat /\ DOMAIN t = 1..n BY DEF Text
  <1>2. /\ head \in Seq(Char) /\ DOMAIN head = 1..cut /\ \A i \in 1..cut : head[i] = t[i]
        /\ tail \in Seq(Char) /\ DOMAIN tail = 1..(n - cut)
        /\ \A i \in 1..(n - cut) : tail[i] = t[cut + i]
    BY <1>1
  <1> HIDE DEF head, tail
  <1>3. ASSUME NEW c \in ToSet(t) PROVE c \in ToSet(head) \cup ToSet(tail)
    <2>1. PICK i \in 1..n : t[i] = c BY <1>1 DEF ToSet
    <2>2. CASE i <= cut
      <3>1. i \in 1..cut BY <2>1, <2>2
      <3>2. head[i] = c BY <1>2, <2>1, <3>1
      <3> QED BY <1>2, <3>1, <3>2 DEF ToSet
    <2>3. CASE ~(i <= cut)
      <3>1. i - cut \in 1..(n - cut) /\ cut + (i - cut) = i BY <1>1, <2>1, <2>3
      <3>2. tail[i - cut] = c BY <1>2, <2>1, <3>1
      <3> QED BY <1>2, <3>1, <3>2 DEF ToSet
    <2> QED BY <2>2, <2>3
  <1>4. ASSUME NEW x \in InkSet(t) PROVE x \in InkSet(head) \cup InkSet(tail)
    <2>1. x # 0 BY InkedBy
    <2>2. PICK c \in ToSet(t) : ~Blank(c) /\ c[2] = x BY InkedBy
    <2> QED BY <1>3, <2>1, <2>2, InkedBy
  <1> QED BY <1>2, <1>4 DEF head, tail, Text

-----------------------------------------------------------------------------
(* The ink of long text that is split.                                     *)

CutInks(s) == InksOf(ToSet(s.pieces)) \cup InkSet(s.rest)

LEMMA CutOffKeeps ==
    ASSUME NEW max \in Nat \ {0}, NEW s \in Cuttings(max)
    PROVE  CutInks(s) \subseteq CutInks(CutOff(s, max))
  <1> DEFINE rest == s.rest  n == Len(s.rest)  cut == HardCut(rest, max)
             head == SubSeq(rest, 1, cut)  tail == SubSeq(rest, cut + 1, n)
  <1>1. rest \in Text /\ n \in Nat /\ s.pieces \in Seq(Text)
    <2>1. CutTexts(max) \subseteq Text BY DEF CutTexts
    <2> QED BY <2>1, TextLengths DEF Cuttings
  <1>2. CASE n <= max BY <1>2 DEF CutOff
  <1>3. CASE ~(n <= max)
    <2>1. CutOff(s, max) = [pieces |-> Append(s.pieces, Strip(head)), rest |-> Strip(tail)]
      BY <1>3 DEF CutOff
    <2>2. cut \in 0..n
      <3>1. n > max BY <1>1, <1>3
      <3>2. cut \in 1..max BY <1>1, <3>1, HardCutIsWithin
      <3> HIDE DEF cut
      <3> QED BY <1>1, <3>1, <3>2
    <2> HIDE DEF cut
    <2>3. /\ head \in Text /\ tail \in Text
          /\ InkSet(rest) \subseteq InkSet(head) \cup InkSet(tail)
      BY <1>1, <2>2, InkOfParts
    <2> HIDE DEF head, tail, rest, n
    <2>4. Strip(head) \in Text BY <2>3, StripIsPart
    <2>5. ToSet(Append(s.pieces, Strip(head))) = ToSet(s.pieces) \cup {Strip(head)}
      BY <1>1, <2>4, AppendHolds
    <2>6. InksOf(ToSet(Append(s.pieces, Strip(head)))) =
             InksOf(ToSet(s.pieces)) \cup InkSet(Strip(head))
      BY <2>5, InksOfMore, InksOfOne
    <2>7. InkSet(Strip(head)) = InkSet(head) /\ InkSet(Strip(tail)) = InkSet(tail)
      BY <2>3, InkOfStrip
    <2>8. CutInks(CutOff(s, max)) =
             InksOf(ToSet(s.pieces)) \cup InkSet(head) \cup InkSet(tail)
      BY <2>1, <2>6, <2>7 DEF CutInks
    <2>9. CutInks(s) = InksOf(ToSet(s.pieces)) \cup InkSet(rest) BY DEF CutInks, rest
    <2> QED BY <2>3, <2>8, <2>9
  <1> QED BY <1>2, <1>3

LEMMA WithRestHolds ==
    ASSUME NEW pieces \in Seq(Text), NEW rest \in Text
    PROVE  InksOf(ToSet(pieces)) \cup InkSet(rest) \subseteq InksOf(ToSet(WithRest(pieces, rest)))
  <1>1. CASE rest = <<>>
    <2>1. InkSet(rest) = {} BY <1>1, InkOfNothing
    <2> QED BY <1>1, <2>1 DEF WithRest
  <1>2. CASE rest # <<>>
    <2>1. ToSet(WithRest(pieces, rest)) = ToSet(pieces) \cup {rest}
      BY <1>2, AppendHolds DEF WithRest
    <2>2. InksOf(ToSet(pieces) \cup {rest}) = InksOf(ToSet(pieces)) \cup InksOf({rest})
      BY InksOfMore
    <2> QED BY <2>1, <2>2, InksOfOne
  <1> QED BY <1>1, <1>2

LEMMA HardSplitHolds ==
    ASSUME NEW text \in Text, NEW max \in Nat \ {0}
    PROVE  InkSet(text) \subseteq InksOf(ToSet(HardSplit(text, max)))
  <1> DEFINE n == Len(text)
  <1>1. PICK s : HardSplitLoop(s, text, max) BY HardSplitTurns
  <1>2. n \in Nat BY TextLengths
  <1> DEFINE U == {i \in 0..n : InkSet(text) \subseteq CutInks(s[i])}
  <1>3. /\ s[0] = [pieces |-> <<>>, rest |-> Strip(text)]
        /\ \A i \in 1..n : s[i] = CutOff(s[i - 1], max)
        /\ \A i \in 0..n : s[i] \in Cuttings(max)
        /\ HardSplit(text, max) = WithRest(s[n].pieces, s[n].rest)
    BY <1>1 DEF HardSplitLoop
  <1> HIDE DEF n
  <1>4. 0 \in U
    <2>1. CutInks(s[0]) = InksOf(ToSet(<<>>)) \cup InkSet(Strip(text)) BY <1>3 DEF CutInks
    <2> QED BY <1>2, <2>1, InkOfStrip
  <1>5. ASSUME NEW i \in 1..n, i - 1 \in U PROVE i \in U
    <2>1. i - 1 \in 0..n /\ i \in 0..n BY <1>2
    <2>2. CutInks(s[i - 1]) \subseteq CutInks(s[i]) BY <1>3, <2>1, CutOffKeeps
    <2> QED BY <1>5, <2>1, <2>2
  <1>6. \A i \in 0..n : i \in U
    <2> HIDE DEF U
    <2> QED BY <1>2, <1>4, <1>5, CountingUp
  <1>7. n \in 0..n BY <1>2
  <1>8. InkSet(text) \subseteq CutInks(s[n]) BY <1>6, <1>7
  <1>9. s[n].pieces \in Seq(Text) /\ s[n].rest \in Text
    <2>1. CutTexts(max) \subseteq Text BY DEF CutTexts
    <2>2. s[n] \in Cuttings(max) BY <1>3, <1>7
    <2> QED BY <2>1, <2>2 DEF Cuttings
  <1> QED BY <1>3, <1>8, <1>9, WithRestHolds DEF CutInks

LEMMA SentenceEndsAreBlank ==
    ASSUME NEW t PROVE \A i \in SentenceEnds(t) \cap DOMAIN t : Blank(t[i])
  BY DEF SentenceEnds, Blank

\* The parts of the parts hold the ink.
LEMMA InkOfAll ==
    ASSUME NEW lists \in Seq(Seq(Text)), NEW k \in DOMAIN lists
    PROVE  InksOf(ToSet(lists[k])) \subseteq InksOf(ToSet(FlattenSeq(lists)))
  <1>1. ToSet(FlattenSeq(lists)) = UNION {ToSet(lists[i]) : i \in 1..Len(lists)}
    BY FlattenMembers
  <1>2. k \in 1..Len(lists) OBVIOUS
  <1>3. ToSet(lists[k]) \subseteq ToSet(FlattenSeq(lists)) BY <1>1, <1>2
  <1> QED BY <1>3, InksOfMore

LEMMA UnitsHold ==
    ASSUME NEW t \in Text, NEW limit \in Nat \ {0}
    PROVE  InkSet(t) \subseteq InksOf(ToSet(Units(t, limit)))
  <1> DEFINE unit(u) == IF Len(u) > limit THEN HardSplit(u, limit) ELSE <<u>>
             sentences == Pieces(t, SentenceEnds(t))
             split == [k \in DOMAIN sentences |-> unit(sentences[k])]
  <1>1. sentences \in Seq(Text) BY PiecesAreTexts
  <1>2. Units(t, limit) = FlattenSeq(split) BY DEF Units
  <1>3. InkSet(t) \subseteq InksOf(ToSet(sentences))
    BY SentenceEndsAreBlank, InkOfPieces
  <1> HIDE DEF sentences
  <1>4. ASSUME NEW u \in Text
        PROVE  unit(u) \in Seq(Text) /\ InkSet(u) \subseteq InksOf(ToSet(unit(u)))
    <2>1. CASE Len(u) > limit
      <3>1. CutTexts(limit) \subseteq Text BY DEF CutTexts
      <3>2. HardSplit(u, limit) \in Seq(Text) BY <3>1, HardSplitFits
      <3> QED BY <2>1, <3>2, HardSplitHolds
    <2>2. CASE ~(Len(u) > limit)
      <3>1. u \in ToSet(<<u>>) BY DEF ToSet
      <3>2. InkSet(u) \subseteq InksOf(ToSet(<<u>>)) BY <3>1, InksAreUnion
      <3>3. <<u>> \in Seq(Text) OBVIOUS
      <3> QED BY <2>2, <3>2, <3>3
    <2> QED BY <2>1, <2>2
  <1> HIDE DEF unit
  <1>5. split \in Seq(Seq(Text)) /\ DOMAIN split = DOMAIN sentences
    <2>1. Len(sentences) \in Nat /\ DOMAIN sentences = 1..Len(sentences) BY <1>1
    <2>2. \A k \in DOMAIN sentences : unit(sentences[k]) \in Seq(Text) BY <1>1, <1>4
    <2> QED BY <2>1, <2>2
  <1>6. ASSUME NEW x \in InksOf(ToSet(sentences)) PROVE x \in InksOf(ToSet(Units(t, limit)))
    <2>1. PICK k \in DOMAIN sentences : x \in InkSet(sentences[k])
      BY <1>6, InksAreUnion DEF ToSet
    <2>2. sentences[k] \in Text BY <1>1
    <2>3. x \in InksOf(ToSet(unit(sentences[k]))) BY <1>4, <2>1, <2>2
    <2>4. x \in InksOf(ToSet(split[k])) BY <2>3
    <2> QED BY <1>2, <1>5, <2>4, InkOfAll
  <1> QED BY <1>3, <1>6

SplitInks(s) == InksOf(ToSet(s.pieces)) \cup InkSet(s.current)

LEMMA AddUnitKeeps ==
    ASSUME NEW max \in Nat, NEW overlap \in Nat, NEW s \in Splits(max), NEW u \in Text
    PROVE  SplitInks(s) \cup InkSet(u) \subseteq SplitInks(AddUnit(s, u, max, overlap))
  <1> DEFINE cur == s.current  tail == OverlapTail(cur, overlap)
             over == cur # <<>> /\ Len(cur) + 1 + Len(u) > max
  <1>1. cur \in Text /\ s.pieces \in Seq(Text)
    <2>1. InkTexts(max) \subseteq Text /\ CutTexts(max) \subseteq Text
      BY DEF InkTexts, CutTexts
    <2> QED BY <2>1 DEF Splits
  <1>2. s = [pieces |-> s.pieces, current |-> cur] BY DEF Splits
  <1>3. tail \in Text BY <1>1, OverlapFits
  <1>4. AddUnit(s, u, max, overlap) =
           IF over
           THEN [pieces |-> Append(s.pieces, cur), current |-> Strip(tail \o <<Space>> \o u)]
           ELSE [s EXCEPT !.current = Strip(cur \o <<Space>> \o u)]
    BY DEF AddUnit
  <1>5. SplitInks(s) = InksOf(ToSet(s.pieces)) \cup InkSet(cur) BY DEF SplitInks
  <1> HIDE DEF cur, tail
  <1>6. ASSUME NEW v \in Text
        PROVE  InkSet(v) \cup InkSet(u) \subseteq InkSet(Strip(v \o <<Space>> \o u))
    <2>1. <<Space>> \in Text BY CharTypes DEF Text
    <2>2. /\ v \o <<Space>> \in Text /\ v \o <<Space>> \o u \in Text
      BY <2>1 DEF Text
    <2>3. InkSet(v \o <<Space>>) = InkSet(v) \cup InkSet(<<Space>>) BY <2>1, InkOfTwo
    <2>4. InkSet(v \o <<Space>> \o u) = InkSet(v \o <<Space>>) \cup InkSet(u)
      BY <2>2, InkOfTwo
    <2>5. InkSet(Strip(v \o <<Space>> \o u)) = InkSet(v \o <<Space>> \o u)
      BY <2>2, InkOfStrip
    <2> QED BY <2>3, <2>4, <2>5
  <1>7. CASE over
    <2>1. ToSet(Append(s.pieces, cur)) = ToSet(s.pieces) \cup {cur} BY <1>1, AppendHolds
    <2>2. InksOf(ToSet(s.pieces) \cup {cur}) = InksOf(ToSet(s.pieces)) \cup InksOf({cur})
      BY InksOfMore
    <2> DEFINE next == AddUnit(s, u, max, overlap)
    <2>3. /\ next.pieces = Append(s.pieces, cur)
          /\ next.current = Strip(tail \o <<Space>> \o u)
      BY <1>4, <1>7
    <2>4. SplitInks(next) = InksOf(ToSet(s.pieces)) \cup InkSet(cur)
                              \cup InkSet(Strip(tail \o <<Space>> \o u))
      <3> HIDE DEF next
      <3> QED BY <2>1, <2>2, <2>3, InksOfOne DEF SplitInks
    <2> QED BY <1>3, <1>5, <1>6, <2>4
  <1>8. CASE ~over
    <2>1. AddUnit(s, u, max, overlap) =
             [pieces |-> s.pieces, current |-> Strip(cur \o <<Space>> \o u)]
      BY <1>2, <1>4, <1>8
    <2>2. SplitInks(AddUnit(s, u, max, overlap)) =
             InksOf(ToSet(s.pieces)) \cup InkSet(Strip(cur \o <<Space>> \o u))
      BY <2>1 DEF SplitInks
    <2> QED BY <1>1, <1>5, <1>6, <2>2
  <1> QED BY <1>7, <1>8

LEMMA SplitOversizeHolds ==
    ASSUME NEW t \in Text, NEW max \in Nat, NEW overlap \in Nat,
           2 * (overlap + 1) <= max
    PROVE  InkSet(t) \subseteq InksOf(ToSet(SplitOversize(t, max, overlap)))
  <1> DEFINE limit == UnitLimit(max, overlap)  units == Units(t, limit)  n == Len(units)
  <1>1. PICK s : SplitOversizeLoop(s, t, max, overlap) BY SplitOversizeTurns
  <1>2. units \in Seq(CutTexts(limit)) /\ limit \in Nat \ {0} BY SplitOversizeTurns
  <1>3. /\ s[0] = [pieces |-> <<>>, current |-> <<>>]
        /\ \A i \in 1..n : s[i] = AddUnit(s[i - 1], units[i], max, overlap)
        /\ \A i \in 0..n : s[i] \in Splits(max)
        /\ SplitOversize(t, max, overlap) = WithRest(s[n].pieces, s[n].current)
    BY <1>1 DEF SplitOversizeLoop
  <1>4. InkSet(t) \subseteq InksOf(ToSet(units)) BY <1>2, UnitsHold
  <1> HIDE DEF units, limit
  <1>5. n \in Nat /\ DOMAIN units = 1..n /\ \A i \in 1..n : units[i] \in Text
    BY <1>2 DEF CutTexts
  <1> DEFINE U == {i \in 0..n : \A j \in 1..i : InkSet(units[j]) \subseteq SplitInks(s[i])}
  <1> HIDE DEF n
  <1>6. 0 \in U BY <1>5
  <1>7. ASSUME NEW i \in 1..n, i - 1 \in U PROVE i \in U
    <2>1. i - 1 \in 0..n /\ i \in 0..n BY <1>5
    <2>2. SplitInks(s[i - 1]) \cup InkSet(units[i]) \subseteq SplitInks(s[i])
      BY <1>3, <1>5, <2>1, AddUnitKeeps
    <2>3. \A j \in 1..i : j \in 1..(i - 1) \/ j = i OBVIOUS
    <2> QED BY <1>7, <2>1, <2>2, <2>3
  <1>8. \A i \in 0..n : i \in U
    <2> HIDE DEF U
    <2> QED BY <1>5, <1>6, <1>7, CountingUp
  <1>9. n \in 0..n BY <1>5
  <1>10. \A j \in 1..n : InkSet(units[j]) \subseteq SplitInks(s[n]) BY <1>8, <1>9
  <1>11. InksOf(ToSet(units)) \subseteq SplitInks(s[n])
    <2>1. \A u \in ToSet(units) : InkSet(u) \subseteq SplitInks(s[n])
      BY <1>5, <1>10 DEF ToSet
    <2> QED BY <2>1, InksAreUnion
  <1>12. s[n].pieces \in Seq(Text) /\ s[n].current \in Text
    <2>1. InkTexts(max) \subseteq Text /\ CutTexts(max) \subseteq Text
      BY DEF InkTexts, CutTexts
    <2>2. s[n] \in Splits(max) BY <1>3, <1>9
    <2> QED BY <2>1, <2>2 DEF Splits
  <1> QED BY <1>3, <1>4, <1>11, <1>12, WithRestHolds DEF SplitInks

-----------------------------------------------------------------------------
(* The ink of tables that are split.                                       *)

RowInks(s) == InksOf(ToSet(s.parts)) \cup InksOf(ToSet(s.rows))

LEMMA LinesOfPart ==
    ASSUME NEW header \in Seq(Rows), NEW q \in Seq(Rows)
    PROVE  /\ JoinLines(header \o q) \in Text
           /\ InksOf(ToSet(header)) \cup InksOf(ToSet(q))
                \subseteq InkSet(JoinLines(header \o q))
  <1>1. Rows \subseteq Text BY DEF Rows
  <1>2. header \o q \in Seq(Text) BY <1>1
  <1>3. <<Break>> \in Text BY CharTypes DEF Text
  <1>4. InksOf(ToSet(header \o q)) \subseteq InkSet(JoinLines(header \o q))
    BY <1>2, <1>3, InkOfJoin DEF JoinLines
  <1>5. ToSet(header \o q) = ToSet(header) \cup ToSet(q) BY MembersOfJoin
  <1>6. header \o q \in Seq(Rows) OBVIOUS
  <1>7. JoinLines(header \o q) \in Text BY <1>6, LinesJoin
  <1>8. InksOf(ToSet(header) \cup ToSet(q)) = InksOf(ToSet(header)) \cup InksOf(ToSet(q))
    BY InksOfMore
  <1> QED BY <1>4, <1>5, <1>7, <1>8

LEMMA AddRowKeeps ==
    ASSUME NEW max \in Nat, NEW header \in Seq(Rows),
           NEW s \in Parts(header, max), NEW r \in Rows
    PROVE  LET next == AddRow(s, r, header, max)
           IN /\ RowInks(s) \cup InkSet(r) \subseteq RowInks(next)
              /\ next.rows # <<>>
  <1> DEFINE q == s.rows  next == AddRow(s, r, header, max)
             over == q # <<>> /\ Len(JoinLines(header \o Append(q, r))) + 1 > max
  <1>1. q \in Seq(Rows) /\ s.parts \in Seq(Text)
    <2>1. PartTexts(max) \subseteq Text BY DEF PartTexts
    <2> QED BY <2>1 DEF Parts, RowLists
  <1>2. s = [parts |-> s.parts, rows |-> q] BY DEF Parts
  <1>3. next = IF over
               THEN [parts |-> Append(s.parts, JoinLines(header \o q)), rows |-> <<r>>]
               ELSE [s EXCEPT !.rows = Append(q, r)]
    BY DEF AddRow
  <1>4. RowInks(s) = InksOf(ToSet(s.parts)) \cup InksOf(ToSet(q)) BY DEF RowInks
  <1> HIDE DEF q
  <1>5. CASE over
    <2> DEFINE part == JoinLines(header \o q)
    <2>1. next.parts = Append(s.parts, part) /\ next.rows = <<r>> BY <1>3, <1>5
    <2>2. part \in Text /\ InksOf(ToSet(q)) \subseteq InkSet(part) BY <1>1, LinesOfPart
    <2> HIDE DEF part, next
    <2>3. ToSet(Append(s.parts, part)) = ToSet(s.parts) \cup {part}
      BY <1>1, <2>2, AppendHolds
    <2>4. InksOf(ToSet(s.parts) \cup {part}) = InksOf(ToSet(s.parts)) \cup InksOf({part})
      BY InksOfMore
    <2>5. InksOf({part}) = InkSet(part) /\ InksOf({r}) = InkSet(r) BY InksOfOne
    <2>6. ToSet(<<r>>) = {r} BY DEF ToSet
    <2>7. RowInks(next) = InksOf(ToSet(s.parts)) \cup InkSet(part) \cup InkSet(r)
      BY <2>1, <2>3, <2>4, <2>5, <2>6 DEF RowInks
    <2>8. <<r>> # <<>> OBVIOUS
    <2> QED BY <1>4, <2>1, <2>2, <2>7, <2>8 DEF next
  <1>6. CASE ~over
    <2>1. next = [parts |-> s.parts, rows |-> Append(q, r)]
      <3> HIDE DEF over, next
      <3> QED BY <1>2, <1>3, <1>6
    <2>2. next.parts = s.parts /\ next.rows = Append(q, r) BY <2>1
    <2> HIDE DEF next
    <2>3. ToSet(Append(q, r)) = ToSet(q) \cup {r} BY <1>1, AppendHolds
    <2>4. InksOf(ToSet(q) \cup {r}) = InksOf(ToSet(q)) \cup InksOf({r}) BY InksOfMore
    <2>5. InksOf({r}) = InkSet(r) BY InksOfOne
    <2>6. RowInks(next) = InksOf(ToSet(s.parts)) \cup InksOf(ToSet(q)) \cup InkSet(r)
      BY <2>2, <2>3, <2>4, <2>5 DEF RowInks
    <2>7. Append(q, r) # <<>> BY <1>1
    <2> QED BY <1>4, <2>2, <2>6, <2>7 DEF next
  <1> QED BY <1>5, <1>6

LEMMA BreaksAreBlank ==
    ASSUME NEW t PROVE \A i \in {j \in DOMAIN t : t[j] = Break} : Blank(t[i])
  <1>1. Blank(Break) BY DEF Blank, Break
  <1> QED BY <1>1

\* The lines of a table are its first two and the others.
LEMMA HeaderAndRows ==
    ASSUME NEW t \in Text, Len(LinesOf(t)) > 2
    PROVE  /\ InkSet(t) \subseteq InksOf(ToSet(HeaderOf(t))) \cup InksOf(ToSet(RowsOf(t)))
           /\ RowsOf(t) \in Seq(Rows) /\ Len(RowsOf(t)) > 0
           /\ HeaderOf(t) \in Seq(Rows)
  <1> DEFINE lines == LinesOf(t)  n == Len(lines)
             header == SubSeq(lines, 1, 2)  under == SubSeq(lines, 3, n)
  <1>1. lines \in Seq(Rows) /\ n \in Nat /\ n > 2 BY LinesAreRows
  <1>2. InkSet(t) \subseteq InksOf(ToSet(lines))
    <2> DEFINE Cuts == {j \in DOMAIN t : t[j] = Break}
    <2>1. \A i \in Cuts \cap DOMAIN t : Blank(t[i]) BY BreaksAreBlank
    <2>2. InkSet(t) \subseteq InksOf(ToSet(Between(t, Cuts)))
      <3> HIDE DEF Cuts
      <3> QED BY <2>1, InkOfBetween
    <2> QED BY <2>2 DEF LinesOf
  <1>3. SmallestOf({2, n}) = 2
    <2> HIDE DEF n
    <2>1. \A y \in {2, n} : 2 <= y BY <1>1
    <2>2. \E x \in {2, n} : \A y \in {2, n} : x <= y BY <2>1
    <2>3. SmallestOf({2, n}) \in {2, n} /\ SmallestOf({2, n}) <= 2
      BY <2>2 DEF SmallestOf
    <2> QED BY <1>1, <2>3
  <1>4. HeaderOf(t) = header /\ RowsOf(t) = under BY <1>3 DEF HeaderOf, RowsOf
  <1> HIDE DEF lines
  <1>5. /\ header \in Seq(Rows) /\ DOMAIN header = 1..2
        /\ \A i \in 1..2 : header[i] = lines[i]
        /\ under \in Seq(Rows) /\ Len(under) = n - 2
        /\ \A i \in 1..(n - 2) : under[i] = lines[i + 2]
    BY <1>1
  <1>6. DOMAIN under = 1..(n - 2) BY <1>5
  <1> HIDE DEF header, under
  <1>7. DOMAIN lines = 1..n BY <1>1
  <1>8. ASSUME NEW l \in ToSet(lines) PROVE l \in ToSet(header) \cup ToSet(under)
    <2>1. PICK i \in 1..n : lines[i] = l BY <1>7 DEF ToSet
    <2>2. CASE i \in 1..2 BY <1>5, <2>1, <2>2 DEF ToSet
    <2>3. CASE i \notin 1..2
      <3>1. i - 2 \in 1..(n - 2) /\ (i - 2) + 2 = i BY <1>1, <2>1, <2>3
      <3>2. under[i - 2] = l BY <1>5, <2>1, <3>1
      <3> QED BY <1>6, <3>1, <3>2 DEF ToSet
    <2> QED BY <2>2, <2>3
  <1>9. InksOf(ToSet(lines)) \subseteq InksOf(ToSet(header)) \cup InksOf(ToSet(under))
    BY <1>8, InksAreUnion
  <1>10. n - 2 > 0 BY <1>1
  <1> QED BY <1>2, <1>4, <1>5, <1>9, <1>10

\* A table that is split keeps its ink if there are rows under its first two lines.
LEMMA SplitTableHolds ==
    ASSUME NEW t \in Text, NEW max \in Nat, Len(t) <= max \/ Len(LinesOf(t)) > 2
    PROVE  InkSet(t) \subseteq InksOf(ToSet(SplitTable(t, max)))
  <1> DEFINE header == HeaderOf(t)  under == RowsOf(t)  n == Len(under)
  <1>1. PICK s : SplitTableLoop(s, t, max) BY SplitTableTurns
  <1>2. /\ s[0] = [parts |-> <<>>, rows |-> <<>>]
        /\ \A i \in 1..n : s[i] = AddRow(s[i - 1], under[i], header, max)
        /\ \A i \in 0..n : s[i] \in Parts(header, max)
        /\ SplitTable(t, max) =
             IF Len(t) <= max THEN <<t>>
             ELSE IF s[n].rows = <<>> THEN s[n].parts
             ELSE Append(s[n].parts, JoinLines(header \o s[n].rows))
    BY <1>1 DEF SplitTableLoop
  <1>3. CASE Len(t) <= max
    <2>1. t \in ToSet(<<t>>) BY DEF ToSet
    <2> QED BY <1>2, <1>3, <2>1, InksAreUnion
  <1>4. CASE ~(Len(t) <= max)
    <2>1. Len(LinesOf(t)) > 2 BY <1>4
    <2>2. /\ InkSet(t) \subseteq InksOf(ToSet(header)) \cup InksOf(ToSet(under))
          /\ under \in Seq(Rows) /\ n > 0 /\ header \in Seq(Rows)
      BY <2>1, HeaderAndRows
    <2> HIDE DEF header, under
    <2>3. n \in Nat /\ DOMAIN under = 1..n /\ \A i \in 1..n : under[i] \in Rows BY <2>2
    <2> DEFINE U == {i \in 0..n : /\ \A j \in 1..i : InkSet(under[j]) \subseteq RowInks(s[i])
                                  /\ i > 0 => s[i].rows # <<>>}
    <2> HIDE DEF n
    <2>4. 0 \in U BY <2>3
    <2>5. ASSUME NEW i \in 1..n, i - 1 \in U PROVE i \in U
      <3>1. i - 1 \in 0..n /\ i \in 0..n BY <2>3
      <3>2. /\ RowInks(s[i - 1]) \cup InkSet(under[i]) \subseteq RowInks(s[i])
            /\ s[i].rows # <<>>
        BY <1>2, <2>2, <2>3, <3>1, AddRowKeeps
      <3>3. \A j \in 1..i : j \in 1..(i - 1) \/ j = i OBVIOUS
      <3> QED BY <2>5, <3>1, <3>2, <3>3
    <2>6. \A i \in 0..n : i \in U
      <3> HIDE DEF U
      <3> QED BY <2>3, <2>4, <2>5, CountingUp
    <2>7. n \in 0..n BY <2>3
    <2>8. /\ \A j \in 1..n : InkSet(under[j]) \subseteq RowInks(s[n])
          /\ s[n].rows # <<>>
      BY <2>2, <2>6, <2>7
    <2>9. InksOf(ToSet(under)) \subseteq RowInks(s[n])
      <3>1. \A u \in ToSet(under) : InkSet(u) \subseteq RowInks(s[n])
        BY <2>3, <2>8 DEF ToSet
      <3> QED BY <3>1, InksAreUnion
    <2> DEFINE q == s[n].rows  parts == s[n].parts  last == JoinLines(header \o q)
    <2>10. q \in Seq(Rows) /\ parts \in Seq(Text)
      <3>1. PartTexts(max) \subseteq Text BY DEF PartTexts
      <3>2. s[n] \in Parts(header, max) BY <1>2, <2>7
      <3> QED BY <3>1, <3>2 DEF Parts, RowLists
    <2>11. SplitTable(t, max) = Append(parts, last) BY <1>2, <1>4, <2>8
    <2>12. RowInks(s[n]) = InksOf(ToSet(parts)) \cup InksOf(ToSet(q)) BY DEF RowInks
    <2> HIDE DEF q, parts
    <2>13. /\ last \in Text
           /\ InksOf(ToSet(header)) \cup InksOf(ToSet(q)) \subseteq InkSet(last)
      BY <2>2, <2>10, LinesOfPart
    <2> HIDE DEF last
    <2>14. ToSet(Append(parts, last)) = ToSet(parts) \cup {last}
      BY <2>10, <2>13, AppendHolds
    <2>15. InksOf(ToSet(parts) \cup {last}) = InksOf(ToSet(parts)) \cup InkSet(last)
      <3>1. InksOf(ToSet(parts) \cup {last}) = InksOf(ToSet(parts)) \cup InksOf({last})
        BY InksOfMore
      <3> QED BY <3>1, InksOfOne
    <2> QED BY <2>2, <2>9, <2>11, <2>12, <2>13, <2>14, <2>15
  <1> QED BY <1>3, <1>4

-----------------------------------------------------------------------------
(* The ink of the chunks, and of what is pending.                          *)

TextsOf(list) == {c.text : c \in ToSet(list)}
StateInks(s) == InksOf(TextsOf(s.chunks)) \cup InksOf(ToSet(s.pending.parts))

LEMMA TextsOfMore ==
    ASSUME NEW T, NEW a \in Seq(T), NEW b \in Seq(T)
    PROVE  TextsOf(a \o b) = TextsOf(a) \cup TextsOf(b)
  <1>1. ToSet(a \o b) = ToSet(a) \cup ToSet(b) BY MembersOfJoin
  <1> QED BY <1>1 DEF TextsOf

LEMMA FlushKeeps ==
    ASSUME NEW s \in State
    PROVE  StateInks(s) \subseteq InksOf(TextsOf(Flush(s).chunks))
  <1> DEFINE p == s.pending  t == JoinParts(p.parts)
             c == [text |-> t, page_number |-> p.first,
                   page_end |-> p.last, heading |-> p.heading, chunk_type |-> "text"]
  <1>1. s.chunks \in Seq(FitChunks) /\ p \in Pending /\ s.path \in Path BY DEF State
  <1>2. s = [chunks |-> s.chunks, pending |-> p, path |-> s.path] BY DEF State
  <1>3. CASE p.parts = <<>>
    <2>1. ToSet(p.parts) = {} BY <1>3 DEF ToSet
    <2>2. InksOf(ToSet(p.parts)) = {} BY <2>1 DEF InksOf
    <2> QED BY <1>3, <2>2 DEF Flush, StateInks
  <1>4. CASE p.parts # <<>>
    <2>1. c \in FitChunks
      <3>1. c \in TextChunk BY <1>1, <1>4 DEF Pending, TextChunk
      <3> QED BY <3>1 DEF FitChunks
    <2>2. Flush(s) = [s EXCEPT !.pending = NoPending, !.chunks = Append(@, c)]
      BY <1>4 DEF Flush
    <2>3. InksOf(ToSet(p.parts)) \subseteq InkSet(t)
      <3>1. p.parts \in Seq(Text) BY <1>1 DEF Pending
      <3>2. <<Break, Break>> \in Text BY CharTypes DEF Text
      <3> QED BY <3>1, <3>2, InkOfJoin DEF JoinParts
    <2>4. c.text = t OBVIOUS
    <2> HIDE DEF c, p, t
    <2>5. Flush(s).chunks = Append(s.chunks, c) BY <1>2, <2>2
    <2>6. ToSet(Append(s.chunks, c)) = ToSet(s.chunks) \cup {c}
      BY <1>1, <2>1, AppendHolds
    <2>7. TextsOf(Flush(s).chunks) = TextsOf(s.chunks) \cup {t}
      BY <2>4, <2>5, <2>6 DEF TextsOf
    <2>8. InksOf(TextsOf(s.chunks) \cup {t}) = InksOf(TextsOf(s.chunks)) \cup InksOf({t})
      BY InksOfMore
    <2>9. InksOf({t}) = InkSet(t) BY InksOfOne
    <2> QED BY <2>3, <2>7, <2>8, <2>9 DEF StateInks, p
  <1> QED BY <1>3, <1>4

\* A table that is not only a header becomes parts that hold its ink.
LEMMA TablePartsHold ==
    ASSUME NEW b \in Block, b.kind = "table", ~HeaderOnly(b)
    PROVE  InkSet(b.text) \subseteq InksOf(ToSet(SplitTable(Strip(b.text), MaxTableChars)))
  <1> DEFINE t == Strip(b.text)  parts == SplitTable(t, MaxTableChars)
  <1>1. t \in Text /\ b.text \in Text BY BlockFields DEF Block
  <1>2. ~(Len(t) > MaxTableChars) \/ ~(Len(LinesOf(t)) <= 2) BY DEF HeaderOnly
  <1>3. Len(t) <= MaxTableChars \/ Len(LinesOf(t)) > 2
    <2>1. Len(t) \in Nat /\ MaxTableChars \in Nat BY <1>1, TextLengths, SizesAreNumbers
    <2>2. Len(LinesOf(t)) \in Nat
      <3>1. LinesOf(t) \in Seq(Rows) BY <1>1, LinesAreRows
      <3> QED BY <3>1
    <2> QED BY <1>2, <2>1, <2>2
  <1>4. InkSet(t) \subseteq InksOf(ToSet(parts))
    BY <1>1, <1>3, SplitTableHolds, SizesAreNumbers
  <1>5. InkSet(t) = InkSet(b.text) BY <1>1, InkOfStrip
  <1> QED BY <1>4, <1>5

LEMMA AddTableKeeps ==
    ASSUME NEW s \in State, NEW b \in Block
    PROVE  /\ StateInks(s) \subseteq StateInks(AddTable(s, b))
           /\ b.kind = "table" /\ ~HeaderOnly(b) =>
                 InkSet(b.text) \subseteq StateInks(AddTable(s, b))
  <1> DEFINE t == Strip(b.text)
             parts == SplitTable(t, MaxTableChars)
             chunk(k) == [text |-> parts[k], page_number |-> b.page,
                          page_end |-> b.page, heading |-> CurrentHeading(s.path),
                          chunk_type |-> "table"]
             more == [k \in DOMAIN parts |-> chunk(k)]
             f == Flush(s)  next == AddTable(s, b)
  <1>1. parts \in Seq(Text)
    <2>1. PartTexts(MaxTableChars) \subseteq Text BY DEF PartTexts
    <2>2. t \in Text BY BlockFields
    <2> QED BY <2>1, <2>2, SplitTableFits, SizesAreNumbers
  <1>2. next = [f EXCEPT !.chunks = @ \o more] BY DEF AddTable
  <1>3. b.kind = "table" /\ ~HeaderOnly(b) => InkSet(b.text) \subseteq InksOf(ToSet(parts))
    BY TablePartsHold
  <1> HIDE DEF parts, t
  <1>4. /\ more \in Seq({chunk(k) : k \in DOMAIN parts}) /\ DOMAIN more = DOMAIN parts
        /\ \A k \in DOMAIN parts : more[k].text = parts[k]
    <2>1. DOMAIN parts = 1..Len(parts) /\ Len(parts) \in Nat BY <1>1
    <2>2. \A k \in DOMAIN parts : chunk(k).text = parts[k] OBVIOUS
    <2> HIDE DEF chunk
    <2> QED BY <2>1, <2>2
  <1>5. TextsOf(more) = ToSet(parts) BY <1>4 DEF TextsOf, ToSet
  <1>6. f \in State /\ f.pending.parts = <<>> BY FlushFits
  <1>7. StateInks(s) \subseteq InksOf(TextsOf(f.chunks)) BY FlushKeeps
  <1> DEFINE C == FitChunks \cup {chunk(k) : k \in DOMAIN parts}
  <1> HIDE DEF f, chunk
  <1>8. f.chunks \in Seq(C) /\ more \in Seq(C)
    <2>1. f.chunks \in Seq(FitChunks) BY <1>6 DEF State
    <2> HIDE DEF more
    <2> QED BY <1>4, <2>1
  <1> HIDE DEF more, C
  <1>9. next.chunks = f.chunks \o more
    <2>1. f = [chunks |-> f.chunks, pending |-> f.pending, path |-> f.path]
      BY <1>6 DEF State
    <2> HIDE DEF next
    <2> QED BY <1>2, <2>1
  <1>10. TextsOf(next.chunks) = TextsOf(f.chunks) \cup ToSet(parts)
    BY <1>5, <1>8, <1>9, TextsOfMore
  <1>11. InksOf(TextsOf(f.chunks) \cup ToSet(parts)) =
            InksOf(TextsOf(f.chunks)) \cup InksOf(ToSet(parts))
    BY InksOfMore
  <1>12. InksOf(TextsOf(next.chunks)) \subseteq StateInks(next) BY DEF StateInks
  <1> HIDE DEF next
  <1>13. StateInks(s) \cup InksOf(ToSet(parts)) \subseteq StateInks(next)
    BY <1>7, <1>10, <1>11, <1>12
  <1> QED BY <1>3, <1>13 DEF next

LEMMA AddHeadingKeeps ==
    ASSUME NEW s \in State, NEW b \in Block
    PROVE  StateInks(s) \subseteq StateInks(AddHeading(s, b))
  <1> DEFINE f == Flush(s)  next == AddHeading(s, b)
             path == Append(Kept(f.path, {i \in DOMAIN s.path : s.path[i].rank < Rank(b)}),
                            [rank |-> Rank(b), text |-> Strip(b.text)])
  <1>1. next = [f EXCEPT !.path = path] BY DEF AddHeading
  <1>2. f = [chunks |-> f.chunks, pending |-> f.pending, path |-> f.path]
    BY FlushFits DEF State
  <1>3. StateInks(s) \subseteq InksOf(TextsOf(f.chunks)) BY FlushKeeps
  <1> HIDE DEF f, path, next
  <1>4. next.chunks = f.chunks BY <1>1, <1>2
  <1> QED BY <1>3, <1>4 DEF StateInks, next

LEMMA AddToHolds ==
    ASSUME NEW p \in Pending, NEW piece \in Text, NEW page, NEW heading
    PROVE  ToSet(AddTo(p, piece, page, heading).parts) = ToSet(p.parts) \cup {piece}
  <1> DEFINE begun == IF p.parts # <<>> THEN p
                      ELSE [p EXCEPT !.first = page, !.heading = heading]
             next == AddTo(p, piece, page, heading)
  <1>1. p.parts \in Seq(Text) BY DEF Pending
  <1>2. p = [parts |-> p.parts, length |-> p.length, first |-> p.first,
             last |-> p.last, heading |-> p.heading]
    BY DEF Pending
  <1>3. begun = [parts |-> p.parts, length |-> begun.length, first |-> begun.first,
                 last |-> begun.last, heading |-> begun.heading]
    <2>1. CASE p.parts # <<>> BY <1>2, <2>1
    <2>2. CASE p.parts = <<>>
      <3>1. begun = [parts |-> p.parts, length |-> p.length, first |-> page,
                     last |-> p.last, heading |-> heading]
        BY <1>2, <2>2
      <3> QED BY <3>1
    <2> QED BY <2>1, <2>2
  <1>4. next = [begun EXCEPT !.parts = Append(@, piece), !.last = page,
                             !.length = @ + Len(piece) + 2]
    BY DEF AddTo
  <1> HIDE DEF begun, next
  <1>5. next.parts = Append(p.parts, piece) BY <1>3, <1>4
  <1>6. ToSet(Append(p.parts, piece)) = ToSet(p.parts) \cup {piece} BY <1>1, AppendHolds
  <1> QED BY <1>5, <1>6 DEF next

LEMMA AddPieceKeeps ==
    ASSUME NEW s \in State, NEW piece \in Text, NEW page
    PROVE  StateInks(s) \cup InkSet(piece) \subseteq StateInks(AddPiece(s, piece, page))
  <1> DEFINE length == s.pending.length + Len(piece)
             together == AwaitsMore(s.pending) /\ 2 * length <= 3 * MaxChars
             over == s.pending.parts # <<>> /\ length > MaxChars /\ ~together
             room == IF over THEN Flush(s) ELSE s
             p == AddTo(room.pending, piece, page, CurrentHeading(s.path))
             next == AddPiece(s, piece, page)
  <1>1. room \in State BY FlushFits
  <1>2. StateInks(s) \subseteq StateInks(room)
    <2>1. InksOf(TextsOf(Flush(s).chunks)) \subseteq StateInks(Flush(s)) BY DEF StateInks
    <2>2. StateInks(s) \subseteq StateInks(Flush(s)) BY <2>1, FlushKeeps
    <2> QED BY <2>2
  <1>3. next = [room EXCEPT !.pending = p] BY DEF AddPiece
  <1> HIDE DEF room
  <1>4. room = [chunks |-> room.chunks, pending |-> room.pending, path |-> room.path]
        /\ room.pending \in Pending
    BY <1>1 DEF State
  <1>5. ToSet(p.parts) = ToSet(room.pending.parts) \cup {piece} BY <1>4, AddToHolds
  <1> HIDE DEF p, next
  <1>6. next.chunks = room.chunks /\ next.pending = p BY <1>3, <1>4
  <1>7. InksOf(ToSet(room.pending.parts) \cup {piece}) =
           InksOf(ToSet(room.pending.parts)) \cup InksOf({piece})
    BY InksOfMore
  <1>8. InksOf({piece}) = InkSet(piece) BY InksOfOne
  <1>9. StateInks(next) = StateInks(room) \cup InkSet(piece)
    BY <1>5, <1>6, <1>7, <1>8 DEF StateInks
  <1> QED BY <1>2, <1>9 DEF next

LEMMA PiecesHold ==
    ASSUME NEW b \in Block
    PROVE  InkSet(b.text) \subseteq InksOf(ToSet(PiecesOf(b)))
  <1> DEFINE t == Strip(b.text)  pieces == PiecesOf(b)
  <1>1. t \in Text /\ InkSet(t) = InkSet(b.text) BY BlockFields, InkOfStrip DEF Block
  <1>2. CASE Len(t) > MaxChars
    <2>1. pieces = SplitOversize(t, MaxChars, OverlapChars) BY <1>2 DEF PiecesOf
    <2> QED BY <1>1, <2>1, SplitOversizeHolds, SizesAreNumbers
  <1>3. CASE ~(Len(t) > MaxChars)
    <2>1. pieces = <<t>> BY <1>3 DEF PiecesOf
    <2>2. t \in ToSet(<<t>>) BY DEF ToSet
    <2>3. InkSet(t) \subseteq InksOf(ToSet(<<t>>)) BY <2>2, InksAreUnion
    <2> QED BY <1>1, <2>1, <2>3
  <1> QED BY <1>2, <1>3

LEMMA AddTextKeeps ==
    ASSUME NEW state \in State, NEW b \in Block, Strip(b.text) # <<>>
    PROVE  StateInks(state) \cup InkSet(b.text) \subseteq StateInks(AddText(state, b))
  <1> DEFINE pieces == PiecesOf(b)  n == Len(pieces)
  <1>1. PICK s : AddTextLoop(s, state, b) BY AddTextTurns
  <1>2. pieces \in Seq(Text)
    <2>1. InkTexts(MaxChars) \subseteq Text BY DEF InkTexts, CutTexts
    <2>2. pieces \in Seq(InkTexts(MaxChars)) BY AddTextTurns
    <2> QED BY <2>1, <2>2
  <1>3. /\ s[0] = Begun(state)
        /\ \A i \in 1..n : s[i] = AddPiece(s[i - 1], pieces[i], b.page)
        /\ \A i \in 0..n : s[i] \in State
        /\ AddText(state, b) = s[n]
    BY <1>1 DEF AddTextLoop
  <1>4. InkSet(b.text) \subseteq InksOf(ToSet(pieces)) BY PiecesHold
  <1> HIDE DEF pieces
  <1>5. n \in Nat /\ DOMAIN pieces = 1..n /\ \A i \in 1..n : pieces[i] \in Text BY <1>2
  <1>6. StateInks(state) \subseteq StateInks(s[0])
    <2>1. InksOf(TextsOf(Flush(state).chunks)) \subseteq StateInks(Flush(state))
      BY DEF StateInks
    <2>2. StateInks(state) \subseteq StateInks(Flush(state)) BY <2>1, FlushKeeps
    <2> QED BY <1>3, <2>2 DEF Begun
  <1> DEFINE U == {i \in 0..n : /\ StateInks(state) \subseteq StateInks(s[i])
                                /\ \A j \in 1..i : InkSet(pieces[j]) \subseteq StateInks(s[i])}
  <1> HIDE DEF n
  <1>7. 0 \in U BY <1>5, <1>6
  <1>8. ASSUME NEW i \in 1..n, i - 1 \in U PROVE i \in U
    <2>1. i - 1 \in 0..n /\ i \in 0..n BY <1>5
    <2>2. StateInks(s[i - 1]) \cup InkSet(pieces[i]) \subseteq StateInks(s[i])
      BY <1>3, <1>5, <2>1, AddPieceKeeps
    <2>3. \A j \in 1..i : j \in 1..(i - 1) \/ j = i OBVIOUS
    <2> QED BY <1>8, <2>1, <2>2, <2>3
  <1>9. \A i \in 0..n : i \in U
    <2> HIDE DEF U
    <2> QED BY <1>5, <1>7, <1>8, CountingUp
  <1>10. n \in 0..n BY <1>5
  <1>11. /\ StateInks(state) \subseteq StateInks(s[n])
         /\ \A j \in 1..n : InkSet(pieces[j]) \subseteq StateInks(s[n])
    BY <1>9, <1>10
  <1>12. InksOf(ToSet(pieces)) \subseteq StateInks(s[n])
    <2>1. \A u \in ToSet(pieces) : InkSet(u) \subseteq StateInks(s[n])
      BY <1>5, <1>11 DEF ToSet
    <2> QED BY <2>1, InksAreUnion
  <1> QED BY <1>3, <1>4, <1>11, <1>12

\* Blocks whose text is in no chunk: a heading goes to the path of headings, and
\* a table of two lines is dropped when it is too long.
Apart(b, body) == \/ b.kind = "text" /\ IsHeading(b, body)
                  \/ HeaderOnly(b)

LEMMA AddBlockKeeps ==
    ASSUME NEW s \in State, NEW b \in Block, NEW body
    PROVE  /\ StateInks(s) \subseteq StateInks(AddBlock(s, b, body))
           /\ ~Apart(b, body) => InkSet(b.text) \subseteq StateInks(AddBlock(s, b, body))
  <1>1. CASE Strip(b.text) = <<>>
    <2>1. b.text \in Text BY DEF Block
    <2>2. InkSet(b.text) = {} BY <1>1, <2>1, InkOfStrip, InkOfNothing
    <2> QED BY <1>1, <2>2 DEF AddBlock
  <1>2. CASE Strip(b.text) # <<>> /\ b.kind = "table"
    <2>1. AddBlock(s, b, body) = AddTable(s, b) BY <1>2 DEF AddBlock
    <2> QED BY <1>2, <2>1, AddTableKeeps DEF Apart
  <1>3. CASE Strip(b.text) # <<>> /\ b.kind # "table" /\ IsHeading(b, body)
    <2>1. AddBlock(s, b, body) = AddHeading(s, b) BY <1>3 DEF AddBlock
    <2>2. b.kind = "text" BY <1>3 DEF Block
    <2> QED BY <1>3, <2>1, <2>2, AddHeadingKeeps DEF Apart
  <1>4. CASE Strip(b.text) # <<>> /\ b.kind # "table" /\ ~IsHeading(b, body)
    <2>1. AddBlock(s, b, body) = AddText(s, b) BY <1>4 DEF AddBlock
    <2>2. StateInks(s) \cup InkSet(b.text) \subseteq StateInks(AddText(s, b))
      BY <1>4, AddTextKeeps
    <2> QED BY <2>1, <2>2
  <1> QED BY <1>1, <1>2, <1>3, <1>4

\* The ink of every other block is in the chunks of a document.
LEMMA ChunkDocumentHolds ==
    ASSUME NEW blocks \in Seq(Block), NEW i \in DOMAIN blocks,
           ~Apart(blocks[i], BodySize(blocks))
    PROVE  InkSet(blocks[i].text) \subseteq InksOf(TextsOf(ChunkDocument(blocks)))
  <1> DEFINE n == Len(blocks)  body == BodySize(blocks)  ink == InkSet(blocks[i].text)
  <1>1. PICK s : ChunkDocumentLoop(s, blocks) BY ChunkDocumentTurns
  <1>2. n \in Nat /\ i \in 1..n /\ \A k \in 1..n : blocks[k] \in Block OBVIOUS
  <1>3. /\ \A k \in 1..n : s[k] = AddBlock(s[k - 1], blocks[k], body)
        /\ \A k \in 0..n : s[k] \in State
        /\ ChunkDocument(blocks) = Flush(s[n]).chunks
    BY <1>1 DEF ChunkDocumentLoop
  <1> DEFINE U == {k \in 0..n : k >= i => ink \subseteq StateInks(s[k])}
  <1> HIDE DEF body, n
  <1>4. 0 \in U BY <1>2
  <1>5. ASSUME NEW k \in 1..n, k - 1 \in U PROVE k \in U
    <2>1. k - 1 \in 0..n /\ k \in 0..n BY <1>2
    <2>2. StateInks(s[k - 1]) \subseteq StateInks(s[k])
      BY <1>2, <1>3, <2>1, AddBlockKeeps
    <2>3. CASE k = i
      <3>1. ink \subseteq StateInks(s[k])
        <4>1. ~Apart(blocks[i], body) BY DEF body
        <4> QED BY <1>2, <1>3, <2>1, <2>3, <4>1, AddBlockKeeps
      <3> QED BY <2>1, <3>1
    <2>4. CASE k # i
      <3>1. k >= i => k - 1 >= i BY <1>2, <2>4
      <3> QED BY <1>5, <2>1, <2>2, <3>1
    <2> QED BY <2>3, <2>4
  <1>6. \A k \in 0..n : k \in U
    <2> HIDE DEF U
    <2> QED BY <1>2, <1>4, <1>5, CountingUp
  <1>7. n \in 0..n /\ n >= i BY <1>2
  <1>8. ink \subseteq StateInks(s[n]) BY <1>6, <1>7
  <1> HIDE DEF ink
  <1>9. StateInks(s[n]) \subseteq InksOf(TextsOf(Flush(s[n]).chunks))
    BY <1>3, <1>7, FlushKeeps
  <1> QED BY <1>3, <1>8, <1>9 DEF ink

-----------------------------------------------------------------------------
(* The headings of the chunks, and of what is pending.                     *)

TitlesOf(list) == UNION {ToSet(c.heading) : c \in ToSet(list)}
TitlesIn(s) == TitlesOf(s.chunks)
                 \cup IF s.pending.parts = <<>> THEN {} ELSE ToSet(s.pending.heading)

LEMMA FlushCarries ==
    ASSUME NEW s \in State
    PROVE  TitlesIn(s) \subseteq TitlesOf(Flush(s).chunks)
  <1> DEFINE p == s.pending
             c == [text |-> JoinParts(p.parts), page_number |-> p.first,
                   page_end |-> p.last, heading |-> p.heading, chunk_type |-> "text"]
  <1>1. s.chunks \in Seq(FitChunks) /\ p \in Pending /\ s.path \in Path BY DEF State
  <1>2. s = [chunks |-> s.chunks, pending |-> p, path |-> s.path] BY DEF State
  <1>3. CASE p.parts = <<>> BY <1>3 DEF Flush, TitlesIn
  <1>4. CASE p.parts # <<>>
    <2>1. c \in FitChunks
      <3>1. c \in TextChunk BY <1>1, <1>4 DEF Pending, TextChunk
      <3> QED BY <3>1 DEF FitChunks
    <2>2. Flush(s) = [s EXCEPT !.pending = NoPending, !.chunks = Append(@, c)]
      BY <1>4 DEF Flush
    <2>3. c.heading = p.heading OBVIOUS
    <2> HIDE DEF c, p
    <2>4. Flush(s).chunks = Append(s.chunks, c) BY <1>2, <2>2
    <2>5. ToSet(Append(s.chunks, c)) = ToSet(s.chunks) \cup {c}
      BY <1>1, <2>1, AppendHolds
    <2> QED BY <2>3, <2>4, <2>5 DEF TitlesIn, TitlesOf, p
  <1> QED BY <1>3, <1>4

\* Its own heading is over what a table becomes, if it becomes a chunk.
LEMMA AddTableCarries ==
    ASSUME NEW s \in State, NEW b \in Block
    PROVE  /\ AddTable(s, b).path = s.path
           /\ TitlesIn(s) \subseteq TitlesIn(AddTable(s, b))
           /\ b.kind = "table" /\ ~HeaderOnly(b) /\ InkSet(b.text) # {} =>
                 ToSet(CurrentHeading(s.path)) \subseteq TitlesIn(AddTable(s, b))
  <1> DEFINE parts == SplitTable(Strip(b.text), MaxTableChars)
             chunk(k) == [text |-> parts[k], page_number |-> b.page,
                          page_end |-> b.page, heading |-> CurrentHeading(s.path),
                          chunk_type |-> "table"]
             more == [k \in DOMAIN parts |-> chunk(k)]
             f == Flush(s)  next == AddTable(s, b)
  <1>1. parts \in Seq(Text)
    <2>1. PartTexts(MaxTableChars) \subseteq Text BY DEF PartTexts
    <2>2. Strip(b.text) \in Text BY BlockFields
    <2> QED BY <2>1, <2>2, SplitTableFits, SizesAreNumbers
  <1>2. next = [f EXCEPT !.chunks = @ \o more] BY DEF AddTable
  <1>3. b.kind = "table" /\ ~HeaderOnly(b) /\ InkSet(b.text) # {} => parts # <<>>
    <2> HAVE b.kind = "table" /\ ~HeaderOnly(b) /\ InkSet(b.text) # {}
    <2>1. PICK x : x \in InkSet(b.text) OBVIOUS
    <2>2. x \in InksOf(ToSet(parts)) BY <2>1, TablePartsHold
    <2>3. ToSet(parts) # {} BY <2>2, InksAreUnion
    <2> HIDE DEF parts
    <2> QED BY <2>3 DEF ToSet
  <1> HIDE DEF parts
  <1>4. /\ more \in Seq({chunk(k) : k \in DOMAIN parts}) /\ DOMAIN more = DOMAIN parts
        /\ \A k \in DOMAIN parts : more[k].heading = CurrentHeading(s.path)
    <2>1. DOMAIN parts = 1..Len(parts) /\ Len(parts) \in Nat BY <1>1
    <2>2. \A k \in DOMAIN parts : chunk(k).heading = CurrentHeading(s.path) OBVIOUS
    <2> HIDE DEF chunk
    <2> QED BY <2>1, <2>2
  <1>5. parts # <<>> => ToSet(CurrentHeading(s.path)) \subseteq TitlesOf(more)
    <2> HAVE parts # <<>>
    <2>1. 1 \in DOMAIN parts BY <1>1
    <2>2. more[1] \in ToSet(more) /\ more[1].heading = CurrentHeading(s.path)
      BY <1>4, <2>1 DEF ToSet
    <2> QED BY <2>2 DEF TitlesOf
  <1>6. f \in State /\ f.pending.parts = <<>> /\ f.path = s.path BY FlushFits
  <1>7. TitlesIn(s) \subseteq TitlesOf(f.chunks) BY FlushCarries
  <1> DEFINE C == FitChunks \cup {chunk(k) : k \in DOMAIN parts}
  <1> HIDE DEF f, chunk
  <1>8. f.chunks \in Seq(C) /\ more \in Seq(C)
    <2>1. f.chunks \in Seq(FitChunks) BY <1>6 DEF State
    <2> HIDE DEF more
    <2> QED BY <1>4, <2>1
  <1> HIDE DEF more, C
  <1>9. next.chunks = f.chunks \o more /\ next.path = f.path
    <2>1. f = [chunks |-> f.chunks, pending |-> f.pending, path |-> f.path]
      BY <1>6 DEF State
    <2> HIDE DEF next
    <2> QED BY <1>2, <2>1
  <1>10. ToSet(next.chunks) = ToSet(f.chunks) \cup ToSet(more)
    BY <1>8, <1>9, MembersOfJoin
  <1> HIDE DEF next
  <1>11. TitlesOf(f.chunks) \cup TitlesOf(more) \subseteq TitlesIn(next)
    BY <1>10 DEF TitlesOf, TitlesIn
  <1> QED BY <1>3, <1>5, <1>6, <1>7, <1>9, <1>11 DEF next

LEMMA AddHeadingCarries ==
    ASSUME NEW s \in State, NEW b \in Block
    PROVE  /\ TitlesIn(s) \subseteq TitlesIn(AddHeading(s, b))
           /\ AddHeading(s, b).path =
                 Append(Kept(s.path, {i \in DOMAIN s.path : s.path[i].rank < Rank(b)}),
                        [rank |-> Rank(b), text |-> Strip(b.text)])
  <1> DEFINE f == Flush(s)  next == AddHeading(s, b)
             path == Append(Kept(f.path, {i \in DOMAIN s.path : s.path[i].rank < Rank(b)}),
                            [rank |-> Rank(b), text |-> Strip(b.text)])
  <1>1. next = [f EXCEPT !.path = path] BY DEF AddHeading
  <1>2. f = [chunks |-> f.chunks, pending |-> f.pending, path |-> f.path]
        /\ f.path = s.path
    BY FlushFits DEF State
  <1>3. TitlesIn(s) \subseteq TitlesOf(f.chunks) BY FlushCarries
  <1> HIDE DEF f, path, next
  <1>4. next.chunks = f.chunks /\ next.path = path BY <1>1, <1>2
  <1> QED BY <1>2, <1>3, <1>4 DEF TitlesIn, next, path

\* What pends keeps its heading.
LEMMA AddToHeads ==
    ASSUME NEW p \in Pending, NEW piece, NEW page, NEW heading
    PROVE  AddTo(p, piece, page, heading).heading =
              IF p.parts = <<>> THEN heading ELSE p.heading
  <1> DEFINE begun == IF p.parts # <<>> THEN p
                      ELSE [p EXCEPT !.first = page, !.heading = heading]
             next == AddTo(p, piece, page, heading)
  <1>1. p = [parts |-> p.parts, length |-> p.length, first |-> p.first,
             last |-> p.last, heading |-> p.heading]
    BY DEF Pending
  <1>2. begun.heading = (IF p.parts = <<>> THEN heading ELSE p.heading)
        /\ begun = [parts |-> begun.parts, length |-> begun.length, first |-> begun.first,
                    last |-> begun.last, heading |-> begun.heading]
    <2>1. CASE p.parts # <<>> BY <1>1, <2>1
    <2>2. CASE p.parts = <<>>
      <3>1. begun = [parts |-> p.parts, length |-> p.length, first |-> page,
                     last |-> p.last, heading |-> heading]
        BY <1>1, <2>2
      <3> QED BY <2>2, <3>1
    <2> QED BY <2>1, <2>2
  <1>3. next = [begun EXCEPT !.parts = Append(@, piece), !.last = page,
                             !.length = @ + Len(piece) + 2]
    BY DEF AddTo
  <1> HIDE DEF begun, next
  <1>4. next.heading = begun.heading BY <1>2, <1>3
  <1> QED BY <1>2, <1>4 DEF next

\* A piece is added under the current heading, if that is the heading of what
\* is pending.
UnderHeading(s) == s.pending.parts # <<>> => s.pending.heading = CurrentHeading(s.path)

LEMMA AddPieceCarries ==
    ASSUME NEW s \in State, NEW piece \in Text, NEW page, UnderHeading(s)
    PROVE  LET next == AddPiece(s, piece, page)
           IN /\ next.path = s.path /\ TitlesIn(s) \subseteq TitlesIn(next)
              /\ next.pending.parts # <<>> /\ UnderHeading(next)
  <1> DEFINE length == s.pending.length + Len(piece)
             together == AwaitsMore(s.pending) /\ 2 * length <= 3 * MaxChars
             over == s.pending.parts # <<>> /\ length > MaxChars /\ ~together
             room == IF over THEN Flush(s) ELSE s
             heading == CurrentHeading(s.path)
             p == AddTo(room.pending, piece, page, heading)
             next == AddPiece(s, piece, page)
  <1>1. room \in State /\ room.path = s.path BY FlushFits
  <1>2. TitlesIn(s) \subseteq TitlesIn(room)
    <2>1. TitlesOf(Flush(s).chunks) \subseteq TitlesIn(Flush(s)) BY DEF TitlesIn
    <2> QED BY <2>1, FlushCarries
  <1>3. room.pending.parts # <<>> => room.pending.heading = heading
    BY FlushFits DEF UnderHeading
  <1>4. next = [room EXCEPT !.pending = p] BY DEF AddPiece
  <1> HIDE DEF room, heading
  <1>5. room = [chunks |-> room.chunks, pending |-> room.pending, path |-> room.path]
        /\ room.pending \in Pending
    BY <1>1 DEF State
  <1>6. p.heading = heading /\ p.parts # <<>>
    <2>1. p.heading = IF room.pending.parts = <<>> THEN heading ELSE room.pending.heading
      BY <1>5, AddToHeads
    <2>2. ToSet(p.parts) = ToSet(room.pending.parts) \cup {piece} BY <1>5, AddToHolds
    <2>3. ToSet(<<>>) = {} BY DEF ToSet
    <2> HIDE DEF p
    <2> QED BY <1>3, <2>1, <2>2, <2>3
  <1> HIDE DEF p, next
  <1>7. next.chunks = room.chunks /\ next.pending = p /\ next.path = room.path
    BY <1>4, <1>5
  <1>8. TitlesIn(room) \subseteq TitlesIn(next) BY <1>3, <1>6, <1>7 DEF TitlesIn
  <1>9. next.pending.parts # <<>> /\ next.path = s.path /\ UnderHeading(next)
    BY <1>1, <1>6, <1>7 DEF UnderHeading, heading
  <1> QED BY <1>2, <1>8, <1>9 DEF next

LEMMA AddTextCarries ==
    ASSUME NEW state \in State, NEW b \in Block, Strip(b.text) # <<>>
    PROVE  LET next == AddText(state, b)
           IN /\ next.path = state.path /\ TitlesIn(state) \subseteq TitlesIn(next)
              /\ InkSet(b.text) # {} =>
                    ToSet(CurrentHeading(state.path)) \subseteq TitlesIn(next)
  <1> DEFINE pieces == PiecesOf(b)  n == Len(pieces)
  <1>1. PICK s : AddTextLoop(s, state, b) BY AddTextTurns
  <1>2. pieces \in Seq(Text) /\ Begun(state) \in State
    <2>1. InkTexts(MaxChars) \subseteq Text BY DEF InkTexts, CutTexts
    <2>2. pieces \in Seq(InkTexts(MaxChars)) BY AddTextTurns
    <2> HIDE DEF pieces
    <2> QED BY <2>1, <2>2, AddTextTurns
  <1>3. /\ s[0] = Begun(state)
        /\ \A i \in 1..n : s[i] = AddPiece(s[i - 1], pieces[i], b.page)
        /\ \A i \in 0..n : s[i] \in State
        /\ AddText(state, b) = s[n]
    BY <1>1 DEF AddTextLoop
  <1>4. InkSet(b.text) # {} => n > 0
    <2> HAVE InkSet(b.text) # {}
    <2>1. PICK x : x \in InkSet(b.text) OBVIOUS
    <2>2. x \in InksOf(ToSet(pieces)) BY <2>1, PiecesHold
    <2>3. ToSet(pieces) # {} BY <2>2, InksAreUnion
    <2> HIDE DEF pieces
    <2> QED BY <1>2, <2>3 DEF ToSet
  <1> HIDE DEF pieces
  <1>5. n \in Nat /\ \A i \in 1..n : pieces[i] \in Text BY <1>2
  <1> DEFINE Carried(i) == /\ s[i].path = state.path
                           /\ TitlesIn(state) \subseteq TitlesIn(s[i])
                           /\ UnderHeading(s[i])
                           /\ i > 0 => s[i].pending.parts # <<>>
             U == {i \in 0..n : Carried(i)}
  <1> HIDE DEF n
  <1>6. 0 \in U
    <2> DEFINE f == Flush(state)
    <2>1. CASE state.pending.heading = CurrentHeading(state.path)
      <3>1. s[0] = state BY <1>3, <2>1 DEF Begun
      <3>2. Carried(0) BY <2>1, <3>1 DEF UnderHeading
      <3> HIDE DEF Carried
      <3> QED BY <1>5, <3>2
    <2>2. CASE state.pending.heading # CurrentHeading(state.path)
      <3>1. s[0] = f BY <1>3, <2>2 DEF Begun
      <3>2. f.path = state.path /\ f.pending.parts = <<>> BY FlushFits
      <3>3. TitlesIn(state) \subseteq TitlesIn(f)
        <4>1. TitlesOf(f.chunks) \subseteq TitlesIn(f) BY DEF TitlesIn
        <4> QED BY <4>1, FlushCarries
      <3> HIDE DEF f
      <3>4. Carried(0) BY <3>1, <3>2, <3>3 DEF UnderHeading
      <3> HIDE DEF Carried
      <3> QED BY <1>5, <3>4
    <2> QED BY <2>1, <2>2
  <1>7. ASSUME NEW i \in 1..n, i - 1 \in U PROVE i \in U
    <2>1. i - 1 \in 0..n /\ i \in 0..n BY <1>5
    <2>2. Carried(i - 1) BY <1>7
    <2>3. /\ s[i].path = s[i - 1].path /\ TitlesIn(s[i - 1]) \subseteq TitlesIn(s[i])
          /\ s[i].pending.parts # <<>> /\ UnderHeading(s[i])
      <3>1. s[i - 1] \in State /\ pieces[i] \in Text /\ UnderHeading(s[i - 1])
        BY <1>3, <1>5, <2>1, <2>2
      <3>2. s[i] = AddPiece(s[i - 1], pieces[i], b.page) BY <1>3
      <3> HIDE DEF Carried
      <3> QED BY <3>1, <3>2, AddPieceCarries
    <2>4. Carried(i) BY <2>2, <2>3
    <2> HIDE DEF Carried
    <2> QED BY <2>1, <2>4
  <1>8. n \in U
    <2> HIDE DEF U
    <2>1. \A i \in 0..n : i \in U BY <1>5, <1>6, <1>7, CountingUp
    <2> QED BY <1>5, <2>1
  <1>9. Carried(n)
    <2> HIDE DEF Carried
    <2> QED BY <1>8
  <1>10. n > 0 => ToSet(CurrentHeading(state.path)) \subseteq TitlesIn(s[n])
    <2> HAVE n > 0
    <2>1. /\ s[n].path = state.path /\ s[n].pending.parts # <<>>
          /\ s[n].pending.heading = CurrentHeading(s[n].path)
      BY <1>9 DEF UnderHeading
    <2> QED BY <2>1, Zenon DEF TitlesIn
  <1>11. AddText(state, b) = s[n] /\ s[n].path = state.path
         /\ TitlesIn(state) \subseteq TitlesIn(s[n])
    BY <1>3, <1>9
  <1> HIDE DEF Carried
  <1> QED BY <1>4, <1>10, <1>11, Zenon

\* A block keeps the headings of the chunks, and what becomes a chunk is under
\* the current one.
LEMMA AddBlockCarries ==
    ASSUME NEW s \in State, NEW b \in Block, NEW body
    PROVE  LET next == AddBlock(s, b, body)
           IN /\ TitlesIn(s) \subseteq TitlesIn(next)
              /\ ~(b.kind = "text" /\ IsHeading(b, body)) =>
                    /\ next.path = s.path
                    /\ InkSet(b.text) # {} /\ ~HeaderOnly(b) =>
                          ToSet(CurrentHeading(s.path)) \subseteq TitlesIn(next)
              /\ b.kind = "text" /\ IsHeading(b, body) => next = AddHeading(s, b)
  <1>1. CASE Strip(b.text) = <<>>
    <2>1. b.text \in Text BY DEF Block
    <2>2. InkSet(b.text) = {} BY <1>1, <2>1, InkOfStrip, InkOfNothing
    <2>3. ~IsHeading(b, body) BY <1>1 DEF IsHeading
    <2> QED BY <1>1, <2>2, <2>3 DEF AddBlock
  <1>2. CASE Strip(b.text) # <<>> /\ b.kind = "table"
    <2>1. AddBlock(s, b, body) = AddTable(s, b) BY <1>2 DEF AddBlock
    <2> QED BY <1>2, <2>1, AddTableCarries
  <1>3. CASE Strip(b.text) # <<>> /\ b.kind # "table" /\ IsHeading(b, body)
    <2>1. AddBlock(s, b, body) = AddHeading(s, b) BY <1>3 DEF AddBlock
    <2>2. b.kind = "text" BY <1>3 DEF Block
    <2> QED BY <1>3, <2>1, <2>2, AddHeadingCarries
  <1>4. CASE Strip(b.text) # <<>> /\ b.kind # "table" /\ ~IsHeading(b, body)
    <2>1. AddBlock(s, b, body) = AddText(s, b) BY <1>4 DEF AddBlock
    <2> QED BY <1>4, <2>1, AddTextCarries
  <1> QED BY <1>1, <1>2, <1>3, <1>4

\* The headings among the first n blocks that have not been popped: no later
\* one is as important.
Standing(n) == {h \in Heads : /\ h <= n
                              /\ \A g \in Heads : h < g /\ g <= n =>
                                    Rank(Blocks[h]) < Rank(Blocks[g])}
LevelOf(i) == [rank |-> Rank(Blocks[i]), text |-> Strip(Blocks[i].text)]

\* The path lists them in their order.
Listed(path, S) ==
    \E f \in [1..Len(path) -> S] :
        /\ \A k \in 1..Len(path) : path[k] = LevelOf(f[k])
        /\ \A h \in S : \E k \in 1..Len(path) : f[k] = h
        /\ \A k, l \in 1..Len(path) : k < l => f[k] < f[l]

LEMMA HeadsAreBlocks ==
    ASSUME Blocks \in Seq(Block)
    PROVE  /\ Len(Blocks) \in Nat /\ Heads \subseteq 1..Len(Blocks)
           /\ \A h \in 1..Len(Blocks) :
                 /\ Blocks[h] \in Block /\ Rank(Blocks[h]) \in Int
                 /\ LevelOf(h) \in Level
                 /\ h \in Heads <=> /\ Blocks[h].kind = "text"
                                    /\ IsHeading(Blocks[h], BodySize(Blocks))
  <1>1. Len(Blocks) \in Nat /\ DOMAIN Blocks = 1..Len(Blocks)
        /\ \A h \in 1..Len(Blocks) : Blocks[h] \in Block
    OBVIOUS
  <1>2. \A h \in 1..Len(Blocks) : Rank(Blocks[h]) \in Int /\ Strip(Blocks[h].text) \in Text
    BY <1>1, BlockFields
  <1>3. \A h \in 1..Len(Blocks) : LevelOf(h) \in Level BY <1>2 DEF LevelOf, Level
  <1> QED BY <1>1, <1>2, <1>3 DEF Heads

\* A heading pops those that are not more important.
LEMMA StandingAfter ==
    ASSUME Blocks \in Seq(Block), NEW n \in 1..Len(Blocks)
    PROVE  /\ n \notin Heads => Standing(n) = Standing(n - 1)
           /\ n \in Heads => Standing(n) =
                 {h \in Standing(n - 1) : Rank(Blocks[h]) < Rank(Blocks[n])} \cup {n}
  <1>1. /\ Len(Blocks) \in Nat /\ Heads \subseteq 1..Len(Blocks)
        /\ \A h \in Heads : h \in Nat
    BY HeadsAreBlocks
  <1>2. n \in Nat /\ \A h \in Heads : h <= n <=> (h <= n - 1 \/ h = n) BY <1>1
  <1>3. CASE n \notin Heads
    <2>1. \A h \in Heads : h <= n <=> h <= n - 1 BY <1>2, <1>3
    <2> QED BY <1>3, <2>1 DEF Standing
  <1>4. CASE n \in Heads
    <2> DEFINE S == {h \in Standing(n - 1) : Rank(Blocks[h]) < Rank(Blocks[n])}
    <2>1. ASSUME NEW h \in Standing(n) PROVE h \in S \cup {n}
      <3>1. h \in Heads /\ h <= n
            /\ \A g \in Heads : h < g /\ g <= n => Rank(Blocks[h]) < Rank(Blocks[g])
        BY DEF Standing
      <3>2. CASE h # n
        <4>1. h <= n - 1 /\ h < n /\ n <= n BY <1>1, <1>2, <3>1, <3>2
        <4>2. Rank(Blocks[h]) < Rank(Blocks[n]) BY <1>4, <3>1, <4>1
        <4>3. \A g \in Heads : g <= n - 1 => g <= n BY <1>2
        <4>4. h \in Standing(n - 1) BY <3>1, <4>1, <4>3 DEF Standing
        <4> QED BY <4>2, <4>4
      <3> QED BY <3>2
    <2>2. ASSUME NEW h \in S PROVE h \in Standing(n)
      <3>1. /\ h \in Heads /\ h <= n - 1 /\ Rank(Blocks[h]) < Rank(Blocks[n])
            /\ \A g \in Heads : h < g /\ g <= n - 1 => Rank(Blocks[h]) < Rank(Blocks[g])
        BY DEF Standing
      <3>2. h <= n BY <1>2, <3>1
      <3>3. \A g \in Heads : h < g /\ g <= n => Rank(Blocks[h]) < Rank(Blocks[g])
        BY <1>2, <3>1
      <3> QED BY <3>1, <3>2, <3>3 DEF Standing
    <2>3. n \in Standing(n)
      <3>1. n <= n /\ \A g \in Heads : ~(n < g /\ g <= n) BY <1>1
      <3> QED BY <1>4, <3>1 DEF Standing
    <2> HIDE DEF S
    <2>4. Standing(n) = S \cup {n} BY <2>1, <2>2, <2>3
    <2> QED BY <1>4, <2>4 DEF S
  <1> QED BY <1>3, <1>4

LEMMA PathAfterHeading ==
    ASSUME Blocks \in Seq(Block), NEW n \in 1..Len(Blocks), n \in Heads,
           NEW path \in Path, Listed(path, Standing(n - 1))
    PROVE  Listed(Append(Kept(path, {i \in DOMAIN path : path[i].rank < Rank(Blocks[n])}),
                         LevelOf(n)),
                  Standing(n))
  <1> DEFINE above == {i \in DOMAIN path : path[i].rank < Rank(Blocks[n])}
             kept == Kept(path, above)  m == Len(kept)
             next == Append(kept, LevelOf(n))
             S == Standing(n - 1)  R == Standing(n)
  <1>1. PICK f \in [1..Len(path) -> S] :
            /\ \A k \in 1..Len(path) : path[k] = LevelOf(f[k])
            /\ \A h \in S : \E k \in 1..Len(path) : f[k] = h
            /\ \A k, l \in 1..Len(path) : k < l => f[k] < f[l]
    BY DEF Listed
  <1>2. /\ n \in Nat /\ LevelOf(n) \in Level
        /\ \A h \in S : h \in Nat /\ h < n
    <2>1. \A h \in S : h \in 1..Len(Blocks) /\ h <= n - 1 BY HeadsAreBlocks DEF Standing
    <2>2. n \in Nat /\ Len(Blocks) \in Nat BY HeadsAreBlocks
    <2> HIDE DEF S
    <2> QED BY <2>1, <2>2, HeadsAreBlocks
  <1>3. R = {h \in S : Rank(Blocks[h]) < Rank(Blocks[n])} \cup {n} BY StandingAfter
  <1>4. path \in Seq(Level) /\ DOMAIN path = 1..Len(path) /\ above \in SUBSET DOMAIN path
    BY DEF Path
  <1> HIDE DEF S, R
  <1>5. \A k \in 1..Len(path) : k \in above <=> Rank(Blocks[f[k]]) < Rank(Blocks[n])
    <2>1. \A h : LevelOf(h).rank = Rank(Blocks[h]) BY DEF LevelOf
    <2> QED BY <1>1, <1>4, <2>1
  <1> HIDE DEF above
  <1>6. kept \in Seq(Level) /\
        \E p \in [1..m -> above] :
            /\ \A i \in 1..m : kept[i] = path[p[i]]
            /\ \A x \in above : \E i \in 1..m : p[i] = x
            /\ \A i, j \in 1..m : i < j => p[i] < p[j]
    BY <1>4, KeptKeepsOrder
  <1> HIDE DEF kept
  <1>7. PICK p \in [1..m -> above] :
            /\ \A i \in 1..m : kept[i] = path[p[i]]
            /\ \A x \in above : \E i \in 1..m : p[i] = x
            /\ \A i, j \in 1..m : i < j => p[i] < p[j]
    BY <1>6
  <1>8. /\ m \in Nat /\ Len(next) = m + 1 /\ next[m + 1] = LevelOf(n)
        /\ \A i \in 1..m : next[i] = kept[i]
    BY <1>2, <1>6
  <1> HIDE DEF next, m
  <1> DEFINE g == [k \in 1..(m + 1) |-> IF k = m + 1 THEN n ELSE f[p[k]]]
  <1>9. \A k \in 1..(m + 1) : k \in 1..m \/ k = m + 1 BY <1>8
  <1>10. \A k \in 1..m : k # m + 1 /\ k \in 1..(m + 1) /\ p[k] \in 1..Len(path) /\ p[k] \in above
    BY <1>4, <1>7, <1>8
  <1>11. \A k \in 1..m : g[k] = f[p[k]] /\ g[k] \in S /\ g[k] \in R
    BY <1>1, <1>3, <1>5, <1>10
  <1>12. g[m + 1] = n /\ n \in R /\ m + 1 \in 1..(m + 1) BY <1>3, <1>8
  <1>13. g \in [1..(m + 1) -> R]
    <2>1. \A k \in 1..(m + 1) : g[k] \in R BY <1>9, <1>11, <1>12
    <2> QED BY <2>1
  <1>14. \A k \in 1..(m + 1) : next[k] = LevelOf(g[k])
    BY <1>1, <1>7, <1>8, <1>9, <1>10, <1>11, <1>12
  <1>15. ASSUME NEW h \in R PROVE \E k \in 1..(m + 1) : g[k] = h
    <2>1. CASE h = n BY <1>12, <2>1
    <2>2. CASE h # n
      <3>1. h \in S /\ Rank(Blocks[h]) < Rank(Blocks[n]) BY <1>3, <2>2
      <3>2. PICK j \in 1..Len(path) : f[j] = h BY <1>1, <3>1
      <3>3. j \in above BY <1>5, <3>1, <3>2
      <3>4. PICK k \in 1..m : p[k] = j BY <1>7, <3>3
      <3> QED BY <1>10, <1>11, <3>2, <3>4
    <2> QED BY <2>1, <2>2
  <1>16. ASSUME NEW k \in 1..(m + 1), NEW l \in 1..(m + 1), k < l PROVE g[k] < g[l]
    <2>1. k \in 1..m BY <1>8, <1>16
    <2>2. CASE l \in 1..m
      <3>1. p[k] < p[l] BY <1>7, <1>16, <2>1, <2>2
      <3> QED BY <1>1, <1>10, <1>11, <2>1, <2>2, <3>1
    <2>3. CASE l = m + 1 BY <1>2, <1>11, <1>12, <2>1, <2>3
    <2> QED BY <1>9, <2>2, <2>3
  <1> HIDE DEF g
  <1>17. Listed(next, R)
    <2>1. 1..Len(next) = 1..(m + 1) BY <1>8
    <2>2. /\ g \in [1..Len(next) -> R]
          /\ \A k \in 1..Len(next) : next[k] = LevelOf(g[k])
          /\ \A h \in R : \E k \in 1..Len(next) : g[k] = h
          /\ \A k, l \in 1..Len(next) : k < l => g[k] < g[l]
      BY <1>13, <1>14, <1>15, <1>16, <2>1, Zenon
    <2> QED BY <2>2, Zenon DEF Listed
  <1> QED BY <1>17 DEF next, kept, above, R

\* Along the blocks, the path lists the headings that stand.
LEMMA PathListsStanding ==
    ASSUME Blocks \in Seq(Block), NEW s, ChunkDocumentLoop(s, Blocks)
    PROVE  \A n \in 0..Len(Blocks) : Listed(s[n].path, Standing(n))
  <1> DEFINE N == Len(Blocks)  body == BodySize(Blocks)
             U == {n \in 0..N : Listed(s[n].path, Standing(n))}
  <1>1. /\ s[0] = [chunks |-> <<>>, pending |-> NoPending, path |-> <<>>]
        /\ \A n \in 1..N : s[n] = AddBlock(s[n - 1], Blocks[n], body)
        /\ \A n \in 0..N : s[n] \in State
    BY DEF ChunkDocumentLoop
  <1>2. N \in Nat /\ \A h \in Heads : h \in 1..N BY HeadsAreBlocks
  <1> HIDE DEF N
  <1>3. 0 \in U
    <2>1. Standing(0) = {} BY <1>2 DEF Standing
    <2>2. s[0].path = <<>> BY <1>1
    <2>3. Listed(<<>>, {})
      <3> DEFINE f == [k \in 1..Len(<<>>) |-> k]
      <3>1. 1..Len(<<>>) = {} OBVIOUS
      <3>2. f \in [1..Len(<<>>) -> {}] BY <3>1
      <3> HIDE DEF f
      <3> QED BY <3>1, <3>2 DEF Listed
    <2>4. 0 \in 0..N BY <1>2
    <2> QED BY <2>1, <2>2, <2>3, <2>4, Zenon
  <1>4. ASSUME NEW n \in 1..N, n - 1 \in U PROVE n \in U
    <2> DEFINE b == Blocks[n]  t == s[n - 1]
    <2>1. n - 1 \in 0..N /\ n \in 0..N /\ t \in State /\ s[n] = AddBlock(t, b, body)
      BY <1>1, <1>2
    <2>2. Listed(t.path, Standing(n - 1)) BY <1>4
    <2>3. /\ b \in Block /\ n \in 1..Len(Blocks)
          /\ n \in Heads <=> b.kind = "text" /\ IsHeading(b, body)
      BY HeadsAreBlocks DEF N
    <2> HIDE DEF b, t, body
    <2>4. CASE n \notin Heads
      <3>1. s[n].path = t.path BY <2>1, <2>3, <2>4, AddBlockCarries
      <3>2. Standing(n) = Standing(n - 1) BY <2>3, <2>4, StandingAfter
      <3> QED BY <2>1, <2>2, <3>1, <3>2
    <2>5. CASE n \in Heads
      <3>1. s[n] = AddHeading(t, b) BY <2>1, <2>3, <2>5, AddBlockCarries
      <3>2. s[n].path = Append(Kept(t.path, {i \in DOMAIN t.path : t.path[i].rank < Rank(b)}),
                               LevelOf(n))
        BY <2>1, <2>3, <3>1, AddHeadingCarries DEF LevelOf, b
      <3>3. t.path \in Path BY <2>1 DEF State
      <3>4. Listed(s[n].path, Standing(n))
        BY <2>2, <2>3, <2>5, <3>2, <3>3, PathAfterHeading DEF b
      <3> QED BY <2>1, <3>4
    <2> QED BY <2>4, <2>5
  <1>5. \A n \in 0..N : n \in U
    <2> HIDE DEF U
    <2> QED BY <1>2, <1>3, <1>4, CountingUp
  <1> QED BY <1>5 DEF N

\* The last of those that stand, and the one before it, are the headings over
\* what comes next.
LEMMA HeadsOverStand ==
    ASSUME Blocks \in Seq(Block), NEW j \in 1..Len(Blocks), NEW i \in ToSet(HeadsOver(j))
    PROVE  /\ i \in Standing(j - 1)
           /\ \A g, h \in Standing(j - 1) : ~(i < g /\ g < h)
  <1> DEFINE before == {h \in Heads : h < j}
             near == LargestOf(before)
             above == {h \in before : Rank(Blocks[h]) < Rank(Blocks[near])}
             far == LargestOf(above)
             S == Standing(j - 1)
  <1>1. /\ Len(Blocks) \in Nat /\ \A h \in Heads : h \in 1..Len(Blocks) /\ h \in Nat
        /\ \A h \in Heads : Rank(Blocks[h]) \in Int
    BY HeadsAreBlocks
  <1>2. j \in Nat /\ \A h \in Heads : h < j <=> h <= j - 1 BY <1>1
  <1>3. before # {} /\ (i = near \/ (above # {} /\ i = far))
    <2>1. /\ ToSet(<<>>) = {} /\ \A x : ToSet(<<x>>) = {x}
          /\ \A x, y : ToSet(<<x, y>>) = {x, y}
      BY DEF ToSet
    <2>2. HeadsOver(j) = IF before = {} THEN <<>>
                         ELSE IF above = {} THEN <<near>> ELSE <<far, near>>
      BY DEF HeadsOver
    <2> HIDE DEF before, near, above, far
    <2> QED BY <2>1, <2>2
  <1>4. near \in before /\ \A h \in before : h <= near
    <2>1. before \in SUBSET (1..Len(Blocks)) BY <1>1
    <2> HIDE DEF before
    <2> QED BY <1>1, <1>3, <2>1, FirstAndLast
  <1> HIDE DEF near
  <1>5. \A h \in S : h \in before /\ h <= near
    BY <1>2, <1>4 DEF Standing
  <1>6. near \in S
    <2>1. \A g \in Heads : near < g /\ g <= j - 1 => FALSE BY <1>1, <1>2, <1>4
    <2> QED BY <1>2, <1>4, <2>1 DEF Standing
  <1>7. CASE i = near
    <2>1. \A g, h \in S : ~(near < g /\ g < h) BY <1>1, <1>4, <1>5
    <2> QED BY <1>6, <1>7, <2>1
  <1>8. CASE above # {} /\ i = far
    <2>1. far \in above /\ \A h \in above : h <= far
      <3>1. above \in SUBSET (1..Len(Blocks)) BY <1>1
      <3> HIDE DEF above
      <3> QED BY <1>1, <1>8, <3>1, FirstAndLast
    <2> HIDE DEF far
    <2>2. ASSUME NEW g \in Heads, far < g, g <= j - 1
          PROVE  Rank(Blocks[far]) < Rank(Blocks[g])
      <3>1. g \in before /\ far \in Heads BY <1>2, <2>1, <2>2
      <3>2. g \notin above BY <1>1, <2>1, <2>2, <3>1
      <3> QED BY <1>1, <1>4, <2>1, <3>1, <3>2
    <2>3. far \in S BY <1>2, <2>1, <2>2 DEF Standing
    <2>4. ASSUME NEW g \in S, NEW h \in S, far < g, g < h PROVE FALSE
      <3>1. g \in before /\ h \in before /\ h <= near BY <1>5
      <3>2. g < near /\ near <= j - 1 /\ near \in Heads BY <1>1, <1>2, <1>4, <2>4, <3>1
      <3>3. Rank(Blocks[g]) < Rank(Blocks[near]) BY <3>2 DEF Standing
      <3>4. g \in above BY <3>1, <3>3
      <3> QED BY <1>1, <2>1, <2>4, <3>1, <3>4
    <2> QED BY <1>8, <2>3, <2>4
  <1> QED BY <1>3, <1>7, <1>8

LEMMA HeadsAreCurrent ==
    ASSUME Blocks \in Seq(Block), NEW j \in 1..Len(Blocks), NEW i \in ToSet(HeadsOver(j)),
           NEW path \in Path, Listed(path, Standing(j - 1))
    PROVE  Strip(Blocks[i].text) \in ToSet(CurrentHeading(path))
  <1> DEFINE S == Standing(j - 1)  n == Len(path)  m == SmallestOf({2, n})
  <1>1. PICK f \in [1..n -> S] :
            /\ \A k \in 1..n : path[k] = LevelOf(f[k])
            /\ \A h \in S : \E k \in 1..n : f[k] = h
            /\ \A k, l \in 1..n : k < l => f[k] < f[l]
    BY DEF Listed
  <1>2. i \in S /\ \A g, h \in S : ~(i < g /\ g < h) BY HeadsOverStand
  <1> HIDE DEF S
  <1>3. PICK k \in 1..n : f[k] = i BY <1>1, <1>2
  <1>4. n \in Nat BY DEF Path
  <1> HIDE DEF n
  <1>5. k >= n - 1
    <2> SUFFICES ASSUME k < n - 1 PROVE FALSE BY <1>3, <1>4
    <2>1. k + 1 \in 1..n /\ n \in 1..n /\ k < k + 1 /\ k + 1 < n BY <1>3, <1>4
    <2>2. f[k] < f[k + 1] /\ f[k + 1] < f[n] BY <1>1, <1>3, <2>1
    <2>3. f[k + 1] \in S /\ f[n] \in S BY <1>1, <2>1
    <2> QED BY <1>2, <1>3, <2>2, <2>3
  <1>6. m \in Nat /\ m <= n /\ (n = 1 => m = 1) /\ (n > 1 => m = 2)
    <2>1. \E x \in {2, n} : \A y \in {2, n} : x <= y
      <3>1. CASE 2 <= n BY <1>4, <3>1
      <3>2. CASE n <= 2 BY <1>4, <3>2
      <3> QED BY <1>4, <3>1, <3>2
    <2>2. m \in {2, n} /\ \A y \in {2, n} : m <= y BY <2>1 DEF SmallestOf
    <2> HIDE DEF m
    <2> QED BY <1>4, <2>2
  <1>7. CurrentHeading(path) = [l \in 1..m |-> path[n - m + l].text]
    BY DEF CurrentHeading, n
  <1> HIDE DEF m
  <1>8. k - (n - m) \in 1..m /\ n - m + (k - (n - m)) = k BY <1>3, <1>4, <1>5, <1>6
  <1>9. CurrentHeading(path)[k - (n - m)] = path[k].text BY <1>7, <1>8
  <1>10. path[k].text = Strip(Blocks[i].text)
    <2>1. path[k] = LevelOf(i) BY <1>1, <1>3
    <2>2. LevelOf(i).text = Strip(Blocks[i].text) BY DEF LevelOf
    <2> QED BY <2>1, <2>2
  <1>11. k - (n - m) \in DOMAIN CurrentHeading(path) BY <1>7, <1>8
  <1> QED BY <1>9, <1>10, <1>11 DEF ToSet

\* A chunk has the headings over every block that becomes one.
LEMMA ChunkDocumentCarries ==
    ASSUME Blocks \in Seq(Block), NEW j \in Body, NEW i \in ToSet(HeadsOver(j))
    PROVE  Strip(Blocks[i].text) \in TitlesOf(ChunkDocument(Blocks))
  <1> DEFINE n == Len(Blocks)  body == BodySize(Blocks)  title == Strip(Blocks[i].text)
  <1>1. PICK s : ChunkDocumentLoop(s, Blocks) BY ChunkDocumentTurns
  <1>2. n \in Nat /\ j \in 1..n /\ j \notin Heads
        /\ InkSet(Blocks[j].text) # {} /\ ~HeaderOnly(Blocks[j])
    BY DEF Body
  <1>3. /\ \A k \in 1..n : s[k] = AddBlock(s[k - 1], Blocks[k], body)
        /\ \A k \in 0..n : s[k] \in State
        /\ ChunkDocument(Blocks) = Flush(s[n]).chunks
    BY <1>1 DEF ChunkDocumentLoop
  <1>4. \A k \in 1..n : Blocks[k] \in Block OBVIOUS
  <1>5. ~(Blocks[j].kind = "text" /\ IsHeading(Blocks[j], body)) BY <1>2, HeadsAreBlocks
  <1>6. title \in ToSet(CurrentHeading(s[j - 1].path))
    <2>1. j - 1 \in 0..n BY <1>2
    <2>2. Listed(s[j - 1].path, Standing(j - 1)) BY <1>1, <2>1, PathListsStanding
    <2>3. s[j - 1].path \in Path BY <1>3, <2>1 DEF State
    <2> QED BY <1>2, <2>2, <2>3, HeadsAreCurrent
  <1> DEFINE U == {k \in 0..n : k >= j => title \in TitlesIn(s[k])}
  <1> HIDE DEF body, n, title
  <1>7. 0 \in U BY <1>2
  <1>8. ASSUME NEW k \in 1..n, k - 1 \in U PROVE k \in U
    <2>1. k - 1 \in 0..n /\ k \in 0..n BY <1>2
    <2>2. TitlesIn(s[k - 1]) \subseteq TitlesIn(s[k])
      BY <1>3, <1>4, <2>1, AddBlockCarries
    <2>3. CASE k = j
      <3>1. title \in TitlesIn(s[k])
        <4>1. s[j - 1] \in State /\ s[j] = AddBlock(s[j - 1], Blocks[j], body)
          BY <1>3, <2>1, <2>3
        <4>2. Blocks[j] \in Block BY <1>2, <1>4
        <4>3. ToSet(CurrentHeading(s[j - 1].path)) \subseteq TitlesIn(s[j])
          BY <1>2, <1>5, <4>1, <4>2, AddBlockCarries
        <4> QED BY <1>6, <2>3, <4>3
      <3> QED BY <2>1, <3>1
    <2>4. CASE k # j
      <3>1. k >= j => k - 1 >= j BY <1>2, <2>4
      <3> QED BY <1>8, <2>1, <2>2, <3>1
    <2> QED BY <2>3, <2>4
  <1>9. \A k \in 0..n : k \in U
    <2> HIDE DEF U
    <2> QED BY <1>2, <1>7, <1>8, CountingUp
  <1>10. n \in 0..n /\ n >= j BY <1>2
  <1>11. title \in TitlesIn(s[n]) BY <1>9, <1>10
  <1>12. TitlesIn(s[n]) \subseteq TitlesOf(Flush(s[n]).chunks)
    BY <1>3, <1>10, FlushCarries
  <1> QED BY <1>3, <1>11, <1>12 DEF title

-----------------------------------------------------------------------------
(* The ink of what pypdf and OCR read.                                     *)

LEMMA ParagraphsHold ==
    ASSUME NEW t \in Text
    PROVE  InkSet(t) \subseteq InksOf(ToSet(Paragraphs(t)))
  <1> DEFINE u == Strip(t)
             break(i) == u[i][1] = "\n"
             empty == {i \in DOMAIN u : break(i) /\ \E j \in DOMAIN u \ {i} :
                          break(j) /\ \A k \in (i..j) \cup (j..i) : Blank(u[k])}
  <1>1. Paragraphs(t) = Pieces(u, empty) BY DEF Paragraphs
  <1>2. u \in Text /\ InkSet(u) = InkSet(t) BY StripIsPart, InkOfStrip
  <1>3. \A i \in empty \cap DOMAIN u : Blank(u[i]) BY DEF Blank
  <1> HIDE DEF u, empty
  <1>4. InkSet(u) \subseteq InksOf(ToSet(Pieces(u, empty))) BY <1>2, <1>3, InkOfPieces
  <1> QED BY <1>1, <1>2, <1>4

LEMMA PypdfPageHolds ==
    ASSUME NEW page \in Page, NEW number
    PROVE  InkSet(page.plain) \subseteq InksOf(TextsOf(PypdfPage(page, number)))
  <1> DEFINE p == Paragraphs(page.plain)
             block(t) == [kind |-> "text", text |-> t, page |-> number,
                          size |-> NoSize, bold |-> FALSE]
             blocks == PypdfPage(page, number)
  <1>1. blocks = [i \in DOMAIN p |-> block(p[i])] BY DEF PypdfPage
  <1>2. InkSet(page.plain) \subseteq InksOf(ToSet(p)) BY PageFields, ParagraphsHold
  <1>3. \A t : block(t).text = t OBVIOUS
  <1> HIDE DEF p, block
  <1>4. DOMAIN blocks = DOMAIN p /\ \A i \in DOMAIN p : blocks[i].text = p[i]
    BY <1>1, <1>3
  <1> HIDE DEF blocks
  <1>5. ToSet(p) \subseteq TextsOf(blocks) BY <1>4 DEF TextsOf, ToSet
  <1>6. InksOf(ToSet(p)) \subseteq InksOf(TextsOf(blocks)) BY <1>5, InksOfMore
  <1> QED BY <1>2, <1>6 DEF blocks

LEMMA JoinedLinesHold ==
    ASSUME NEW lines \in Seq(Text)
    PROVE  InksOf(ToSet(lines)) \subseteq InkSet(JoinLines(lines))
  <1>1. <<Break>> \in Text BY MarksAreChars DEF Text
  <1> QED BY <1>1, InkOfJoin DEF JoinLines

LEMMA PlainTextHolds ==
    ASSUME NEW text \in Text, NEW page
    PROVE  InkSet(text) \subseteq InksOf(TextsOf(PlainTextBlocks(text, page)))
  <1> DEFINE paragraphs == Paragraphs(text)
             kind(line) == IF line[1][1] = "|" THEN "table" ELSE "text"
             breaks(p) == {i \in DOMAIN p : p[i][1] = "\n"}
             lines(p) == Pieces(p, breaks(p))
             changes(ls) == {i \in 2..Len(ls) : kind(ls[i]) # kind(ls[i - 1])}
             runsOf(p) == Runs(lines(p), changes(lines(p)))
             parts == [k \in DOMAIN paragraphs |-> runsOf(paragraphs[k])]
             runs == FlattenSeq(parts)
             block(run) == [kind |-> kind(run[1]), text |-> JoinLines(run),
                            page |-> page, size |-> NoSize, bold |-> FALSE]
             blocks == PlainTextBlocks(text, page)
             L == Seq(Text)
  <1>1. blocks = [k \in DOMAIN runs |-> block(runs[k])] BY DEF PlainTextBlocks
  <1>2. paragraphs \in Seq(Text) BY ParagraphsAreTexts
  <1>3. ASSUME NEW p \in Text
        PROVE  /\ runsOf(p) \in Seq(L)
               /\ \A x \in InkSet(p) : \E run \in ToSet(runsOf(p)) : x \in InksOf(ToSet(run))
    <2> DEFINE ls == lines(p)  C == changes(ls)
    <2>1. ls \in Seq(Text) BY PiecesAreTexts
    <2>2. InkSet(p) \subseteq InksOf(ToSet(ls))
      <3>1. \A i \in breaks(p) \cap DOMAIN p : Blank(p[i]) BY DEF Blank
      <3> HIDE DEF breaks
      <3> QED BY <3>1, InkOfPieces
    <2> HIDE DEF ls, C
    <2> DEFINE rs == Runs(ls, C)
    <2>3. /\ rs \in Seq(Seq(Text))
          /\ \A j \in 1..Len(ls) : \E k \in 1..Len(rs) : ls[j] \in ToSet(rs[k])
      BY <2>1, RunsAreParts
    <2> HIDE DEF rs
    <2>4. DOMAIN ls = 1..Len(ls) /\ DOMAIN rs = 1..Len(rs) BY <2>1, <2>3
    <2>5. ASSUME NEW x \in InkSet(p)
          PROVE  \E run \in ToSet(rs) : x \in InksOf(ToSet(run))
      <3>1. PICK l \in ToSet(ls) : x \in InkSet(l) BY <2>2, InksAreUnion
      <3>2. PICK k \in 1..Len(rs) : l \in ToSet(rs[k]) BY <2>3, <2>4 DEF ToSet
      <3>3. rs[k] \in ToSet(rs) BY <2>4 DEF ToSet
      <3>4. x \in InksOf(ToSet(rs[k])) BY <3>1, <3>2, InksAreUnion
      <3> QED BY <3>3, <3>4
    <2> QED BY <2>3, <2>5 DEF ls, C, rs
  <1>4. InkSet(text) \subseteq InksOf(ToSet(paragraphs)) BY ParagraphsHold
  <1> HIDE DEF runsOf, paragraphs
  <1>5. DOMAIN paragraphs = 1..Len(paragraphs) /\ Len(paragraphs) \in Nat BY <1>2
  <1>6. parts \in Seq(Seq(L)) /\ Len(parts) = Len(paragraphs)
        /\ \A k \in DOMAIN paragraphs : parts[k] = runsOf(paragraphs[k])
    <2> HIDE DEF L
    <2> QED BY <1>2, <1>3, <1>5
  <1> HIDE DEF parts
  <1>7. runs \in Seq(L) /\ ToSet(runs) = UNION {ToSet(parts[k]) : k \in 1..Len(parts)}
    <2> HIDE DEF L
    <2> QED BY <1>6, FlattenMembers
  <1> HIDE DEF runs
  <1>8. \A run : block(run).text = JoinLines(run) OBVIOUS
  <1> HIDE DEF block
  <1>9. DOMAIN blocks = DOMAIN runs /\ \A k \in DOMAIN runs : blocks[k].text = JoinLines(runs[k])
    BY <1>1, <1>8
  <1> HIDE DEF blocks
  <1>10. ASSUME NEW x \in InkSet(text) PROVE x \in InksOf(TextsOf(blocks))
    <2>1. PICK p \in ToSet(paragraphs) : x \in InkSet(p) BY <1>4, InksAreUnion
    <2>2. PICK k \in 1..Len(paragraphs) : paragraphs[k] = p BY <1>5 DEF ToSet
    <2>3. p \in Text BY <1>2, <2>2
    <2>4. PICK run \in ToSet(runsOf(p)) : x \in InksOf(ToSet(run)) BY <1>3, <2>1, <2>3
    <2>5. run \in ToSet(runs) BY <1>5, <1>6, <1>7, <2>2, <2>4
    <2>6. PICK j \in DOMAIN runs : runs[j] = run BY <2>5 DEF ToSet
    <2>7. run \in Seq(Text) BY <1>7, <2>6
    <2>8. x \in InkSet(blocks[j].text) BY <1>9, <2>4, <2>6, <2>7, JoinedLinesHold
    <2>9. blocks[j].text \in TextsOf(blocks) BY <1>9, <2>6 DEF TextsOf, ToSet
    <2> QED BY <2>8, <2>9, InksAreUnion
  <1> QED BY <1>10 DEF blocks

-----------------------------------------------------------------------------
(* The ink of a table of a page.                                           *)

\* A cell of the table holds x.
Holds(cells, x) == \E r \in DOMAIN cells : \E i \in DOMAIN cells[r] : x \in InkSet(cells[r][i])

LEMMA CleanCellHolds ==
    ASSUME NEW cell \in Text PROVE InkSet(CleanCell(cell)) = InkSet(cell)
  <1>1. cell # NoCell
    <2>1. "none" \notin Kinds BY DEF Kinds
    <2>2. <<"none", 0>> \notin Char BY <2>1 DEF Char
    <2>3. cell = NoCell => cell[1] = <<"none", 0>> /\ 1 \in 1..Len(cell) BY DEF NoCell
    <2>4. \A i \in 1..Len(cell) : cell[i] \in Char BY DEF Text
    <2> QED BY <2>2, <2>3, <2>4
  <1> QED BY <1>1, InkOfStrip DEF CleanCell

LEMMA InkedRowsHold ==
    ASSUME NEW table \in Seq(Seq(Cell)), NEW r \in DOMAIN table, NEW i \in DOMAIN table[r],
           table[r][i] # NoCell, NEW x \in InkSet(table[r][i])
    PROVE  Holds(InkedRows(table), x)
  <1> DEFINE row(q) == [j \in DOMAIN table[q] |-> CleanCell(FilledCell(table, q, j))]
             clean == [q \in DOMAIN table |-> row(q)]
             S == {q \in DOMAIN clean : \E j \in DOMAIN clean[q] : clean[q][j] # <<>>}
             inked == InkedRows(table)
  <1>1. inked = Kept(clean, S) BY DEF InkedRows
  <1>2. table[r][i] \in Text
    <2>1. table[r] \in Seq(Cell) OBVIOUS
    <2>2. table[r][i] \in Cell BY <2>1
    <2> QED BY <2>2 DEF Cell
  <1>3. FilledCell(table, r, i) = table[r][i] BY DEF FilledCell
  <1>4. /\ DOMAIN clean = DOMAIN table /\ DOMAIN clean[r] = DOMAIN table[r]
        /\ clean[r][i] = CleanCell(table[r][i])
    BY <1>3
  <1>5. x \in InkSet(clean[r][i]) BY <1>2, <1>4, CleanCellHolds
  <1>6. r \in S
    <2>1. clean[r][i] # <<>> BY <1>5, InkOfNothing
    <2> HIDE DEF clean
    <2> QED BY <1>4, <2>1
  <1>7. clean \in Seq({row(q) : q \in DOMAIN table})
    <2>1. DOMAIN table = 1..Len(table) /\ Len(table) \in Nat OBVIOUS
    <2> HIDE DEF row
    <2> QED BY <2>1
  <1>8. S \in SUBSET DOMAIN clean OBVIOUS
  <1> DEFINE T == {row(q) : q \in DOMAIN table}
  <1> HIDE DEF clean, S, row
  <1>9. ToSet(Kept(clean, S)) = {clean[q] : q \in S}
    <2> HIDE DEF T
    <2> QED BY <1>7, <1>8, InkOfKept DEF T
  <1>10. clean[r] \in ToSet(inked) BY <1>1, <1>6, <1>9
  <1> HIDE DEF inked
  <1>11. PICK k \in DOMAIN inked : inked[k] = clean[r] BY <1>10 DEF ToSet
  <1> QED BY <1>4, <1>5, <1>11 DEF Holds, inked

LEMMA InkedColumnsHold ==
    ASSUME NEW table \in Seq(Seq(Text)), NEW x, Holds(table, x)
    PROVE  Holds(InkedColumns(table), x)
  <1> DEFINE n == Len(table)
             lengths == {0} \cup {Len(table[r]) : r \in DOMAIN table}
             width == LargestOf(lengths)
             inked == {i \in 1..width :
                          \E r \in DOMAIN table : CellAt(table[r], i) # <<>>}
             columns == Places(inked, width)
             row(r) == [k \in DOMAIN columns |-> CellAt(table[r], columns[k])]
             cut == InkedColumns(table)
  <1>1. cut = [r \in DOMAIN table |-> row(r)] BY DEF InkedColumns
  <1>2. n \in Nat /\ DOMAIN table = 1..n /\ \A r \in 1..n : table[r] \in Seq(Text)
    OBVIOUS
  <1>3. PICK r \in 1..n : \E i \in DOMAIN table[r] : x \in InkSet(table[r][i])
    BY <1>2 DEF Holds
  <1>4. PICK i \in DOMAIN table[r] : x \in InkSet(table[r][i]) BY <1>3
  <1> HIDE DEF n
  <1>5. width \in Nat /\ width >= Len(table[r])
    <2> DEFINE f == [k \in 1..(n + 1) |-> IF k = n + 1 THEN 0 ELSE Len(table[k])]
    <2>1. \A q \in 1..n : Len(table[q]) \in Nat BY <1>2
    <2>2. \A k \in 1..(n + 1) : k \in 1..n \/ k = n + 1 BY <1>2
    <2>3. f \in [1..(n + 1) -> Int] /\ \A k \in 1..(n + 1) : f[k] \in Nat BY <2>1, <2>2
    <2>4. lengths = {f[k] : k \in 1..(n + 1)}
      <3>1. n + 1 \in 1..(n + 1) /\ f[n + 1] = 0 BY <1>2
      <3>2. \A q \in 1..n : q \in 1..(n + 1) /\ f[q] = Len(table[q]) BY <1>2
      <3> HIDE DEF f
      <3> QED BY <1>2, <2>2, <3>1, <3>2
    <2>5. Len(table[r]) \in lengths BY <1>2
    <2> HIDE DEF f, lengths
    <2>6. LargestOf(lengths) \in lengths /\ \A y \in lengths : LargestOf(lengths) >= y
      <3>1. n + 1 \in Nat \ {0} BY <1>2
      <3> QED BY <2>3, <2>4, <3>1, LargestIsLast
    <2> QED BY <2>3, <2>4, <2>5, <2>6
  <1>6. i \in 1..width
    <2>1. table[r] \in Seq(Text) BY <1>2
    <2>2. i \in 1..Len(table[r]) /\ Len(table[r]) \in Nat BY <2>1
    <2> HIDE DEF width
    <2> QED BY <1>5, <2>2
  <1>7. CellAt(table[r], i) = table[r][i] BY DEF CellAt
  <1>8. table[r][i] # <<>> BY <1>4, InkOfNothing
  <1> HIDE DEF width
  <1>9. i \in inked BY <1>2, <1>6, <1>7, <1>8
  <1> HIDE DEF inked
  <1>10. PICK k \in 1..Len(columns) : columns[k] = i
    <2>1. Rises(columns, inked, width) BY <1>5, PlacesRise
    <2> QED BY <1>6, <1>9, <2>1 DEF Rises
  <1>11. DOMAIN columns = 1..Len(columns)
    <2>1. Rises(columns, inked, width) BY <1>5, PlacesRise
    <2> HIDE DEF columns
    <2>2. columns \in Seq(1..width) BY <2>1 DEF Rises
    <2> QED BY <2>2
  <1> HIDE DEF columns
  <1>12. /\ DOMAIN cut = 1..n /\ DOMAIN cut[r] = 1..Len(columns)
         /\ cut[r][k] = table[r][i]
    BY <1>1, <1>2, <1>7, <1>10, <1>11
  <1> HIDE DEF cut
  <1> QED BY <1>4, <1>12 DEF Holds, cut

LEMMA RowTextHolds ==
    ASSUME NEW cells \in Seq(Text), NEW i \in DOMAIN cells
    PROVE  InkSet(cells[i]) \subseteq InkSet(RowText(cells))
  <1> DEFINE cell(k) == <<Space>> \o cells[k] \o <<Space, Bar>>
             parts == [k \in DOMAIN cells |-> cell(k)]
             flat == FlattenSeq(parts)
  <1>1. RowText(cells) = <<Bar>> \o flat BY DEF RowText
  <1>2. <<Space>> \in Text /\ <<Space, Bar>> \in Text /\ <<Bar>> \in Text
    BY CharTypes, MarksAreChars DEF Text
  <1>3. DOMAIN cells = 1..Len(cells) /\ Len(cells) \in Nat
        /\ \A k \in 1..Len(cells) : cells[k] \in Text
    OBVIOUS
  <1>4. ASSUME NEW k \in 1..Len(cells)
        PROVE  cell(k) \in Text /\ InkSet(cells[k]) \subseteq InkSet(cell(k))
    <2> DEFINE a == <<Space>> \o cells[k]
    <2>1. a \in Text /\ a \o <<Space, Bar>> \in Text
      <3>1. cells[k] \in Seq(Char) BY <1>3 DEF Text
      <3> QED BY <1>2, <3>1 DEF Text
    <2>2. InkSet(a) = InkSet(<<Space>>) \cup InkSet(cells[k]) BY <1>2, <1>3, InkOfTwo
    <2> HIDE DEF a
    <2>3. InkSet(a \o <<Space, Bar>>) = InkSet(a) \cup InkSet(<<Space, Bar>>)
      BY <1>2, <2>1, InkOfTwo
    <2> QED BY <2>1, <2>2, <2>3 DEF a
  <1> HIDE DEF cell
  <1>5. parts \in Seq(Text) /\ DOMAIN parts = DOMAIN cells
        /\ \A k \in DOMAIN cells : parts[k] = cell(k)
    BY <1>3, <1>4
  <1> HIDE DEF parts
  <1>6. InkSet(flat) = InksOf(ToSet(parts)) BY <1>5, InkOfFlatten
  <1>7. flat \in Text BY <1>5, FlattenMembers DEF Text
  <1> HIDE DEF flat
  <1>8. InkSet(<<Bar>> \o flat) = InkSet(<<Bar>>) \cup InkSet(flat) BY <1>2, <1>7, InkOfTwo
  <1>9. InkSet(cells[i]) \subseteq InksOf(ToSet(parts))
    <2>1. parts[i] \in ToSet(parts) BY <1>5 DEF ToSet
    <2>2. InkSet(cells[i]) \subseteq InkSet(parts[i]) BY <1>3, <1>4, <1>5
    <2> QED BY <2>1, <2>2, InksAreUnion
  <1> QED BY <1>1, <1>6, <1>8, <1>9

LEMMA MarkdownHolds ==
    ASSUME NEW cells \in Seq(Seq(Text)), NEW x, Holds(cells, x)
    PROVE  x \in InkSet(Markdown(cells))
  <1> DEFINE header == [k \in DOMAIN cells[1] |->
                           IF cells[1][k] = <<>> THEN <<Filler>> ELSE cells[1][k]]
             rule == [k \in DOMAIN cells[1] |-> <<Filler, Filler, Filler>>]
             body == [r \in 1..(Len(cells) - 1) |-> cells[r + 1]]
             all == <<header, rule>> \o body
             texts == [r \in DOMAIN all |-> RowText(all[r])]
             cell == FlattenSeq(cells)
             S == {i \in DOMAIN cell : cell[i] # <<>>}
             flat == Len(cells) < 2 \/ \A r \in DOMAIN cells : Len(cells[r]) < 2
  <1>1. Markdown(cells) = IF flat THEN WithSpaces(Kept(cell, S)) ELSE JoinLines(texts)
    BY DEF Markdown
  <1>2. /\ Len(cells) \in Nat /\ DOMAIN cells = 1..Len(cells)
        /\ \A r \in 1..Len(cells) : cells[r] \in Seq(Text)
    OBVIOUS
  <1>3. PICK r \in 1..Len(cells) : \E i \in DOMAIN cells[r] : x \in InkSet(cells[r][i])
    BY <1>2 DEF Holds
  <1>4. PICK i \in DOMAIN cells[r] : x \in InkSet(cells[r][i]) BY <1>3
  <1>5. cells[r] \in Seq(Text) /\ cells[r][i] # <<>> BY <1>2, <1>4, InkOfNothing
  <1>6. x \in InkSet(WithSpaces(Kept(cell, S)))
    <2>1. cell \in Seq(Text) /\ ToSet(cell) = UNION {ToSet(cells[q]) : q \in 1..Len(cells)}
      BY FlattenMembers
    <2>2. cells[r][i] \in ToSet(cell)
      <3>1. cells[r][i] \in ToSet(cells[r]) BY DEF ToSet
      <3> HIDE DEF cell
      <3> QED BY <2>1, <3>1
    <2>3. S \in SUBSET DOMAIN cell OBVIOUS
    <2>4. PICK j \in DOMAIN cell : cell[j] = cells[r][i]
      <3> HIDE DEF cell, S
      <3> QED BY <2>2 DEF ToSet
    <2>5. j \in S BY <1>5, <2>4
    <2> HIDE DEF cell, S
    <2>6. Kept(cell, S) \in Seq(Text) /\ cells[r][i] \in ToSet(Kept(cell, S))
      <3>1. /\ ToSet(Kept(cell, S)) = {cell[k] : k \in S}
            /\ Kept(cell, S) \in Seq(Text)
        BY <2>1, <2>3, InkOfKept
      <3> QED BY <2>4, <2>5, <3>1
    <2> DEFINE kept == Kept(cell, S)
    <2> HIDE DEF kept
    <2>7. InksOf(ToSet(kept)) \subseteq InkSet(WithSpaces(kept))
      <3>1. <<Space>> \in Text BY MarksAreChars DEF Text
      <3> QED BY <2>6, <3>1, InkOfJoin DEF WithSpaces, kept
    <2>8. x \in InksOf(ToSet(kept)) BY <1>4, <2>6, InksAreUnion DEF kept
    <2> QED BY <2>7, <2>8 DEF kept
  <1>7. ASSUME ~flat PROVE x \in InkSet(JoinLines(texts))
    <2>1. Len(cells) >= 2 BY <1>2, <1>7
    <2>2. cells[1] \in Seq(Text) BY <1>2, <2>1
    <2>3. DOMAIN cells[1] = 1..Len(cells[1]) /\ Len(cells[1]) \in Nat
          /\ \A k \in 1..Len(cells[1]) : cells[1][k] \in Text
      BY <2>2
    <2>4. <<Filler>> \in Text /\ <<Filler, Filler, Filler>> \in Text
      BY MarksAreChars DEF Text
    <2>5. header \in Seq(Text)
      <3> DEFINE own(k) == IF cells[1][k] = <<>> THEN <<Filler>> ELSE cells[1][k]
      <3>1. \A k \in 1..Len(cells[1]) : own(k) \in Text BY <2>3, <2>4
      <3>2. header = [k \in 1..Len(cells[1]) |-> own(k)] BY <2>3
      <3> HIDE DEF own, header
      <3> QED BY <2>3, <3>1, <3>2
    <2>6. rule \in Seq(Text) BY <2>3, <2>4
    <2>7. /\ body \in Seq(Seq(Text)) /\ Len(body) = Len(cells) - 1
          /\ \A q \in 1..(Len(cells) - 1) : body[q] = cells[q + 1]
      <3>1. \A q \in 1..(Len(cells) - 1) : cells[q + 1] \in Seq(Text) BY <1>2, <2>1
      <3>2. Len(cells) - 1 \in Nat BY <1>2, <2>1
      <3> QED BY <3>1, <3>2
    <2>8. r = 1 => i \in DOMAIN header /\ header[i] = cells[r][i] BY <1>5
    <2> HIDE DEF header, rule, body
    <2>9. /\ all \in Seq(Seq(Text)) /\ DOMAIN all = 1..(Len(cells) + 1)
          /\ all[1] = header /\ \A q \in 1..(Len(cells) - 1) : all[q + 2] = cells[q + 1]
      <3> DEFINE T == Seq(Text)
      <3>1. header \in T /\ rule \in T /\ body \in Seq(T) BY <2>5, <2>6, <2>7
      <3> HIDE DEF T
      <3>2. all \in Seq(T) /\ Len(all) = 2 + Len(body) /\ all[1] = header
            /\ \A q \in 1..Len(body) : all[2 + q] = body[q]
        BY <3>1
      <3> HIDE DEF all
      <3>3. 2 + Len(body) = Len(cells) + 1 BY <1>2, <2>7
      <3>4. DOMAIN all = 1..(Len(cells) + 1) BY <3>2, <3>3
      <3>5. ASSUME NEW q \in 1..(Len(cells) - 1) PROVE all[q + 2] = cells[q + 1]
        <4>1. q \in 1..Len(body) /\ 2 + q = q + 2 BY <2>7
        <4> QED BY <2>7, <3>2, <4>1
      <3> QED BY <3>2, <3>4, <3>5 DEF T
    <2> HIDE DEF all
    <2>10. PICK a \in 1..(Len(cells) + 1) : i \in DOMAIN all[a] /\ all[a][i] = cells[r][i]
      <3>1. CASE r = 1
        <4>1. 1 \in 1..(Len(cells) + 1) BY <1>2
        <4> QED BY <2>8, <2>9, <3>1, <4>1
      <3>2. CASE r # 1
        <4>1. r - 1 \in 1..(Len(cells) - 1) /\ (r - 1) + 1 = r
              /\ (r - 1) + 2 \in 1..(Len(cells) + 1)
          BY <1>2, <3>2
        <4>2. all[(r - 1) + 2] = cells[r] BY <2>9, <4>1
        <4> QED BY <4>1, <4>2
      <3> QED BY <3>1, <3>2
    <2>11. all[a] \in Seq(Text)
      <3>1. Len(all) \in Nat /\ DOMAIN all = 1..Len(all) BY <2>9
      <3> QED BY <2>9, <2>10, <3>1
    <2>12. InkSet(cells[r][i]) \subseteq InkSet(RowText(all[a]))
      BY <2>10, <2>11, RowTextHolds
    <2>13. texts \in Seq(Text) /\ RowText(all[a]) \in ToSet(texts)
      <3>1. DOMAIN all = 1..Len(all) /\ Len(all) \in Nat
            /\ \A q \in 1..Len(all) : all[q] \in Seq(Text)
        BY <2>9
      <3>2. \A q \in 1..Len(all) : RowText(all[q]) \in Text BY <3>1, RowTextsAreTexts
      <3>3. texts \in Seq(Text) BY <3>1, <3>2
      <3>4. a \in DOMAIN texts /\ texts[a] = RowText(all[a]) BY <2>9, <2>10
      <3> HIDE DEF texts
      <3> QED BY <3>3, <3>4 DEF ToSet
    <2> HIDE DEF texts
    <2>14. InksOf(ToSet(texts)) \subseteq InkSet(JoinLines(texts)) BY <2>13, JoinedLinesHold
    <2>15. x \in InksOf(ToSet(texts)) BY <1>4, <2>12, <2>13, InksAreUnion
    <2> QED BY <2>14, <2>15
  <1> HIDE DEF flat, texts, cell, S
  <1> QED BY <1>1, <1>6, <1>7

LEMMA TableHolds ==
    ASSUME NEW table \in Seq(Seq(Cell))
    PROVE  InksOf(ToSet(FlattenSeq(table)) \ {NoCell}) \subseteq InkSet(TableToMarkdown(table))
  <1> SUFFICES ASSUME NEW x \in InksOf(ToSet(FlattenSeq(table)) \ {NoCell})
               PROVE  x \in InkSet(TableToMarkdown(table))
    OBVIOUS
  <1>1. PICK c \in ToSet(FlattenSeq(table)) \ {NoCell} : x \in InkSet(c) BY InksAreUnion
  <1>2. ToSet(FlattenSeq(table)) = UNION {ToSet(table[r]) : r \in 1..Len(table)}
    BY FlattenMembers
  <1>3. PICK r \in 1..Len(table) : c \in ToSet(table[r]) BY <1>1, <1>2
  <1>4. PICK i \in DOMAIN table[r] : table[r][i] = c BY <1>3 DEF ToSet
  <1>5. r \in DOMAIN table OBVIOUS
  <1>6. Holds(InkedRows(table), x) BY <1>1, <1>4, <1>5, InkedRowsHold
  <1>7. Holds(InkedColumns(InkedRows(table)), x)
    BY <1>6, InkedRowsAreTexts, InkedColumnsHold
  <1>8. InkedColumns(InkedRows(table)) \in Seq(Seq(Text))
    BY InkedRowsAreTexts, InkedColumnsAreTexts
  <1> QED BY <1>7, <1>8, MarkdownHolds DEF TableToMarkdown

-----------------------------------------------------------------------------
(* The ink of the words of a page.                                         *)

LEMMA LineHolds ==
    ASSUME NEW words \in Seq(Word), NEW w \in ToSet(words)
    PROVE  InkSet(w.text) \subseteq InkSet(LineOf(words).text)
  <1> DEFINE ordered == Sorted(words, LeftToRight(words))
             texts == [i \in DOMAIN ordered |-> ordered[i].text]
  <1>1. LineOf(words).text = WithSpaces(texts) BY DEF LineOf
  <1>2. /\ ordered \in Seq(Word)
        /\ \A j \in 1..Len(words) : words[j] \in ToSet(ordered)
    BY WordsAreOrdered, SortedKeeps
  <1>3. w \in ToSet(ordered)
    <2>1. DOMAIN words = 1..Len(words) OBVIOUS
    <2>2. PICK j \in 1..Len(words) : words[j] = w BY <2>1 DEF ToSet
    <2> HIDE DEF ordered
    <2> QED BY <1>2, <2>2
  <1> HIDE DEF ordered
  <1>4. texts \in Seq(Text)
    <2>1. DOMAIN ordered = 1..Len(ordered) /\ Len(ordered) \in Nat BY <1>2
    <2>2. \A i \in 1..Len(ordered) : ordered[i].text \in Text BY <1>2, WordFields
    <2> QED BY <2>1, <2>2
  <1>5. w.text \in ToSet(texts) BY <1>3 DEF ToSet
  <1> HIDE DEF texts
  <1>6. InksOf(ToSet(texts)) \subseteq InkSet(WithSpaces(texts))
    <2>1. <<Space>> \in Text BY MarksAreChars DEF Text
    <2> QED BY <1>4, <2>1, InkOfJoin DEF WithSpaces
  <1>7. InkSet(w.text) \subseteq InksOf(ToSet(texts)) BY <1>5, InksAreUnion
  <1> QED BY <1>1, <1>6, <1>7

LEMMA LinesHold ==
    ASSUME NEW words \in Seq(Word), NEW w \in ToSet(words)
    PROVE  InkSet(w.text) \subseteq InksOf(TextsOf(WordsToLines(words)))
  <1> DEFINE sorted == Sorted(words, Before(words))
             near(v, u) == 2 * (u.top - v.top) <= Larger(4, Larger(u.bottom - u.top, 1))
             first[i \in DOMAIN sorted] ==
                 IF i = 1 THEN 1
                 ELSE LET j == first[i - 1] IN
                      IF near(sorted[j], sorted[i]) THEN j ELSE i
             starts == {i \in DOMAIN sorted : first[i] = i}
             lines == Runs(sorted, starts)
             result == WordsToLines(words)
  <1>1. /\ sorted \in Seq(Word)
        /\ \A j \in 1..Len(words) : words[j] \in ToSet(sorted)
    BY WordsAreOrdered, SortedKeeps
  <1>2. result = [k \in DOMAIN lines |-> LineOf(lines[k])] BY DEF WordsToLines
  <1> HIDE DEF sorted, starts, first, result
  <1>3. PICK j \in 1..Len(sorted) : sorted[j] = w
    <2>1. DOMAIN words = 1..Len(words) OBVIOUS
    <2>2. PICK i \in 1..Len(words) : words[i] = w BY <2>1 DEF ToSet
    <2>3. w \in ToSet(sorted) BY <1>1, <2>2
    <2>4. DOMAIN sorted = 1..Len(sorted) BY <1>1
    <2> QED BY <2>3, <2>4 DEF ToSet
  <1>4. /\ lines \in Seq(Seq(Word))
        /\ \A i \in 1..Len(sorted) : \E k \in 1..Len(lines) : sorted[i] \in ToSet(lines[k])
    BY <1>1, RunsAreParts
  <1> HIDE DEF lines
  <1>5. PICK k \in 1..Len(lines) : w \in ToSet(lines[k]) BY <1>3, <1>4
  <1>6. lines[k] \in Seq(Word) /\ DOMAIN lines = 1..Len(lines)
    <2> DEFINE T == Seq(Word)
    <2>1. lines \in Seq(T) BY <1>4
    <2> HIDE DEF T
    <2>2. lines[k] \in T /\ DOMAIN lines = 1..Len(lines) BY <2>1
    <2> QED BY <2>2 DEF T
  <1>7. InkSet(w.text) \subseteq InkSet(LineOf(lines[k]).text) BY <1>5, <1>6, LineHolds
  <1>8. LineOf(lines[k]).text \in TextsOf(result)
    <2>1. DOMAIN result = DOMAIN lines /\ result[k] = LineOf(lines[k]) BY <1>2, <1>6
    <2> QED BY <1>6, <2>1 DEF TextsOf, ToSet
  <1> QED BY <1>7, <1>8, InksAreUnion DEF result

LEMMA GluedHolds ==
    ASSUME NEW group \in Seq(LineRecord), NEW l \in ToSet(group)
    PROVE  InkSet(l.text) \subseteq InkSet(Glued(group))
  <1> DEFINE glue(t) == IF ListItem(t) THEN <<Break>> ELSE <<Space>>
             part(i) == IF i = 1 THEN group[i].text ELSE glue(group[i].text) \o group[i].text
             parts == [i \in DOMAIN group |-> part(i)]
  <1>1. Glued(group) = FlattenSeq(parts) BY DEF Glued
  <1>2. DOMAIN group = 1..Len(group) /\ Len(group) \in Nat
        /\ \A i \in 1..Len(group) : group[i] \in LineRecord
    OBVIOUS
  <1>3. ASSUME NEW i \in 1..Len(group)
        PROVE  part(i) \in Text /\ InkSet(group[i].text) \subseteq InkSet(part(i))
    <2> DEFINE t == group[i].text  g == glue(t)
    <2>1. t \in Text BY <1>2, LineFields
    <2>2. g \in Text BY MarksAreChars DEF Text
    <2>3. part(i) = IF i = 1 THEN t ELSE g \o t OBVIOUS
    <2> HIDE DEF t, g, part
    <2>4. g \o t \in Text BY <2>1, <2>2 DEF Text
    <2>5. InkSet(g \o t) = InkSet(g) \cup InkSet(t) BY <2>1, <2>2, InkOfTwo
    <2>6. InkSet(t) \subseteq InkSet(part(i)) BY <2>3, <2>5
    <2> QED BY <2>1, <2>3, <2>4, <2>6 DEF t
  <1> HIDE DEF part
  <1>4. parts \in Seq(Text) /\ DOMAIN parts = 1..Len(group)
        /\ \A i \in 1..Len(group) : parts[i] = part(i)
    BY <1>2, <1>3
  <1> HIDE DEF parts
  <1>5. PICK i \in 1..Len(group) : group[i] = l BY <1>2 DEF ToSet
  <1>6. parts[i] \in ToSet(parts) BY <1>4 DEF ToSet
  <1>7. InkSet(l.text) \subseteq InksOf(ToSet(parts)) BY <1>3, <1>4, <1>5, <1>6, InksAreUnion
  <1> QED BY <1>1, <1>4, <1>7, InkOfFlatten

LEMMA LineBlocksHold ==
    ASSUME NEW lines \in Seq(LineRecord), NEW page, NEW l \in ToSet(lines)
    PROVE  InkSet(l.text) \subseteq InksOf(TextsOf(LinesToBlocks(lines, page)))
  <1> DEFINE starts == {i \in 2..Len(lines) : StartsParagraph(lines[i], lines[i - 1])}
             groups == Runs(lines, starts)
             block(group) ==
                [kind |-> "text", text |-> Glued(group),
                 page |-> page, top |-> group[1].top,
                 size |-> LargestOf({k.size : k \in ToSet(group)}),
                 bold |-> \A k \in ToSet(group) : k.bold]
             result == LinesToBlocks(lines, page)
  <1>1. result = [g \in DOMAIN groups |-> block(groups[g])]
    BY DEF LinesToBlocks, Glued
  <1>2. \A group : block(group).text = Glued(group) OBVIOUS
  <1> HIDE DEF starts, result, block
  <1>3. /\ groups \in Seq(Seq(LineRecord))
        /\ \A i \in 1..Len(lines) : \E k \in 1..Len(groups) : lines[i] \in ToSet(groups[k])
    BY RunsAreParts
  <1> HIDE DEF groups
  <1>4. PICK k \in 1..Len(groups) : l \in ToSet(groups[k])
    <2>1. DOMAIN lines = 1..Len(lines) OBVIOUS
    <2>2. PICK i \in 1..Len(lines) : lines[i] = l BY <2>1 DEF ToSet
    <2> QED BY <1>3, <2>2
  <1>5. groups[k] \in Seq(LineRecord) /\ DOMAIN groups = 1..Len(groups)
    <2> DEFINE T == Seq(LineRecord)
    <2>1. groups \in Seq(T) BY <1>3
    <2> HIDE DEF T
    <2>2. groups[k] \in T /\ DOMAIN groups = 1..Len(groups) BY <2>1
    <2> QED BY <2>2 DEF T
  <1>6. InkSet(l.text) \subseteq InkSet(Glued(groups[k])) BY <1>4, <1>5, GluedHolds
  <1>7. Glued(groups[k]) \in TextsOf(result)
    <2>1. DOMAIN result = DOMAIN groups /\ result[k] = block(groups[k]) BY <1>1, <1>5
    <2>2. result[k].text = Glued(groups[k]) BY <1>2, <2>1
    <2> QED BY <1>5, <2>1, <2>2 DEF TextsOf, ToSet
  <1> QED BY <1>6, <1>7, InksAreUnion DEF result

LEMMA PageOrderHolds ==
    ASSUME NEW blocks \in Seq(PlacedBlock)
    PROVE  InksOf(TextsOf(blocks)) \subseteq InksOf(TextsOf(InPageOrder(blocks)))
  <1> DEFINE sorted == Sorted(blocks, Downwards(blocks))
             placed(b) == [kind |-> b.kind, text |-> b.text, page |-> b.page,
                           size |-> b.size, bold |-> b.bold]
             result == InPageOrder(blocks)
  <1>1. /\ sorted \in Seq(PlacedBlock)
        /\ \A j \in 1..Len(blocks) : blocks[j] \in ToSet(sorted)
    BY BlocksAreOrdered, SortedKeeps
  <1>2. result = [i \in DOMAIN sorted |-> placed(sorted[i])] BY DEF InPageOrder
  <1>3. \A b : placed(b).text = b.text OBVIOUS
  <1> HIDE DEF sorted, placed
  <1>4. DOMAIN result = DOMAIN sorted
        /\ \A i \in DOMAIN sorted : result[i].text = sorted[i].text
    BY <1>2, <1>3
  <1> HIDE DEF result
  <1>5. ASSUME NEW b \in ToSet(blocks) PROVE b.text \in TextsOf(result)
    <2>1. DOMAIN blocks = 1..Len(blocks) OBVIOUS
    <2>2. b \in ToSet(sorted) BY <1>1, <2>1 DEF ToSet
    <2>3. PICK i \in DOMAIN sorted : sorted[i] = b BY <2>2 DEF ToSet
    <2>4. result[i].text = b.text BY <1>4, <2>3
    <2> QED BY <1>4, <2>3, <2>4 DEF TextsOf, ToSet
  <1>6. TextsOf(blocks) \subseteq TextsOf(result) BY <1>5 DEF TextsOf
  <1> QED BY <1>6, InksOfMore DEF result

\* What LayoutAssumption says of one page.
WellLaid(page) ==
    \A t \in ToSet(page.tables) : HasChars(page) \/ InksOf(CellsOf(t)) = {}

\* A word that is not outside of all boxes is in one of them.
LEMMA InsideOne ==
    ASSUME NEW w, NEW boxes, ~Outside(w, boxes)
    PROVE  \E b \in boxes : ~Outside(w, {b})
  BY DEF Outside

LEMMA LayoutInks ==
    ASSUME NEW page, NEW x \in InksOf(Layout(page))
    PROVE  \/ \E w \in ToSet(page.words) : x \in InkSet(w.text)
           \/ \E t \in ToSet(page.tables) : x \in InksOf(CellsOf(t))
  <1>1. PICK u \in Layout(page) : x \in InkSet(u) BY InksAreUnion
  <1>2. CASE \E w \in ToSet(page.words) : u = w.text BY <1>1, <1>2
  <1>3. CASE \E t \in ToSet(page.tables) : u \in CellsOf(t) BY <1>1, <1>3, InksAreUnion
  <1> QED BY <1>1, <1>2, <1>3 DEF Layout

\* A word in the area of a table is framed, or in a cell.
LEMMA CoveredInks ==
    ASSUME NEW page, NEW w \in ToSet(page.words), NEW t \in ToSet(page.tables),
           TableToMarkdown(t.rows) # <<>>, ~Outside(w, {t.box}),
           NEW x \in InkSet(w.text) \ Framed(page)
    PROVE  \E u \in ToSet(page.tables) : x \in InksOf(CellsOf(u))
  <1> DEFINE texted == {u \in ToSet(page.tables) : TableToMarkdown(u.rows) # <<>>}
             covered == {v \in ToSet(page.words) : ~Outside(v, {u.box : u \in texted})}
             cells == UNION {CellsOf(u) : u \in ToSet(page.tables)}
  <1>1. t.box \in {u.box : u \in texted} OBVIOUS
  <1>2. ~Outside(w, {u.box : u \in texted})
    <2> HIDE DEF texted
    <2> QED BY <1>1 DEF Outside
  <1>3. x \in InksOf({v.text : v \in covered})
    <2>1. w \in covered BY <1>2
    <2> HIDE DEF covered
    <2>2. w.text \in {v.text : v \in covered} BY <2>1
    <2> QED BY <2>2, InksAreUnion
  <1>4. Framed(page) = InksOf({v.text : v \in covered}) \ InksOf(cells) BY DEF Framed
  <1> HIDE DEF covered, cells
  <1>5. PICK c \in cells : x \in InkSet(c) BY <1>3, <1>4, InksAreUnion
  <1>6. PICK u \in ToSet(page.tables) : c \in CellsOf(u) BY DEF cells
  <1> QED BY <1>5, <1>6, InksAreUnion

LEMMA ExtractPageHolds ==
    ASSUME NEW page \in Page, NEW number \in Nat, WellLaid(page)
    PROVE  InksOf(Layout(page)) \ Framed(page)
              \subseteq InksOf(TextsOf(ExtractPage(page, number)))
  <1> DEFINE texted(t) == [text |-> TableToMarkdown(t.rows), box |-> t.box]
             tables == [i \in DOMAIN page.tables |-> texted(page.tables[i])]
             S == {i \in DOMAIN tables : tables[i].text # <<>>}
             found == Kept(tables, S)
             block(t) == [kind |-> IF t.text[1] = Bar THEN "table" ELSE "text",
                          text |-> t.text, page |-> number, top |-> t.box.top,
                          size |-> NoSize, bold |-> FALSE]
             boxes == {t.box : t \in ToSet(found)}
             W == {i \in DOMAIN page.words : Outside(page.words[i], boxes)}
             words == Kept(page.words, W)
             above == [i \in DOMAIN found |-> block(found[i])]
             lines == LinesToBlocks(WordsToLines(words), number)
             result == ExtractPage(page, number)
  <1>1. HasChars(page) => result = InPageOrder(above \o lines)
    BY DEF ExtractPage
  <1>2. tables \in Seq(TextedTable)
    <2>1. /\ page.tables \in Seq(Table)
          /\ DOMAIN page.tables = 1..Len(page.tables) /\ Len(page.tables) \in Nat
      BY PageFields
    <2>2. \A t \in Table : texted(t) \in TextedTable
      <3> TAKE t \in Table
      <3>1. t.box \in Box BY DEF Table
      <3>2. TableToMarkdown(t.rows) \in Text BY TableFields, TablesAreTexts
      <3> QED BY <3>1, <3>2 DEF TextedTable
    <2> HIDE DEF texted
    <2> QED BY <2>1, <2>2
  <1>3. /\ DOMAIN tables = DOMAIN page.tables
        /\ \A i \in DOMAIN page.tables :
              /\ tables[i].text = TableToMarkdown(page.tables[i].rows)
              /\ tables[i].box = page.tables[i].box
    OBVIOUS
  <1>4. S \in SUBSET DOMAIN tables OBVIOUS
  <1>5. ToSet(found) = {tables[i] : i \in S} /\ found \in Seq(TextedTable)
    BY <1>2, <1>4, InkOfKept
  <1>6. page.words \in Seq(Word) /\ W \in SUBSET DOMAIN page.words BY PageFields
  <1>7. ToSet(words) = {page.words[i] : i \in W} /\ words \in Seq(Word) BY <1>6, InkOfKept
  <1>8. \A t : block(t).text = t.text OBVIOUS
  <1>9. above \in Seq(PlacedBlock) /\ DOMAIN above = DOMAIN found
        /\ \A i \in DOMAIN found : above[i].text = found[i].text
    <2>1. DOMAIN found = 1..Len(found) /\ Len(found) \in Nat BY <1>5
    <2>2. \A t \in TextedTable : block(t) \in PlacedBlock
      <3> TAKE t \in TextedTable
      <3>1. t.text \in Text /\ t.box \in Box BY DEF TextedTable
      <3>2. t.box.top \in Int BY <3>1 DEF Box
      <3>3. NoSize \in Nat BY DEF NoSize
      <3>4. number \in Nat OBVIOUS
      <3> QED BY <3>1, <3>2, <3>3, <3>4 DEF PlacedBlock
    <2> HIDE DEF block
    <2>3. \A i \in DOMAIN found : found[i] \in TextedTable
      <3>1. \A T : \A q \in Seq(T) : \A i \in DOMAIN q : q[i] \in T OBVIOUS
      <3> HIDE DEF found
      <3> QED BY <1>5, <3>1
    <2>4. above \in Seq(PlacedBlock)
      <3>1. \A i \in 1..Len(found) : block(found[i]) \in PlacedBlock BY <2>1, <2>2, <2>3
      <3> HIDE DEF found
      <3> QED BY <2>1, <3>1
    <2> QED BY <1>8, <2>4
  <1> HIDE DEF texted, tables, block
  <1>10. ASSUME NEW t \in ToSet(page.tables)
         PROVE  InksOf(CellsOf(t)) \subseteq InksOf(TextsOf(above))
    <2>1. page.tables \in Seq(Table) BY PageFields
    <2>2. DOMAIN page.tables = 1..Len(page.tables)
          /\ \A i \in 1..Len(page.tables) : page.tables[i] \in Table
      BY <2>1
    <2>3. PICK i \in DOMAIN page.tables : page.tables[i] = t BY DEF ToSet
    <2>4. t.rows \in Seq(Seq(Cell)) BY <2>2, <2>3, TableFields
    <2>5. InksOf(CellsOf(t)) \subseteq InkSet(tables[i].text)
      BY <1>3, <2>3, <2>4, TableHolds DEF CellsOf
    <2>6. CASE i \in S
      <3>1. tables[i] \in ToSet(found) BY <1>5, <2>6
      <3>2. PICK j \in DOMAIN found : found[j] = tables[i] BY <3>1 DEF ToSet
      <3>3. above[j].text = tables[i].text /\ j \in DOMAIN above BY <1>9, <3>2
      <3>4. tables[i].text \in TextsOf(above) BY <3>3 DEF TextsOf, ToSet
      <3> QED BY <2>5, <3>4, InksAreUnion
    <2>7. CASE i \notin S
      <3>1. tables[i].text = <<>> BY <1>3, <2>7
      <3> QED BY <2>5, <3>1, InkOfNothing
    <2> QED BY <2>6, <2>7
  <1> HIDE DEF W, words, S, found
  <1>11. lines \in Seq(PlacedBlock) BY <1>7, WordsMakeLines, LinesMakeBlocks
  <1>12. ASSUME NEW w \in ToSet(words)
         PROVE  InkSet(w.text) \subseteq InksOf(TextsOf(lines))
    <2> DEFINE ls == WordsToLines(words)
    <2>1. InkSet(w.text) \subseteq InksOf(TextsOf(ls)) BY <1>7, LinesHold
    <2>2. ls \in Seq(LineRecord) BY <1>7, WordsMakeLines
    <2> HIDE DEF ls
    <2>3. ASSUME NEW x \in InksOf(TextsOf(ls)) PROVE x \in InksOf(TextsOf(LinesToBlocks(ls, number)))
      <3>1. PICK u \in TextsOf(ls) : x \in InkSet(u) BY InksAreUnion
      <3>2. PICK l \in ToSet(ls) : u = l.text BY DEF TextsOf
      <3> QED BY <2>2, <3>1, <3>2, LineBlocksHold
    <2> QED BY <2>1, <2>3 DEF ls
  <1> HIDE DEF above, lines
  <1>13. HasChars(page) =>
            InksOf(TextsOf(above)) \cup InksOf(TextsOf(lines)) \subseteq InksOf(TextsOf(result))
    <2>1. above \o lines \in Seq(PlacedBlock) BY <1>9, <1>11
    <2>2. TextsOf(above \o lines) = TextsOf(above) \cup TextsOf(lines)
      BY <1>9, <1>11, TextsOfMore
    <2>3. InksOf(TextsOf(above \o lines)) = InksOf(TextsOf(above)) \cup InksOf(TextsOf(lines))
      BY <2>2, InksOfMore
    <2>4. InksOf(TextsOf(above \o lines)) \subseteq InksOf(TextsOf(InPageOrder(above \o lines)))
      BY <2>1, PageOrderHolds
    <2> QED BY <1>1, <2>3, <2>4
  <1> HIDE DEF result
  <1>14. ASSUME NEW w \in ToSet(page.words), NEW x \in InkSet(w.text) \ Framed(page)
         PROVE  x \in InksOf(TextsOf(above)) \cup InksOf(TextsOf(lines))
    <2>1. PICK i \in DOMAIN page.words : page.words[i] = w BY DEF ToSet
    <2>2. CASE Outside(w, boxes)
      <3>1. i \in W BY <2>1, <2>2 DEF W
      <3>2. w \in ToSet(words) BY <1>7, <2>1, <3>1
      <3> QED BY <1>12, <3>2
    <2>3. CASE ~Outside(w, boxes)
      <3>1. PICK b \in boxes : ~Outside(w, {b}) BY <2>3, InsideOne
      <3>2. PICK t \in ToSet(found) : b = t.box BY <3>1
      <3>3. PICK k \in DOMAIN page.tables : k \in S /\ tables[k] = t
        BY <1>3, <1>4, <1>5, <3>2
      <3>4. page.tables[k] \in ToSet(page.tables) BY DEF ToSet
      <3>5. page.tables[k].box = b BY <1>3, <3>2, <3>3
      <3>6. k \in S /\ TableToMarkdown(page.tables[k].rows) # <<>>
        BY <1>3, <3>3 DEF S
      <3>7. PICK u \in ToSet(page.tables) : x \in InksOf(CellsOf(u))
        BY <1>14, <3>1, <3>4, <3>5, <3>6, CoveredInks
      <3> QED BY <1>10, <3>7
    <2> QED BY <2>2, <2>3
  <1>15. ASSUME NEW x \in InksOf(Layout(page)) \ Framed(page)
         PROVE  x \in InksOf(TextsOf(result))
    <2>1. HasChars(page)
      <3> SUFFICES ASSUME ~HasChars(page) PROVE FALSE OBVIOUS
      <3>1. page.words = <<>> BY DEF HasChars
      <3>2. ToSet(page.words) = {} BY <3>1 DEF ToSet
      <3>3. PICK t \in ToSet(page.tables) : x \in InksOf(CellsOf(t)) BY <3>2, LayoutInks
      <3> QED BY <3>3 DEF WellLaid
    <2>2. CASE \E w \in ToSet(page.words) : x \in InkSet(w.text) BY <1>13, <1>14, <2>1, <2>2
    <2>3. CASE \E t \in ToSet(page.tables) : x \in InksOf(CellsOf(t)) BY <1>10, <1>13, <2>1, <2>3
    <2> QED BY <2>2, <2>3, LayoutInks
  <1> QED BY <1>15 DEF result

\* What is left of a page when _outside has dropped the words it drops.
Left(n) == InksOf(Printed(n)) \ IF Broken THEN {} ELSE Framed(doc.pages[n])

LEMMA LeftStays == ASSUME UNCHANGED doc PROVE \A n : Left(n)' = Left(n)
  BY DEF Left, Printed, Broken, Framed, InksOf

LEMMA ExtractionHolds ==
    ASSUME doc \in Documents, NEW n \in DOMAIN doc.pages
    PROVE  Left(n) \subseteq InksOf(TextsOf(ExtractPdf(doc.pages).pages[n]))
  <1> DEFINE file == doc.pages
             layout == [k \in DOMAIN file |-> ExtractPage(file[k], k)]
             plain == [k \in DOMAIN file |-> PypdfPage(file[k], k)]
             broken == \E k \in DOMAIN file : file[k].broken
  <1>1. file \in Seq(Page) BY DocumentsAreFiles
  <1>2. file[n] \in Page /\ n \in Nat BY <1>1
  <1>3. CASE broken
    <2>1. ExtractPdf(file).pages = plain BY <1>3 DEF ExtractPdf
    <2>2. plain[n] = PypdfPage(file[n], n) OBVIOUS
    <2>3. Left(n) \subseteq InksOf({file[n].plain}) BY <1>3 DEF Left, Printed, Broken
    <2> HIDE DEF plain, file
    <2>4. InkSet(file[n].plain) \subseteq InksOf(TextsOf(PypdfPage(file[n], n)))
      BY <1>2, PypdfPageHolds
    <2> QED BY <2>1, <2>2, <2>3, <2>4, InksOfOne DEF file
  <1>4. CASE ~broken
    <2>1. ExtractPdf(file).pages = layout BY <1>4 DEF ExtractPdf
    <2>2. layout[n] = ExtractPage(file[n], n) OBVIOUS
    <2>3. Left(n) = InksOf(Layout(file[n])) \ Framed(file[n])
      BY <1>4 DEF Left, Printed, Broken
    <2>4. file[n] \in ToSet(doc.pages) BY DEF ToSet
    <2>5. WellLaid(file[n]) BY <2>4, LayoutAssumption DEF WellLaid
    <2> HIDE DEF layout, file
    <2>6. InksOf(Layout(file[n])) \ Framed(file[n])
             \subseteq InksOf(TextsOf(ExtractPage(file[n], n)))
      BY <1>2, <2>5, ExtractPageHolds
    <2> QED BY <2>1, <2>2, <2>3, <2>6 DEF file
  <1> QED BY <1>3, <1>4

LEMMA BlanksHoldNothing ==
    ASSUME NEW blocks \in Seq(Block), \A i \in DOMAIN blocks : Strip(blocks[i].text) = <<>>
    PROVE  InksOf(TextsOf(blocks)) = {}
  <1> SUFFICES ASSUME NEW x \in InksOf(TextsOf(blocks)) PROVE FALSE OBVIOUS
  <1>1. PICK t \in TextsOf(blocks) : x \in InkSet(t) BY InksAreUnion
  <1>2. PICK i \in DOMAIN blocks : t = blocks[i].text BY DEF TextsOf, ToSet
  <1>3. blocks[i] \in Block BY <1>2
  <1>4. t \in Text BY <1>2, <1>3 DEF Block
  <1> QED BY <1>1, <1>2, <1>4, InkOfStrip, InkOfNothing

LEMMA PlainOfNothing ==
    ASSUME NEW n, NEW text \in {NoAnswer, Waiting, Asked}
    PROVE  InkSet(text) = {}
  BY DEF InkSet, InkAt, NoAnswer, Waiting, Asked

\* The inductive invariant: the pages that were read hold all that is left of
\* them; those OCR is to read hold nothing; after OCR they hold what it read; and
\* the chunks are those of the blocks.
Held ==
    /\ stage \notin {"start", "failed"} =>
          \A n \in 1..Len(pages) : /\ n \in DOMAIN doc.pages
                                   /\ Left(n) \subseteq InksOf(TextsOf(pages[n]))
    /\ stage = "ocr" => \A n \in DOMAIN ocr : InksOf(TextsOf(pages[n])) = {}
    /\ stage \in {"chunk", "embed", "stored"} =>
          \A n \in 1..Len(pages) : n \in ReadByOcr =>
              InkSet(ocr[n]) \subseteq InksOf(TextsOf(pages[n]))
    /\ Chunked => chunks = ChunkDocument(Blocks)

LEMMA ExtractHolds ==
    ASSUME Read, Extract PROVE Held'
  <1> DEFINE e == ExtractPdf(doc.pages)
  <1>1. /\ pages' = e.pages
        /\ ocr' = [n \in Selected(e) |-> Waiting]
        /\ stage' = IF ocr' = <<>> THEN "chunk" ELSE "ocr"
        /\ doc' = doc
    BY DEF Extract
  <1>2. doc \in Documents /\ doc.pages \in Seq(Page) BY DocumentsAreFiles DEF Read
  <1>3. e.pages \in Seq(Seq(Block)) /\ Len(e.pages) = Len(doc.pages)
    BY <1>2, ExtractionIsTyped
  <1>4. \A n \in DOMAIN doc.pages : Left(n) \subseteq InksOf(TextsOf(e.pages[n]))
    BY <1>2, ExtractionHolds
  <1>5. DOMAIN doc.pages = 1..Len(doc.pages) BY <1>2
  <1> HIDE DEF e
  <1>6. \A n : Left(n)' = Left(n) BY <1>1, LeftStays
  <1>7. ASSUME NEW n \in Selected(e) PROVE InksOf(TextsOf(e.pages[n])) = {}
    <2>1. n \in 1..Len(e.pages) /\ n \in PagesWithoutText(e)
      <3>1. Len(e.pages) \in Nat BY <1>3
      <3> QED BY <3>1, SelectedAreNumbers
    <2>2. e.pages[n] \in Seq(Block)
      <3> DEFINE B == Seq(Block)
      <3>1. e.pages \in Seq(B) BY <1>3
      <3> HIDE DEF B
      <3>2. e.pages[n] \in B BY <2>1, <3>1
      <3> QED BY <3>2 DEF B
    <2>3. \A i \in DOMAIN e.pages[n] : Strip(e.pages[n][i].text) = <<>>
      BY <2>1 DEF PagesWithoutText
    <2> QED BY <2>2, <2>3, BlanksHoldNothing
  <1>8. ReadByOcr' = {} \/ stage' = "ocr"
    <2> SUFFICES ASSUME stage' # "ocr" PROVE ReadByOcr' = {} OBVIOUS
    <2>1. ocr' = <<>> BY <1>1
    <2> QED BY <2>1 DEF ReadByOcr
  <1>9. stage' \in {"chunk", "ocr"} BY <1>1
  <1>10. \A n \in 1..Len(pages') : /\ n \in DOMAIN doc'.pages
                                   /\ Left(n)' \subseteq InksOf(TextsOf(pages'[n]))
    BY <1>1, <1>3, <1>4, <1>5, <1>6
  <1>11. \A n \in DOMAIN ocr' : InksOf(TextsOf(pages'[n])) = {} BY <1>1, <1>7
  <1> QED BY <1>8, <1>9, <1>10, <1>11 DEF Held, Chunked

LEMMA ApplyOcrHolds ==
    ASSUME Read, Held, ApplyOcr PROVE Held'
  <1> DEFINE page(n) == IF n \in ReadByOcr /\ ocr[n] # NoAnswer
                        THEN PlainTextBlocks(ocr[n], n) ELSE pages[n]
             m == Len(pages)
  <1>1. /\ doc' = doc /\ ocr' = ocr /\ stage = "ocr" /\ stage' = "chunk"
        /\ pages' = [n \in DOMAIN pages |-> page(n)]
    BY DEF ApplyOcr
  <1>2. DOMAIN pages = 1..m /\ m \in Nat BY DEF Read
  <1>3. ASSUME NEW n \in 1..m
        PROVE  /\ InksOf(TextsOf(pages[n])) \subseteq InksOf(TextsOf(page(n)))
               /\ n \in ReadByOcr => InkSet(ocr[n]) \subseteq InksOf(TextsOf(page(n)))
    <2>1. CASE n \in ReadByOcr
      <3>1. n \in DOMAIN ocr /\ ocr[n] \notin {<<>>, NoAnswer} BY <2>1 DEF ReadByOcr
      <3>2. ocr[n] \in Replies /\ ocr[n] \notin {Waiting, Asked}
        BY <3>1 DEF Read, ApplyOcr
      <3>3. ocr[n] \in Text BY <3>1, <3>2 DEF Replies, InkedText
      <3>4. page(n) = PlainTextBlocks(ocr[n], n) BY <2>1, <3>1
      <3>5. InkSet(ocr[n]) \subseteq InksOf(TextsOf(PlainTextBlocks(ocr[n], n)))
        BY <3>3, PlainTextHolds
      <3>6. InksOf(TextsOf(pages[n])) = {} BY <1>1, <3>1 DEF Held
      <3> QED BY <3>4, <3>5, <3>6
    <2>2. CASE n \notin ReadByOcr
      <3>1. page(n) = pages[n] BY <2>2
      <3> QED BY <2>2, <3>1
    <2> QED BY <2>1, <2>2
  <1> HIDE DEF page
  <1>4. Len(pages') = m /\ \A n \in 1..m : pages'[n] = page(n) BY <1>1, <1>2
  <1>5. \A n : Left(n)' = Left(n) BY <1>1, LeftStays
  <1>6. ReadByOcr' = ReadByOcr BY <1>1 DEF ReadByOcr
  <1>7. \A n \in 1..m : /\ n \in DOMAIN doc.pages
                        /\ Left(n) \subseteq InksOf(TextsOf(pages[n]))
    BY <1>1 DEF Held
  <1>8. \A n \in 1..Len(pages') : /\ n \in DOMAIN doc'.pages
                                  /\ Left(n)' \subseteq InksOf(TextsOf(pages'[n]))
    BY <1>1, <1>3, <1>4, <1>5, <1>7
  <1>9. \A n \in 1..Len(pages') : n \in ReadByOcr' =>
            InkSet(ocr'[n]) \subseteq InksOf(TextsOf(pages'[n]))
    BY <1>1, <1>3, <1>4, <1>6
  <1> QED BY <1>1, <1>8, <1>9 DEF Held, Chunked

LEMMA HeldStep ==
    ASSUME Read, Held, [Next]_vars PROVE Held'
  <1>1. CASE Extract BY <1>1, ExtractHolds
  <1>2. CASE Raise BY <1>2 DEF Raise, Held, Chunked
  <1>3. CASE ApplyOcr BY <1>3, ApplyOcrHolds
  <1>4. ASSUME UNCHANGED <<doc, pages>>
        PROVE  /\ \A n : Left(n)' = Left(n)
               /\ Blocks' = Blocks
    BY <1>4, LeftStays DEF Blocks
  <1>5. CASE \E n \in DOMAIN ocr : AskPage(n) \/ AnswerPage(n)
    <2>1. /\ stage = "ocr" /\ UNCHANGED <<doc, stage, pages>> /\ DOMAIN ocr' = DOMAIN ocr
      BY <1>5 DEF AskPage, AnswerPage
    <2> QED BY <1>4, <2>1 DEF Held, Chunked
  <1>6. ASSUME UNCHANGED <<doc, pages, ocr>>,
               stage \in {"chunk", "embed", "stored"},
               stage' \in {"chunk", "embed", "stored", "failed"},
               Chunked' => chunks' = ChunkDocument(Blocks)
        PROVE  Held'
    <2>1. ReadByOcr' = ReadByOcr BY <1>6 DEF ReadByOcr
    <2>2. Blocks' = Blocks /\ \A n : Left(n)' = Left(n) BY <1>4, <1>6
    <2> QED BY <1>6, <2>1, <2>2 DEF Held
  <1>7. CASE ChunkPages BY <1>6, <1>7 DEF ChunkPages, Blocks
  <1>8. CASE EmbedBatch BY <1>6, <1>8 DEF EmbedBatch, Held, Chunked
  <1>9. CASE Store BY <1>6, <1>9 DEF Store, Held, Chunked
  <1>10. CASE UNCHANGED vars
    <2>1. UNCHANGED <<doc, stage, pages, warned, ocr, chunks, rows>> BY <1>10 DEF vars
    <2>2. ReadByOcr' = ReadByOcr BY <2>1 DEF ReadByOcr
    <2> QED BY <1>4, <2>1, <2>2 DEF Held, Chunked
  <1> QED BY <1>1, <1>2, <1>3, <1>5, <1>7, <1>8, <1>9, <1>10 DEF Next

\* A block that is not in the chunks or their headings is a heading over no
\* text, or only a header.
LEMMA BlocksAreKept ==
    ASSUME Read, Held, Chunked, NEW i \in DOMAIN Blocks,
           ~HeaderOnly(Blocks[i]), ~Bare(i)
    PROVE  InkSet(Blocks[i].text) \subseteq KeptInks
  <1>1. Blocks \in Seq(Block) BY FlattenMembers DEF Read, Blocks
  <1>2. CASE i \in Heads
    <2>1. PICK j \in Body : i \in ToSet(HeadsOver(j)) BY <1>2 DEF Bare
    <2>2. Strip(Blocks[i].text) \in TitlesOf(chunks)
      BY <1>1, <2>1, ChunkDocumentCarries DEF Held
    <2>3. PICK c \in ToSet(chunks) : Strip(Blocks[i].text) \in ToSet(c.heading)
      BY <2>2 DEF TitlesOf
    <2>4. PICK k \in DOMAIN chunks : chunks[k] = c BY <2>3 DEF ToSet
    <2>5. InkSet(Strip(Blocks[i].text)) \subseteq InksOf(ToSet(chunks[k].heading))
      BY <2>3, <2>4, InksAreUnion
    <2>6. Blocks[i] \in Block BY <1>1
    <2>7. Blocks[i].text \in Text BY <2>6 DEF Block
    <2> QED BY <2>5, <2>7, InkOfStrip DEF KeptInks
  <1>3. CASE i \notin Heads
    <2>1. ~Apart(Blocks[i], BodySize(Blocks)) BY <1>3 DEF Heads, Apart
    <2>2. InkSet(Blocks[i].text) \subseteq InksOf(TextsOf(ChunkDocument(Blocks)))
      BY <1>1, <2>1, ChunkDocumentHolds
    <2>3. chunks = ChunkDocument(Blocks) BY DEF Held
    <2>4. InksOf(TextsOf(chunks)) \subseteq KeptInks
      BY DEF InksOf, TextsOf, ToSet, KeptInks
    <2> QED BY <2>2, <2>3, <2>4
  <1> QED BY <1>2, <1>3

LEMMA HeldLosesNothing ==
    ASSUME Read, Held PROVE NothingLost
  <1> SUFFICES ASSUME Chunked, NEW n \in DOMAIN pages, NEW ink \in Source(n) \ KeptInks
               PROVE  \/ ~Broken /\ ink \in Framed(doc.pages[n])
                      \/ \E i \in DOMAIN Blocks : /\ HeaderOnly(Blocks[i]) \/ Bare(i)
                                                 /\ ink \in InkSet(Blocks[i].text)
    BY DEF NothingLost
  <1> SUFFICES ASSUME ~(~Broken /\ ink \in Framed(doc.pages[n]))
               PROVE  \E i \in DOMAIN Blocks : /\ HeaderOnly(Blocks[i]) \/ Bare(i)
                                               /\ ink \in InkSet(Blocks[i].text)
    OBVIOUS
  <1>1. DOMAIN pages = 1..Len(pages) /\ stage \in {"embed", "stored"} BY DEF Read, Chunked
  <1>2. ink \in InksOf(TextsOf(pages[n]))
    <2>1. CASE ink \in InksOf(Printed(n))
      <3>1. ink \in Left(n) BY <2>1 DEF Left
      <3> QED BY <1>1, <3>1 DEF Held
    <2>2. CASE n \in ReadByOcr /\ ink \in InkSet(ocr[n]) BY <1>1, <2>2 DEF Held
    <2> QED BY <2>1, <2>2 DEF Source, InksOf
  <1>3. PICK b \in ToSet(pages[n]) : ink \in InkSet(b.text) BY <1>2, InksAreUnion DEF TextsOf
  <1>4. b \in ToSet(Blocks)
    <2>1. ToSet(Blocks) = UNION {ToSet(pages[k]) : k \in 1..Len(pages)}
      BY FlattenMembers DEF Read, Blocks
    <2> QED BY <1>1, <1>3, <2>1
  <1>5. PICK i \in DOMAIN Blocks : Blocks[i] = b BY <1>4 DEF ToSet
  <1> QED BY <1>3, <1>5, BlocksAreKept

\* Whichever library read a document, whatever OCR made of its pages, and
\* wherever its text is split: every character that could be read is in the text
\* or in the heading of a chunk, unless it is in a table over the limit that
\* consists of its header, in the area of a table but in none of the cells, or
\* in a heading over no text (_extract_page, _outside, _extract_with_pypdf,
\* apply_ocr, chunk_document, split_oversize, _split_table).
THEOREM NothingIsLost == Spec => []NothingLost
  <1>1. Init => Held BY DEF Init, Held, Chunked
  <1>2. Read /\ Written /\ Held /\ [Next]_vars => Held' BY HeldStep
  <1>3. Read /\ Held => NothingLost BY HeldLosesNothing
  <1>4. Spec => []Held BY <1>1, <1>2, ReadingIsTyped, PTL DEF Spec
  <1> QED BY <1>3, <1>4, ReadingIsTyped, PTL

=============================================================================
