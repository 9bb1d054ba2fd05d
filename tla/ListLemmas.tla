----------------------------- MODULE ListLemmas -----------------------------
(***************************************************************************)
(* What the proofs about lists rest on: induction along the numbers,       *)
(* functions that compute each value from the one before (the loops of the *)
(* code), FlattenSeq, and the operators of Lists.                          *)
(***************************************************************************)
EXTENDS Lists, FiniteSetTheorems, WellFoundedInduction, TLAPS

\* The positions of a sequence are finitely many, as many as it is long.
LEMMA PositionsAreFinite ==
    ASSUME NEW T, NEW s \in Seq(T), NEW S \in SUBSET DOMAIN s
    PROVE  /\ IsFiniteSet(S) /\ Cardinality(S) \in Nat
           /\ Cardinality(S) <= Len(s)
           /\ Cardinality(S) = 0 <=> S = {}
           /\ S = DOMAIN s => Cardinality(S) = Len(s)
  <1>1. Len(s) \in Nat /\ DOMAIN s = 1..Len(s) OBVIOUS
  <1>2. IsFiniteSet(1..Len(s)) /\ Cardinality(1..Len(s)) = Len(s)
    <2>1. /\ IsFiniteSet(1..Len(s))
          /\ Cardinality(1..Len(s)) = IF 1 > Len(s) THEN 0 ELSE Len(s) - 1 + 1
      BY <1>1, FS_Interval
    <2> QED BY <1>1, <2>1
  <1>3. IsFiniteSet(S) /\ Cardinality(S) <= Len(s) BY <1>1, <1>2, FS_Subset
  <1> QED BY <1>1, <1>2, <1>3, FS_CardinalityType, FS_EmptySet

-----------------------------------------------------------------------------
(* Loops: functions that are defined from one number to the next.          *)

\* A set of numbers that is not empty has a least one.
LEMMA LeastNumber ==
    ASSUME NEW T \in SUBSET Nat, T # {} PROVE \E n \in T : \A m \in T : n <= m
  <1>1. IsWellFoundedOn(OpToRel(<, Nat), Nat) BY NatLessThanWellFounded
  <1>2. PICK n \in T : \A m \in T : ~(<<m, n>> \in OpToRel(<, Nat)) BY <1>1, WFMin
  <1>3. \A m \in T : ~(m < n) BY <1>2 DEF OpToRel
  <1> QED BY <1>3

\* Induction up to n.
LEMMA CountingUp ==
    ASSUME NEW n \in Nat, NEW T, 0 \in T, \A i \in 1..n : i - 1 \in T => i \in T
    PROVE  \A i \in 0..n : i \in T
  <1> DEFINE Bad == {i \in 0..n : i \notin T}
  <1> SUFFICES ASSUME Bad # {} PROVE FALSE OBVIOUS
  <1>1. Bad \in SUBSET Nat OBVIOUS
  <1>2. PICK i \in Bad : \A j \in Bad : i <= j
    <2> HIDE DEF Bad
    <2> QED BY <1>1, LeastNumber
  <1>3. i \in 1..n /\ i - 1 \in 0..n BY <1>2
  <1>4. i - 1 \notin Bad BY <1>2, <1>3
  <1> QED BY <1>2, <1>3, <1>4

\* What a loop with n turns, each of which makes a value of V from the one
\* before it and the number of the turn, computes from b.
Turns(V, n) == [V \X (1..n) -> V]
Computes(f, V, n, b, step) ==
    /\ f \in [0..n -> V]
    /\ f[0] = b
    /\ \A i \in 1..n : f[i] = step[<<f[i - 1], i>>]

LEMMA LoopsCompute ==
    ASSUME NEW V, NEW n \in Nat, NEW b \in V, NEW step \in Turns(V, n)
    PROVE  \E f : Computes(f, V, n, b, step)
  <1>0. step \in [V \X (1..n) -> V] BY DEF Turns
  <1> DEFINE Upto(k) == \E f \in [0..k -> V] :
                           f[0] = b /\ \A i \in 1..k : f[i] = step[<<f[i - 1], i>>]
             T == {k \in 0..n : Upto(k)}
  <1>1. 0 \in T
    <2> DEFINE f == [i \in 0..0 |-> b]
    <2>1. f \in [0..0 -> V] /\ f[0] = b OBVIOUS
    <2>2. \A i \in 1..0 : f[i] = step[<<f[i - 1], i>>] OBVIOUS
    <2> HIDE DEF f
    <2>3. Upto(0) BY <2>1, <2>2
    <2> QED BY <2>3
  <1>2. ASSUME NEW k \in 1..n, k - 1 \in T PROVE k \in T
    <2>1. PICK f \in [0..(k - 1) -> V] :
              f[0] = b /\ \A i \in 1..(k - 1) : f[i] = step[<<f[i - 1], i>>]
      BY <1>2
    <2>2. k - 1 \in 0..(k - 1) /\ f[k - 1] \in V OBVIOUS
    <2> DEFINE g == [i \in 0..k |-> IF i = k THEN step[<<f[k - 1], k>>] ELSE f[i]]
    <2>3. step[<<f[k - 1], k>>] \in V BY <1>0, <2>2
    <2>4. g \in [0..k -> V] BY <2>3
    <2>5. g[0] = b BY <2>1
    <2>6. \A i \in 1..k : g[i] = step[<<g[i - 1], i>>]
      <3> TAKE i \in 1..k
      <3>1. CASE i = k
        <4>1. g[i] = step[<<f[k - 1], k>>] BY <3>1
        <4>2. g[k - 1] = f[k - 1] BY <2>2
        <4> QED BY <3>1, <4>1, <4>2
      <3>2. CASE i # k
        <4>1. i \in 1..(k - 1) /\ i - 1 \in 0..(k - 1) BY <3>2
        <4>2. g[i] = f[i] /\ g[i - 1] = f[i - 1] BY <4>1
        <4> QED BY <2>1, <4>1, <4>2
      <3> QED BY <3>1, <3>2
    <2> HIDE DEF g
    <2>7. Upto(k) BY <2>4, <2>5, <2>6
    <2> QED BY <2>7
  <1>3. n \in T
    <2> HIDE DEF T
    <2> QED BY <1>1, <1>2, CountingUp
  <1> QED BY <1>3 DEF Computes

\* The same, as the code's loops are written down: one value from the other.
LEMMA LoopsExist ==
    ASSUME NEW V, NEW n \in Nat, NEW b \in V, NEW step \in Turns(V, n)
    PROVE  \E f \in [0..n -> V] :
               f = [i \in 0..n |-> IF i = 0 THEN b ELSE step[<<f[i - 1], i>>]]
  <1>1. PICK f : Computes(f, V, n, b, step) BY LoopsCompute
  <1>2. f \in [0..n -> V] /\ f[0] = b /\ \A i \in 1..n : f[i] = step[<<f[i - 1], i>>]
    BY <1>1 DEF Computes
  <1>3. \A i \in 0..n : f[i] = IF i = 0 THEN b ELSE step[<<f[i - 1], i>>]
    <2> TAKE i \in 0..n
    <2>1. i # 0 => i \in 1..n OBVIOUS
    <2> QED BY <1>2, <2>1, Zenon
  <1>4. f = [i \in 0..n |-> IF i = 0 THEN b ELSE step[<<f[i - 1], i>>]]
    BY <1>2, <1>3, Zenon
  <1> QED BY <1>2, <1>4

-----------------------------------------------------------------------------
(* FlattenSeq.                                                             *)

\* It joins the sequences one by one.
LEMMA FlattenAddsUp ==
    ASSUME NEW T, NEW s \in Seq(Seq(T))
    PROVE  \E f \in [0..Len(s) -> Seq(T)] :
              /\ f[0] = <<>> /\ FlattenSeq(s) = f[Len(s)]
              /\ \A i \in 1..Len(s) : f[i] = f[i - 1] \o s[i]
  <1> DEFINE n == Len(s)
             loop(f) == [i \in 1..n |-> IF i = 1 THEN s[i] ELSE f[i - 1] \o s[i]]
             flatten == CHOOSE f : f = loop(f)
             step == [e \in Seq(T) \X (1..n) |-> e[1] \o s[e[2]]]
  <1>1. n \in Nat /\ \A i \in 1..n : s[i] \in Seq(T) OBVIOUS
  <1>2. step \in [Seq(T) \X (1..n) -> Seq(T)] BY <1>1
  <1>3. \A v \in Seq(T), i \in 1..n : step[<<v, i>>] = v \o s[i] OBVIOUS
  <1>4. PICK f \in [0..n -> Seq(T)] :
            f[0] = <<>> /\ \A i \in 1..n : f[i] = step[<<f[i - 1], i>>]
    <2>1. n \in Nat /\ <<>> \in Seq(T) /\ step \in Turns(Seq(T), n) BY <1>1, <1>2 DEF Turns
    <2> HIDE DEF step, n
    <2>2. \E f : Computes(f, Seq(T), n, <<>>, step) BY <2>1, LoopsCompute
    <2> QED BY <2>2 DEF Computes
  <1> HIDE DEF step
  <1>5. \A i \in 1..n : f[i] = f[i - 1] \o s[i]
    <2> TAKE i \in 1..n
    <2>1. i - 1 \in 0..n BY <1>1
    <2> QED BY <2>1, <1>3, <1>4
  <1>6. CASE n = 0
    <2>1. FlattenSeq(s) = s BY <1>6 DEF FlattenSeq
    <2>2. s = <<>> BY <1>6
    <2> QED BY <1>4, <1>5, <1>6, <2>1, <2>2
  <1>7. CASE n # 0
    <2> DEFINE g == [i \in 1..n |-> f[i]]
    <2>1. f[1] = s[1]
      <3>1. 1 \in 1..n /\ s[1] \in Seq(T) BY <1>1, <1>7
      <3>2. f[1] = f[1 - 1] \o s[1] BY <1>5, <3>1
      <3>3. f[1 - 1] = <<>> BY <1>4
      <3> QED BY <3>1, <3>2, <3>3
    <2>2. g = loop(g)
      <3>1. \A i \in 1..n : g[i] = IF i = 1 THEN s[i] ELSE g[i - 1] \o s[i]
        <4> TAKE i \in 1..n
        <4>1. g[i] = f[i] OBVIOUS
        <4>2. CASE i = 1 BY <2>1, <4>1, <4>2
        <4>3. CASE i # 1
          <5>1. i - 1 \in 1..n BY <1>1, <4>3
          <5>2. g[i - 1] = f[i - 1] BY <5>1
          <5> QED BY <1>5, <4>1, <4>3, <5>2
        <4> QED BY <4>2, <4>3
      <3> HIDE DEF n
      <3> QED BY <3>1
    <2>3. flatten = loop(flatten)
      <3> HIDE DEF loop, g
      <3> QED BY <2>2
    <2>4. FlattenSeq(s) = flatten[n] BY <1>7 DEF FlattenSeq
    <2> HIDE DEF flatten
    <2>5. flatten[1] = s[1] BY <1>1, <1>7, <2>3
    <2>6. \A i \in 2..n : flatten[i] = flatten[i - 1] \o s[i]
      <3> TAKE i \in 2..n
      <3>1. i \in 1..n /\ i # 1 BY <1>1
      <3> HIDE DEF n
      <3> QED BY <2>3, <3>1
    <2> DEFINE U == {i \in 0..n : i > 0 => flatten[i] = f[i]}
    <2>7. 0 \in U BY <1>1
    <2>8. ASSUME NEW i \in 1..n, i - 1 \in U PROVE i \in U
      <3>1. CASE i = 1 BY <2>1, <2>5, <3>1
      <3>2. CASE i # 1
        <4>1. i \in 2..n /\ i - 1 > 0 BY <3>2
        <4>2. flatten[i - 1] = f[i - 1] BY <2>8, <4>1
        <4>3. flatten[i] = flatten[i - 1] \o s[i] BY <2>6, <4>1
        <4>4. f[i] = f[i - 1] \o s[i] BY <1>5
        <4>5. flatten[i] = f[i] BY <4>2, <4>3, <4>4, Zenon
        <4> QED BY <4>1, <4>5
      <3> QED BY <3>1, <3>2
    <2>9. \A i \in 0..n : i \in U
      <3> HIDE DEF U, n
      <3> QED BY <1>1, <2>7, <2>8, CountingUp
    <2>10. FlattenSeq(s) = f[n] BY <1>7, <2>4, <2>9
    <2> QED BY <1>4, <1>5, <2>10
  <1> QED BY <1>6, <1>7

LEMMA Concatenation ==
    ASSUME NEW T, NEW a \in Seq(T), NEW b \in Seq(T)
    PROVE  /\ a \o b \in Seq(T) /\ Len(a \o b) = Len(a) + Len(b)
           /\ \A i \in 1..Len(a) : (a \o b)[i] = a[i]
           /\ \A i \in 1..Len(b) : (a \o b)[Len(a) + i] = b[i]
  OBVIOUS

\* The members of two sequences joined.
LEMMA MembersOfJoin ==
    ASSUME NEW T, NEW a \in Seq(T), NEW b \in Seq(T)
    PROVE  ToSet(a \o b) = ToSet(a) \cup ToSet(b)
  <1> DEFINE c == a \o b  m == Len(a)  n == Len(b)
  <1>1. /\ c \in Seq(T) /\ Len(c) = m + n /\ m \in Nat /\ n \in Nat
        /\ \A i \in 1..m : c[i] = a[i]
        /\ \A j \in 1..n : c[m + j] = b[j]
    OBVIOUS
  <1>2. ASSUME NEW i \in DOMAIN c PROVE c[i] \in ToSet(a) \cup ToSet(b)
    <2>1. CASE i \in 1..m BY <1>1, <2>1 DEF ToSet
    <2>2. CASE i \notin 1..m
      <3>1. i - m \in 1..n /\ i = m + (i - m) BY <1>1, <2>2
      <3> QED BY <1>1, <3>1 DEF ToSet
    <2> QED BY <2>1, <2>2
  <1>3. ASSUME NEW i \in DOMAIN a PROVE a[i] \in ToSet(c)
    BY <1>1 DEF ToSet
  <1>4. ASSUME NEW j \in DOMAIN b PROVE b[j] \in ToSet(c)
    <2>1. m + j \in DOMAIN c /\ c[m + j] = b[j] BY <1>1
    <2> QED BY <2>1 DEF ToSet
  <1> HIDE DEF c
  <1> QED BY <1>2, <1>3, <1>4 DEF ToSet, c

\* Stated apart because of the prover: it splits a number better than a length.
LEMMA ShortList ==
    ASSUME NEW T, NEW q \in Seq(T), Len(q) <= 1
    PROVE  Len(q) \in {0, 1} /\ (q # <<>> => Len(q) = 1)
  <1>1. \A n \in Nat : n <= 1 => n = 0 \/ n = 1 OBVIOUS
  <1>2. Len(q) \in Nat OBVIOUS
  <1>3. Len(q) = 0 \/ Len(q) = 1 BY <1>1, <1>2, Zenon
  <1>4. Len(q) = 0 => q = <<>> OBVIOUS
  <1> QED BY <1>2, <1>3, <1>4, Zenon

\* It has the members of all of them; and if each of them has one member at
\* most, and no two the same one, it has none twice.
LEMMA FlattenMembers ==
    ASSUME NEW T, NEW s \in Seq(Seq(T))
    PROVE  /\ FlattenSeq(s) \in Seq(T)
           /\ ToSet(FlattenSeq(s)) = UNION {ToSet(s[i]) : i \in 1..Len(s)}
           /\ (\A i \in 1..Len(s) : Len(s[i]) <= 1) /\
              (\A i, j \in 1..Len(s) : s[i] = s[j] /\ s[i] # <<>> => i = j) =>
                 IsInjective(FlattenSeq(s))
  <1> DEFINE n == Len(s)
  <1>1. n \in Nat /\ \A i \in 1..n : s[i] \in Seq(T) OBVIOUS
  <1>2. PICK f \in [0..n -> Seq(T)] :
            /\ f[0] = <<>> /\ FlattenSeq(s) = f[n]
            /\ \A i \in 1..n : f[i] = f[i - 1] \o s[i]
    BY FlattenAddsUp
  <1> HIDE DEF n
  <1> DEFINE Upto(i) == UNION {ToSet(s[j]) : j \in 1..i}
             U == {i \in 0..n : ToSet(f[i]) = Upto(i)}
  <1>3. 0 \in U
    <2>1. ToSet(<<>>) = {} BY DEF ToSet
    <2>2. Upto(0) = {} OBVIOUS
    <2> QED BY <1>1, <1>2, <2>1, <2>2
  <1>4. ASSUME NEW i \in 1..n, i - 1 \in U PROVE i \in U
    <2>1. i - 1 \in 0..n /\ i \in 0..n BY <1>1
    <2>2. f[i - 1] \in Seq(T) /\ s[i] \in Seq(T) BY <1>1, <2>1
    <2>3. f[i] = f[i - 1] \o s[i] BY <1>2
    <2>4. ToSet(f[i]) = ToSet(f[i - 1]) \cup ToSet(s[i]) BY <2>2, <2>3, MembersOfJoin
    <2>5. 1..i = 1..(i - 1) \cup {i} BY <1>1
    <2>6. Upto(i) = Upto(i - 1) \cup ToSet(s[i])
      <3> DEFINE m == i - 1
      <3>1. 1..i = 1..m \cup {i} BY <2>5
      <3> HIDE DEF m
      <3>2. Upto(i) = Upto(m) \cup ToSet(s[i]) BY <3>1
      <3> QED BY <3>2 DEF m
    <2> HIDE DEF Upto
    <2> QED BY <1>4, <2>1, <2>4, <2>6
  <1>5. \A i \in 0..n : i \in U
    <2> HIDE DEF U
    <2> QED BY <1>1, <1>3, <1>4, CountingUp
  <1>6. \A i \in 0..n : ToSet(f[i]) = Upto(i) BY <1>5
  <1>7. ToSet(FlattenSeq(s)) = Upto(n) /\ FlattenSeq(s) \in Seq(T) BY <1>1, <1>2, <1>6
  <1>8. ASSUME \A i \in 1..n : Len(s[i]) <= 1,
               \A i, j \in 1..n : s[i] = s[j] /\ s[i] # <<>> => i = j
        PROVE  IsInjective(FlattenSeq(s))
    <2> DEFINE W == {i \in 0..n : IsInjective(f[i])}
    <2>1. 0 \in W BY <1>1, <1>2 DEF IsInjective
    <2>2. ASSUME NEW i \in 1..n, i - 1 \in W PROVE i \in W
      <3> DEFINE a == f[i - 1]  b == s[i]
      <3>1. i - 1 \in 0..n /\ i \in 0..n BY <1>1
      <3>2. /\ a \in Seq(T) /\ b \in Seq(T) /\ Len(b) <= 1
            /\ f[i] = a \o b /\ IsInjective(a)
        BY <1>1, <1>2, <1>8, <2>2, <3>1
      <3>3. ToSet(a) = Upto(i - 1) BY <1>6, <3>1
      <3>4. ASSUME NEW x \in ToSet(a), NEW k \in DOMAIN b PROVE b[k] # x
        <4>1. PICK j \in 1..(i - 1) : x \in ToSet(s[j]) BY <3>3
        <4>2. j \in 1..n /\ j # i BY <1>1
        <4>3. s[j] \in Seq(T) /\ Len(s[j]) <= 1 BY <1>1, <1>8, <4>2
        <4>4. s[j] # <<>> /\ s[j] # b BY <1>8, <4>1, <4>2 DEF ToSet
        <4>5. Len(s[j]) = 1 /\ Len(b) = 1 /\ k = 1
          <5>1. Len(s[j]) = 1 BY <4>3, <4>4, ShortList
          <5>2. DOMAIN b = 1..Len(b) /\ Len(b) \in Nat BY <3>2
          <5> HIDE DEF b
          <5> QED BY <3>2, <5>1, <5>2
        <4>6. s[j][1] = x
          <5>1. PICK h \in DOMAIN s[j] : s[j][h] = x BY <4>1 DEF ToSet
          <5>2. h = 1 BY <4>3, <4>5, <5>1
          <5> QED BY <5>1, <5>2
        <4>7. ASSUME b[1] = x PROVE FALSE
          <5>1. s[j] = [h \in 1..1 |-> x] BY <4>3, <4>5, <4>6
          <5>2. b = [h \in 1..1 |-> x] BY <3>2, <4>5, <4>7
          <5> QED BY <4>4, <5>1, <5>2
        <4> HIDE DEF b
        <4> QED BY <4>5, <4>7
      <3> HIDE DEF a, b
      <3>5. IsInjective(a \o b)
        <4> DEFINE c == a \o b  m == Len(a)
        <4>0. Len(b) \in {0, 1} BY <3>2, ShortList
        <4> PICK k \in {0, 1} : k = Len(b) BY <4>0
        <4>1. /\ c \in Seq(T) /\ Len(c) = m + k /\ m \in Nat
              /\ \A h \in 1..m : c[h] = a[h]
              /\ \A h \in 1..k : c[m + h] = b[h]
          BY <3>2
        <4>2. DOMAIN c = 1..(m + k) /\ DOMAIN a = 1..m /\ DOMAIN b = 1..k BY <3>2, <4>1
        <4> SUFFICES ASSUME NEW g \in DOMAIN c, NEW h \in DOMAIN c, c[g] = c[h], g < h
                     PROVE  FALSE
          <5> HIDE DEF c
          <5>1. \A g, h \in DOMAIN c : c[g] = c[h] => ~(g < h) OBVIOUS
          <5>2. \A g, h \in DOMAIN c : g \in Int /\ h \in Int BY <4>1, <4>2
          <5>3. \A g, h \in DOMAIN c : c[g] = c[h] => g = h
            <6> TAKE g, h \in DOMAIN c
            <6> HAVE c[g] = c[h]
            <6>1. ~(g < h) /\ ~(h < g) BY <5>1
            <6> QED BY <5>2, <6>1
          <5> QED BY <5>3 DEF IsInjective, c
        <4> HIDE DEF c, m
        <4>3. g \in 1..m BY <4>1, <4>2
        <4>4. CASE h \in 1..m BY <3>2, <4>1, <4>2, <4>3, <4>4 DEF IsInjective
        <4>5. CASE h \notin 1..m
          <5>0. k = 1
            <6>1. k # 0 BY <4>1, <4>2, <4>5
            <6> QED BY <6>1
          <5>1. k = 1 /\ h = m + 1 BY <4>1, <4>2, <4>5, <5>0
          <5>2. c[h] = b[1] /\ 1 \in DOMAIN b BY <4>1, <4>2, <5>1
          <5>3. a[g] \in ToSet(a) BY <4>2, <4>3 DEF ToSet
          <5> QED BY <3>4, <4>1, <4>3, <5>2, <5>3
        <4> QED BY <4>4, <4>5
      <3> QED BY <3>1, <3>2, <3>5
    <2>3. \A i \in 0..n : i \in W
      <3> HIDE DEF W
      <3> QED BY <1>1, <2>1, <2>2, CountingUp
    <2> QED BY <1>1, <1>2, <2>3
  <1> QED BY <1>7, <1>8 DEF n

-----------------------------------------------------------------------------
(* Sorting, and sequences without some of their positions.                 *)

\* A strict order of all the members of S.
Orders(S, order) ==
    /\ \A x \in S : <<x, x>> \notin order
    /\ \A x, y \in S : x = y \/ <<x, y>> \in order \/ <<y, x>> \in order
    /\ \A x, y, z \in S :
           <<x, y>> \in order /\ <<y, z>> \in order => <<x, z>> \in order

\* A member comes at the place that the number before it gives: a listing has
\* every member of the set once, in the order.
LEMMA ListingIsSorted ==
    ASSUME NEW S, IsFiniteSet(S), NEW order, Orders(S, order)
    PROVE  LET list == Listing(S, order)
           IN /\ list \in [1..Cardinality(S) -> S]
              /\ \A x \in S : \E i \in DOMAIN list : list[i] = x
              /\ \A i, j \in DOMAIN list : i < j => <<list[i], list[j]>> \in order
              /\ IsInjective(list)
  <1> DEFINE n == Cardinality(S)
             Before(x) == {y \in S : <<y, x>> \in order}
             rank == [x \in S |-> Cardinality(Before(x))]
             list == Listing(S, order)
  <1>1. n \in Nat BY FS_CardinalityType
  <1>2. ASSUME NEW x \in S PROVE IsFiniteSet(Before(x)) /\ rank[x] \in 0..(n - 1)
    <2>1. Before(x) \in SUBSET S /\ x \notin Before(x) BY DEF Orders
    <2>2. /\ IsFiniteSet(Before(x))
          /\ Cardinality(Before(x)) <= n
          /\ n = Cardinality(Before(x)) => S = Before(x)
      BY <2>1, FS_Subset
    <2>3. Cardinality(Before(x)) \in Nat BY <2>2, FS_CardinalityType
    <2>4. rank[x] = Cardinality(Before(x)) OBVIOUS
    <2> HIDE DEF rank, Before, n
    <2> QED BY <1>1, <2>1, <2>2, <2>3, <2>4
  <1>3. ASSUME NEW x \in S, NEW y \in S, <<x, y>> \in order PROVE rank[x] < rank[y]
    <2>1. Before(x) \in SUBSET Before(y) BY <1>3 DEF Orders
    <2>2. x \in Before(y) /\ x \notin Before(x) BY <1>3 DEF Orders
    <2>3. IsFiniteSet(Before(y)) BY <1>2
    <2>4. /\ Cardinality(Before(x)) <= Cardinality(Before(y))
          /\ Cardinality(Before(y)) = Cardinality(Before(x)) => Before(y) = Before(x)
      BY <2>1, <2>3, FS_Subset
    <2>5. rank[x] = Cardinality(Before(x)) /\ rank[y] = Cardinality(Before(y)) OBVIOUS
    <2>6. rank[x] \in 0..(n - 1) /\ rank[y] \in 0..(n - 1) BY <1>2
    <2> HIDE DEF rank, Before, n
    <2> QED BY <1>1, <2>2, <2>4, <2>5, <2>6
  <1>4. rank \in Injection(S, 0..(n - 1))
    <2>1. rank \in [S -> 0..(n - 1)] BY <1>2
    <2>2. ASSUME NEW x \in S, NEW y \in S, rank[x] = rank[y] PROVE x = y
      <3>1. rank[x] \in Int /\ rank[y] \in Int BY <2>1, <1>1
      <3>2. x = y \/ <<x, y>> \in order \/ <<y, x>> \in order BY DEF Orders
      <3> HIDE DEF rank
      <3>3. ~(<<x, y>> \in order) /\ ~(<<y, x>> \in order) BY <2>2, <1>3, <3>1
      <3> QED BY <3>2, <3>3
    <2> HIDE DEF rank
    <2> QED BY <2>1, <2>2 DEF Injection, IsInjective
  <1>5. rank \in Surjection(S, 0..(n - 1))
    <2>1. IsFiniteSet(0..(n - 1)) /\ Cardinality(0..(n - 1)) = n
      <3>1. /\ IsFiniteSet(0..(n - 1))
            /\ Cardinality(0..(n - 1)) = IF 0 > n - 1 THEN 0 ELSE (n - 1) - 0 + 1
        BY <1>1, FS_Interval
      <3> QED BY <1>1, <3>1
    <2> HIDE DEF rank
    <2> QED BY <1>4, <2>1, FS_Injection
  <1>6. ASSUME NEW i \in 1..n PROVE list[i] \in S /\ rank[list[i]] = i - 1
    <2>1. i - 1 \in 0..(n - 1) BY <1>1
    <2>2. PICK x \in S : rank[x] = i - 1
      <3> HIDE DEF rank
      <3> QED BY <2>1, <1>5 DEF Surjection
    <2>3. \E y \in S : Cardinality(Before(y)) = i - 1 BY <2>2
    <2>4. list[i] = CHOOSE y \in S : Cardinality(Before(y)) = i - 1 BY DEF Listing
    <2>5. list[i] \in S /\ Cardinality(Before(list[i])) = i - 1
      <3> HIDE DEF list, Before
      <3> QED BY <2>3, <2>4
    <2>6. rank[list[i]] = Cardinality(Before(list[i]))
      <3> HIDE DEF list, Before
      <3> QED BY <2>5
    <2> HIDE DEF list, rank, Before
    <2> QED BY <2>5, <2>6
  <1>7. list \in [1..n -> S]
    <2> DEFINE at(i) == CHOOSE y \in S : Cardinality(Before(y)) = i - 1
    <2>1. list = [i \in 1..n |-> at(i)] BY DEF Listing
    <2> HIDE DEF list, at
    <2>2. \A i \in 1..n : at(i) \in S BY <1>6, <2>1
    <2> QED BY <2>1, <2>2
  <1> HIDE DEF rank, list, n
  <1>9. \A x \in S : \E i \in 1..n : list[i] = x
    <2> TAKE x \in S
    <2>1. rank[x] \in 0..(n - 1) BY <1>2
    <2>2. rank[x] + 1 \in 1..n /\ (rank[x] + 1) - 1 = rank[x] BY <1>1, <2>1
    <2>3. list[rank[x] + 1] \in S /\ rank[list[rank[x] + 1]] = rank[x] BY <1>6, <2>2
    <2>4. list[rank[x] + 1] = x BY <2>3, <1>4 DEF Injection, IsInjective
    <2> QED BY <2>2, <2>4
  <1>10. ASSUME NEW i \in 1..n, NEW j \in 1..n, i < j
         PROVE  list[i] # list[j] /\ <<list[i], list[j]>> \in order
    <2>1. /\ list[i] \in S /\ list[j] \in S
          /\ rank[list[i]] = i - 1 /\ rank[list[j]] = j - 1
      BY <1>6
    <2>2. ~ (<<list[j], list[i]>> \in order) BY <2>1, <1>3, <1>1, <1>10
    <2>3. list[i] # list[j] BY <2>1, <1>1, <1>10
    <2>4. \/ list[i] = list[j] \/ <<list[i], list[j]>> \in order
          \/ <<list[j], list[i]>> \in order
      BY <2>1 DEF Orders
    <2> QED BY <2>2, <2>3, <2>4
  <1>11. ASSUME NEW i \in 1..n, NEW j \in 1..n, list[i] = list[j] PROVE i = j
    <2>1. ~(i < j) /\ ~(j < i) BY <1>10, <1>11
    <2> QED BY <1>1, <2>1
  <1>12. DOMAIN list = 1..n BY <1>7
  <1>13. list \in [1..Cardinality(S) -> S] BY <1>7 DEF n
  <1>14. IsInjective(list) BY <1>11, <1>12 DEF IsInjective
  <1>15. \A i, j \in DOMAIN list : i < j => <<list[i], list[j]>> \in order
    BY <1>10, <1>12
  <1>16. \A x \in S : \E i \in DOMAIN list : list[i] = x BY <1>9, <1>12
  <1> QED BY <1>13, <1>14, <1>15, <1>16 DEF list

-----------------------------------------------------------------------------
(* The places of a set of numbers.                                         *)

\* A list of numbers that rise, and are the members of S among 1..i.
Rises(p, S, i) ==
    /\ p \in Seq(1..i)
    /\ \A k \in 1..Len(p) : p[k] \in S
    /\ \A x \in 1..i : x \in S => \E k \in 1..Len(p) : p[k] = x
    /\ \A k, l \in 1..Len(p) : k < l => p[k] < p[l]

LEMMA PlacesRise ==
    ASSUME NEW S, NEW n \in Nat
    PROVE  Rises(Places(S, n), S, n)
  <1> DEFINE one(i) == IF i \in S THEN <<i>> ELSE <<>>
             s == [i \in 1..n |-> one(i)]
  <1>1. s \in Seq(Seq(Nat)) /\ Len(s) = n /\ \A i \in 1..n : s[i] = one(i)
    <2>1. \A i \in 1..n : one(i) \in Seq(Nat) OBVIOUS
    <2> HIDE DEF one
    <2> QED BY <2>1
  <1>2. Places(S, n) = FlattenSeq(s) BY DEF Places
  <1> HIDE DEF s
  <1>3. PICK f \in [0..n -> Seq(Nat)] :
            /\ f[0] = <<>> /\ FlattenSeq(s) = f[n]
            /\ \A i \in 1..n : f[i] = f[i - 1] \o s[i]
    <2>1. \E f \in [0..Len(s) -> Seq(Nat)] :
              /\ f[0] = <<>> /\ FlattenSeq(s) = f[Len(s)]
              /\ \A i \in 1..Len(s) : f[i] = f[i - 1] \o s[i]
      BY <1>1, FlattenAddsUp
    <2> HIDE DEF one
    <2> QED BY <1>1, <2>1
  <1> DEFINE T == {i \in 0..n : Rises(f[i], S, i)}
  <1>4. 0 \in T
    <2>1. Rises(<<>>, S, 0) BY DEF Rises
    <2> QED BY <1>3, <2>1
  <1>5. ASSUME NEW i \in 1..n, i - 1 \in T PROVE i \in T
    <2> DEFINE p == f[i - 1]  m == Len(p)
    <2>1. Rises(p, S, i - 1) BY <1>5
    <2>2. p \in Seq(1..(i - 1)) /\ m \in Nat /\ f[i] = p \o one(i) /\ i \in Nat
      <3>1. p \in Seq(1..(i - 1)) /\ i \in Nat BY <2>1 DEF Rises
      <3> HIDE DEF one
      <3>2. f[i] = p \o one(i) BY <1>1, <1>3
      <3> HIDE DEF p
      <3> QED BY <3>1, <3>2
    <2>3. \A k \in 1..m : p[k] \in 1..(i - 1) BY <2>2
    <2> SUFFICES Rises(f[i], S, i) OBVIOUS
    <2>4. CASE i \in S
      <3> DEFINE q == p \o <<i>>
      <3>1. f[i] = q BY <2>2, <2>4
      <3>2. /\ p \in Seq(1..i) /\ q \in Seq(1..i) /\ Len(q) = m + 1
            /\ \A k \in 1..m : q[k] = p[k]
            /\ q[m + 1] = i
        <4>1. p \in Seq(1..i) BY <2>2, <2>3
        <4> HIDE DEF p
        <4> QED BY <2>2, <4>1
      <3> HIDE DEF q, p, m
      <3>3. \A k \in 1..(m + 1) : k \in 1..m \/ k = m + 1 BY <2>2
      <3>4. \A k \in 1..Len(q) : q[k] \in S BY <2>1, <2>4, <3>2, <3>3 DEF Rises, m
      <3>5. ASSUME NEW x \in 1..i, x \in S PROVE \E k \in 1..Len(q) : q[k] = x
        <4>1. CASE x = i BY <2>2, <3>2, <4>1
        <4>2. CASE x # i
          <5>1. x \in 1..(i - 1) BY <2>2, <4>2
          <5>2. PICK k \in 1..m : p[k] = x BY <2>1, <3>5, <5>1 DEF Rises, m
          <5>3. k \in 1..Len(q) /\ q[k] = x BY <2>2, <3>2, <5>2
          <5> QED BY <5>3
        <4> QED BY <4>1, <4>2
      <3>6. ASSUME NEW k \in 1..Len(q), NEW l \in 1..Len(q), k < l PROVE q[k] < q[l]
        <4>1. k \in 1..m BY <2>2, <3>2, <3>6
        <4>2. CASE l \in 1..m BY <2>1, <3>2, <3>6, <4>1, <4>2 DEF Rises, m
        <4>3. CASE l = m + 1 BY <2>2, <2>3, <3>2, <4>1, <4>3
        <4> QED BY <3>2, <3>3, <4>2, <4>3
      <3> QED BY <3>1, <3>2, <3>4, <3>5, <3>6 DEF Rises
    <2>5. CASE i \notin S
      <3>1. f[i] = p BY <2>2, <2>5
      <3>2. p \in Seq(1..i) BY <2>2, <2>3
      <3>3. ASSUME NEW x \in 1..i, x \in S PROVE \E k \in 1..m : p[k] = x
        <4>1. x \in 1..(i - 1) BY <2>2, <2>5, <3>3
        <4> QED BY <2>1, <3>3, <4>1 DEF Rises
      <3> HIDE DEF p
      <3> QED BY <2>1, <3>1, <3>2, <3>3 DEF Rises
    <2> QED BY <2>4, <2>5
  <1>6. \A i \in 0..n : i \in T
    <2> HIDE DEF T
    <2> QED BY <1>4, <1>5, CountingUp
  <1> QED BY <1>2, <1>3, <1>6

\* Taking positions of a sequence gives a sequence of its members.
LEMMA AtIsASequence ==
    ASSUME NEW T, NEW s \in Seq(T), NEW m \in Nat, NEW p \in [1..m -> DOMAIN s]
    PROVE  /\ At(s, p) \in Seq(T) /\ Len(At(s, p)) = m
           /\ DOMAIN At(s, p) = 1..m
           /\ \A i \in 1..m : At(s, p)[i] = s[p[i]]
  <1>1. At(s, p) = [i \in 1..m |-> s[p[i]]] BY DEF At
  <1>2. \A i \in 1..m : s[p[i]] \in T OBVIOUS
  <1> QED BY <1>1, <1>2

\* A sequence without some positions keeps the order of the others.
LEMMA KeptKeepsOrder ==
    ASSUME NEW T, NEW s \in Seq(T), NEW S \in SUBSET DOMAIN s
    PROVE  LET kept == Kept(s, S)
           IN /\ kept \in Seq(T)
              /\ \E p \in [1..Len(kept) -> S] :
                    /\ \A i \in 1..Len(kept) : kept[i] = s[p[i]]
                    /\ \A x \in S : \E i \in 1..Len(kept) : p[i] = x
                    /\ \A i, j \in 1..Len(kept) : i < j => p[i] < p[j]
  <1> DEFINE n == Len(s)  p == Places(S, n)  m == Len(p)
  <1>1. n \in Nat /\ S \subseteq 1..n /\ DOMAIN s = 1..n OBVIOUS
  <1>2. Rises(p, S, n) BY <1>1, PlacesRise
  <1>3. Kept(s, S) = At(s, p) BY DEF Kept
  <1> HIDE DEF p, n
  <1>4. p \in Seq(1..n) /\ m \in Nat /\ DOMAIN p = 1..m BY <1>2 DEF Rises
  <1> HIDE DEF m
  <1>5. p \in [1..m -> S] /\ p \in [1..m -> DOMAIN s]
    <2>1. p \in [1..m -> 1..n]
      <3>1. \A V, q : q \in Seq(V) => q \in [1..Len(q) -> V] OBVIOUS
      <3>2. p \in [1..Len(p) -> 1..n] BY <1>4, <3>1
      <3> QED BY <3>2 DEF m
    <2>2. \A k \in 1..m : p[k] \in S BY <1>2 DEF Rises, m
    <2> QED BY <1>1, <2>1, <2>2
  <1>6. /\ At(s, p) \in Seq(T) /\ Len(At(s, p)) = m
        /\ \A i \in 1..m : At(s, p)[i] = s[p[i]]
    BY <1>4, <1>5, AtIsASequence
  <1>7. \A x \in S : \E k \in 1..m : p[k] = x BY <1>1, <1>2 DEF Rises, m
  <1>8. \A k, l \in 1..m : k < l => p[k] < p[l] BY <1>2 DEF Rises, m
  <1> QED BY <1>3, <1>5, <1>6, <1>7, <1>8

\* What stands between cuts: each part is a piece of s without a cut, and no
\* other position is lost.
Separates(parts, T, s, Cuts) ==
    /\ parts \in Seq(Seq(T))
    /\ Len(parts) = Len(Places(Cuts, Len(s))) + 1
    /\ \A k \in 1..Len(parts) :
          /\ Len(parts[k]) <= Len(s)
          /\ \A i \in 1..Len(parts[k]) :
                \E j \in (1..Len(s)) \ Cuts : parts[k][i] = s[j]
    /\ \A j \in (1..Len(s)) \ Cuts :
          \E k \in 1..Len(parts) : \E i \in 1..Len(parts[k]) : parts[k][i] = s[j]

LEMMA BetweenCuts ==
    ASSUME NEW T, NEW s \in Seq(T), NEW Cuts
    PROVE  Separates(Between(s, Cuts), T, s, Cuts)
  <1> DEFINE n == Len(s)
             p == Places(Cuts, n)
             m == Len(p)
             ends == <<0>> \o p \o <<n + 1>>
             part(k) == SubSeq(s, ends[k] + 1, ends[k + 1] - 1)
             parts == Between(s, Cuts)
  <1>1. n \in Nat /\ DOMAIN s = 1..n OBVIOUS
  <1>2. Rises(p, Cuts, n) BY <1>1, PlacesRise
  <1>3. parts = [k \in 1..(Len(ends) - 1) |-> part(k)] BY DEF Between
  <1> HIDE DEF p
  <1>4. p \in Seq(1..n) /\ m \in Nat
    <2>1. p \in Seq(1..n) BY <1>2 DEF Rises
    <2> QED BY <2>1
  <1>5. \A k \in 1..m : p[k] \in 1..n BY <1>4
  <1>6. /\ ends \in Seq(Int) /\ Len(ends) = m + 2
        /\ ends[1] = 0 /\ ends[m + 2] = n + 1
        /\ \A k \in 2..(m + 1) : ends[k] = p[k - 1]
    <2> HIDE DEF n
    <2>1. p \in Seq(Int) /\ n \in Int BY <1>1, <1>4
    <2> QED BY <1>4, <2>1
  <1> HIDE DEF ends, m
  <1>7. ASSUME NEW k \in 1..(m + 1)
        PROVE  /\ ends[k] \in 0..n /\ ends[k + 1] \in 1..(n + 1)
               /\ ends[k] < ends[k + 1]
               /\ \A j \in 1..n : ends[k] < j /\ j < ends[k + 1] => j \notin Cuts
    <2>1. k = 1 \/ k \in 2..(m + 1) BY <1>4
    <2>2. ends[k] \in 0..n
      <3>1. CASE k = 1 BY <1>1, <1>6, <3>1
      <3>2. CASE k \in 2..(m + 1)
        <4>1. k - 1 \in 1..m BY <1>4, <3>2
        <4>2. p[k - 1] \in 1..n BY <1>5, <4>1
        <4> QED BY <1>6, <3>2, <4>2
      <3> QED BY <2>1, <3>1, <3>2
    <2>3. k + 1 = m + 2 \/ k + 1 \in 2..(m + 1) BY <1>4
    <2>4. ends[k + 1] \in 1..(n + 1)
      <3>1. CASE k + 1 = m + 2 BY <1>1, <1>6, <3>1
      <3>2. CASE k + 1 \in 2..(m + 1)
        <4>1. (k + 1) - 1 \in 1..m BY <1>4, <3>2
        <4>2. p[(k + 1) - 1] \in 1..n BY <1>5, <4>1
        <4> QED BY <1>6, <3>2, <4>2
      <3> QED BY <2>3, <3>1, <3>2
    <2>5. ends[k] < ends[k + 1]
      <3>1. CASE k = 1
        <4>1. ends[k] = 0 BY <1>6, <3>1
        <4> QED BY <2>4, <4>1
      <3>2. CASE k + 1 = m + 2
        <4>1. ends[k + 1] = n + 1 BY <1>6, <3>2
        <4> QED BY <2>2, <4>1, <1>1
      <3>3. CASE k \in 2..(m + 1) /\ k + 1 \in 2..(m + 1)
        <4>1. k - 1 \in 1..m /\ (k + 1) - 1 \in 1..m /\ k - 1 < (k + 1) - 1
          BY <1>4, <3>3
        <4>2. p[k - 1] < p[(k + 1) - 1] BY <1>2, <4>1 DEF Rises, m
        <4> QED BY <1>6, <3>3, <4>2
      <3> QED BY <2>1, <2>3, <3>1, <3>2, <3>3
    <2>6. ASSUME NEW j \in 1..n, ends[k] < j, j < ends[k + 1], j \in Cuts PROVE FALSE
      <3>1. PICK l \in 1..m : p[l] = j BY <1>2, <2>6 DEF Rises, m
      <3>2. l + 1 \in 2..(m + 1) /\ (l + 1) - 1 = l BY <1>4
      <3>3. CASE l < k - 1
        <4>1. k \in 2..(m + 1) /\ k - 1 \in 1..m BY <1>4, <3>3
        <4>2. p[l] < p[k - 1] BY <1>2, <3>3, <4>1 DEF Rises, m
        <4>3. ends[k] = p[k - 1] BY <1>6, <4>1
        <4>4. p[k - 1] \in Int /\ j \in Int BY <1>5, <4>1
        <4> QED BY <2>6, <3>1, <4>2, <4>3, <4>4
      <3>4. CASE l = k - 1
        <4>1. k \in 2..(m + 1) BY <1>4, <3>4
        <4>2. ends[k] = p[k - 1] BY <1>6, <4>1
        <4> QED BY <2>6, <3>1, <3>4, <4>2
      <3>5. CASE l = k
        <4>1. k + 1 \in 2..(m + 1) /\ (k + 1) - 1 = k BY <1>4, <3>5
        <4>2. ends[k + 1] = p[k] BY <1>6, <4>1
        <4> QED BY <2>6, <3>1, <3>5, <4>2
      <3>6. CASE l > k
        <4>1. k \in 1..m /\ k + 1 \in 2..(m + 1) /\ (k + 1) - 1 = k BY <1>4, <3>6
        <4>2. p[k] < p[l] BY <1>2, <3>6, <4>1 DEF Rises, m
        <4>3. ends[k + 1] = p[k] BY <1>6, <4>1
        <4>4. p[k] \in Int /\ j \in Int BY <1>5, <4>1
        <4> QED BY <2>6, <3>1, <4>2, <4>3, <4>4
      <3>7. l < k - 1 \/ l = k - 1 \/ l = k \/ l > k BY <1>4
      <3> QED BY <3>3, <3>4, <3>5, <3>6, <3>7
    <2> QED BY <2>2, <2>4, <2>5, <2>6
  <1>8. ASSUME NEW j \in (1..n) \ Cuts
         PROVE  \E k \in 1..(m + 1) : ends[k] < j /\ j < ends[k + 1]
    <2> SUFFICES ASSUME \A k \in 1..(m + 1) : ~(ends[k] < j /\ j < ends[k + 1])
                 PROVE  FALSE
      OBVIOUS
    <2> DEFINE L == {k \in 0..m : ends[k + 1] < j}
    <2>1. 0 \in L BY <1>4, <1>6
    <2>2. ASSUME NEW k \in 1..m, k - 1 \in L PROVE k \in L
      <3>1. k \in 1..(m + 1) /\ (k - 1) + 1 = k BY <1>4
      <3>2. ends[k] < j BY <2>2, <3>1
      <3>3. ~(j < ends[k + 1]) BY <3>1, <3>2
      <3>4. k + 1 \in 2..(m + 1) /\ (k + 1) - 1 = k BY <1>4
      <3>5. ends[k + 1] = p[k] /\ p[k] \in 1..n /\ p[k] \in Cuts
        BY <1>2, <1>5, <1>6, <3>4 DEF Rises, m
      <3>6. ends[k + 1] < j BY <1>1, <3>3, <3>5
      <3> QED BY <3>6
    <2> HIDE DEF L
    <2>3. \A k \in 0..m : k \in L BY <1>4, <2>1, <2>2, CountingUp
    <2>4. ends[m + 1] < j BY <1>4, <2>3 DEF L
    <2>5. m + 1 \in 1..(m + 1) /\ ends[(m + 1) + 1] = n + 1 /\ j < n + 1
      BY <1>1, <1>4, <1>6
    <2> QED BY <2>4, <2>5
  <1>9. parts = [k \in 1..(m + 1) |-> part(k)]
    <2>1. Len(ends) - 1 = m + 1 BY <1>4, <1>6
    <2> HIDE DEF part, parts
    <2> QED BY <1>3, <2>1
  <1>10. ASSUME NEW k \in 1..(m + 1)
        PROVE  /\ part(k) \in Seq(T) /\ Len(part(k)) <= n
               /\ \A i \in 1..Len(part(k)) :
                      \E j \in (1..n) \ Cuts : part(k)[i] = s[j]
               /\ \A j \in 1..n : ends[k] < j /\ j < ends[k + 1] =>
                      \E i \in 1..Len(part(k)) : part(k)[i] = s[j]
    <2> DEFINE a == ends[k] + 1  b == ends[k + 1] - 1
    <2>1. /\ a \in 1..(n + 1) /\ b \in 0..n /\ a <= b + 1
          /\ \A j \in 1..n : a <= j /\ j <= b => j \notin Cuts
      <3>1. \A j \in 1..n : a <= j /\ j <= b => ends[k] < j /\ j < ends[k + 1]
        BY <1>1, <1>7
      <3> QED BY <1>1, <1>7, <3>1
    <2>2. part(k) = SubSeq(s, a, b) OBVIOUS
    <2> HIDE DEF a, b, part
    <2>3. /\ SubSeq(s, a, b) \in Seq(T) /\ Len(SubSeq(s, a, b)) = b - a + 1
          /\ \A i \in 1..(b - a + 1) : SubSeq(s, a, b)[i] = s[a + i - 1]
      <3>1. \A i \in a..b : i \in 1..n BY <1>1, <2>1
      <3>2. CASE a <= b BY <1>1, <2>1, <3>1, <3>2
      <3>3. CASE a = b + 1 BY <1>1, <2>1, <3>3
      <3> QED BY <1>1, <2>1, <3>2, <3>3
    <2>4. ASSUME NEW i \in 1..Len(part(k)) PROVE \E j \in (1..n) \ Cuts : part(k)[i] = s[j]
      <3>1. i \in 1..(b - a + 1) BY <2>2, <2>3
      <3>2. a + i - 1 \in 1..n /\ a <= a + i - 1 /\ a + i - 1 <= b BY <1>1, <2>1, <3>1
      <3> QED BY <2>1, <2>2, <2>3, <3>1, <3>2
    <2>5. b - a + 1 <= n BY <1>1, <2>1
    <2>6. ASSUME NEW j \in 1..n, ends[k] < j, j < ends[k + 1]
          PROVE  \E i \in 1..Len(part(k)) : part(k)[i] = s[j]
      <3>1. a <= j /\ j <= b BY <1>1, <1>7, <2>6 DEF a, b
      <3>2. j - a + 1 \in 1..(b - a + 1) /\ a + (j - a + 1) - 1 = j
        BY <1>1, <2>1, <3>1
      <3> QED BY <2>2, <2>3, <3>2
    <2> QED BY <2>2, <2>3, <2>4, <2>5, <2>6
  <1> HIDE DEF part, parts
  <1>11. /\ parts \in Seq(Seq(T)) /\ Len(parts) = m + 1
         /\ \A k \in 1..(m + 1) : parts[k] = part(k)
    <2>1. \A k \in 1..(m + 1) : part(k) \in Seq(T) BY <1>10
    <2>2. m + 1 \in Nat BY <1>4
    <2> QED BY <1>9, <2>1, <2>2
  <1>12. Len(Places(Cuts, Len(s))) = m BY DEF m, p
  <1>13. ASSUME NEW k \in 1..Len(parts)
         PROVE  /\ Len(parts[k]) <= Len(s)
                /\ \A i \in 1..Len(parts[k]) :
                      \E j \in (1..Len(s)) \ Cuts : parts[k][i] = s[j]
    <2>1. k \in 1..(m + 1) /\ parts[k] = part(k) BY <1>11
    <2> QED BY <1>10, <2>1
  <1>14. Len(parts) = Len(Places(Cuts, Len(s))) + 1 BY <1>11, <1>12
  <1>15. ASSUME NEW j \in (1..Len(s)) \ Cuts
         PROVE  \E k \in 1..Len(parts) : \E i \in 1..Len(parts[k]) : parts[k][i] = s[j]
    <2>1. PICK k \in 1..(m + 1) : ends[k] < j /\ j < ends[k + 1] BY <1>8
    <2>2. \E i \in 1..Len(part(k)) : part(k)[i] = s[j] BY <1>10, <2>1
    <2> QED BY <1>11, <2>2
  <1> QED BY <1>11, <1>13, <1>14, <1>15 DEF parts, Separates

-----------------------------------------------------------------------------
(* Joining.                                                                *)

\* The last member, and those before it.
LEMMA FrontAndLast ==
    ASSUME NEW T, NEW s \in Seq(T), s # <<>>
    PROVE  \E front \in Seq(T) : s = Append(front, s[Len(s)])
  <1> DEFINE n == Len(s)  x == s[n]  front == SubSeq(s, 1, n - 1)
  <1>1. n \in Nat \ {0} /\ x \in T OBVIOUS
  <1>2. front \in Seq(T) /\ Len(front) = n - 1 /\ \A i \in 1..(n - 1) : front[i] = s[i]
    <2>1. CASE n = 1
      <3>1. front = <<>> BY <1>1, <2>1
      <3> HIDE DEF front
      <3>2. <<>> \in Seq(T) /\ Len(<<>>) = 0 OBVIOUS
      <3> QED BY <2>1, <3>1, <3>2
    <2>2. CASE n # 1
      <3>1. n - 1 \in 1..n /\ n = Len(s)
        <4>1. \A m \in Nat \ {0} : m # 1 => m - 1 \in 1..m OBVIOUS
        <4>2. n \in Nat \ {0} BY <1>1
        <4> QED BY <2>2, <4>1, <4>2
      <3> HIDE DEF n
      <3> QED BY <3>1
    <2> QED BY <2>1, <2>2
  <1>3. s = [i \in 1..n |-> s[i]] OBVIOUS
  <1> HIDE DEF front, x
  <1>4. Append(front, x) \in Seq(T) /\ Len(Append(front, x)) = n BY <1>1, <1>2
  <1>5. \A i \in 1..n : Append(front, x)[i] = s[i]
    <2> TAKE i \in 1..n
    <2>1. CASE i = n BY <1>1, <1>2, <2>1 DEF x
    <2>2. CASE i # n
      <3>1. i \in 1..(n - 1) BY <1>1, <2>2
      <3> QED BY <1>1, <1>2, <3>1
    <2> QED BY <2>1, <2>2
  <1> HIDE DEF n
  <1>6. \A q \in Seq(T) : q = [i \in 1..Len(q) |-> q[i]] OBVIOUS
  <1>7. s = Append(front, x) BY <1>3, <1>4, <1>5, <1>6, Zenon
  <1> QED BY <1>2, <1>7 DEF x, n

\* A sequence more is joined at the end.
LEMMA FlattenAppend ==
    ASSUME NEW T, NEW s \in Seq(Seq(T)), NEW x \in Seq(T)
    PROVE  /\ FlattenSeq(s) \in Seq(T)
           /\ FlattenSeq(Append(s, x)) = FlattenSeq(s) \o x
  <1> DEFINE n == Len(s)  r == Append(s, x)
  <1>1. /\ n \in Nat /\ r \in Seq(Seq(T)) /\ Len(r) = n + 1
        /\ r[n + 1] = x /\ \A i \in 1..n : r[i] = s[i]
    OBVIOUS
  <1>2. PICK f \in [0..n -> Seq(T)] :
            /\ f[0] = <<>> /\ FlattenSeq(s) = f[n]
            /\ \A i \in 1..n : f[i] = f[i - 1] \o s[i]
    BY FlattenAddsUp
  <1> HIDE DEF n, r
  <1>3. PICK g \in [0..(n + 1) -> Seq(T)] :
            /\ g[0] = <<>> /\ FlattenSeq(r) = g[n + 1]
            /\ \A i \in 1..(n + 1) : g[i] = g[i - 1] \o r[i]
    <2>1. \E g \in [0..Len(r) -> Seq(T)] :
              /\ g[0] = <<>> /\ FlattenSeq(r) = g[Len(r)]
              /\ \A i \in 1..Len(r) : g[i] = g[i - 1] \o r[i]
      BY <1>1, FlattenAddsUp
    <2> QED BY <1>1, <2>1
  <1> DEFINE U == {i \in 0..n : f[i] = g[i]}
  <1>4. 0 \in U BY <1>1, <1>2, <1>3
  <1>5. ASSUME NEW i \in 1..n, i - 1 \in U PROVE i \in U
    <2>1. i \in 1..(n + 1) /\ i \in 0..n BY <1>1
    <2>2. g[i] = g[i - 1] \o r[i] BY <1>3, <2>1
    <2>3. f[i] = f[i - 1] \o s[i] BY <1>2
    <2>4. f[i - 1] = g[i - 1] /\ r[i] = s[i] BY <1>1, <1>5
    <2>5. f[i] = g[i] BY <2>2, <2>3, <2>4, Zenon
    <2> QED BY <2>1, <2>5
  <1>6. f[n] = g[n]
    <2>1. \A i \in 0..n : i \in U
      <3> HIDE DEF U
      <3> QED BY <1>1, <1>4, <1>5, CountingUp
    <2> QED BY <1>1, <2>1
  <1>7. g[n + 1] = g[n] \o x
    <2>0. n \in Nat BY <1>1
    <2>1. n + 1 \in 1..(n + 1) /\ (n + 1) - 1 = n BY <2>0
    <2>2. g[n + 1] = g[(n + 1) - 1] \o r[n + 1] BY <1>3, <2>1
    <2> QED BY <1>1, <2>1, <2>2, Zenon
  <1>8. f[n] \in Seq(T) BY <1>1, <1>2
  <1>9. FlattenSeq(r) = FlattenSeq(s) \o x BY <1>2, <1>3, <1>6, <1>7, Zenon
  <1> QED BY <1>2, <1>8, <1>9 DEF r

Adds(parts, x, glue) ==
    /\ parts = <<>> => Join(Append(parts, x), glue) = x
    /\ parts # <<>> =>
         Join(Append(parts, x), glue) = Join(parts, glue) \o (glue \o x)

LEMMA JoinAppend ==
    ASSUME NEW T, NEW glue \in Seq(T), NEW parts \in Seq(Seq(T)), NEW x \in Seq(T)
    PROVE  /\ Join(parts, glue) \in Seq(T)
           /\ parts = <<>> => Join(parts, glue) = <<>>
           /\ Adds(parts, x, glue)
  <1> DEFINE n == Len(parts)
             piece(q, k) == IF k = 1 THEN q[k] ELSE glue \o q[k]
             glued(q) == [k \in DOMAIN q |-> piece(q, k)]
             more == Append(parts, x)
             last == IF n = 0 THEN x ELSE glue \o x
  <1>1. n \in Nat /\ DOMAIN parts = 1..n /\ \A k \in 1..n : parts[k] \in Seq(T) OBVIOUS
  <1>2. /\ more \in Seq(Seq(T)) /\ DOMAIN more = 1..(n + 1) /\ more[n + 1] = x
        /\ \A k \in 1..n : more[k] = parts[k]
    OBVIOUS
  <1>3. last \in Seq(T) OBVIOUS
  <1> HIDE DEF n, more
  <1>4. /\ glued(parts) \in Seq(Seq(T)) /\ Len(glued(parts)) = n
        /\ \A k \in 1..n : glued(parts)[k] = piece(parts, k)
    <2>1. \A k \in 1..n : piece(parts, k) \in Seq(T) BY <1>1
    <2> HIDE DEF piece
    <2> QED BY <1>1, <2>1
  <1>5. glued(more) = Append(glued(parts), last)
    <2> DEFINE a == glued(parts)
    <2>1. \A k \in 1..n : piece(more, k) = piece(parts, k) BY <1>2
    <2>2. piece(more, n + 1) = last
      <3>1. n = 0 <=> n + 1 = 1 BY <1>1
      <3> QED BY <1>2, <3>1
    <2>3. /\ DOMAIN Append(a, last) = 1..(n + 1)
          /\ Append(a, last)[n + 1] = last
          /\ \A k \in 1..n : Append(a, last)[k] = a[k]
          /\ Append(a, last) = [k \in 1..(n + 1) |-> Append(a, last)[k]]
      <3> HIDE DEF a, last
      <3>1. a \in Seq(Seq(T)) /\ Len(a) = n BY <1>4 DEF a
      <3>2. Append(a, last) \in Seq(Seq(T)) /\ Len(Append(a, last)) = n + 1
        BY <1>3, <3>1
      <3>3. Append(a, last)[n + 1] = last /\ \A k \in 1..n : Append(a, last)[k] = a[k]
        BY <1>1, <1>3, <3>1
      <3>4. \A q \in Seq(Seq(T)) : q = [k \in 1..Len(q) |-> q[k]] /\ DOMAIN q = 1..Len(q)
        OBVIOUS
      <3> QED BY <3>2, <3>3, <3>4, Zenon
    <2>4. \A k \in 1..(n + 1) : k \in 1..n \/ k = n + 1 BY <1>1
    <2>5. glued(more) = [k \in 1..(n + 1) |-> piece(more, k)] BY <1>2
    <2> HIDE DEF piece, last
    <2>6. \A k \in 1..(n + 1) : Append(a, last)[k] = piece(more, k)
      <3> HIDE DEF a
      <3>1. \A k \in 1..n : a[k] = piece(parts, k) BY <1>4 DEF a
      <3> QED BY <2>1, <2>2, <2>3, <2>4, <3>1
    <2> HIDE DEF a
    <2>7. Append(a, last) = [k \in 1..(n + 1) |-> piece(more, k)] BY <2>3, <2>6
    <2> QED BY <2>5, <2>7 DEF a
  <1>6. Join(parts, glue) = FlattenSeq(glued(parts)) BY DEF Join
  <1>7. Join(more, glue) = FlattenSeq(glued(more)) BY DEF Join
  <1> HIDE DEF glued, last
  <1>8. /\ Join(parts, glue) \in Seq(T)
        /\ Join(more, glue) = Join(parts, glue) \o last
    BY <1>3, <1>4, <1>5, <1>6, <1>7, FlattenAppend
  <1>9. parts = <<>> <=> n = 0 BY DEF n
  <1>10. parts = <<>> => Join(parts, glue) = <<>>
    <2> HAVE parts = <<>>
    <2>1. glued(parts) = <<>> BY <1>4, <1>9
    <2>2. FlattenSeq(<<>>) = <<>>
      <3>1. <<>> \in Seq(Seq(T)) /\ Len(<<>>) = 0 OBVIOUS
      <3>2. \E f \in [0..Len(<<>>) -> Seq(T)] : f[0] = <<>> /\ FlattenSeq(<<>>) = f[Len(<<>>)]
        BY <3>1, FlattenAddsUp
      <3> QED BY <3>1, <3>2
    <2> QED BY <1>6, <2>1, <2>2
  <1>11. CASE parts = <<>>
    <2>1. <<>> \o last = last /\ last = x BY <1>3, <1>9, <1>11 DEF last
    <2> QED BY <1>8, <1>10, <1>11, <2>1 DEF more, Adds
  <1>12. CASE parts # <<>> BY <1>8, <1>9, <1>10, <1>12 DEF more, last, Adds
  <1> QED BY <1>8, <1>10, <1>11, <1>12

-----------------------------------------------------------------------------
(* Runs, sorted sequences, and intervals.                                  *)

\* A run is a piece of the sequence, and not empty.
LEMMA RunsAreParts ==
    ASSUME NEW T, NEW s \in Seq(T), NEW Starts
    PROVE  /\ Runs(s, Starts) \in Seq(Seq(T))
           /\ \A k \in 1..Len(Runs(s, Starts)) : Runs(s, Starts)[k] # <<>>
           /\ s # <<>> => Runs(s, Starts) # <<>>
           /\ \A j \in 1..Len(s) : \E k \in 1..Len(Runs(s, Starts)) :
                 s[j] \in ToSet(Runs(s, Starts)[k])
  <1> DEFINE n == Len(s)
             S == {1} \cup Starts
             p == Places(S, n)
             m == Len(p)
             begin == p \o <<n + 1>>
             part(k) == SubSeq(s, begin[k], begin[k + 1] - 1)
             runs == Runs(s, Starts)
  <1>1. n \in Nat /\ DOMAIN s = 1..n OBVIOUS
  <1>2. Rises(p, S, n) BY <1>1, PlacesRise
  <1>3. runs = [k \in 1..(Len(begin) - 1) |-> part(k)] BY DEF Runs
  <1> HIDE DEF p, S
  <1>4. p \in Seq(1..n) /\ m \in Nat
    <2>1. p \in Seq(1..n) BY <1>2 DEF Rises
    <2> QED BY <2>1
  <1>5. /\ begin \in Seq(Int) /\ Len(begin) = m + 1 /\ begin[m + 1] = n + 1
        /\ \A k \in 1..m : begin[k] = p[k]
    <2> HIDE DEF n
    <2>1. p \in Seq(Int) /\ n \in Int BY <1>1, <1>4
    <2> QED BY <1>4, <2>1
  <1> HIDE DEF begin, m
  <1>6. ASSUME NEW k \in 1..m
        PROVE  begin[k] \in 1..n /\ begin[k + 1] \in 1..(n + 1) /\ begin[k] < begin[k + 1]
    <2>1. begin[k] \in 1..n /\ begin[k] = p[k] BY <1>4, <1>5 DEF m
    <2>2. CASE k = m
      <3>1. begin[k + 1] = n + 1 BY <1>5, <2>2
      <3> QED BY <1>1, <2>1, <3>1
    <2>3. CASE k # m
      <3>1. k + 1 \in 1..m /\ k < k + 1 BY <1>4, <2>3
      <3>2. begin[k + 1] = p[k + 1] /\ p[k + 1] \in 1..n BY <1>4, <1>5, <3>1 DEF m
      <3>3. p[k] < p[k + 1] BY <1>2, <3>1 DEF Rises, m
      <3> QED BY <1>1, <2>1, <3>2, <3>3
    <2> QED BY <2>2, <2>3
  <1>7. runs = [k \in 1..m |-> part(k)]
    <2>1. Len(begin) - 1 = m BY <1>4, <1>5
    <2> HIDE DEF part, runs
    <2> QED BY <1>3, <2>1
  <1>8. ASSUME NEW k \in 1..m PROVE part(k) \in Seq(T) /\ part(k) # <<>>
    <2> DEFINE a == begin[k]  b == begin[k + 1] - 1
    <2>1. a \in 1..n /\ b \in 1..n /\ a <= b BY <1>1, <1>6
    <2>2. part(k) = SubSeq(s, a, b) OBVIOUS
    <2> HIDE DEF a, b, part
    <2>3. SubSeq(s, a, b) \in Seq(T) /\ Len(SubSeq(s, a, b)) = b - a + 1 BY <1>1, <2>1
    <2>4. b - a + 1 # 0 BY <1>1, <2>1
    <2>5. Len(<<>>) = 0 OBVIOUS
    <2> QED BY <2>2, <2>3, <2>4, <2>5
  <1> HIDE DEF part, runs
  <1>9. /\ runs \in Seq(Seq(T)) /\ Len(runs) = m
        /\ \A k \in 1..m : runs[k] = part(k)
    <2>1. \A k \in 1..m : part(k) \in Seq(T) BY <1>8
    <2> QED BY <1>4, <1>7, <2>1
  <1>10. \A k \in 1..Len(runs) : runs[k] # <<>> BY <1>8, <1>9
  <1>11. ASSUME s # <<>> PROVE runs # <<>>
    <2>1. 1 \in 1..n BY <1>11
    <2>2. 1 \in S BY DEF S
    <2>3. \E k \in 1..m : p[k] = 1 BY <1>2, <2>1, <2>2 DEF Rises, m
    <2>4. m # 0 BY <2>3
    <2> QED BY <1>9, <2>4
  <1>12. ASSUME NEW j \in 1..n PROVE \E k \in 1..m : s[j] \in ToSet(runs[k])
    <2> DEFINE After == {k \in 1..m : j < begin[k + 1]}
    <2>1. PICK l \in 1..m : p[l] = 1
      <3>1. 1 \in 1..n /\ 1 \in S BY <1>1 DEF S
      <3> QED BY <1>2, <3>1 DEF Rises, m
    <2>2. begin[1] = 1
      <3>1. 1 \in 1..m /\ p[1] \in 1..n BY <1>4, <2>1 DEF m
      <3>2. 1 < l => p[1] < 1 BY <1>2, <2>1, <3>1 DEF Rises, m
      <3>3. l = 1 BY <1>4, <2>1, <3>1, <3>2
      <3> QED BY <1>5, <2>1, <3>1, <3>3
    <2>3. m \in After
      <3>1. m \in 1..m /\ j < n + 1 BY <1>1, <1>4, <2>1
      <3> QED BY <1>5, <3>1
    <2>4. PICK k \in After : \A i \in After : k <= i
      <3>1. After \in SUBSET Nat OBVIOUS
      <3> HIDE DEF After
      <3> QED BY <2>3, <3>1, LeastNumber
    <2>5. k \in 1..m /\ j < begin[k + 1] BY <2>4
    <2>6. begin[k] <= j
      <3>1. CASE k = 1 BY <1>1, <2>2, <3>1
      <3>2. CASE k # 1
        <4>1. k - 1 \in 1..m /\ (k - 1) + 1 = k /\ ~(k <= k - 1) BY <1>4, <2>5, <3>2
        <4>2. k - 1 \notin After BY <2>4, <4>1
        <4>3. ~(j < begin[k]) BY <4>1, <4>2
        <4> QED BY <1>1, <1>6, <2>5, <4>3
      <3> QED BY <3>1, <3>2
    <2> DEFINE a == begin[k]  b == begin[k + 1] - 1
    <2>7. a \in 1..n /\ b \in 1..n /\ a <= j /\ j <= b BY <1>1, <1>6, <2>5, <2>6
    <2>8. runs[k] = SubSeq(s, a, b) BY <1>9, <2>5 DEF part
    <2> HIDE DEF a, b
    <2>9. /\ SubSeq(s, a, b) \in Seq(T) /\ Len(SubSeq(s, a, b)) = b - a + 1
          /\ \A i \in 1..(b - a + 1) : SubSeq(s, a, b)[i] = s[a + i - 1]
      BY <1>1, <2>7
    <2>10. j - a + 1 \in 1..(b - a + 1) /\ a + (j - a + 1) - 1 = j BY <1>1, <2>7
    <2>11. SubSeq(s, a, b)[j - a + 1] = s[j] BY <2>9, <2>10
    <2>12. DOMAIN SubSeq(s, a, b) = 1..(b - a + 1) BY <2>9
    <2>13. s[j] \in ToSet(runs[k]) BY <2>8, <2>10, <2>11, <2>12 DEF ToSet
    <2> QED BY <2>5, <2>13
  <1> QED BY <1>9, <1>10, <1>11, <1>12 DEF runs, n

\* A sequence that is sorted has the members it had.
LEMMA SortedKeeps ==
    ASSUME NEW T, NEW s \in Seq(T), NEW order, Orders(DOMAIN s, order)
    PROVE  /\ Sorted(s, order) \in Seq(T) /\ Len(Sorted(s, order)) = Len(s)
           /\ DOMAIN Sorted(s, order) = 1..Len(s)
           /\ \A j \in 1..Len(s) : s[j] \in ToSet(Sorted(s, order))
  <1> DEFINE n == Len(s)  S == DOMAIN s  list == Listing(S, order)
  <1>1. n \in Nat /\ S = 1..n OBVIOUS
  <1>2. IsFiniteSet(S) /\ Cardinality(S) = n BY PositionsAreFinite
  <1> HIDE DEF n
  <1>3. list \in [1..Cardinality(S) -> S] BY <1>2, ListingIsSorted
  <1>4. list \in [1..n -> DOMAIN s] BY <1>2, <1>3
  <1>5. Sorted(s, order) = At(s, list) BY DEF Sorted
  <1> HIDE DEF list
  <1>6. At(s, list) \in Seq(T) /\ Len(At(s, list)) = n /\ DOMAIN At(s, list) = 1..n
    BY <1>1, <1>4, AtIsASequence
  <1>7. ASSUME NEW j \in 1..n PROVE s[j] \in ToSet(At(s, list))
    <2>1. \E i \in DOMAIN list : list[i] = j
      <3>1. j \in S BY <1>1
      <3> QED BY <1>2, <3>1, ListingIsSorted DEF list
    <2>2. PICK i \in 1..n : list[i] = j BY <1>4, <2>1
    <2>3. At(s, list)[i] = s[j] BY <2>2, <1>4 DEF At
    <2> QED BY <1>6, <2>3 DEF ToSet
  <1> QED BY <1>5, <1>6, <1>7 DEF n

\* One of finitely many numbers is the largest.
LEMMA OneIsLargest ==
    ASSUME NEW n \in Nat \ {0}, NEW f \in [1..n -> Int]
    PROVE  \E m \in 1..n : \A i \in 1..n : f[m] >= f[i]
  <1> DEFINE U == {k \in 0..n : k > 0 =>
                      \E m \in 1..k : \A i \in 1..k : f[m] >= f[i]}
  <1>1. 0 \in U OBVIOUS
  <1>2. ASSUME NEW k \in 1..n, k - 1 \in U PROVE k \in U
    <2>1. CASE k = 1
      <3>1. \A i \in 1..k : f[1] >= f[i] BY <2>1
      <3> QED BY <2>1, <3>1
    <2>2. CASE k # 1
      <3>1. PICK m \in 1..(k - 1) : \A i \in 1..(k - 1) : f[m] >= f[i] BY <1>2, <2>2
      <3>2. m \in 1..k /\ k \in 1..k /\ f[m] \in Int /\ f[k] \in Int OBVIOUS
      <3>3. \A i \in 1..k : (i \in 1..(k - 1) \/ i = k) /\ f[i] \in Int OBVIOUS
      <3>4. CASE f[m] >= f[k]
        <4>1. \A i \in 1..k : f[m] >= f[i] BY <3>1, <3>3, <3>4
        <4> QED BY <3>2, <4>1
      <3>5. CASE ~(f[m] >= f[k])
        <4>1. \A i \in 1..k : f[k] >= f[i] BY <3>1, <3>2, <3>3, <3>5
        <4> QED BY <3>2, <4>1
      <3> QED BY <3>4, <3>5
    <2> QED BY <2>1, <2>2
  <1>3. \A k \in 0..n : k \in U
    <2> HIDE DEF U
    <2>1. n \in Nat OBVIOUS
    <2> QED BY <1>1, <1>2, <2>1, CountingUp
  <1>4. n \in U
    <2>1. n \in 0..n OBVIOUS
    <2> HIDE DEF U
    <2> QED BY <1>3, <2>1
  <1>5. n > 0 OBVIOUS
  <1> QED BY <1>4, <1>5

\* The places of an interval are its numbers in order.
LEMMA PlacesOfInterval ==
    ASSUME NEW n \in Nat, NEW a \in 0..n, NEW b \in a..n
    PROVE  /\ Len(Places((a + 1)..b, n)) = b - a
           /\ \A k \in 1..(b - a) : Places((a + 1)..b, n)[k] = a + k
  <1> DEFINE S == (a + 1)..b  p == Places(S, n)  m == Len(p)
  <1>1. Rises(p, S, n) BY PlacesRise
  <1> HIDE DEF p, S
  <1>2. m \in Nat /\ \A k \in 1..m : p[k] \in 1..n BY <1>1 DEF Rises
  <1>3. /\ \A k \in 1..m : p[k] \in S
        /\ \A x \in 1..n : x \in S => \E k \in 1..m : p[k] = x
        /\ \A k, l \in 1..m : k < l => p[k] < p[l]
    BY <1>1 DEF Rises
  <1> HIDE DEF m
  <1>4. \A x \in S : x \in 1..n /\ x > a /\ x <= b BY DEF S
  <1> DEFINE U == {k \in 0..m : k > 0 => p[k] = a + k}
  <1>5. 0 \in U BY <1>2
  <1>6. ASSUME NEW k \in 1..m, k - 1 \in U PROVE k \in U
    <2>1. p[k] \in S /\ p[k] >= a + k
      <3>1. CASE k = 1 BY <1>2, <1>3, <1>4, <3>1
      <3>2. CASE k # 1
        <4>1. k - 1 \in 1..m /\ k - 1 < k BY <1>2, <3>2
        <4>2. p[k - 1] = a + (k - 1) BY <1>6, <4>1
        <4>3. p[k - 1] < p[k] BY <1>3, <4>1
        <4> QED BY <1>2, <1>3, <4>2, <4>3
      <3> QED BY <3>1, <3>2
    <2>2. a + k \in S BY <1>2, <1>4, <2>1 DEF S
    <2>3. PICK l \in 1..m : p[l] = a + k BY <1>3, <1>4, <2>2
    <2>4. ASSUME l < k PROVE FALSE
      <3>1. k - 1 \in 1..m /\ (l = k - 1 \/ l < k - 1) BY <1>2, <2>4
      <3>2. p[k - 1] = a + (k - 1) BY <1>6, <3>1
      <3>3. p[l] <= p[k - 1] BY <1>2, <1>3, <3>1
      <3> QED BY <1>2, <2>3, <3>2, <3>3
    <2>5. ASSUME k < l PROVE FALSE
      <3>1. p[k] < p[l] BY <1>3, <2>5
      <3> QED BY <1>2, <2>1, <2>3, <3>1
    <2>6. l = k BY <2>4, <2>5
    <2> QED BY <2>3, <2>6
  <1>7. \A k \in 1..m : p[k] = a + k
    <2>1. \A k \in 0..m : k \in U
      <3> HIDE DEF U
      <3> QED BY <1>2, <1>5, <1>6, CountingUp
    <2> QED BY <1>2, <2>1
  <1>8. m = b - a
    <2>1. m <= b - a
      <3>1. CASE m = 0 BY <3>1
      <3>2. CASE m # 0
        <4>1. m \in 1..m BY <1>2, <3>2
        <4>2. a + m <= b BY <1>3, <1>4, <1>7, <4>1
        <4> QED BY <1>2, <4>2
      <3> QED BY <3>1, <3>2
    <2>2. b - a <= m
      <3>1. CASE b = a BY <1>2, <3>1
      <3>2. CASE b # a
        <4>1. b \in S BY <3>2 DEF S
        <4>2. PICK l \in 1..m : p[l] = b BY <1>3, <1>4, <4>1
        <4>3. a + l = b BY <1>7, <4>2
        <4> QED BY <1>2, <4>3
      <3> QED BY <3>1, <3>2
    <2> QED BY <1>2, <2>1, <2>2
  <1> QED BY <1>7, <1>8 DEF m, p, S

\* What is joined is all in the result.
LEMMA JoinHoldsAll ==
    ASSUME NEW T, NEW glue \in Seq(T), NEW parts \in Seq(Seq(T))
    PROVE  \A k \in 1..Len(parts) : ToSet(parts[k]) \subseteq ToSet(Join(parts, glue))
  <1> DEFINE n == Len(parts)
             piece(k) == IF k = 1 THEN parts[k] ELSE glue \o parts[k]
             glued == [k \in DOMAIN parts |-> piece(k)]
  <1>1. n \in Nat /\ DOMAIN parts = 1..n /\ \A k \in 1..n : parts[k] \in Seq(T) OBVIOUS
  <1>2. ASSUME NEW k \in 1..n
        PROVE  piece(k) \in Seq(T) /\ ToSet(parts[k]) \subseteq ToSet(piece(k))
    <2>1. parts[k] \in Seq(T) BY <1>1
    <2>2. CASE k = 1 BY <2>1, <2>2
    <2>3. CASE k # 1
      <3>1. glue \o parts[k] \in Seq(T) BY <2>1
      <3>2. ToSet(glue \o parts[k]) = ToSet(glue) \cup ToSet(parts[k])
        BY <2>1, MembersOfJoin
      <3> QED BY <2>3, <3>1, <3>2
    <2> QED BY <2>2, <2>3
  <1>3. Join(parts, glue) = FlattenSeq(glued) BY DEF Join
  <1> HIDE DEF piece
  <1>4. /\ glued \in Seq(Seq(T)) /\ Len(glued) = n
        /\ \A k \in 1..n : glued[k] = piece(k)
    BY <1>1, <1>2
  <1> HIDE DEF glued
  <1>5. ToSet(FlattenSeq(glued)) = UNION {ToSet(glued[k]) : k \in 1..Len(glued)}
    BY <1>4, FlattenMembers
  <1>6. \A k \in 1..n : ToSet(parts[k]) \subseteq ToSet(glued[k]) BY <1>2, <1>4
  <1> QED BY <1>3, <1>4, <1>5, <1>6

=============================================================================
