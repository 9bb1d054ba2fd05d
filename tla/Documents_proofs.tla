-------------------------- MODULE Documents_proofs --------------------------
(***************************************************************************)
(* Curriculum documents: what retrieval takes from their chunks, and what  *)
(* a run of the ingestion does to them.                                    *)
(*                                                                         *)
(* Retrieval, for any number of texts, rows and scores and any caps: the   *)
(* operators come first (how two fractions compare, what fusion ranks, and *)
(* what choose_passages takes); the invariant then needs only what the     *)
(* state remembers, that hits are rankings of rows, of one ingestion unless *)
(* rows of two were met, and that the shortlist shows the best of them.    *)
(*                                                                         *)
(* Ingestion, for any number of jobs and batches: a job inserts chunks     *)
(* once, when it ends, so a snapshot that has some chunk of a job has all  *)
(* of them, and what a run saw it removes whole (SawWhole).                *)
(***************************************************************************)
EXTENDS Retrieval, Ingestion, ListLemmas

-----------------------------------------------------------------------------
(* Fractions: a / b is at most c / d when a * d <= c * b.                  *)

LEMMA TimesKeepsOrder ==
    ASSUME NEW m \in Nat, NEW n \in Nat, NEW k \in Nat, m <= n
    PROVE  m * k <= n * k
  <1>1. n = m + (n - m) /\ n - m \in Nat OBVIOUS
  <1> DEFINE d == n - m
  <1>2. d \in Nat /\ n = m + d BY <1>1
  <1> HIDE DEF d
  <1>3. n * k = m * k + d * k BY <1>2
  <1>4. d * k >= 0 BY <1>2
  <1>5. d * k \in Int /\ m * k \in Int BY <1>2
  <1> QED BY <1>3, <1>4, <1>5

LEMMA TimesKeepsStrict ==
    ASSUME NEW m \in Nat, NEW n \in Nat, NEW k \in Nat, m < n, k > 0
    PROVE  m * k < n * k
  <1>1. (m + 1) * k <= n * k BY TimesKeepsOrder
  <1>2. (m + 1) * k = m * k + k OBVIOUS
  <1>3. m * k \in Int /\ n * k \in Int OBVIOUS
  <1> QED BY <1>1, <1>2, <1>3

\* Not greater is transitive, and greater on either side makes it greater.
LEMMA FractionsInOrder ==
    ASSUME NEW a \in Nat, NEW b \in Nat, NEW c \in Nat, NEW d \in Nat,
           NEW e \in Nat, NEW f \in Nat, b > 0, d > 0, f > 0,
           a * d <= c * b, c * f <= e * d
    PROVE  /\ a * f <= e * b
           /\ a * d < c * b \/ c * f < e * d => a * f < e * b
  <1> DEFINE ad == a * d  cb == c * b  cf == c * f  ed == e * d  af == a * f  eb == e * b
  <1>1. /\ ad \in Nat /\ cb \in Nat /\ cf \in Nat /\ ed \in Nat /\ af \in Nat /\ eb \in Nat
        /\ ad <= cb /\ cf <= ed
    OBVIOUS
  <1>2. /\ af * d = ad * f /\ cb * f = cf * b /\ ed * b = eb * d OBVIOUS
  <1> SUFFICES af <= eb /\ (ad < cb \/ cf < ed => af < eb) OBVIOUS
  <1> HIDE DEF ad, cb, cf, ed, af, eb
  <1>3. ad * f <= cb * f /\ cf * b <= ed * b BY <1>1, TimesKeepsOrder
  <1>4. ad < cb => ad * f < cb * f BY <1>1, TimesKeepsStrict
  <1>5. cf < ed => cf * b < ed * b BY <1>1, TimesKeepsStrict
  <1>6. eb < af => eb * d < af * d BY <1>1, TimesKeepsStrict
  <1>7. eb <= af => eb * d <= af * d BY <1>1, TimesKeepsOrder
  <1>8. /\ ad * f \in Int /\ cb * f \in Int /\ cf * b \in Int /\ ed * b \in Int
        /\ eb * d \in Int /\ af * d \in Int
    BY <1>1
  <1> QED BY <1>1, <1>2, <1>3, <1>4, <1>5, <1>6, <1>7, <1>8

\* Two parts that are larger make a larger sum: 1 / a + 1 / b with smaller
\* denominators; and a part is less than a sum.
LEMMA SmallerRankScoresMore ==
    ASSUME NEW a \in Nat, NEW b \in Nat, NEW c \in Nat, NEW d \in Nat,
           a > 0, b > 0, a < c
    PROVE  /\ b < d => (a + b) * (c * d) > (c + d) * (a * b)
           /\ 1 * c > 1 * a
           /\ (a + b) * c > 1 * (a * b)
  <1> DEFINE ab == a * b  cd == c * d  bc == b * c  ac == a * c  bd == b * d
  <1>1. ab \in Nat /\ cd \in Nat /\ bc \in Nat /\ ac \in Nat /\ bd \in Nat OBVIOUS
  <1>2. (a + b) * c = ac + bc OBVIOUS
  <1>3. ab < bc
    <2>1. a * b < c * b BY TimesKeepsStrict
    <2> QED BY <2>1
  <1>4. ASSUME b < d PROVE (a + b) * (c * d) > (c + d) * (a * b)
    <2>1. b * ac < d * ac
      <3>1. ac > 0
        <4>1. 0 * c < a * c BY TimesKeepsStrict
        <4> QED BY <4>1
      <3> HIDE DEF ac
      <3> QED BY <1>1, <1>4, <3>1, TimesKeepsStrict
    <2>2. a * bd < c * bd
      <3>1. bd > 0
        <4>1. 0 * d < b * d BY <1>4, TimesKeepsStrict
        <4> QED BY <4>1
      <3> HIDE DEF bd
      <3> QED BY <1>1, <3>1, TimesKeepsStrict
    <2>3. (a + b) * (c * d) = d * ac + c * bd OBVIOUS
    <2>4. (c + d) * (a * b) = b * ac + a * bd OBVIOUS
    <2> QED BY <2>1, <2>2, <2>3, <2>4
  <1> QED BY <1>1, <1>2, <1>3, <1>4

-----------------------------------------------------------------------------
(* The fused ranking.                                                      *)

Row == [text : Texts, ingestion : Nat]

HitsOK ==
    /\ vectorHits \in Seq(Row) /\ keywordHits \in Seq(Row)
    /\ IsInjective(vectorHits) /\ IsInjective(keywordHits)

\* The rank of a row is where the ranking has it.
LEMMA RankIsPosition ==
    ASSUME NEW T, NEW hits \in Seq(T), IsInjective(hits), NEW row
    PROVE  /\ RankIn(hits, row) \in 0..Len(hits)
           /\ RankIn(hits, row) > 0 <=> row \in ToSet(hits)
           /\ RankIn(hits, row) > 0 => hits[RankIn(hits, row)] = row
           /\ \A i \in DOMAIN hits : hits[i] = row <=> RankIn(hits, row) = i
  <1>1. DOMAIN hits = 1..Len(hits) /\ Len(hits) \in Nat OBVIOUS
  <1>2. row \in ToSet(hits) <=> \E i \in DOMAIN hits : hits[i] = row BY DEF ToSet
  <1>3. row \in ToSet(hits) =>
            RankIn(hits, row) \in DOMAIN hits /\ hits[RankIn(hits, row)] = row
    BY <1>2 DEF RankIn
  <1>4. row \notin ToSet(hits) => RankIn(hits, row) = 0 BY DEF RankIn
  <1>5. \A i, j \in DOMAIN hits : hits[i] = hits[j] => i = j BY DEF IsInjective
  <1> QED BY <1>1, <1>2, <1>3, <1>4, <1>5

\* A row of both searches is seen once.
LEMMA SeenOnce ==
    ASSUME HitsOK
    PROVE  LET seen == FirstSeen(vectorHits, keywordHits)
           IN seen \in Seq(Row) /\ IsInjective(seen) /\ ToSet(seen) = Found
  <1> DEFINE v == vectorHits
             k == keywordHits
             S == {i \in DOMAIN k : k[i] \notin ToSet(v)}
             new == Kept(k, S)
             seen == FirstSeen(v, k)
  <1>1. v \in Seq(Row) /\ k \in Seq(Row) BY DEF HitsOK
  <1>2. S \in SUBSET DOMAIN k OBVIOUS
  <1>3. /\ new \in Seq(Row)
        /\ \E p \in [1..Len(new) -> S] :
              /\ \A i \in 1..Len(new) : new[i] = k[p[i]]
              /\ \A x \in S : \E i \in 1..Len(new) : p[i] = x
              /\ \A i, j \in 1..Len(new) : i < j => p[i] < p[j]
    BY <1>1, <1>2, KeptKeepsOrder
  <1>4. seen = v \o new BY DEF FirstSeen
  <1>5. \A i \in S : i \in DOMAIN k /\ k[i] \notin ToSet(v) OBVIOUS
  <1>6. \A i \in DOMAIN k : i \in S \/ k[i] \in ToSet(v) OBVIOUS
  <1> HIDE DEF S, new, seen
  <1>7. PICK p \in [1..Len(new) -> S] :
              /\ \A i \in 1..Len(new) : new[i] = k[p[i]]
              /\ \A x \in S : \E i \in 1..Len(new) : p[i] = x
              /\ \A i, j \in 1..Len(new) : i < j => p[i] < p[j]
    BY <1>3
  <1>8. /\ seen \in Seq(Row) /\ Len(seen) = Len(v) + Len(new)
        /\ \A i \in 1..Len(v) : seen[i] = v[i]
        /\ \A i \in 1..Len(new) : seen[Len(v) + i] = new[i]
        /\ DOMAIN seen = 1..(Len(v) + Len(new))
        /\ Len(v) \in Nat /\ Len(new) \in Nat
        /\ DOMAIN v = 1..Len(v) /\ DOMAIN k = 1..Len(k) /\ Len(k) \in Nat
    BY <1>1, <1>3, <1>4
  <1>9. \A i \in DOMAIN seen :
            i \in 1..Len(v) \/ (i - Len(v) \in 1..Len(new) /\ i = Len(v) + (i - Len(v)))
    BY <1>8
  <1>10. ASSUME NEW i \in 1..Len(new), NEW j \in 1..Len(v) PROVE new[i] # v[j]
    <2>1. p[i] \in S /\ new[i] = k[p[i]] BY <1>7
    <2>2. new[i] \notin ToSet(v) BY <2>1, <1>5
    <2>3. v[j] \in ToSet(v) BY <1>8 DEF ToSet
    <2> QED BY <2>2, <2>3
  <1>11. ASSUME NEW i \in 1..Len(new), NEW j \in 1..Len(new), new[i] = new[j]
         PROVE  i = j
    <2>1. k[p[i]] = k[p[j]] /\ p[i] \in DOMAIN k /\ p[j] \in DOMAIN k
      BY <1>5, <1>7, <1>11
    <2>2. p[i] = p[j] BY <2>1 DEF HitsOK, IsInjective
    <2>3. p[i] \in Int BY <2>1, <1>8
    <2>4. ~(i < j) /\ ~(j < i) BY <1>7, <2>2, <2>3
    <2> QED BY <2>4, <1>8
  <1>12. ASSUME NEW i \in DOMAIN seen, NEW j \in DOMAIN seen, seen[i] = seen[j]
         PROVE  i = j
    <2>1. CASE i \in 1..Len(v) /\ j \in 1..Len(v)
      <3>1. v[i] = v[j] BY <2>1, <1>8, <1>12
      <3> QED BY <3>1, <2>1, <1>8 DEF HitsOK, IsInjective
    <2>2. CASE i \in 1..Len(v) /\ j \notin 1..Len(v)
      <3>1. j - Len(v) \in 1..Len(new) /\ seen[j] = new[j - Len(v)]
        BY <2>2, <1>8, <1>9
      <3> QED BY <3>1, <2>2, <1>8, <1>10, <1>12
    <2>3. CASE j \in 1..Len(v) /\ i \notin 1..Len(v)
      <3>1. i - Len(v) \in 1..Len(new) /\ seen[i] = new[i - Len(v)]
        BY <2>3, <1>8, <1>9
      <3> QED BY <3>1, <2>3, <1>8, <1>10, <1>12
    <2>4. CASE i \notin 1..Len(v) /\ j \notin 1..Len(v)
      <3>1. /\ i - Len(v) \in 1..Len(new) /\ seen[i] = new[i - Len(v)]
            /\ j - Len(v) \in 1..Len(new) /\ seen[j] = new[j - Len(v)]
        BY <2>4, <1>8, <1>9
      <3>2. i - Len(v) = j - Len(v) BY <3>1, <1>11, <1>12
      <3> QED BY <3>2, <1>8
    <2> QED BY <2>1, <2>2, <2>3, <2>4
  <1>13. ASSUME NEW row \in ToSet(seen) PROVE row \in Found
    <2>1. PICK i \in DOMAIN seen : seen[i] = row BY DEF ToSet
    <2>2. CASE i \in 1..Len(v) BY <2>1, <2>2, <1>8 DEF Found, ToSet
    <2>3. CASE i \notin 1..Len(v)
      <3>1. i - Len(v) \in 1..Len(new) /\ row = new[i - Len(v)]
        BY <2>1, <2>3, <1>8, <1>9
      <3>2. PICK x \in DOMAIN k : row = k[x] BY <3>1, <1>5, <1>7
      <3> QED BY <3>2 DEF Found, ToSet
    <2> QED BY <2>2, <2>3
  <1>14. ASSUME NEW row \in Found PROVE row \in ToSet(seen)
    <2>1. CASE row \in ToSet(v)
      <3>1. PICK i \in DOMAIN v : v[i] = row BY <2>1 DEF ToSet
      <3>2. i \in DOMAIN seen /\ seen[i] = row BY <3>1, <1>8
      <3> QED BY <3>2 DEF ToSet
    <2>2. CASE row \notin ToSet(v)
      <3>1. row \in ToSet(k) BY <2>2 DEF Found
      <3>2. PICK x \in DOMAIN k : k[x] = row BY <3>1 DEF ToSet
      <3>3. x \in S BY <3>2, <2>2, <1>6
      <3>4. PICK i \in 1..Len(new) : p[i] = x BY <3>3, <1>7
      <3>5. new[i] = row BY <3>2, <3>4, <1>7
      <3>6. Len(v) + i \in DOMAIN seen /\ seen[Len(v) + i] = row BY <3>5, <1>8
      <3> QED BY <3>6 DEF ToSet
    <2> QED BY <2>1, <2>2
  <1> QED BY <1>8, <1>12, <1>13, <1>14 DEF IsInjective, seen

LEMMA ScoreIsAFraction ==
    ASSUME HitsOK, NEW row \in Found
    PROVE  LET v == RankIn(vectorHits, row)
               k == RankIn(keywordHits, row)
           IN /\ v \in Nat /\ k \in Nat /\ (v > 0 \/ k > 0)
              /\ v > 0 /\ k > 0 => /\ Score(row)[1] = (60 + v) + (60 + k)
                                   /\ Score(row)[2] = (60 + v) * (60 + k)
              /\ v > 0 /\ k = 0 => Score(row)[1] = 1 /\ Score(row)[2] = 60 + v
              /\ v = 0 => Score(row)[1] = 1 /\ Score(row)[2] = 60 + k
              /\ Score(row)[1] \in Nat /\ Score(row)[2] \in Nat /\ Score(row)[2] > 0
  <1> DEFINE v == RankIn(vectorHits, row)
             k == RankIn(keywordHits, row)
  <1>1. /\ v \in 0..Len(vectorHits) /\ (v > 0 <=> row \in ToSet(vectorHits))
        /\ k \in 0..Len(keywordHits) /\ (k > 0 <=> row \in ToSet(keywordHits))
    BY RankIsPosition DEF HitsOK
  <1>2. Len(vectorHits) \in Nat /\ Len(keywordHits) \in Nat BY DEF HitsOK
  <1>3. row \in ToSet(vectorHits) \/ row \in ToSet(keywordHits) BY DEF Found
  <1>4. Score(row) = IF v > 0 /\ k > 0
                     THEN <<(60 + v) + (60 + k), (60 + v) * (60 + k)>>
                     ELSE <<1, 60 + (IF v > 0 THEN v ELSE k)>>
    BY DEF Score, RRF_K
  <1> HIDE DEF v, k
  <1>5. v \in Nat /\ k \in Nat /\ (v > 0 \/ k > 0) BY <1>1, <1>2, <1>3
  <1>6. CASE v > 0 /\ k > 0
    <2>1. Score(row) = <<(60 + v) + (60 + k), (60 + v) * (60 + k)>> BY <1>4, <1>6
    <2>2. (60 + v) * (60 + k) > 0
      <3>1. 0 * (60 + k) < (60 + v) * (60 + k) BY <1>5, TimesKeepsStrict
      <3> QED BY <3>1, <1>5
    <2> QED BY <1>5, <1>6, <2>1, <2>2 DEF v, k
  <1>7. CASE v > 0 /\ ~(k > 0)
    <2>1. Score(row) = <<1, 60 + v>> BY <1>4, <1>7
    <2> QED BY <1>5, <1>7, <2>1 DEF v, k
  <1>8. CASE ~(v > 0)
    <2>1. Score(row) = <<1, 60 + k>> BY <1>4, <1>8
    <2> QED BY <1>5, <1>8, <2>1 DEF v, k
  <1> QED BY <1>6, <1>7, <1>8

\* A row that no search puts behind another has the larger score.
LEMMA AheadScoresMore ==
    ASSUME HitsOK, NEW x \in Found, NEW y \in Found, Ahead(x, y)
    PROVE  Above(x, y)
  <1> DEFINE vx == RankIn(vectorHits, x)   kx == RankIn(keywordHits, x)
             vy == RankIn(vectorHits, y)   ky == RankIn(keywordHits, y)
  <1>1. x # y BY DEF Ahead
  <1>2. (vy = 0 \/ vx \in 1..vy) /\ (ky = 0 \/ kx \in 1..ky) BY DEF Ahead
  <1>3. /\ vx > 0 => vectorHits[vx] = x /\ vx \in 1..Len(vectorHits)
        /\ vy > 0 => vectorHits[vy] = y /\ vy \in 1..Len(vectorHits)
        /\ kx > 0 => keywordHits[kx] = x /\ kx \in 1..Len(keywordHits)
        /\ ky > 0 => keywordHits[ky] = y /\ ky \in 1..Len(keywordHits)
    BY RankIsPosition DEF HitsOK
  <1>4. vx \in Nat /\ kx \in Nat /\ vy \in Nat /\ ky \in Nat
    BY ScoreIsAFraction
  <1>5. (vx > 0 \/ kx > 0) /\ (vy > 0 \/ ky > 0) BY ScoreIsAFraction
  <1>6. vy > 0 => vx > 0 /\ vx < vy BY <1>1, <1>2, <1>3, <1>4
  <1>7. ky > 0 => kx > 0 /\ kx < ky BY <1>1, <1>2, <1>3, <1>4
  <1> DEFINE s1 == Score(x)[1]  s2 == Score(x)[2]  t1 == Score(y)[1]  t2 == Score(y)[2]
  <1>8. /\ vx > 0 /\ kx > 0 => s1 = (60 + vx) + (60 + kx) /\ s2 = (60 + vx) * (60 + kx)
        /\ vx > 0 /\ kx = 0 => s1 = 1 /\ s2 = 60 + vx
        /\ vx = 0 => s1 = 1 /\ s2 = 60 + kx
    BY ScoreIsAFraction
  <1>9. /\ vy > 0 /\ ky > 0 => t1 = (60 + vy) + (60 + ky) /\ t2 = (60 + vy) * (60 + ky)
        /\ vy > 0 /\ ky = 0 => t1 = 1 /\ t2 = 60 + vy
        /\ vy = 0 => t1 = 1 /\ t2 = 60 + ky
    BY ScoreIsAFraction
  <1>10. Above(x, y) <=> s1 * t2 > t1 * s2 BY DEF Above
  <1> HIDE DEF vx, kx, vy, ky, s1, s2, t1, t2
  <1>11. CASE vy > 0 /\ ky > 0
    <2>1. ((60 + vx) + (60 + kx)) * ((60 + vy) * (60 + ky))
            > ((60 + vy) + (60 + ky)) * ((60 + vx) * (60 + kx))
      BY <1>4, <1>6, <1>7, <1>11, SmallerRankScoresMore
    <2> QED BY <2>1, <1>6, <1>7, <1>8, <1>9, <1>10, <1>11
  <1>12. CASE vy > 0 /\ ky = 0 /\ kx = 0
    <2>1. 1 * (60 + vy) > 1 * (60 + vx) BY <1>4, <1>6, <1>12
    <2> QED BY <2>1, <1>6, <1>8, <1>9, <1>10, <1>12
  <1>13. CASE vy > 0 /\ ky = 0 /\ kx > 0
    <2>1. ((60 + vx) + (60 + kx)) * (60 + vy) > 1 * ((60 + vx) * (60 + kx))
      BY <1>4, <1>6, <1>13, SmallerRankScoresMore
    <2> QED BY <2>1, <1>6, <1>8, <1>9, <1>10, <1>13
  <1>14. CASE vy = 0 /\ vx = 0
    <2>1. 1 * (60 + ky) > 1 * (60 + kx) BY <1>4, <1>5, <1>7, <1>14
    <2> QED BY <2>1, <1>8, <1>9, <1>10, <1>14
  <1>15. CASE vy = 0 /\ vx > 0
    <2>1. ky > 0 /\ kx > 0 /\ kx < ky BY <1>5, <1>7, <1>15
    <2>2. ((60 + kx) + (60 + vx)) * (60 + ky) > 1 * ((60 + kx) * (60 + vx))
      BY <1>4, <2>1, <1>15, SmallerRankScoresMore
    <2>3. /\ (60 + kx) + (60 + vx) = (60 + vx) + (60 + kx)
          /\ (60 + kx) * (60 + vx) = (60 + vx) * (60 + kx)
      BY <1>4
    <2> QED BY <2>1, <2>2, <2>3, <1>8, <1>9, <1>10, <1>15
  <1> QED BY <1>4, <1>11, <1>12, <1>13, <1>14, <1>15

LEMMA AboveIsTransitive ==
    ASSUME HitsOK, NEW x \in Found, NEW y \in Found, NEW z \in Found
    PROVE  /\ ~(Above(x, y) /\ Above(y, x)) /\ ~Above(x, x)
           /\ ~Above(y, x) /\ ~Above(z, y) => ~Above(z, x)
           /\ ~Above(y, x) /\ ~Above(z, y) /\ (Above(x, y) \/ Above(y, z)) => Above(x, z)
  <1> DEFINE a == Score(x)[1]  b == Score(x)[2]
             c == Score(y)[1]  d == Score(y)[2]
             e == Score(z)[1]  f == Score(z)[2]
  <1>1. /\ a \in Nat /\ b \in Nat /\ c \in Nat /\ d \in Nat /\ e \in Nat /\ f \in Nat
        /\ b > 0 /\ d > 0 /\ f > 0
    BY ScoreIsAFraction
  <1>2. /\ Above(x, y) <=> a * d > c * b
        /\ Above(y, x) <=> c * b > a * d
        /\ Above(y, z) <=> c * f > e * d
        /\ Above(z, y) <=> e * d > c * f
        /\ Above(x, z) <=> a * f > e * b
        /\ Above(z, x) <=> e * b > a * f
        /\ Above(x, x) <=> a * b > a * b
    <2>1. /\ Above(x, y) <=> a * d > c * b
          /\ Above(y, x) <=> c * b > a * d
      BY DEF Above
    <2>2. /\ Above(y, z) <=> c * f > e * d
          /\ Above(z, y) <=> e * d > c * f
      BY DEF Above
    <2>3. /\ Above(x, z) <=> a * f > e * b
          /\ Above(z, x) <=> e * b > a * f
      BY DEF Above
    <2>4. Above(x, x) <=> a * b > a * b BY DEF Above
    <2> QED BY <2>1, <2>2, <2>3, <2>4
  <1> HIDE DEF a, b, c, d, e, f
  <1>3. /\ a * d \in Int /\ c * b \in Int /\ c * f \in Int /\ e * d \in Int
        /\ a * f \in Int /\ e * b \in Int /\ a * b \in Int
    BY <1>1
  <1>4. e * d <= c * f /\ c * b <= a * d =>
            /\ e * b <= a * f
            /\ e * d < c * f \/ c * b < a * d => e * b < a * f
    BY <1>1, FractionsInOrder
  <1> DEFINE ad == a * d  cb == c * b  cf == c * f  ed == e * d  af == a * f  eb == e * b
             ab == a * b
  <1>5. /\ ad \in Int /\ cb \in Int /\ cf \in Int /\ ed \in Int
        /\ af \in Int /\ eb \in Int /\ ab \in Int
    BY <1>3
  <1>6. ed <= cf /\ cb <= ad => eb <= af /\ (ed < cf \/ cb < ad => eb < af)
    BY <1>4
  <1>7. /\ Above(x, y) <=> ad > cb
        /\ Above(y, x) <=> cb > ad
        /\ Above(y, z) <=> cf > ed
        /\ Above(z, y) <=> ed > cf
        /\ Above(x, z) <=> af > eb
        /\ Above(z, x) <=> eb > af
        /\ Above(x, x) <=> ab > ab
    BY <1>2
  <1> HIDE DEF ad, cb, cf, ed, af, eb, ab
  <1> QED BY <1>5, <1>6, <1>7

\* Fusion puts every row found once, and none behind one with a lower score.
LEMMA FusedIsRanked ==
    ASSUME HitsOK
    PROVE  /\ Fused \in Seq(Row) /\ IsInjective(Fused) /\ ToSet(Fused) = Found
           /\ \A i, j \in DOMAIN Fused : i < j => ~Above(Fused[j], Fused[i])
  <1> DEFINE seen == FirstSeen(vectorHits, keywordHits)
             S == DOMAIN seen
             order == FusedOrder(seen)
             p == Listing(S, order)
             m == Cardinality(S)
  <1>1. seen \in Seq(Row) /\ IsInjective(seen) /\ ToSet(seen) = Found BY SeenOnce
  <1>2. S \in SUBSET DOMAIN seen /\ S \in SUBSET Int BY <1>1
  <1>3. IsFiniteSet(S) /\ m \in Nat BY <1>1, <1>2, PositionsAreFinite
  <1>4. \A i \in S : seen[i] \in Found BY <1>1 DEF ToSet
  <1>5. \A i, j \in S :
            <<i, j>> \in order <=> \/ Above(seen[i], seen[j])
                                   \/ ~Above(seen[j], seen[i]) /\ i < j
    BY DEF FusedOrder
  <1>6. Orders(S, order)
    <2> HIDE DEF seen, S, order
    <2>1. ASSUME NEW i \in S PROVE <<i, i>> \notin order
      <3>1. ~Above(seen[i], seen[i]) BY <1>4, AboveIsTransitive
      <3> QED BY <3>1, <1>2, <1>5
    <2>2. ASSUME NEW i \in S, NEW j \in S
          PROVE  i = j \/ <<i, j>> \in order \/ <<j, i>> \in order
      BY <1>2, <1>5
    <2>3. ASSUME NEW i \in S, NEW j \in S, NEW k \in S,
                 <<i, j>> \in order, <<j, k>> \in order
          PROVE  <<i, k>> \in order
      <3> DEFINE x == seen[i]  y == seen[j]  z == seen[k]
      <3>1. x \in Found /\ y \in Found /\ z \in Found BY <1>4
      <3> HIDE DEF x, y, z
      <3>2. /\ ~(Above(x, y) /\ Above(y, x)) /\ ~(Above(y, z) /\ Above(z, y))
            /\ ~Above(y, x) /\ ~Above(z, y) => ~Above(z, x)
            /\ ~Above(y, x) /\ ~Above(z, y) /\ (Above(x, y) \/ Above(y, z)) => Above(x, z)
        BY <3>1, AboveIsTransitive
      <3>3. /\ Above(x, y) \/ (~Above(y, x) /\ i < j)
            /\ Above(y, z) \/ (~Above(z, y) /\ j < k)
        <4>1. Above(seen[i], seen[j]) \/ (~Above(seen[j], seen[i]) /\ i < j)
          BY <1>5, <2>3
        <4>2. Above(seen[j], seen[k]) \/ (~Above(seen[k], seen[j]) /\ j < k)
          BY <1>5, <2>3
        <4> QED BY <4>1, <4>2 DEF x, y, z
      <3>4. Above(x, z) \/ (~Above(z, x) /\ i < k) BY <3>2, <3>3, <1>2
      <3> QED BY <3>4, <1>5 DEF x, z
    <2> QED BY <2>1, <2>2, <2>3 DEF Orders
  <1>7. /\ p \in [1..m -> S] /\ \A x \in S : \E i \in DOMAIN p : p[i] = x
        /\ \A i, j \in DOMAIN p : i < j => <<p[i], p[j]>> \in order
        /\ IsInjective(p)
    BY <1>3, <1>6, ListingIsSorted
  <1>8. Fused = At(seen, p) BY DEF Fused, Sorted
  <1> HIDE DEF seen, order, p, m
  <1>9. /\ Fused \in Seq(Row) /\ DOMAIN Fused = 1..m
        /\ \A i \in 1..m : Fused[i] = seen[p[i]]
    BY <1>1, <1>3, <1>7, <1>8, AtIsASequence
  <1>10. DOMAIN p = 1..m /\ \A i \in 1..m : p[i] \in S BY <1>7
  <1>11. IsInjective(Fused)
    <2>1. ASSUME NEW i \in 1..m, NEW j \in 1..m, Fused[i] = Fused[j] PROVE i = j
      <3>1. p[i] = p[j] BY <2>1, <1>1, <1>9, <1>10 DEF IsInjective
      <3> QED BY <3>1, <1>7, <1>10 DEF IsInjective
    <2> QED BY <2>1, <1>9 DEF IsInjective
  <1>12. ToSet(Fused) = Found
    <2>1. \A x \in ToSet(Fused) : x \in Found BY <1>4, <1>9, <1>10 DEF ToSet
    <2>2. ASSUME NEW x \in Found PROVE x \in ToSet(Fused)
      <3>1. PICK i \in S : seen[i] = x BY <1>1 DEF ToSet
      <3>2. PICK a \in 1..m : p[a] = i BY <1>7, <1>10
      <3>3. Fused[a] = x /\ a \in DOMAIN Fused BY <3>1, <3>2, <1>9
      <3> QED BY <3>3 DEF ToSet
    <2> QED BY <2>1, <2>2
  <1>13. ASSUME NEW i \in 1..m, NEW j \in 1..m, i < j PROVE ~Above(Fused[j], Fused[i])
    <2>1. <<p[i], p[j]>> \in order /\ p[i] \in S /\ p[j] \in S BY <1>7, <1>10, <1>13
    <2>2. seen[p[i]] \in Found /\ seen[p[j]] \in Found BY <2>1, <1>4
    <2>3. ~(Above(seen[p[i]], seen[p[j]]) /\ Above(seen[p[j]], seen[p[i]]))
      BY <2>2, AboveIsTransitive
    <2>4. ~Above(seen[p[j]], seen[p[i]]) BY <2>1, <2>3, <1>5
    <2> QED BY <2>4, <1>9
  <1> QED BY <1>9, <1>11, <1>12, <1>13

\* What stands in a list of rows that is to be shown to the model: rows that
\* were found and are near, each once, and no near row that comes later, or not
\* at all, is ahead of one in it.
Shown(list) ==
    /\ list \in Seq(Row) /\ IsInjective(list)
    /\ \A row \in ToSet(list) : row \in Found /\ Near(row)
    /\ \A i \in DOMAIN list : \A row \in Found :
          Near(row) /\ row \notin {list[j] : j \in 1..i} => ~Ahead(row, list[i])

LEMMA AboveFloorIsShown ==
    ASSUME HitsOK, similarity \in [Texts -> Nat]
    PROVE  LET above == AboveFloor(Fused)
           IN /\ Shown(above)
              /\ above = <<>> => \A row \in Found : ~Near(row)
              /\ \A n \in 1..Len(above) :
                    Shown(SubSeq(above, 1, n)) /\ Len(SubSeq(above, 1, n)) = n
  <1> DEFINE S == {i \in DOMAIN Fused : similarity[Fused[i].text] >= Floor}
             above == AboveFloor(Fused)
  <1>1. /\ Fused \in Seq(Row) /\ IsInjective(Fused) /\ ToSet(Fused) = Found
        /\ \A i, j \in DOMAIN Fused : i < j => ~Above(Fused[j], Fused[i])
    BY FusedIsRanked
  <1>2. above = Kept(Fused, S) BY DEF AboveFloor
  <1>3. S \in SUBSET DOMAIN Fused
        /\ \A i \in DOMAIN Fused : i \in S <=> Near(Fused[i])
    BY DEF Near
  <1> HIDE DEF S, above
  <1>4. above \in Seq(Row) BY <1>1, <1>2, <1>3, KeptKeepsOrder
  <1>5. PICK p \in [1..Len(above) -> S] :
              /\ \A i \in 1..Len(above) : above[i] = Fused[p[i]]
              /\ \A x \in S : \E i \in 1..Len(above) : p[i] = x
              /\ \A i, j \in 1..Len(above) : i < j => p[i] < p[j]
    <2> DEFINE f == Fused
    <2>1. f \in Seq(Row) /\ S \in SUBSET DOMAIN f /\ above = Kept(f, S) BY <1>1, <1>2, <1>3
    <2> HIDE DEF f
    <2> DEFINE kept == Kept(f, S)
    <2>2. \E p \in [1..Len(kept) -> S] :
              /\ \A i \in 1..Len(kept) : kept[i] = f[p[i]]
              /\ \A x \in S : \E i \in 1..Len(kept) : p[i] = x
              /\ \A i, j \in 1..Len(kept) : i < j => p[i] < p[j]
      BY <2>1, KeptKeepsOrder
    <2>3. kept = above BY <2>1
    <2> HIDE DEF kept
    <2> QED BY <2>2, <2>3 DEF f
  <1>6. /\ Len(above) \in Nat /\ DOMAIN above = 1..Len(above)
        /\ \A i \in 1..Len(above) : p[i] \in S /\ p[i] \in DOMAIN Fused /\ p[i] \in Int
        /\ DOMAIN Fused = 1..Len(Fused)
    BY <1>1, <1>3, <1>4, <1>5
  <1>7. \A i \in 1..Len(above) : above[i] \in Found /\ Near(above[i])
    BY <1>1, <1>3, <1>5, <1>6 DEF ToSet
  <1>8. ASSUME NEW i \in 1..Len(above), NEW j \in 1..Len(above), above[i] = above[j]
        PROVE  i = j
    <2>1. p[i] = p[j] BY <1>1, <1>5, <1>6, <1>8 DEF IsInjective
    <2>2. p[i] \in Int /\ p[j] \in Int BY <1>6
    <2>3. ~(p[i] < p[j]) /\ ~(p[j] < p[i]) BY <2>1, <2>2
    <2>4. ~(i < j) BY <2>3, <1>5, Zenon
    <2>5. ~(j < i) BY <2>3, <1>5, Zenon
    <2> QED BY <2>4, <2>5, <1>6
  <1>9. ASSUME NEW row \in Found, Near(row) PROVE \E i \in 1..Len(above) : above[i] = row
    <2>1. PICK x \in DOMAIN Fused : Fused[x] = row BY <1>1 DEF ToSet
    <2>2. x \in S BY <2>1, <1>3, <1>9
    <2> QED BY <2>1, <2>2, <1>5
  <1>10. ASSUME NEW i \in 1..Len(above), NEW row \in Found, Near(row),
                row \notin {above[j] : j \in 1..i}
         PROVE  ~Ahead(row, above[i])
    <2>1. PICK k \in 1..Len(above) : above[k] = row BY <1>9, <1>10
    <2>2. i < k BY <2>1, <1>6, <1>10
    <2>3. p[i] < p[k] BY <2>2, <1>5
    <2>4. ~Above(Fused[p[k]], Fused[p[i]]) BY <2>3, <1>1, <1>6
    <2>5. ~Above(row, above[i]) BY <2>1, <2>4, <1>5
    <2> QED BY <2>5, <1>7, AheadScoresMore
  <1>11. above = <<>> => \A row \in Found : ~Near(row) BY <1>9, <1>6
  <1>12. ASSUME NEW n \in 0..Len(above), NEW list, list \in Seq(Row), Len(list) = n,
                \A i \in 1..n : list[i] = above[i]
         PROVE  Shown(list)
    <2>1. DOMAIN list = 1..n /\ n \in Nat /\ \A i \in 1..n : i \in 1..Len(above)
      BY <1>6, <1>12
    <2>2. IsInjective(list) BY <2>1, <1>8, <1>12 DEF IsInjective
    <2>3. \A row \in ToSet(list) : row \in Found /\ Near(row)
      BY <2>1, <1>7, <1>12 DEF ToSet
    <2>4. ASSUME NEW i \in 1..n, NEW row \in Found, Near(row),
                 row \notin {list[j] : j \in 1..i}
          PROVE  ~Ahead(row, list[i])
      <3>1. \A j \in 1..i : list[j] = above[j] BY <2>1, <1>12
      <3>2. row \notin {above[j] : j \in 1..i} BY <3>1, <2>4
      <3> QED BY <3>2, <2>1, <2>4, <1>10, <1>12
    <2> QED BY <2>1, <2>2, <2>3, <2>4, <1>12 DEF Shown
  <1>13. Shown(above) BY <1>4, <1>6, <1>12
  <1>14. ASSUME NEW n \in 1..Len(above)
         PROVE  Shown(SubSeq(above, 1, n)) /\ Len(SubSeq(above, 1, n)) = n
    <2> DEFINE list == SubSeq(above, 1, n)
    <2>1. /\ list \in Seq(Row) /\ Len(list) = n
          /\ \A i \in 1..n : list[i] = above[i]
      BY <1>4, <1>6
    <2>2. n \in 0..Len(above) BY <1>6
    <2> HIDE DEF list
    <2>3. Shown(list) BY <2>1, <2>2, <1>12
    <2> QED BY <2>1, <2>3 DEF list
  <1> QED BY <1>11, <1>13, <1>14 DEF above

-----------------------------------------------------------------------------
(* The passages of one answer.                                             *)

Passage == [position : Nat, size : Int]

\* The loop that adds the sizes up does so.
LEMMA TotalAddsUp ==
    ASSUME NEW list \in Seq(Passage)
    PROVE  \E sum \in [0..Len(list) -> Int] :
              /\ sum[0] = 0 /\ Total(list) = sum[Len(list)]
              /\ \A i \in 1..Len(list) : sum[i] = sum[i - 1] + list[i].size
  <1> DEFINE n == Len(list)
             loop(f) == [i \in 0..n |-> IF i = 0 THEN 0 ELSE f[i - 1] + list[i].size]
             sum == CHOOSE f : f = loop(f)
             step == [e \in Int \X (1..n) |-> e[1] + list[e[2]].size]
  <1>1. n \in Nat /\ \A i \in 1..n : list[i].size \in Int
    <2>1. n \in Nat /\ \A i \in 1..n : list[i] \in Passage OBVIOUS
    <2> QED BY <2>1 DEF Passage
  <1>2. step \in [Int \X (1..n) -> Int] BY <1>1
  <1>3. \A v \in Int, i \in 1..n : step[<<v, i>>] = v + list[i].size OBVIOUS
  <1>4. PICK f \in [0..n -> Int] :
            f[0] = 0 /\ \A i \in 1..n : f[i] = step[<<f[i - 1], i>>]
    <2>1. n \in Nat /\ 0 \in Int /\ step \in Turns(Int, n) BY <1>1, <1>2 DEF Turns
    <2> HIDE DEF step, n
    <2>2. \E f : Computes(f, Int, n, 0, step) BY <2>1, LoopsCompute
    <2> QED BY <2>2 DEF Computes
  <1> HIDE DEF step
  <1>5. \A i \in 1..n : f[i] = f[i - 1] + list[i].size
    <2> TAKE i \in 1..n
    <2>1. i - 1 \in 0..n BY <1>1
    <2> QED BY <2>1, <1>3, <1>4
  <1>6. f = loop(f)
    <2>1. \A i \in 0..n : f[i] = IF i = 0 THEN 0 ELSE f[i - 1] + list[i].size
      BY <1>1, <1>4, <1>5
    <2> HIDE DEF n
    <2> QED BY <2>1
  <1>7. sum = loop(sum)
    <2> HIDE DEF loop
    <2> QED BY <1>6
  <1>8. Total(list) = sum[n] BY DEF Total
  <1> HIDE DEF sum
  <1>9. /\ DOMAIN sum = 0..n /\ sum[0] = 0
        /\ \A i \in 1..n : sum[i] = sum[i - 1] + list[i].size
    BY <1>1, <1>7
  <1>10. \A i \in 0..n : sum[i] \in Int
    <2> DEFINE T == {i \in 0..n : sum[i] \in Int}
    <2>1. 0 \in T BY <1>1, <1>9
    <2>2. ASSUME NEW i \in 1..n, i - 1 \in T PROVE i \in T BY <1>1, <1>9, <2>2
    <2>3. \A i \in 0..n : i \in T
      <3> HIDE DEF T, n
      <3> QED BY <1>1, <2>1, <2>2, CountingUp
    <2> QED BY <2>3
  <1>11. sum = [i \in 0..n |-> sum[i]] BY <1>7
  <1>12. sum \in [0..n -> Int] BY <1>10, <1>11
  <1> QED BY <1>8, <1>9, <1>12

LEMMA TotalOfNothing == Total(<<>>) = 0
  <1>1. <<>> \in Seq(Passage) /\ Len(<<>>) = 0 OBVIOUS
  <1> QED BY <1>1, TotalAddsUp

LEMMA TotalOfAppend ==
    ASSUME NEW list \in Seq(Passage), NEW p \in Passage
    PROVE  Total(Append(list, p)) = Total(list) + p.size
  <1> DEFINE more == Append(list, p)
             n == Len(list)
  <1>2. /\ more \in Seq(Passage) /\ Len(more) = n + 1 /\ n \in Nat
        /\ more[n + 1] = p /\ \A i \in 1..n : more[i] = list[i]
    OBVIOUS
  <1> HIDE DEF more
  <1>3. PICK a \in [0..n -> Int] :
            /\ a[0] = 0 /\ Total(list) = a[n]
            /\ \A i \in 1..n : a[i] = a[i - 1] + list[i].size
    BY TotalAddsUp
  <1>4. PICK b \in [0..(n + 1) -> Int] :
            /\ b[0] = 0 /\ Total(more) = b[n + 1]
            /\ \A i \in 1..(n + 1) : b[i] = b[i - 1] + more[i].size
    <2> DEFINE m == Len(more)
    <2>1. \E b \in [0..m -> Int] :
              /\ b[0] = 0 /\ Total(more) = b[m]
              /\ \A i \in 1..m : b[i] = b[i - 1] + more[i].size
      BY <1>2, TotalAddsUp
    <2>2. m = n + 1 BY <1>2
    <2> HIDE DEF m, n
    <2> QED BY <2>1, <2>2
  <1> HIDE DEF n
  <1>5. \A i \in 0..n : a[i] = b[i]
    <2> DEFINE T == {i \in 0..n : a[i] = b[i]}
    <2>1. 0 \in T BY <1>2, <1>3, <1>4
    <2>2. ASSUME NEW i \in 1..n, i - 1 \in T PROVE i \in T
      <3>1. i \in 1..(n + 1) /\ more[i] = list[i] BY <1>2
      <3>2. a[i] = a[i - 1] + list[i].size /\ b[i] = b[i - 1] + list[i].size
        BY <3>1, <1>3, <1>4
      <3> QED BY <2>2, <3>2
    <2> HIDE DEF T
    <2>3. \A i \in 0..n : i \in T BY <1>2, <2>1, <2>2, CountingUp
    <2> QED BY <2>3 DEF T
  <1>6. n + 1 \in 1..(n + 1) /\ (n + 1) - 1 = n /\ n \in 0..n BY <1>2
  <1>7. b[n + 1] = b[n] + p.size BY <1>2, <1>4, <1>6
  <1>8. Total(more) = Total(list) + p.size BY <1>3, <1>4, <1>5, <1>6, <1>7
  <1> QED BY <1>8 DEF more

\* What is known of the shortlist and its scores when passages are chosen.
ScoresOK ==
    /\ shortlist \in Seq(Row)
    /\ scores = NoScores \/ scores \in [DOMAIN shortlist -> 0..3]

LEMMA OrderIsSorted ==
    ASSUME ScoresOK
    PROVE  /\ Order \in Seq(Nat) /\ DOMAIN Order = 1..Len(Order)
           /\ \A i \in 1..Len(Order) : Order[i] \in Relevant
           /\ \A x \in Relevant : \E i \in 1..Len(Order) : Order[i] = x
           /\ \A i, j \in 1..Len(Order) : i < j => <<Order[i], Order[j]>> \in BestOrder
           /\ IsInjective(Order)
  <1> DEFINE m == Cardinality(Relevant)
  <1>1. Relevant \in SUBSET DOMAIN shortlist BY DEF Relevant
  <1>2. IsFiniteSet(Relevant) /\ m \in Nat BY <1>1, PositionsAreFinite DEF ScoresOK
  <1>3. Relevant \in SUBSET Nat BY <1>1 DEF ScoresOK
  <1>4. \A i, j \in Relevant :
            <<i, j>> \in BestOrder <=>
                \/ scores # NoScores /\ scores[i] > scores[j]
                \/ (scores = NoScores \/ scores[i] = scores[j]) /\ i < j
    BY DEF BestOrder
  <1>5. scores # NoScores => \A i \in Relevant : scores[i] \in Int BY <1>1 DEF ScoresOK
  <1>6. Orders(Relevant, BestOrder)
    <2>1. ASSUME NEW i \in Relevant PROVE <<i, i>> \notin BestOrder
      BY <1>3, <1>4, <1>5
    <2>2. ASSUME NEW i \in Relevant, NEW j \in Relevant
          PROVE  i = j \/ <<i, j>> \in BestOrder \/ <<j, i>> \in BestOrder
      BY <1>3, <1>4, <1>5
    <2>3. ASSUME NEW i \in Relevant, NEW j \in Relevant, NEW k \in Relevant,
                 <<i, j>> \in BestOrder, <<j, k>> \in BestOrder
          PROVE  <<i, k>> \in BestOrder
      <3>1. i \in Int /\ j \in Int /\ k \in Int BY <1>3
      <3>2. CASE scores = NoScores BY <3>1, <3>2, <1>4, <2>3
      <3>3. CASE scores # NoScores
        <4>1. scores[i] \in Int /\ scores[j] \in Int /\ scores[k] \in Int BY <3>3, <1>5
        <4>2. scores[i] > scores[j] \/ (scores[i] = scores[j] /\ i < j)
          BY <3>3, <1>4, <2>3
        <4>3. scores[j] > scores[k] \/ (scores[j] = scores[k] /\ j < k)
          BY <3>3, <1>4, <2>3
        <4>4. scores[i] > scores[k] \/ (scores[i] = scores[k] /\ i < k)
          BY <3>1, <4>1, <4>2, <4>3
        <4> QED BY <3>3, <4>4, <1>4
      <3> QED BY <3>2, <3>3
    <2> QED BY <2>1, <2>2, <2>3 DEF Orders
  <1>7. /\ Order \in [1..m -> Relevant] /\ \A x \in Relevant : \E i \in DOMAIN Order : Order[i] = x
        /\ \A i, j \in DOMAIN Order : i < j => <<Order[i], Order[j]>> \in BestOrder
        /\ IsInjective(Order)
    BY <1>2, <1>6, ListingIsSorted DEF Order
  <1> HIDE DEF m
  <1>8. Order \in [1..m -> Nat] BY <1>3, <1>7
  <1>9. Order \in Seq(Nat) /\ Len(Order) = m BY <1>2, <1>8
  <1> QED BY <1>2, <1>7, <1>9

SizeAt(p) == length[shortlist[p].text]

\* What the loop has after i turns.
Taken(t, i) ==
    /\ t.list \in Seq(Passage) /\ Len(t.list) <= i
    /\ t.used = Total(t.list) /\ t.used \in 0..ContextMaxChars
    /\ \A j \in 1..Len(t.list) :
          /\ t.list[j].position = Order[j]
          /\ t.list[j].size # SizeAt(Order[j]) =>
                j = 1 /\ SizeAt(Order[1]) > ContextMaxChars /\ t.list[1].size > 0
    /\ ~t.full => Len(t.list) = i
    /\ t.full => /\ Len(t.list) \in 1..(i - 1)
                 /\ t.used + SizeAt(Order[Len(t.list) + 1]) > ContextMaxChars

Loop == [list : Seq(Passage), used : Int, full : BOOLEAN]

\* A turn takes the text, or ends the loop because it does not fit.
LEMMA TakeFits ==
    ASSUME NEW i \in Nat \ {0}, NEW t \in Loop, Taken(t, i - 1),
           NEW blanks \in 0..MaxBlanks,
           Order[i] \in Nat, SizeAt(Order[i]) \in Nat \ {0}
    PROVE  Taken(Take(t, Order[i], blanks), i)
  <1> DEFINE size == SizeAt(Order[i])
             remaining == ContextMaxChars - t.used
             fits == size <= remaining
             cut == IF fits THEN size ELSE remaining - blanks
             n == Len(t.list)
             next == Take(t, Order[i], blanks)
  <1>1. /\ ContextMaxChars \in Nat /\ ContextMaxChars > 0 /\ blanks \in Nat
        /\ blanks < ContextMaxChars
    BY LimitsAssumption
  <1>2. /\ t.list \in Seq(Passage) /\ n <= i - 1 /\ n \in Nat
        /\ t.used = Total(t.list) /\ t.used \in 0..ContextMaxChars
        /\ \A j \in 1..n :
              /\ t.list[j].position = Order[j]
              /\ t.list[j].size # SizeAt(Order[j]) =>
                    j = 1 /\ SizeAt(Order[1]) > ContextMaxChars /\ t.list[1].size > 0
        /\ ~t.full => n = i - 1
        /\ t.full => n \in 1..(i - 2)
                     /\ t.used + SizeAt(Order[n + 1]) > ContextMaxChars
    BY DEF Taken, Loop
  <1>3. size \in Nat /\ size > 0 OBVIOUS
  <1>4. t.list = <<>> => t.used = 0 BY <1>2, TotalOfNothing
  <1>5. t.list # <<>> => n >= 1 BY <1>2
  <1>6. t = [list |-> t.list, used |-> t.used, full |-> t.full] BY DEF Loop
  <1>7. CASE t.full \/ remaining <= 0 \/ (~fits /\ t.list # <<>>)
    <2>1. next = [t EXCEPT !.full = TRUE] BY <1>7 DEF Take, SizeAt
    <2>2. next.list = t.list /\ next.used = t.used /\ next.full = TRUE
      BY <1>6, <2>1 DEF Loop
    <2>3. n \in 1..(i - 1) /\ t.used + SizeAt(Order[n + 1]) > ContextMaxChars
      <3>1. CASE t.full BY <3>1, <1>2
      <3>2. CASE ~t.full
        <4>1. n = i - 1 BY <3>2, <1>2
        <4>2. t.list # <<>> BY <3>2, <1>1, <1>2, <1>4, <1>7
        <4>3. n + 1 = i BY <4>1
        <4>4. t.used + size > ContextMaxChars BY <3>2, <1>1, <1>2, <1>3, <1>7
        <4> QED BY <4>1, <4>2, <4>3, <4>4, <1>5
      <3> QED BY <3>1, <3>2
    <2> HIDE DEF next
    <2>4. Taken(next, i) BY <2>2, <2>3, <1>2 DEF Taken
    <2> QED BY <2>4 DEF next
  <1>8. CASE ~(t.full \/ remaining <= 0 \/ (~fits /\ t.list # <<>>))
    <2> DEFINE p == [position |-> Order[i], size |-> cut]
    <2>1. next = [t EXCEPT !.used = @ + cut, !.list = Append(@, p)]
      BY <1>8 DEF Take, SizeAt
    <2>2. next.list = Append(t.list, p) /\ next.used = t.used + cut /\ next.full = t.full
      BY <1>6, <2>1 DEF Loop
    <2>3. ~t.full /\ n = i - 1 /\ remaining > 0 /\ (fits \/ t.list = <<>>)
      BY <1>8, <1>1, <1>2
    <2>4. cut \in Nat /\ cut > 0 /\ t.used + cut <= ContextMaxChars
      BY <2>3, <1>1, <1>2, <1>3, <1>4
    <2>5. cut # size => i = 1 /\ size > ContextMaxChars
      <3>1. t.list = <<>> => n = 0 OBVIOUS
      <3> QED BY <2>3, <3>1, <1>1, <1>2, <1>3, <1>4
    <2>6. p \in Passage /\ p.position = Order[i] /\ p.size = cut
      BY <2>4 DEF Passage
    <2> HIDE DEF p, next, cut, size
    <2>7. /\ next.list \in Seq(Passage) /\ Len(next.list) = i
          /\ next.list[i] = p /\ \A j \in 1..(i - 1) : next.list[j] = t.list[j]
      BY <2>2, <2>3, <2>6, <1>2
    <2>8. Total(next.list) = t.used + cut BY <1>2, <2>2, <2>6, TotalOfAppend
    <2>9. ASSUME NEW j \in 1..i
          PROVE  /\ next.list[j].position = Order[j]
                 /\ next.list[j].size # SizeAt(Order[j]) =>
                       j = 1 /\ SizeAt(Order[1]) > ContextMaxChars /\ next.list[1].size > 0
      <3>1. CASE j = i BY <3>1, <2>4, <2>5, <2>6, <2>7 DEF size
      <3>2. CASE j # i
        <4>1. j \in 1..(i - 1) /\ 1 \in 1..(i - 1) BY <3>2
        <4>2. next.list[j] = t.list[j] /\ next.list[1] = t.list[1] BY <4>1, <2>7
        <4> QED BY <4>1, <4>2, <2>3, <1>2
      <3> QED BY <3>1, <3>2
    <2>10. next.used \in 0..ContextMaxChars BY <1>1, <1>2, <2>2, <2>4
    <2>11. Taken(next, i) BY <2>2, <2>3, <2>7, <2>8, <2>9, <2>10 DEF Taken
    <2> QED BY <2>11 DEF next
  <1> QED BY <1>7, <1>8

LEMMA TakeIsATurn ==
    ASSUME NEW t \in Loop, NEW p \in Nat, SizeAt(p) \in Int, NEW blanks \in Int
    PROVE  Take(t, p, blanks) \in Loop
  <1> DEFINE size == SizeAt(p)
             remaining == ContextMaxChars - t.used
             fits == size <= remaining
             cut == IF fits THEN size ELSE remaining - blanks
             x == [position |-> p, size |-> cut]
  <1>1. t.list \in Seq(Passage) /\ t.used \in Int /\ ContextMaxChars \in Int
    BY LimitsAssumption DEF Loop
  <1>2. cut \in Int /\ x \in Passage BY <1>1 DEF Passage
  <1>3. [t EXCEPT !.full = TRUE] \in Loop BY DEF Loop
  <1>4. [t EXCEPT !.used = @ + cut, !.list = Append(@, x)] \in Loop
    <2> HIDE DEF cut, x
    <2>1. Append(t.list, x) \in Seq(Passage) /\ t.used + cut \in Int BY <1>1, <1>2
    <2> QED BY <2>1 DEF Loop
  <1>5. Take(t, p, blanks) = IF t.full \/ remaining <= 0 \/ (~fits /\ t.list # <<>>)
                             THEN [t EXCEPT !.full = TRUE]
                             ELSE [t EXCEPT !.used = @ + cut, !.list = Append(@, x)]
    BY DEF Take, SizeAt
  <1> QED BY <1>3, <1>4, <1>5

\* What choose_passages gives to the model.
Chosen(list) ==
    /\ list \in Seq(Passage) /\ Len(list) <= TopK /\ Len(list) <= Len(Order)
    /\ Total(list) <= ContextMaxChars
    /\ \A j \in 1..Len(list) :
          /\ list[j].position = Order[j]
          /\ list[j].size # SizeAt(Order[j]) =>
                j = 1 /\ SizeAt(Order[1]) > ContextMaxChars /\ list[1].size > 0
    /\ Len(list) < TopK /\ Len(list) < Len(Order) =>
          Total(list) + SizeAt(Order[Len(list) + 1]) > ContextMaxChars
    /\ list = <<>> => Relevant = {}

LEMMA ChoosePassagesChooses ==
    ASSUME ScoresOK, length \in [Texts -> Lengths], NEW blanks \in 0..MaxBlanks
    PROVE  Chosen(ChoosePassages(blanks))
  <1> DEFINE n == IF Len(Order) < TopK THEN Len(Order) ELSE TopK
             first == [list |-> <<>>, used |-> 0, full |-> FALSE]
             loop(f) == [i \in 0..n |-> IF i = 0 THEN first
                                        ELSE Take(f[i - 1], Order[i], blanks)]
             taken == CHOOSE f : f = loop(f)
             step == [e \in Loop \X (1..n) |-> Take(e[1], Order[e[2]], blanks)]
  <1>1. /\ Order \in Seq(Nat) /\ DOMAIN Order = 1..Len(Order)
        /\ \A i \in 1..Len(Order) : Order[i] \in Relevant
        /\ \A x \in Relevant : \E i \in 1..Len(Order) : Order[i] = x
    BY OrderIsSorted
  <1>2. n \in Nat /\ n <= TopK /\ n <= Len(Order) /\ (n = TopK \/ n = Len(Order))
        /\ Len(Order) \in Nat /\ TopK \in Nat /\ TopK > 0
        /\ \A i \in 1..n : i \in 1..Len(Order)
    BY <1>1, LimitsAssumption
  <1>3. \A p \in Relevant : p \in Nat /\ SizeAt(p) \in Nat \ {0}
    <2> TAKE p \in Relevant
    <2>1. p \in DOMAIN shortlist BY DEF Relevant
    <2>2. p \in Nat /\ shortlist[p] \in Row BY <2>1 DEF ScoresOK
    <2>3. shortlist[p].text \in Texts BY <2>2 DEF Row
    <2> QED BY <2>2, <2>3, LimitsAssumption DEF SizeAt
  <1>4. \A i \in 1..n : Order[i] \in Nat /\ SizeAt(Order[i]) \in Nat \ {0}
    BY <1>1, <1>2, <1>3
  <1>5. blanks \in Int /\ blanks \in 0..MaxBlanks /\ MaxBlanks \in Int BY LimitsAssumption
  <1>6. first \in Loop BY DEF Loop
  <1> HIDE DEF first, n
  <1>7. step \in Turns(Loop, n)
    <2>1. \A e \in Loop \X (1..n) : Take(e[1], Order[e[2]], blanks) \in Loop
      BY <1>4, <1>5, TakeIsATurn
    <2> QED BY <2>1 DEF Turns
  <1>8. \A t \in Loop, i \in 1..n : step[<<t, i>>] = Take(t, Order[i], blanks) OBVIOUS
  <1> HIDE DEF step
  <1>9. PICK f : Computes(f, Loop, n, first, step) BY <1>2, <1>6, <1>7, LoopsCompute
  <1>10. /\ f \in [0..n -> Loop] /\ f[0] = first
         /\ \A i \in 1..n : f[i] = Take(f[i - 1], Order[i], blanks)
    <2>1. f \in [0..n -> Loop] /\ f[0] = first
          /\ \A i \in 1..n : f[i] = step[<<f[i - 1], i>>]
      BY <1>9 DEF Computes
    <2>2. ASSUME NEW i \in 1..n PROVE f[i] = Take(f[i - 1], Order[i], blanks)
      <3>1. i - 1 \in 0..n /\ f[i - 1] \in Loop BY <2>1, <1>2
      <3> QED BY <3>1, <2>1, <1>8
    <2> QED BY <2>1, <2>2
  <1>11. f = loop(f)
    <2>1. \A i \in 0..n : f[i] = IF i = 0 THEN first ELSE Take(f[i - 1], Order[i], blanks)
      BY <1>2, <1>10
    <2> QED BY <2>1, <1>10
  <1>12. taken = loop(taken)
    <2> HIDE DEF loop
    <2> QED BY <1>11
  <1>13. ChoosePassages(blanks) = taken[n].list BY DEF ChoosePassages, n, first
  <1> HIDE DEF taken
  <1>14. /\ taken[0] = first
         /\ \A i \in 1..n : taken[i] = Take(taken[i - 1], Order[i], blanks)
    BY <1>2, <1>12
  <1> HIDE DEF loop
  <1>15. \A i \in 0..n : taken[i] \in Loop /\ Taken(taken[i], i)
    <2> DEFINE T == {i \in 0..n : taken[i] \in Loop /\ Taken(taken[i], i)}
    <2>1. 0 \in T
      <3>1. /\ first.list = <<>> /\ first.used = 0 /\ first.full = FALSE
        BY DEF first
      <3>2. 0 \in 0..ContextMaxChars /\ Len(<<>>) = 0 /\ <<>> \in Seq(Passage)
        BY LimitsAssumption
      <3>3. Taken(first, 0) BY <3>1, <3>2, TotalOfNothing DEF Taken
      <3> QED BY <3>3, <1>2, <1>6, <1>14
    <2>2. ASSUME NEW i \in 1..n, i - 1 \in T PROVE i \in T
      <3>1. taken[i - 1] \in Loop /\ Taken(taken[i - 1], i - 1) BY <2>2
      <3>2. Take(taken[i - 1], Order[i], blanks) \in Loop
        BY <3>1, <1>4, <1>5, TakeIsATurn
      <3>3. i \in Nat \ {0} BY <1>2
      <3>4. Taken(Take(taken[i - 1], Order[i], blanks), i)
        BY <3>1, <3>3, <1>4, <1>5, TakeFits
      <3> QED BY <3>2, <3>4, <1>14
    <2>3. \A i \in 0..n : i \in T
      <3> HIDE DEF T
      <3> QED BY <1>2, <2>1, <2>2, CountingUp
    <2> QED BY <2>3
  <1>16. Taken(taken[n], n) BY <1>2, <1>15
  <1>17. Chosen(taken[n].list)
    <2> DEFINE t == taken[n]
    <2>1. /\ t.list \in Seq(Passage) /\ Len(t.list) <= n /\ Len(t.list) \in Nat
          /\ t.used = Total(t.list) /\ t.used \in 0..ContextMaxChars
          /\ \A j \in 1..Len(t.list) :
                /\ t.list[j].position = Order[j]
                /\ t.list[j].size # SizeAt(Order[j]) =>
                      j = 1 /\ SizeAt(Order[1]) > ContextMaxChars /\ t.list[1].size > 0
          /\ ~t.full => Len(t.list) = n
          /\ t.full => /\ Len(t.list) \in 1..(n - 1)
                       /\ t.used + SizeAt(Order[Len(t.list) + 1]) > ContextMaxChars
      BY <1>16 DEF Taken
    <2> HIDE DEF t
    <2>2. Len(t.list) < TopK /\ Len(t.list) < Len(Order) =>
              Total(t.list) + SizeAt(Order[Len(t.list) + 1]) > ContextMaxChars
      BY <1>2, <2>1
    <2>3. t.list = <<>> => Len(t.list) = 0 OBVIOUS
    <2>4. t.list = <<>> => Len(Order) = 0 BY <1>2, <2>1, <2>3
    <2>5. t.list = <<>> => Relevant = {} BY <1>1, <2>4
    <2>6. Total(t.list) <= ContextMaxChars BY <2>1, LimitsAssumption
    <2>7. Len(t.list) <= TopK /\ Len(t.list) <= Len(Order) BY <1>2, <2>1
    <2>8. Chosen(t.list) BY <2>1, <2>2, <2>5, <2>6, <2>7 DEF Chosen
    <2> QED BY <2>8 DEF t
  <1> QED BY <1>13, <1>17

-----------------------------------------------------------------------------
(* The invariant.                                                          *)

RetrievalTypeOK ==
    /\ useRerank \in BOOLEAN
    /\ similarity \in [Texts -> 0..Floor] /\ length \in [Texts -> Lengths]
    /\ chunkRows \in SUBSET Row /\ ingestions \in Nat
    /\ phase \in {"embed", "vector", "keyword", "fuse", "rerank", "choose",
                  "done", "refused", "failed"}
    /\ HitsOK
    /\ ScoresOK
    /\ passages \in Seq(Passage)
    /\ changed \in BOOLEAN /\ mixed \in BOOLEAN /\ answered \in BOOLEAN

\* The rows found are of one ingestion, if the first search met rows of one and
\* the document was not stored again after it: the second meets what is left of
\* them.
OneIngestion(rows) == \A x, y \in rows : x.ingestion = y.ingestion

FoundTogether ==
    /\ phase \in {"embed", "vector"} => ~changed
    /\ ~changed /\ ~mixed => OneIngestion(Found)
    /\ ~changed /\ ~mixed /\ phase = "keyword" => OneIngestion(Found \cup chunkRows)

\* Each phase fills in its own variables.
PhaseTells ==
    /\ phase \in {"embed", "vector"} => vectorHits = <<>>
    /\ phase \in {"embed", "vector", "keyword"} => keywordHits = <<>>
    /\ phase \in {"embed", "vector", "keyword", "fuse"} => shortlist = <<>>
    /\ phase \in {"embed", "vector", "keyword", "fuse", "rerank"} => scores = NoScores
    /\ phase \in {"rerank", "choose", "done"} => shortlist # <<>>
    /\ scores # NoScores => answered

\* How an answer ends: with the passages chosen, or without any and a reason.
EndTells ==
    /\ phase = "done" => Chosen(passages) /\ passages # <<>>
    /\ phase # "done" => passages = <<>>
    /\ phase = "refused" /\ shortlist = <<>> => \A row \in Found : ~Near(row)
    /\ phase = "refused" /\ shortlist # <<>> => scores # NoScores /\ Relevant = {}

RetrievalIInv ==
    RetrievalTypeOK /\ FoundTogether /\ PhaseTells /\ Shown(shortlist) /\ EndTells

LEMMA NothingInEmpty == ToSet(<<>>) = {}
  <1>1. DOMAIN <<>> = {} OBVIOUS
  <1> QED BY <1>1 DEF ToSet

LEMMA NothingShown == Shown(<<>>)
  <1>1. <<>> \in Seq(Row) /\ DOMAIN <<>> = {} OBVIOUS
  <1> QED BY <1>1 DEF Shown, IsInjective, ToSet

\* What is shown depends on the searches only.
LEMMA ShownStays ==
    ASSUME UNCHANGED <<vectorHits, keywordHits, similarity>>, NEW CONSTANT list, Shown(list)
    PROVE  Shown(list)'
  <1>1. Found' = Found BY DEF Found, ToSet
  <1>2. \A row : RankIn(vectorHits, row)' = RankIn(vectorHits, row)
                 /\ RankIn(keywordHits, row)' = RankIn(keywordHits, row)
    BY DEF RankIn, ToSet
  <1>3. \A x, y : Ahead(x, y)' <=> Ahead(x, y) BY <1>2 DEF Ahead
  <1>4. \A row : Near(row)' <=> Near(row) BY DEF Near
  <1> QED BY <1>1, <1>3, <1>4 DEF Shown

LEMMA RetrievalInitInv == RetrievalInit => RetrievalIInv
  <1> SUFFICES ASSUME RetrievalInit PROVE RetrievalIInv OBVIOUS
  <1> USE DEF RetrievalInit
  <1>1. <<>> \in Seq(Row) /\ <<>> \in Seq(Passage) /\ DOMAIN <<>> = {} OBVIOUS
  <1>3. Found = {} BY NothingInEmpty DEF Found
  <1>4. IsInjective(<<>>) BY <1>1 DEF IsInjective
  <1>5. RetrievalTypeOK BY <1>1, <1>4 DEF RetrievalTypeOK, HitsOK, ScoresOK
  <1>6. FoundTogether BY <1>3 DEF FoundTogether, OneIngestion
  <1>7. PhaseTells BY DEF PhaseTells, NoScores
  <1>8. Shown(shortlist) BY NothingShown
  <1>9. EndTells BY DEF EndTells
  <1> QED BY <1>5, <1>6, <1>7, <1>8, <1>9 DEF RetrievalIInv

LEMMA RetrievalStepInv ==
    ASSUME RetrievalIInv, [RetrievalNext]_retrievalVars
    PROVE  RetrievalIInv'
  <1> USE DEF RetrievalIInv
  <1>1. CASE Ingest
    <2>1. UNCHANGED <<vectorHits, keywordHits, similarity, shortlist, scores, passages,
                      phase, answered, useRerank, length>>
          /\ phase \in {"embed", "vector", "keyword"}
          /\ ingestions' = ingestions + 1 /\ changed' = (phase = "keyword")
          /\ mixed' = mixed
          /\ chunkRows' \subseteq chunkRows \cup [text : Texts, ingestion : {ingestions + 1}]
      BY <1>1 DEF Ingest, inputs
    <2>2. RetrievalTypeOK'
      <3>1. ingestions' \in Nat /\ changed' \in BOOLEAN BY <2>1 DEF RetrievalTypeOK
      <3>2. [text : Texts, ingestion : {ingestions + 1}] \subseteq Row
        BY <2>1, <3>1 DEF Row
      <3>4. chunkRows' \in SUBSET Row BY <2>1, <3>2 DEF RetrievalTypeOK
      <3> QED BY <2>1, <3>1, <3>4 DEF RetrievalTypeOK, HitsOK, ScoresOK
    <2>3. FoundTogether'
      <3>1. /\ phase' \in {"embed", "vector"} => ~changed'
            /\ phase' = "keyword" => changed'
        BY <2>1
      <3>2. ASSUME ~changed' PROVE Found' = {}
        <4>1. vectorHits' = <<>> /\ keywordHits' = <<>> BY <2>1, <3>2 DEF PhaseTells
        <4> QED BY <4>1, NothingInEmpty DEF Found
      <3>3. ~changed' => OneIngestion(Found)' BY <3>2 DEF OneIngestion
      <3> QED BY <3>1, <3>3 DEF FoundTogether
    <2>4. PhaseTells' BY <2>1 DEF PhaseTells
    <2>5. Shown(shortlist)' BY <2>1, ShownStays
    <2>6. EndTells' BY <2>1 DEF EndTells
    <2> QED BY <2>2, <2>3, <2>4, <2>5, <2>6
  <1>2. CASE Delete
    <2>1. UNCHANGED <<vectorHits, keywordHits, similarity, shortlist, scores, passages,
                      phase, answered, useRerank, length, ingestions, changed, mixed>>
          /\ phase \in {"embed", "vector", "keyword"} /\ chunkRows' = {}
      BY <1>2 DEF Delete, inputs
    <2>2. RetrievalTypeOK' BY <2>1 DEF RetrievalTypeOK, HitsOK, ScoresOK
    <2>3. FoundTogether' BY <2>1 DEF FoundTogether, Found, ToSet
    <2>4. PhaseTells' BY <2>1 DEF PhaseTells
    <2>5. Shown(shortlist)' BY <2>1, ShownStays
    <2>6. EndTells' BY <2>1 DEF EndTells
    <2> QED BY <2>2, <2>3, <2>4, <2>5, <2>6
  <1>3. CASE Embed \/ Fail
    <2>1. UNCHANGED <<vectorHits, keywordHits, similarity, shortlist, scores, passages,
                      answered, useRerank, length, ingestions, changed, mixed, chunkRows>>
          /\ phase \in {"embed", "vector", "keyword"}
          /\ \/ phase = "embed" /\ phase' = "vector"
             \/ phase' = "failed"
      BY <1>3 DEF Embed, Fail, inputs
    <2>2. RetrievalTypeOK' BY <2>1 DEF RetrievalTypeOK, HitsOK, ScoresOK
    <2>3. FoundTogether' BY <2>1 DEF FoundTogether, Found, ToSet
    <2>4. PhaseTells' BY <2>1 DEF PhaseTells
    <2>5. Shown(shortlist)' BY <2>1, ShownStays
    <2>6. EndTells' BY <2>1 DEF EndTells
    <2> QED BY <2>2, <2>3, <2>4, <2>5, <2>6
  <1>4. CASE SearchVector \/ SearchKeyword
    <2>1. UNCHANGED <<similarity, shortlist, scores, passages,
                      answered, useRerank, length, ingestions, changed, chunkRows>>
          /\ shortlist = <<>>
          /\ \/ /\ phase = "vector" /\ phase' = "keyword"
                /\ mixed' = \E x, y \in chunkRows : x.ingestion # y.ingestion
                /\ vectorHits' \in Rankings(chunkRows) /\ keywordHits' = keywordHits
             \/ /\ phase = "keyword" /\ phase' = "fuse" /\ vectorHits' = vectorHits
                /\ mixed' = mixed
                /\ \E matching \in SUBSET chunkRows : keywordHits' \in Rankings(matching)
      BY <1>4 DEF SearchVector, SearchKeyword, inputs, PhaseTells
    <2>2. ASSUME NEW rows \in SUBSET chunkRows, NEW r \in Rankings(rows)
          PROVE  r \in Seq(Row) /\ IsInjective(r) /\ ToSet(r) \subseteq chunkRows
      <3>1. PICK n \in 0..CandidateK : r \in [1..n -> rows]
        BY <2>2 DEF Rankings
      <3>2. n \in Nat BY LimitsAssumption
      <3>3. chunkRows \in SUBSET Row BY DEF RetrievalTypeOK
      <3>4. \A i \in 1..n : r[i] \in rows /\ r[i] \in Row /\ r[i] \in chunkRows
        BY <2>2, <3>1, <3>3
      <3>5. DOMAIN r = 1..n BY <3>1
      <3>6. r \in [1..n -> Row] BY <3>1, <3>4
      <3>7. r \in Seq(Row) BY <3>2, <3>6
      <3>8. ToSet(r) \subseteq chunkRows BY <3>4, <3>5 DEF ToSet
      <3>9. IsInjective(r) BY <2>2 DEF Rankings
      <3> QED BY <3>7, <3>8, <3>9
    <2>3. /\ HitsOK'
          /\ Found' \subseteq Found \cup chunkRows
      <3>1. CASE vectorHits' \in Rankings(chunkRows) /\ keywordHits' = keywordHits
        <4>1. /\ vectorHits' \in Seq(Row) /\ IsInjective(vectorHits')
              /\ ToSet(vectorHits') \subseteq chunkRows
          BY <3>1, <2>2
        <4>2. HitsOK' BY <3>1, <4>1 DEF HitsOK, RetrievalTypeOK
        <4>3. ToSet(keywordHits') = ToSet(keywordHits) BY <3>1
        <4> QED BY <4>1, <4>2, <4>3 DEF Found
      <3>2. CASE /\ vectorHits' = vectorHits
                 /\ \E matching \in SUBSET chunkRows : keywordHits' \in Rankings(matching)
        <4>1. /\ keywordHits' \in Seq(Row) /\ IsInjective(keywordHits')
              /\ ToSet(keywordHits') \subseteq chunkRows
          BY <3>2, <2>2
        <4>2. HitsOK' BY <3>2, <4>1 DEF HitsOK, RetrievalTypeOK
        <4>3. ToSet(vectorHits') = ToSet(vectorHits) BY <3>2
        <4> QED BY <4>1, <4>2, <4>3 DEF Found
      <3> QED BY <2>1, <3>1, <3>2
    <2>4. RetrievalTypeOK'
      <3>1. mixed' \in BOOLEAN BY <2>1 DEF RetrievalTypeOK
      <3> QED BY <2>1, <2>3, <3>1 DEF RetrievalTypeOK, ScoresOK
    <2>5. FoundTogether'
      <3>1. CASE phase = "vector" /\ phase' = "keyword"
        <4>1. Found = {} BY <3>1, NothingInEmpty DEF Found, PhaseTells
        <4>2. Found' \cup chunkRows' \subseteq chunkRows BY <4>1, <2>1, <2>3
        <4>3. ~mixed' => OneIngestion(chunkRows) BY <3>1, <2>1 DEF OneIngestion
        <4>4. ~mixed' => OneIngestion(Found') /\ OneIngestion(Found' \cup chunkRows')
          BY <4>2, <4>3 DEF OneIngestion
        <4> QED BY <3>1, <4>4 DEF FoundTogether, OneIngestion
      <3>2. CASE phase = "keyword" /\ phase' = "fuse"
        <4>1. ~changed' /\ ~mixed' => OneIngestion(Found \cup chunkRows)
          BY <3>2, <2>1 DEF FoundTogether
        <4>2. ~changed' /\ ~mixed' => OneIngestion(Found')
          BY <4>1, <2>3 DEF OneIngestion
        <4> QED BY <3>2, <4>2 DEF FoundTogether, OneIngestion
      <3> QED BY <2>1, <3>1, <3>2
    <2>6. PhaseTells' BY <2>1 DEF PhaseTells
    <2>7. Shown(shortlist)'
      <3>1. Shown(<<>>)' BY NothingShown, PTL
      <3> QED BY <2>1, <3>1
    <2>8. EndTells' BY <2>1 DEF EndTells
    <2> QED BY <2>4, <2>5, <2>6, <2>7, <2>8
  <1>5. CASE Fuse
    <2> DEFINE above == AboveFloor(Fused)
               n == IF useRerank /\ RerankShortlist < Len(above)
                    THEN RerankShortlist ELSE Len(above)
    <2>1. UNCHANGED <<vectorHits, keywordHits, similarity, scores, passages,
                      answered, useRerank, length, ingestions, changed, mixed, chunkRows>>
          /\ phase = "fuse" /\ shortlist' = SubSeq(above, 1, n)
          /\ phase' = CASE above = <<>> -> "refused"
                        [] above # <<>> /\ useRerank -> "rerank"
                        [] OTHER -> "choose"
      BY <1>5 DEF Fuse, inputs
    <2>2. /\ Shown(above)
          /\ above = <<>> => \A row \in Found : ~Near(row)
          /\ \A m \in 1..Len(above) :
                Shown(SubSeq(above, 1, m)) /\ Len(SubSeq(above, 1, m)) = m
      <3>1. HitsOK /\ similarity \in [Texts -> Nat] BY DEF RetrievalTypeOK, Floor
      <3> QED BY <3>1, AboveFloorIsShown
    <2> HIDE DEF above
    <2>3. above \in Seq(Row) /\ Len(above) \in Nat BY <2>2 DEF Shown
    <2>4. n \in 0..Len(above) /\ (n = 0 <=> above = <<>>)
      <3>1. Len(above) = 0 <=> above = <<>> BY <2>3
      <3> QED BY <2>3, <3>1, LimitsAssumption
    <2> HIDE DEF n
    <2>5. SubSeq(above, 1, 0) = <<>> BY <2>3
    <2>6. Shown(shortlist') /\ (shortlist' = <<>> <=> above = <<>>)
      <3>1. CASE n = 0 BY <3>1, <2>1, <2>4, <2>5, NothingShown
      <3>2. CASE n # 0
        <4>1. n \in 1..Len(above) BY <3>2, <2>3, <2>4
        <4>2. Shown(shortlist') /\ Len(shortlist') = n BY <4>1, <2>1, <2>2
        <4>3. shortlist' # <<>> BY <4>2, <3>2
        <4> QED BY <4>2, <4>3, <3>2, <2>4
      <3> QED BY <3>1, <3>2
    <2>7. Shown(shortlist)'
      <3> DEFINE s == shortlist'
      <3>1. Shown(s) BY <2>6
      <3>2. Found' = Found BY <2>1 DEF Found
      <3>3. \A row : RankIn(vectorHits, row)' = RankIn(vectorHits, row)
                 /\ RankIn(keywordHits, row)' = RankIn(keywordHits, row)
        BY <2>1 DEF RankIn
      <3>4. \A x, y : Ahead(x, y)' <=> Ahead(x, y) BY <3>3 DEF Ahead
      <3>5. \A row : Near(row)' <=> Near(row) BY <2>1 DEF Near
      <3> QED BY <3>1, <3>2, <3>4, <3>5 DEF Shown
    <2>8. shortlist' \in Seq(Row) BY <2>6 DEF Shown
    <2>9. scores' = NoScores BY <2>1 DEF PhaseTells, NoScores
    <2>10. phase' \in {"refused", "rerank", "choose"} /\ (phase' = "refused" <=> above = <<>>)
      BY <2>1
    <2>11. RetrievalTypeOK' BY <2>1, <2>8, <2>9, <2>10 DEF RetrievalTypeOK, HitsOK, ScoresOK
    <2>12. FoundTogether' BY <2>1 DEF FoundTogether, Found
    <2>13. PhaseTells' BY <2>1, <2>6, <2>9, <2>10 DEF PhaseTells
    <2>14. EndTells'
      <3>1. Found' = Found /\ \A row : Near(row)' <=> Near(row) BY <2>1 DEF Found, Near
      <3> QED BY <3>1, <2>1, <2>2, <2>6, <2>10 DEF EndTells
    <2> QED BY <2>7, <2>11, <2>12, <2>13, <2>14
  <1>6. CASE Rerank \/ RerankFails
    <2>1. UNCHANGED <<vectorHits, keywordHits, similarity, shortlist, passages,
                      useRerank, length, ingestions, changed, mixed, chunkRows>>
          /\ phase = "rerank" /\ phase' = "choose"
      BY <1>6 DEF Rerank, RerankFails, inputs
    <2>2. /\ \/ scores' = NoScores
             \/ scores' \in [DOMAIN shortlist -> 0..3] /\ answered' = TRUE
          /\ answered' \in BOOLEAN
      <3>1. CASE Rerank
        <4>1. PICK items \in ScoreLists : scores' = Scored(items) /\ answered' = TRUE
          BY <3>1 DEF Rerank
        <4>2. PICK k \in 0..MaxItems :
                  items \in [1..k -> [index : 1..Len(shortlist) + 1, score : 1..3]]
          BY <4>1 DEF ScoreLists
        <4>3. \A i \in DOMAIN items : items[i].score \in 1..3 BY <4>2
        <4> DEFINE given(p) == {i \in DOMAIN items : items[i].index = p}
                   last(p) == CHOOSE i \in given(p) : \A j \in given(p) : j <= i
        <4>4. PICK k2 \in Nat : DOMAIN items = 1..k2
          BY <4>2
        <4>5. ASSUME NEW p, given(p) # {} PROVE last(p) \in DOMAIN items
          <5>1. \E i \in given(p) : \A j \in given(p) : j <= i
            <6> DEFINE T == {x \in Nat : \A j \in given(p) : j <= x}
            <6>1. T \in SUBSET Nat /\ k2 \in T BY <4>4
            <6>2. PICK x \in T : \A y \in T : x <= y
              <7> HIDE DEF T
              <7> QED BY <6>1, LeastNumber
            <6>3. x \in given(p)
              <7> SUFFICES ASSUME x \notin given(p) PROVE FALSE OBVIOUS
              <7>1. \A j \in given(p) : j \in Nat /\ 1 <= j /\ j <= x /\ j # x
                BY <4>4, <6>2
              <7>2. x - 1 \in T BY <7>1, <4>5, <6>2
              <7> QED BY <7>2, <6>2
            <6> QED BY <6>2, <6>3
          <5> QED BY <5>1
        <4>6. \A p : given(p) # {} => items[last(p)].score \in 1..3 BY <4>3, <4>5
        <4>7. Scored(items) = [p \in DOMAIN shortlist |->
                                 IF given(p) = {} THEN 0 ELSE items[last(p)].score]
          BY DEF Scored
        <4> HIDE DEF given, last
        <4>8. Scored(items) \in [DOMAIN shortlist -> 0..3] BY <4>6, <4>7
        <4> QED BY <4>1, <4>8
      <3>2. CASE RerankFails BY <3>2 DEF RerankFails, Unscored, RetrievalTypeOK
      <3> QED BY <1>6, <3>1, <3>2
    <2>3. RetrievalTypeOK' BY <2>1, <2>2 DEF RetrievalTypeOK, HitsOK, ScoresOK, NoScores
    <2>4. FoundTogether' BY <2>1 DEF FoundTogether, Found
    <2>5. PhaseTells' BY <2>1, <2>2 DEF PhaseTells, NoScores
    <2>6. Shown(shortlist)' BY <2>1, ShownStays
    <2>7. EndTells' BY <2>1 DEF EndTells
    <2> QED BY <2>3, <2>4, <2>5, <2>6, <2>7
  <1>7. CASE Choose
    <2>1. UNCHANGED <<vectorHits, keywordHits, similarity, shortlist, scores,
                      answered, useRerank, length, ingestions, changed, mixed, chunkRows>>
          /\ phase = "choose" /\ phase' = IF passages' = <<>> THEN "refused" ELSE "done"
      BY <1>7 DEF Choose, inputs
    <2>2. PICK blanks \in 0..MaxBlanks : passages' = ChoosePassages(blanks)
      BY <1>7 DEF Choose
    <2>3. Chosen(passages')
      BY <2>2, ChoosePassagesChooses DEF RetrievalTypeOK
    <2>4. passages' \in Seq(Passage) BY <2>3 DEF Chosen
    <2>5. RetrievalTypeOK' BY <2>1, <2>4 DEF RetrievalTypeOK, HitsOK, ScoresOK
    <2>6. FoundTogether' BY <2>1 DEF FoundTogether, Found
    <2>7. PhaseTells' BY <2>1 DEF PhaseTells
    <2>8. Shown(shortlist)' BY <2>1, ShownStays
    <2>9. EndTells'
      <3>1. Relevant' = Relevant BY <2>1 DEF Relevant, NoScores, MIN_RERANK_SCORE
      <3>2. BestOrder' = BestOrder BY <2>1, <3>1 DEF BestOrder, NoScores
      <3>3. Order' = Order BY <3>1, <3>2 DEF Order, Listing
      <3>4. \A p : SizeAt(p)' = SizeAt(p) BY <2>1 DEF SizeAt
      <3>5. Chosen(passages)' BY <2>3, <3>1, <3>3, <3>4 DEF Chosen
      <3>6. shortlist # <<>> BY <2>1 DEF PhaseTells
      <3>7. passages' = <<>> => Relevant = {} BY <2>3 DEF Chosen
      <3>8. Relevant = {} => scores # NoScores
        <4>1. 1 \in DOMAIN shortlist
          BY <3>6 DEF RetrievalTypeOK, ScoresOK
        <4> QED BY <4>1 DEF Relevant
      <3> QED BY <2>1, <3>1, <3>5, <3>6, <3>7, <3>8 DEF EndTells, NoScores
    <2> QED BY <2>5, <2>6, <2>7, <2>8, <2>9
  <1>8. CASE UNCHANGED retrievalVars
    <2>1. UNCHANGED <<vectorHits, keywordHits, similarity, shortlist, scores, passages,
                      phase, answered, useRerank, length, ingestions, changed, mixed, chunkRows>>
      BY <1>8 DEF retrievalVars, inputs
    <2>2. RetrievalTypeOK' BY <2>1 DEF RetrievalTypeOK, HitsOK, ScoresOK
    <2>3. FoundTogether' BY <2>1 DEF FoundTogether, Found
    <2>4. PhaseTells' BY <2>1 DEF PhaseTells
    <2>5. Shown(shortlist)' BY <2>1, ShownStays
    <2>6. EndTells'
      <3>1. Relevant' = Relevant BY <2>1 DEF Relevant, NoScores, MIN_RERANK_SCORE
      <3>2. BestOrder' = BestOrder BY <2>1, <3>1 DEF BestOrder, NoScores
      <3>3. Order' = Order BY <3>1, <3>2 DEF Order, Listing
      <3>4. \A p : SizeAt(p)' = SizeAt(p) BY <2>1 DEF SizeAt
      <3>5. Chosen(passages)' <=> Chosen(passages) BY <2>1, <3>1, <3>3, <3>4 DEF Chosen
      <3>6. Found' = Found /\ \A row : Near(row)' <=> Near(row) BY <2>1 DEF Found, Near
      <3> QED BY <2>1, <3>1, <3>5, <3>6 DEF EndTells, NoScores
    <2> QED BY <2>2, <2>3, <2>4, <2>5, <2>6
  <1> QED BY <1>1, <1>2, <1>3, <1>4, <1>5, <1>6, <1>7, <1>8 DEF RetrievalNext

\* The passages of a finished answer stand for rows of the shortlist, each
\* for its own.
LEMMA PassagesAreShown ==
    ASSUME RetrievalIInv, phase = "done"
    PROVE  /\ Len(passages) \in Nat /\ DOMAIN passages = 1..Len(passages)
           /\ \A i \in 1..Len(passages) :
                 /\ i \in 1..Len(Order)
                 /\ passages[i].position = Order[i] /\ Order[i] \in Relevant
                 /\ Order[i] \in DOMAIN shortlist /\ RowOf(i) = shortlist[Order[i]]
                 /\ RowOf(i) \in Found /\ RowOf(i) \in Row
           /\ \A i, j \in 1..Len(passages) : RowOf(i) = RowOf(j) => i = j
  <1>1. ScoresOK /\ Chosen(passages) /\ Shown(shortlist)
    BY DEF RetrievalIInv, RetrievalTypeOK, EndTells
  <1>2. /\ Order \in Seq(Nat) /\ DOMAIN Order = 1..Len(Order)
        /\ \A i \in 1..Len(Order) : Order[i] \in Relevant
        /\ IsInjective(Order)
    BY <1>1, OrderIsSorted
  <1>3. /\ passages \in Seq(Passage) /\ Len(passages) <= Len(Order)
        /\ \A j \in 1..Len(passages) : passages[j].position = Order[j]
    BY <1>1 DEF Chosen
  <1>4. Len(passages) \in Nat /\ DOMAIN passages = 1..Len(passages) /\ Len(Order) \in Nat
    BY <1>2, <1>3
  <1>5. ASSUME NEW i \in 1..Len(passages)
        PROVE  /\ i \in 1..Len(Order)
               /\ passages[i].position = Order[i] /\ Order[i] \in Relevant
               /\ Order[i] \in DOMAIN shortlist /\ RowOf(i) = shortlist[Order[i]]
               /\ RowOf(i) \in Found /\ RowOf(i) \in Row
    <2>1. i \in 1..Len(Order) /\ passages[i].position = Order[i] BY <1>3, <1>4
    <2>2. Order[i] \in Relevant BY <2>1, <1>2
    <2>3. Order[i] \in DOMAIN shortlist BY <2>2 DEF Relevant
    <2>4. RowOf(i) = shortlist[Order[i]] BY <2>1 DEF RowOf
    <2>5. RowOf(i) \in ToSet(shortlist) BY <2>3, <2>4 DEF ToSet
    <2>6. RowOf(i) \in Found BY <2>5, <1>1 DEF Shown
    <2>7. RowOf(i) \in Row BY <2>3, <2>4, <1>1 DEF Shown
    <2> QED BY <2>1, <2>2, <2>3, <2>4, <2>6, <2>7
  <1>6. ASSUME NEW i \in 1..Len(passages), NEW j \in 1..Len(passages), RowOf(i) = RowOf(j)
        PROVE  i = j
    <2>1. shortlist[Order[i]] = shortlist[Order[j]] BY <1>5, <1>6
    <2>2. Order[i] = Order[j] BY <2>1, <1>1, <1>5 DEF Shown, IsInjective
    <2> QED BY <2>2, <1>2, <1>5 DEF IsInjective
  <1> QED BY <1>4, <1>5, <1>6

LEMMA InvFits == RetrievalIInv => PassagesFit
  <1> SUFFICES ASSUME RetrievalIInv, phase = "done"
               PROVE  /\ Len(passages) \in 1..TopK
                      /\ Total(passages) <= ContextMaxChars
                      /\ \A i \in 1..Len(passages) : passages[i].size # Size(i) =>
                            i = 1 /\ Size(1) > ContextMaxChars /\ passages[1].size > 0
                      /\ Len(passages) < TopK /\ Len(passages) < Len(Order) =>
                            Total(passages)
                              + length[shortlist[Order[Len(passages) + 1]].text]
                            > ContextMaxChars
    BY DEF PassagesFit
  <1>1. Chosen(passages) /\ passages # <<>> BY DEF RetrievalIInv, EndTells
  <1>2. passages \in Seq(Passage) /\ Len(passages) <= TopK /\ TopK \in Nat
    BY <1>1, LimitsAssumption DEF Chosen
  <1>3. Len(passages) \in 1..TopK
    <2>1. Len(passages) # 0 BY <1>1, <1>2
    <2> QED BY <1>2, <2>1
  <1>4. \A i \in 1..Len(passages) : Size(i) = SizeAt(Order[i])
    BY PassagesAreShown DEF Size, SizeAt
  <1>5. ASSUME NEW i \in 1..Len(passages), passages[i].size # Size(i)
        PROVE  i = 1 /\ Size(1) > ContextMaxChars /\ passages[1].size > 0
    <2>1. i = 1 /\ SizeAt(Order[1]) > ContextMaxChars /\ passages[1].size > 0
      BY <1>1, <1>4, <1>5 DEF Chosen
    <2> QED BY <2>1, <1>4, <1>5
  <1> QED BY <1>1, <1>3, <1>5 DEF Chosen, SizeAt

LEMMA InvBest == RetrievalIInv => BestFirst
  <1> SUFFICES ASSUME RetrievalIInv, phase = "done",
                      NEW i \in DOMAIN passages, NEW row \in Found, Near(row),
                      row \notin {RowOf(j) : j \in 1..i}
               PROVE  /\ Rated(RowOf(i)) >= Rated(row)
                      /\ row \notin ToSet(shortlist) \/ Rated(row) = Rated(RowOf(i)) =>
                            ~Ahead(row, RowOf(i))
    BY DEF BestFirst
  <1> DEFINE p == Order[i]
  <1>1. ScoresOK /\ Shown(shortlist) BY DEF RetrievalIInv, RetrievalTypeOK
  <1>2. /\ i \in 1..Len(passages) /\ i \in 1..Len(Order) /\ Len(passages) \in Nat
        /\ p \in Relevant /\ p \in DOMAIN shortlist /\ RowOf(i) = shortlist[p]
        /\ \A j \in 1..i : j \in 1..Len(passages) /\ j \in 1..Len(Order)
                           /\ Order[j] \in DOMAIN shortlist
                           /\ RowOf(j) = shortlist[Order[j]]
    BY PassagesAreShown
  <1>3. /\ Order \in Seq(Nat) /\ DOMAIN Order = 1..Len(Order)
        /\ \A x \in Relevant : \E j \in 1..Len(Order) : Order[j] = x
        /\ \A j, k \in 1..Len(Order) : j < k => <<Order[j], Order[k]>> \in BestOrder
        /\ \A j \in 1..Len(Order) : Order[j] \in Relevant
    BY <1>1, OrderIsSorted
  <1>4. /\ shortlist \in Seq(Row) /\ IsInjective(shortlist)
        /\ DOMAIN shortlist = 1..Len(shortlist) /\ Len(shortlist) \in Nat
    BY <1>1 DEF Shown
  <1>5. /\ \A q \in DOMAIN shortlist : RankIn(shortlist, shortlist[q]) = q
        /\ \A q \in DOMAIN shortlist : shortlist[q] \in ToSet(shortlist)
    <2>1. \A q \in DOMAIN shortlist : RankIn(shortlist, shortlist[q]) = q
      BY <1>4, RankIsPosition
    <2> QED BY <2>1 DEF ToSet
  <1>6. scores # NoScores =>
            \A q \in DOMAIN shortlist : scores[q] \in 0..3 /\ Rated(shortlist[q]) = scores[q]
    BY <1>1, <1>5 DEF ScoresOK, Rated
  <1>7. scores = NoScores => \A r : Rated(r) = 0 BY DEF Rated
  <1>8. Rated(RowOf(i)) \in Nat
    BY <1>2, <1>6, <1>7
  <1> HIDE DEF p
  \* A row that is not shown is not ahead of one that is.
  <1>9. CASE row \notin ToSet(shortlist)
    <2>1. Rated(row) = 0 BY <1>9 DEF Rated
    <2>2. \A j \in 1..p : shortlist[j] # row
      <3>1. \A j \in 1..p : j \in DOMAIN shortlist BY <1>2, <1>4
      <3> QED BY <3>1, <1>5, <1>9
    <2>3. ~Ahead(row, shortlist[p]) BY <2>2, <1>1, <1>2 DEF Shown
    <2> QED BY <2>1, <2>3, <1>2, <1>8
  <1>10. CASE row \in ToSet(shortlist)
    <2>1. PICK q \in DOMAIN shortlist : shortlist[q] = row BY <1>10 DEF ToSet
    <2>2. q # p /\ \A j \in 1..i : q # Order[j]
      <3>1. \A j \in 1..i : RowOf(j) # row OBVIOUS
      <3>2. \A j \in 1..i : shortlist[Order[j]] # row BY <3>1, <1>2
      <3>3. i \in 1..i BY <1>2
      <3> QED BY <3>2, <3>3, <2>1 DEF p
    <2>3. \A x : x \in BestOrder => x[1] \in Relevant /\ x[2] \in Relevant
      BY DEF BestOrder
    <2>4. q \in Relevant =>
             \/ scores # NoScores /\ scores[p] > scores[q]
             \/ (scores = NoScores \/ scores[p] = scores[q]) /\ p < q
      <3> SUFFICES ASSUME q \in Relevant
                   PROVE  \/ scores # NoScores /\ scores[p] > scores[q]
                          \/ (scores = NoScores \/ scores[p] = scores[q]) /\ p < q
        OBVIOUS
      <3>1. PICK k \in 1..Len(Order) : Order[k] = q BY <1>3
      <3>2. i < k
        <4>1. k \notin 1..i BY <3>1, <2>2
        <4> QED BY <4>1, <1>2, <1>3
      <3>3. <<p, q>> \in BestOrder BY <3>1, <3>2, <1>2, <1>3 DEF p
      <3> QED BY <3>3 DEF BestOrder
    <2>5. p < q => ~Ahead(row, shortlist[p])
      <3> SUFFICES ASSUME p < q PROVE ~Ahead(row, shortlist[p]) OBVIOUS
      <3>1. \A j \in 1..p : j \in DOMAIN shortlist /\ j # q BY <1>2, <1>4, <2>1
      <3>2. \A j \in 1..p : shortlist[j] # row BY <3>1, <2>1, <1>4 DEF IsInjective
      <3> QED BY <3>2, <1>1, <1>2 DEF Shown
    <2>6. CASE scores = NoScores
      <3>1. q \in Relevant BY <2>1, <2>6 DEF Relevant
      <3>2. p < q BY <3>1, <2>4, <2>6
      <3>3. Rated(RowOf(i)) >= Rated(row) BY <2>6, <1>7
      <3> QED BY <3>2, <3>3, <2>5, <1>2
    <2>7. CASE scores # NoScores
      <3>1. /\ Rated(row) = scores[q] /\ Rated(RowOf(i)) = scores[p]
            /\ scores[q] \in 0..3 /\ scores[p] \in 0..3
        BY <1>2, <1>6, <2>1, <2>7
      <3>2. scores[p] >= 2 BY <1>2, <2>7 DEF Relevant, MIN_RERANK_SCORE
      <3>3. CASE q \in Relevant
        <4>1. scores[p] > scores[q] \/ (scores[p] = scores[q] /\ p < q)
          BY <3>3, <2>4, <2>7
        <4>2. scores[p] >= scores[q] BY <4>1, <3>1
        <4>3. scores[p] = scores[q] => p < q BY <4>1, <3>1
        <4> QED BY <3>1, <4>2, <4>3, <2>5, <1>2, <1>10
      <3>4. CASE q \notin Relevant
        <4>1. scores[q] < 2 BY <3>1, <3>4, <2>1, <2>7 DEF Relevant, MIN_RERANK_SCORE
        <4>2. scores[p] > scores[q] BY <3>1, <3>2, <4>1
        <4> QED BY <3>1, <4>2, <1>10
      <3> QED BY <3>3, <3>4
    <2> QED BY <2>6, <2>7
  <1> QED BY <1>9, <1>10

LEMMA InvHonest == RetrievalIInv => HonestRefusal
  <1> SUFFICES ASSUME RetrievalIInv, phase = "refused"
               PROVE  \/ \A row \in Found : ~Near(row)
                      \/ /\ answered
                         /\ \A p \in DOMAIN shortlist : scores[p] < MIN_RERANK_SCORE
    BY DEF HonestRefusal
  <1>1. CASE shortlist = <<>> BY <1>1 DEF RetrievalIInv, EndTells
  <1>2. CASE shortlist # <<>>
    <2>1. scores # NoScores /\ Relevant = {} BY <1>2 DEF RetrievalIInv, EndTells
    <2>2. answered BY <2>1 DEF RetrievalIInv, PhaseTells
    <2>3. \A p \in DOMAIN shortlist : scores[p] \in Int
      <3>1. scores \in [DOMAIN shortlist -> 0..3]
        BY <2>1 DEF RetrievalIInv, RetrievalTypeOK, ScoresOK
      <3> QED BY <3>1
    <2>4. \A p \in DOMAIN shortlist : ~(scores[p] >= MIN_RERANK_SCORE)
      BY <2>1 DEF Relevant
    <2> QED BY <2>2, <2>3, <2>4 DEF MIN_RERANK_SCORE
  <1> QED BY <1>1, <1>2

LEMMA InvNoTwins == RetrievalIInv => NoTwins
  <1> SUFFICES ASSUME RetrievalIInv, ~changed, ~mixed,
                      NEW i \in DOMAIN passages, NEW j \in DOMAIN passages,
                      RowOf(i).text = RowOf(j).text
               PROVE  i = j
    BY DEF NoTwins
  <1>0. phase = "done"
    <2>1. passages # <<>> OBVIOUS
    <2> QED BY <2>1 DEF RetrievalIInv, EndTells
  <1>1. /\ RowOf(i) \in Found /\ RowOf(i) \in Row
        /\ RowOf(j) \in Found /\ RowOf(j) \in Row
        /\ RowOf(i) = RowOf(j) => i = j
    BY <1>0, PassagesAreShown
  <1>2. RowOf(i).ingestion = RowOf(j).ingestion
    BY <1>1 DEF RetrievalIInv, FoundTogether, OneIngestion
  <1>3. RowOf(i) = RowOf(j) BY <1>1, <1>2 DEF Row
  <1> QED BY <1>1, <1>3

\* Every run of retrieve_context keeps the invariant.
THEOREM RetrievalInvariant == RetrievalSpec => []RetrievalIInv
  <1>1. RetrievalInit => RetrievalIInv BY RetrievalInitInv
  <1>2. RetrievalIInv /\ [RetrievalNext]_retrievalVars => RetrievalIInv' BY RetrievalStepInv
  <1> QED BY <1>1, <1>2, PTL DEF RetrievalSpec

\* Whatever the lengths of the texts, however many are found and whatever the
\* caps: choose_passages fills the prompt up to its cap and not beyond it.
THEOREM PassagesAlwaysFit == RetrievalSpec => []PassagesFit
  BY RetrievalInvariant, InvFits, PTL

\* For any rankings of the two searches and any scores of the model, fusion, the
\* floor, the shortlist and the sort keep what is better in front.
THEOREM BestAlwaysFirst == RetrievalSpec => []BestFirst
  BY RetrievalInvariant, InvBest, PTL

\* InsufficientContextError is raised for topics that are not covered, never
\* because the model that scores failed.
THEOREM RefusalsAreHonest == RetrievalSpec => []HonestRefusal
  BY RetrievalInvariant, InvHonest, PTL

\* Both searches may find a row, and the model reads its text once, unless the
\* ingestion gave it two rows: one stored between the searches, or two that
\* overlapped.
THEOREM NeverTwins == RetrievalSpec => []NoTwins
  BY RetrievalInvariant, InvNoTwins, PTL

-----------------------------------------------------------------------------
(* Ingestion.                                                              *)

USE BatchesAssumption, LabelsAssumption

Step(p) == Request(p) \/ Run(p) \/ Interrupted(p) \/ Killed(p)

BatchesOf(S) == {c.batch : c \in S}
Mine(p) ==
    /\ \A c \in mine[p] : c.by = p
    /\ pc[p] = "batch" =>
          /\ IsFiniteSet(mine[p])
          /\ BatchesOf(mine[p]) = 1..Cardinality(mine[p])
          /\ Cardinality(mine[p]) < Batches
    /\ pc[p] = "commit" => BatchesOf(mine[p]) = 1..Batches
    /\ pc[p] \notin {"batch", "commit"} => mine[p] = {}

\* Who has chunks, here or in a snapshot, has committed.
Ended(p) == pc[p] \in {"acking", "done"}
ByEnded == \A c \in chunks : Ended(c.by)
SawEnded == \A p \in Jobs : \A c \in saw[p] : Ended(c.by)
SawWhole ==
    \A p \in Jobs : \A c \in saw[p], e \in chunks : e.by = c.by => e \in saw[p]

\* The file comes before the row.
FileFirst ==
    \A p \in Jobs :
        /\ pc[p] = "idle" <=> kind[p] = "none"
        /\ pc[p] = "stored" => stored \/ \E q \in Jobs : kind[q] = "delete"

IInv ==
    /\ TypeOK
    /\ \A p \in Jobs : Mine(p)
    /\ ByEnded /\ SawEnded /\ SawWhole /\ FileFirst
    /\ ChunksWhole /\ OverlapOnly /\ NothingAfterDeletion /\ FileBehindDocument

LEMMA NextIsStep == Next => \E p \in Jobs : Step(p)
  BY DEF Next, Step

LEMMA InitInv == Init => IInv
  <1> SUFFICES ASSUME Init PROVE IInv
    OBVIOUS
  <1>1. TypeOK BY DEF Init, TypeOK, Stages
  <1>2. \A p \in Jobs : Mine(p) BY DEF Init, Mine
  <1>3. ByEnded /\ SawEnded /\ SawWhole /\ ChunksWhole /\ OverlapOnly /\ NothingAfterDeletion
    BY DEF Init, ByEnded, SawEnded, SawWhole, ChunksWhole, OverlapOnly, NothingAfterDeletion
  <1>4. FileFirst /\ FileBehindDocument
    BY DEF Init, FileFirst, FileBehindDocument, Exists
  <1> QED BY <1>1, <1>2, <1>3, <1>4 DEF IInv

-----------------------------------------------------------------------------
LEMMA RequestType == ASSUME TypeOK, NEW p \in Jobs, Request(p) PROVE TypeOK'
  <1> USE DEF TypeOK, Goto, Become, docVars, runVars, Stages
  <1>1. ASSUME UploadFile(p) PROVE TypeOK'
    BY <1>1 DEF UploadFile
  <1>2. ASSUME UploadRow(p) PROVE TypeOK'
    BY <1>2 DEF UploadRow
  <1>3. ASSUME StartProcessing(p) PROVE TypeOK'
    BY <1>3 DEF StartProcessing
  <1>4. ASSUME RemoveFile(p) PROVE TypeOK'
    BY <1>4 DEF RemoveFile
  <1>5. ASSUME NEW l \in Labels \cup {Keep}, GetIdle(p, l) PROVE TypeOK'
    BY <1>5 DEF GetIdle
  <1>6. ASSUME Delay(p) \/ DelayFails(p) PROVE TypeOK'
    BY <1>6 DEF Delay, DelayFails
  <1>7. ASSUME DeleteRow(p) PROVE TypeOK'
    BY <1>7 DEF DeleteRow
  <1>8. ASSUME RequestFails(p) \/ Script(p) \/ Redeliver(p) PROVE TypeOK'
    BY <1>8 DEF RequestFails, Script, Redeliver
  <1> QED BY <1>1, <1>2, <1>3, <1>4, <1>5, <1>6, <1>7, <1>8 DEF Request

\* The size of a finite set after one more element, in numbers.
LEMMA OneMore ==
    ASSUME NEW S, IsFiniteSet(S), NEW x, x \notin S
    PROVE  /\ IsFiniteSet(S \cup {x})
           /\ Cardinality(S) \in Nat
           /\ Cardinality(S \cup {x}) = Cardinality(S) + 1
  <1>1. Cardinality(S) \in Nat BY FS_CardinalityType
  <1> QED BY <1>1, FS_AddElement

\* The chunk a batch adds.
Added(p) == [by |-> p, batch |-> Cardinality(mine[p]) + 1, label |-> label]

LEMMA AddedType ==
    ASSUME IInv, NEW p \in Jobs, pc[p] = "batch"
    PROVE  /\ Added(p) \in Chunk /\ Added(p) \notin mine[p]
           /\ Added(p).by = p /\ Added(p).batch = Cardinality(mine[p]) + 1
           /\ Cardinality(mine[p]) \in Nat
           /\ Cardinality(mine[p]) + 1 <= Batches
  <1>1. /\ IsFiniteSet(mine[p])
        /\ BatchesOf(mine[p]) = 1..Cardinality(mine[p])
        /\ Cardinality(mine[p]) < Batches
    BY DEF IInv, Mine
  <1>2. Cardinality(mine[p]) \in Nat BY <1>1, FS_CardinalityType
  <1>3. label \in Labels BY DEF IInv, TypeOK
  <1>4. Cardinality(mine[p]) + 1 \in 1..Batches BY <1>1, <1>2
  <1>5. Added(p) \in Chunk BY <1>3, <1>4 DEF Added, Chunk
  <1>6. Added(p).by = p /\ Added(p).batch = Cardinality(mine[p]) + 1
    BY DEF Added
  <1>7. Added(p) \notin mine[p]
    <2>1. SUFFICES ASSUME Added(p) \in mine[p] PROVE FALSE
      OBVIOUS
    <2>2. Added(p).batch \in 1..Cardinality(mine[p])
      BY <1>1, <2>1 DEF BatchesOf
    <2> QED BY <1>2, <1>6, <2>2
  <1> QED BY <1>2, <1>4, <1>5, <1>6, <1>7

LEMMA RunType ==
    ASSUME IInv, NEW p \in Jobs, Run(p) \/ Interrupted(p) \/ Killed(p)
    PROVE  TypeOK'
  <1>0. TypeOK BY DEF IInv
  <1> USE DEF TypeOK, Goto, RunFrame, docVars, runVars, Stages
  <1>1. ASSUME Load(p) PROVE TypeOK'
    BY <1>0, <1>1 DEF Load, Exists
  <1>2. ASSUME ReadPdf(p) PROVE TypeOK'
    BY <1>0, <1>2 DEF ReadPdf
  <1>3. ASSUME DeleteChunks(p) PROVE TypeOK'
    BY <1>0, <1>3 DEF DeleteChunks
  <1>4. ASSUME Batch(p) PROVE TypeOK'
    <2>1. mine' = [mine EXCEPT ![p] = mine[p] \cup {Added(p)}]
      BY <1>4 DEF Batch, Added
    <2>2. Added(p) \in Chunk BY <1>4, AddedType DEF Batch
    <2>3. mine' \in [Jobs -> SUBSET Chunk]
      BY <1>0, <2>1, <2>2
    <2>4. loaded' \in [Jobs -> {"processing", "completed", "failed"}]
      BY <1>0, <1>4 DEF Batch, Exists
    <2>5. pc' = [pc EXCEPT ![p] = pc'[p]] /\ pc'[p] \in {"batch", "commit"}
      BY <1>0, <1>4 DEF Batch
    <2> QED BY <1>0, <1>4, <2>3, <2>4, <2>5 DEF Batch
  <1>5. ASSUME Aborted(p) PROVE TypeOK'
    BY <1>0, <1>5 DEF Aborted
  <1>6. ASSUME Commit(p) PROVE TypeOK'
    BY <1>0, <1>6 DEF Commit, AfterCommit
  <1>7. ASSUME Raise(p) PROVE TypeOK'
    BY <1>0, <1>7 DEF Raise
  <1>8. ASSUME MarkFailed(p) \/ Ack(p) PROVE TypeOK'
    BY <1>0, <1>8 DEF MarkFailed, Ack
  <1>9. ASSUME Interrupted(p) \/ Killed(p) PROVE TypeOK'
    BY <1>0, <1>9 DEF Interrupted, Killed
  <1> QED BY <1>1, <1>2, <1>3, <1>4, <1>5, <1>6, <1>7, <1>8, <1>9 DEF Run

LEMMA StepType == ASSUME IInv, NEW p \in Jobs, Step(p) PROVE TypeOK'
  BY RequestType, RunType DEF Step, IInv

-----------------------------------------------------------------------------
\* What a step of p does to the other jobs, and in outline to the chunks.
LEMMA Frame ==
    ASSUME TypeOK, NEW p \in Jobs, Step(p), NEW q \in Jobs, q # p
    PROVE  /\ pc'[q] = pc[q] /\ mine'[q] = mine[q]
           /\ saw'[q] = saw[q] /\ kind'[q] = kind[q]
  BY DEF TypeOK, Step, Request, UploadFile, UploadRow, GetIdle, StartProcessing,
         Delay, DelayFails, RemoveFile, DeleteRow, RequestFails, Script, Redeliver, Run,
         Load, ReadPdf, DeleteChunks, Batch, Aborted, Commit, Raise, MarkFailed, Ack, Interrupted, AfterCommit,
         Killed, Goto, Become, RunFrame, docVars, runVars

\* A job that has committed only ends.
LEMMA EndedStays ==
    ASSUME TypeOK, NEW p \in Jobs, Step(p), NEW q \in Jobs, Ended(q)
    PROVE  Ended(q)' /\ saw'[q] = saw[q]
  <1>1. CASE q # p BY <1>1, Frame DEF Ended
  <1>2. CASE q = p
    BY <1>2
    DEF TypeOK, Ended, Step, Request, UploadFile, UploadRow, GetIdle, StartProcessing,
        Delay, DelayFails, RemoveFile, DeleteRow, RequestFails, Script, Redeliver, Run,
        Load, ReadPdf, DeleteChunks, Batch, Aborted, Commit, Raise, MarkFailed, Ack,
        Interrupted, Killed, Goto, Become, Running, docVars, runVars
  <1> QED BY <1>1, <1>2

\* Calm steps leave chunks, snapshots and added rows as they are, and the job
\* where Mine asks for nothing more.
Calm(p) ==
    /\ UNCHANGED <<chunks, saw, mine>>
    /\ \/ pc[p] \notin {"batch", "commit"} /\ pc'[p] \notin {"batch", "commit"}
       \/ pc[p] = "clearing" /\ pc'[p] = "batch"

Dropped(p) ==
    /\ UNCHANGED chunks
    /\ saw' = [saw EXCEPT ![p] = saw'[p]] /\ saw'[p] \in {{}, saw[p]}
    /\ mine' = [mine EXCEPT ![p] = {}]
    /\ pc'[p] \notin {"batch", "commit"}

LEMMA Kinds ==
    ASSUME TypeOK, NEW p \in Jobs, Step(p)
    PROVE  Calm(p) \/ Dropped(p) \/ ReadPdf(p) \/ Batch(p) \/ Commit(p) \/ DeleteRow(p)
  <1> USE DEF TypeOK, Goto, Become, RunFrame, docVars, runVars
  <1>1. ASSUME UploadFile(p) \/ UploadRow(p) \/ StartProcessing(p) \/ RemoveFile(p)
        PROVE  Calm(p)
    BY <1>1 DEF Calm, UploadFile, UploadRow, StartProcessing, RemoveFile
  <1>2. ASSUME NEW l, GetIdle(p, l) PROVE Calm(p)
    BY <1>2 DEF Calm, GetIdle
  <1>3. ASSUME Delay(p) \/ DelayFails(p) \/ RequestFails(p) \/ Script(p) \/ Redeliver(p)
        PROVE  Calm(p)
    BY <1>3 DEF Calm, Delay, DelayFails, RequestFails, Script, Redeliver
  <1>4. ASSUME Load(p) \/ DeleteChunks(p) \/ MarkFailed(p) \/ Ack(p) PROVE Calm(p)
    BY <1>4 DEF Calm, Load, DeleteChunks, MarkFailed, Ack
  <1>5. ASSUME Aborted(p) \/ Raise(p) \/ Interrupted(p) \/ Killed(p) PROVE Dropped(p)
    BY <1>5 DEF Dropped, Aborted, Raise, Interrupted, Killed
  <1> QED BY <1>1, <1>2, <1>3, <1>4, <1>5 DEF Step, Request, Run

-----------------------------------------------------------------------------
LEMMA MineStep ==
    ASSUME IInv, NEW p \in Jobs, Step(p), NEW q \in Jobs PROVE Mine(q)'
  <1>1. TypeOK /\ Mine(q) BY DEF IInv
  <1>2. CASE q # p
    BY <1>1, <1>2, Frame DEF Mine, BatchesOf
  <1>3. CASE q = p
    <2>1. CASE Calm(p)
      <3>1. mine'[p] = mine[p] BY <2>1 DEF Calm
      <3>2. CASE pc'[p] \notin {"batch", "commit"}
        BY <1>1, <1>3, <2>1, <3>1, <3>2 DEF Calm, Mine
      <3>3. CASE pc[p] = "clearing" /\ pc'[p] = "batch"
        <4>1. mine'[p] = {} BY <1>1, <1>3, <3>1, <3>3 DEF Mine
        <4>2. IsFiniteSet({}) /\ Cardinality({}) = 0 BY FS_EmptySet
        <4>3. BatchesOf({}) = 1..0 BY DEF BatchesOf
        <4> QED BY <1>3, <3>3, <4>1, <4>2, <4>3 DEF Mine, BatchesOf
      <3> QED BY <2>1, <3>2, <3>3 DEF Calm
    <2>2. CASE Dropped(p)
      BY <1>1, <1>3, <2>2 DEF Dropped, Mine, TypeOK
    <2>3. CASE ReadPdf(p)
      BY <1>1, <1>3, <2>3 DEF ReadPdf, Mine, TypeOK, Goto
    <2>4. CASE Batch(p)
      <3> DEFINE n == Cardinality(mine[p]) + 1
                 T == mine[p] \cup {Added(p)}
      <3>1. /\ pc[p] = "batch"
            /\ mine'[p] = T
            /\ pc'[p] = IF n = Batches THEN "commit" ELSE "batch"
        BY <1>1, <2>4 DEF Batch, Added, TypeOK, Goto
      <3>2. /\ IsFiniteSet(mine[p])
            /\ BatchesOf(mine[p]) = 1..Cardinality(mine[p])
            /\ \A c \in mine[p] : c.by = p
        BY <1>1, <1>3, <3>1 DEF Mine
      <3>3. /\ Added(p) \notin mine[p]
            /\ Added(p).by = p /\ Added(p).batch = n
            /\ Cardinality(mine[p]) \in Nat /\ n <= Batches
        BY <3>1, AddedType
      <3> DEFINE k == Cardinality(mine[p])
      <3>10. k \in Nat /\ n = k + 1 /\ n \in Nat BY <3>3
      <3>4. IsFiniteSet(T) /\ Cardinality(T) = n
        BY <3>2, <3>3, OneMore
      <3>5. BatchesOf(T) = 1..n
        <4>1. BatchesOf(T) = BatchesOf(mine[p]) \cup {n}
          BY <3>3 DEF BatchesOf
        <4>2. BatchesOf(T) = (1..k) \cup {n}
          BY <3>2, <4>1
        <4> HIDE DEF n, T, k
        <4>3. (1..k) \cup {n} = 1..n BY <3>10
        <4> QED BY <4>2, <4>3
      <3>6. \A c \in T : c.by = p BY <3>2, <3>3
      <3> HIDE DEF n, T
      <3>7. pc'[p] = "batch" => n < Batches
        BY <3>1, <3>3, <3>10
      <3>8. BatchesOf(mine[p])' = BatchesOf(T)
        BY <3>1 DEF BatchesOf
      <3>9. pc'[p] \in {"batch", "commit"} /\ (pc'[p] = "commit" => n = Batches)
        BY <3>1
      <3> QED BY <1>3, <3>1, <3>4, <3>5, <3>6, <3>7, <3>8, <3>9 DEF Mine
    <2>5. CASE Commit(p)
      BY <1>1, <1>3, <2>5 DEF Commit, AfterCommit, Mine, TypeOK, Goto
    <2>6. CASE DeleteRow(p)
      BY <1>1, <1>3, <2>6 DEF DeleteRow, Mine, TypeOK, Goto, runVars
    <2> QED BY <1>1, <2>1, <2>2, <2>3, <2>4, <2>5, <2>6, Kinds
  <1> QED BY <1>2, <1>3

\* The chunks after a step: as before, none, or those a commit leaves.
LEMMA ChunksStep ==
    ASSUME TypeOK, NEW p \in Jobs, Step(p)
    PROVE  chunks' = chunks \/ chunks' = {} \/ Commit(p)
  BY Kinds DEF Calm, Dropped, ReadPdf, Batch, DeleteRow

\* The snapshots after a step: one may be dropped or taken anew.
LEMMA SawStep ==
    ASSUME TypeOK, NEW p \in Jobs, Step(p), NEW q \in Jobs
    PROVE  saw'[q] = saw[q] \/ saw'[q] = {} \/ (saw'[q] = chunks /\ chunks' = chunks)
  <1>1. CASE q # p BY <1>1, Frame
  <1>2. CASE q = p
    BY <1>2, Kinds
    DEF Calm, Dropped, ReadPdf, Batch, Commit, DeleteRow, TypeOK, runVars
  <1> QED BY <1>1, <1>2

\* What a commit inserts is its own, and the run has not ended before it.
LEMMA CommitAdds ==
    ASSUME IInv, NEW p \in Jobs, Commit(p)
    PROVE  /\ pc[p] = "commit" /\ Ended(p)'
           /\ chunks' = (chunks \ saw[p]) \cup mine[p]
           /\ \A c \in mine[p] : c.by = p
           /\ BatchesOf(mine[p]) = 1..Batches
           /\ saw' = saw
  BY DEF Commit, AfterCommit, Ended, IInv, Mine, TypeOK, Goto

LEMMA ByJob == ASSUME TypeOK, NEW c \in Chunk PROVE c.by \in Jobs
  BY DEF Chunk

LEMMA EndedStep ==
    ASSUME IInv, NEW p \in Jobs, Step(p) PROVE ByEnded' /\ SawEnded'
  <1>1. TypeOK /\ ByEnded /\ SawEnded BY DEF IInv
  <1>2. chunks \subseteq Chunk /\ \A q \in Jobs : saw[q] \subseteq Chunk
    BY <1>1 DEF TypeOK
  <1>3. \A c \in chunks : Ended(c.by)'
    BY <1>1, <1>2, ByJob, EndedStays DEF ByEnded
  <1>4. ByEnded'
    <2>1. CASE Commit(p)
      BY <1>3, <2>1, CommitAdds DEF ByEnded
    <2> QED BY <1>1, <1>3, <2>1, ChunksStep DEF ByEnded
  <1>5. SawEnded'
    <2> SUFFICES ASSUME NEW q \in Jobs, NEW c \in saw'[q] PROVE Ended(c.by)'
      BY DEF SawEnded
    <2>1. CASE saw'[q] = saw[q]
      BY <1>1, <1>2, <2>1, ByJob, EndedStays DEF SawEnded
    <2>2. CASE saw'[q] = chunks BY <1>3, <2>2
    <2> QED BY <1>1, <2>1, <2>2, SawStep
  <1> QED BY <1>4, <1>5

LEMMA SawWholeStep ==
    ASSUME IInv, NEW p \in Jobs, Step(p) PROVE SawWhole'
  <1>1. TypeOK /\ SawEnded /\ SawWhole BY DEF IInv
  <1> SUFFICES ASSUME NEW q \in Jobs, NEW c \in saw'[q], NEW e \in chunks', e.by = c.by
               PROVE  e \in saw'[q]
    BY DEF SawWhole
  <1>2. CASE saw'[q] = saw[q]
    <2>1. CASE e \in chunks BY <1>1, <1>2, <2>1 DEF SawWhole
    <2>2. CASE e \notin chunks
      <3>1. Commit(p) BY <1>1, <2>2, ChunksStep
      <3>2. e.by = p /\ pc[p] = "commit" BY <2>2, <3>1, CommitAdds
      <3>3. Ended(c.by) BY <1>1, <1>2 DEF SawEnded
      <3> QED BY <3>2, <3>3 DEF Ended
    <2> QED BY <2>1, <2>2
  <1>3. CASE saw'[q] = chunks /\ chunks' = chunks BY <1>3
  <1> QED BY <1>1, <1>2, <1>3, SawStep

-----------------------------------------------------------------------------
\* The chunks of one job.
By(S, q) == {c \in S : c.by = q}

LEMMA WholeStep ==
    ASSUME IInv, NEW p \in Jobs, Step(p) PROVE ChunksWhole'
  <1>1. TypeOK /\ ByEnded /\ SawWhole /\ ChunksWhole BY DEF IInv
  <1> SUFFICES ASSUME NEW q \in Jobs, By(chunks', q) # {}
               PROVE  BatchesOf(By(chunks', q)) = 1..Batches
    BY DEF ChunksWhole, By, BatchesOf
  <1>2. By(chunks, q) # {} => BatchesOf(By(chunks, q)) = 1..Batches
    BY <1>1 DEF ChunksWhole, By, BatchesOf
  <1>3. CASE chunks' = chunks BY <1>2, <1>3
  <1>4. CASE chunks' = {} BY <1>4 DEF By
  <1>5. CASE Commit(p)
    <2>1. /\ pc[p] = "commit"
          /\ chunks' = (chunks \ saw[p]) \cup mine[p]
          /\ \A c \in mine[p] : c.by = p
          /\ BatchesOf(mine[p]) = 1..Batches
      BY <1>5, CommitAdds
    <2>2. CASE q = p
      <3>1. By(chunks, p) = {} BY <1>1, <2>1 DEF By, ByEnded, Ended
      <3>2. By(chunks', p) = mine[p] BY <2>1, <3>1 DEF By
      <3> QED BY <2>1, <2>2, <3>2
    <2>3. CASE q # p
      <3>1. By(chunks', q) = By(chunks, q) \ saw[p] BY <2>1, <2>3 DEF By
      <3>2. By(chunks, q) \cap saw[p] = {} BY <1>1, <3>1 DEF SawWhole, By
      <3>3. By(chunks', q) = By(chunks, q) BY <3>1, <3>2
      <3> QED BY <1>2, <3>3
    <2> QED BY <2>2, <2>3
  <1> QED BY <1>1, <1>3, <1>4, <1>5, ChunksStep

LEMMA OverlapStep ==
    ASSUME IInv, NEW p \in Jobs, Step(p) PROVE OverlapOnly'
  <1>1. TypeOK /\ ByEnded /\ SawEnded /\ OverlapOnly BY DEF IInv
  <1> SUFFICES ASSUME NEW c \in chunks', NEW e \in chunks' PROVE e \notin saw'[c.by]
    BY DEF OverlapOnly
  <1>2. c \in Chunk /\ e \in Chunk
    BY StepType DEF TypeOK
  <1>3. c.by \in Jobs /\ e.by \in Jobs BY <1>1, <1>2, ByJob
  <1>4. CASE Commit(p)
    <2>1. /\ pc[p] = "commit"
          /\ chunks' = (chunks \ saw[p]) \cup mine[p]
          /\ \A d \in mine[p] : d.by = p
          /\ saw' = saw
      BY <1>4, CommitAdds
    <2>2. CASE e \in mine[p]
      <3>1. ~Ended(e.by) BY <2>1, <2>2 DEF Ended
      <3> QED BY <1>1, <1>3, <2>1, <3>1 DEF SawEnded
    <2>3. CASE e \notin mine[p]
      <3>1. e \in chunks /\ e \notin saw[p] BY <2>1, <2>3
      <3>2. CASE c \in mine[p] BY <2>1, <3>1, <3>2
      <3>3. CASE c \in chunks BY <1>1, <2>1, <3>1, <3>3 DEF OverlapOnly
      <3> QED BY <2>1, <3>2, <3>3
    <2> QED BY <2>2, <2>3
  <1>5. CASE chunks' = chunks
    <2>1. Ended(c.by) BY <1>1, <1>5 DEF ByEnded
    <2>2. saw'[c.by] = saw[c.by] BY <1>1, <1>3, <2>1, EndedStays
    <2> QED BY <1>1, <1>5, <2>2 DEF OverlapOnly
  <1> QED BY <1>1, <1>4, <1>5, ChunksStep

LEMMA DeletionStep ==
    ASSUME IInv, NEW p \in Jobs, Step(p) PROVE NothingAfterDeletion'
  <1>1. TypeOK /\ NothingAfterDeletion BY DEF IInv
  <1>2. CASE Commit(p)
    BY <1>2 DEF Commit, Exists, NothingAfterDeletion
  <1>3. CASE chunks' = {} BY <1>3 DEF NothingAfterDeletion
  <1>4. CASE chunks' = chunks /\ ~Commit(p) /\ ~DeleteRow(p)
    <2>1. status' = "gone" => status = "gone"
      BY <1>4
      DEF Step, Request, UploadFile, UploadRow, GetIdle, StartProcessing, Delay,
          DelayFails, RemoveFile, RequestFails, Script, Redeliver, Run, Load, ReadPdf,
          DeleteChunks, Batch, Aborted, Raise, MarkFailed, Ack, Interrupted, AfterCommit, Killed, RunFrame, docVars
    <2> QED BY <1>1, <1>4, <2>1 DEF NothingAfterDeletion
  <1>5. CASE DeleteRow(p) BY <1>5 DEF DeleteRow, NothingAfterDeletion
  <1> QED BY <1>1, <1>2, <1>3, <1>4, <1>5, ChunksStep

LEMMA FileStep ==
    ASSUME IInv, NEW p \in Jobs, Step(p) PROVE FileFirst' /\ FileBehindDocument'
  <1> DEFINE Deletion == \E q \in Jobs : kind[q] = "delete"
  <1>1. TypeOK /\ FileFirst /\ FileBehindDocument BY DEF IInv
  <1>2. Deletion => Deletion'
    <2> SUFFICES ASSUME NEW q \in Jobs, kind[q] = "delete"
                 PROVE  kind'[q] = "delete"
      OBVIOUS
    <2>1. pc[q] # "idle" BY <1>1 DEF FileFirst
    <2>2. CASE q # p BY <1>1, <2>2, Frame
    <2>3. CASE q = p
      BY <1>1, <2>1, <2>3
      DEF Step, Request, UploadFile, UploadRow, GetIdle, StartProcessing, Delay,
          DelayFails, RemoveFile, DeleteRow, RequestFails, Script, Redeliver, Run, Load,
          ReadPdf, DeleteChunks, Batch, Aborted, Commit, Raise, MarkFailed, Ack, Interrupted, AfterCommit,
          Killed, Become, RunFrame, docVars
    <2> QED BY <2>2, <2>3
  <1>3. stored => stored' \/ Deletion'
    <2>1. CASE RemoveFile(p)
      BY <1>1, <2>1 DEF RemoveFile, Become, TypeOK
    <2>2. CASE ~RemoveFile(p)
      BY <2>2
      DEF Step, Request, UploadFile, UploadRow, GetIdle, StartProcessing, Delay,
          DelayFails, DeleteRow, RequestFails, Script, Redeliver, Run, Load,
          ReadPdf, DeleteChunks, Batch, Aborted, Commit, Raise, MarkFailed, Ack, Interrupted, AfterCommit,
          Killed, RunFrame, docVars
    <2> QED BY <2>1, <2>2
  <1>4. pc'[p] = "stored" => stored'
    BY <1>1
    DEF TypeOK, Step, Request, UploadFile, UploadRow, GetIdle, StartProcessing,
        Delay, DelayFails, RemoveFile, DeleteRow, RequestFails, Script, Redeliver, Run, Load,
        ReadPdf, DeleteChunks, Batch, Aborted, Commit, Raise, MarkFailed, Ack, Interrupted, AfterCommit,
        Killed, Goto
  <1>5. pc'[p] # "idle" /\ kind'[p] # "none"
    <2>1. CASE pc[p] = "idle"
      BY <1>1, <2>1
      DEF TypeOK, Step, Request, UploadFile, UploadRow, GetIdle, StartProcessing,
          Delay, DelayFails, RemoveFile, DeleteRow, RequestFails, Script, Redeliver, Run, Load,
          ReadPdf, DeleteChunks, Batch, Aborted, Commit, Raise, MarkFailed, Ack, Interrupted, AfterCommit,
          Killed, Goto, Become, Running
    <2>2. CASE pc[p] # "idle"
      <3>1. kind[p] # "none" BY <1>1, <2>2 DEF FileFirst
      <3> QED
        BY <1>1, <2>2, <3>1
        DEF TypeOK, Step, Request, UploadFile, UploadRow, GetIdle, StartProcessing,
          Delay, DelayFails, RemoveFile, DeleteRow, RequestFails, Script, Redeliver, Run, Load,
          ReadPdf, DeleteChunks, Batch, Aborted, Commit, Raise, MarkFailed, Ack, Interrupted, AfterCommit,
          Killed, Goto, Become, RunFrame, docVars
    <2> QED BY <2>1, <2>2
  <1>6. FileFirst'
    <2> SUFFICES ASSUME NEW q \in Jobs
                 PROVE  /\ pc'[q] = "idle" <=> kind'[q] = "none"
                        /\ pc'[q] = "stored" => stored' \/ Deletion'
      BY DEF FileFirst
    <2>1. CASE q = p BY <1>4, <1>5, <2>1
    <2>2. CASE q # p
      <3>1. pc'[q] = pc[q] /\ kind'[q] = kind[q] BY <1>1, <2>2, Frame
      <3>2. pc[q] = "stored" => stored \/ Deletion BY <1>1 DEF FileFirst
      <3>3. pc[q] = "idle" <=> kind[q] = "none" BY <1>1 DEF FileFirst
      <3> HIDE DEF Deletion
      <3> QED BY <1>2, <1>3, <3>1, <3>2, <3>3
    <2> QED BY <2>1, <2>2
  <1>7. FileBehindDocument'
    <2>1. Exists' => Exists \/ pc[p] = "stored"
      BY DEF Exists, Step, Request, UploadFile, UploadRow, GetIdle, StartProcessing,
        Delay, DelayFails, RemoveFile, DeleteRow, RequestFails, Script, Redeliver, Run, Load,
        ReadPdf, DeleteChunks, Batch, Aborted, Commit, Raise, MarkFailed, Ack, Interrupted, AfterCommit,
        Killed, RunFrame, docVars
    <2>2. Exists \/ pc[p] = "stored" => stored \/ Deletion
      BY <1>1 DEF FileFirst, FileBehindDocument
    <2>3. Exists' => stored' \/ Deletion'
      <3> HIDE DEF Deletion
      <3> QED BY <1>2, <1>3, <2>1, <2>2
    <2>4. stored' \in BOOLEAN BY StepType DEF TypeOK
    <2> QED BY <2>3, <2>4 DEF FileBehindDocument
  <1> QED BY <1>6, <1>7

LEMMA Inductive == ASSUME IInv, [Next]_vars PROVE IInv'
  <1>1. CASE Next
    <2>1. PICK p \in Jobs : Step(p) BY <1>1, NextIsStep
    <2>2. TypeOK' /\ \A q \in Jobs : Mine(q)'
      BY <2>1, StepType, MineStep
    <2>3. ByEnded' /\ SawEnded' /\ SawWhole' BY <2>1, EndedStep, SawWholeStep
    <2>4. ChunksWhole' /\ OverlapOnly' BY <2>1, WholeStep, OverlapStep
    <2>5. NothingAfterDeletion' /\ FileFirst' /\ FileBehindDocument'
      BY <2>1, DeletionStep, FileStep
    <2> QED BY <2>2, <2>3, <2>4, <2>5 DEF IInv
  <1>2. CASE UNCHANGED vars
    BY <1>2
    DEF vars, docVars, runVars, IInv, TypeOK, Mine, BatchesOf, Ended, ByEnded, SawEnded,
        SawWhole, FileFirst, ChunksWhole, OverlapOnly, NothingAfterDeletion,
        FileBehindDocument, Exists
  <1> QED BY <1>1, <1>2

LEMMA Invariance == Spec => []IInv
  BY InitInv, Inductive, PTL DEF Spec

-----------------------------------------------------------------------------
\* Every variable keeps its type; in particular a run never writes a batch the
\* document does not have.
THEOREM TypeCorrect == Spec => []TypeOK
  BY Invariance, PTL DEF IInv

\* Readers see all chunks of a run or none.
THEOREM RunsAreAtomic == Spec => []ChunksWhole
  BY Invariance, PTL DEF IInv

\* A run replaces whatever was committed before its DELETE.
THEOREM RunsReplace == Spec => []OverlapOnly
  BY Invariance, PTL DEF IInv

\* No run brings chunks back after the deletion of the document.
THEOREM DeletionIsFinal == Spec => []NothingAfterDeletion
  BY Invariance, PTL DEF IInv

\* A document has its file unless somebody has asked for its deletion.
THEOREM FileIsThere == Spec => []FileBehindDocument
  BY Invariance, PTL DEF IInv

\* A document that was searchable stays searchable until it is deleted.
THEOREM StaysSearchable == Spec => NeverEmptied
  <1>1. IInv /\ [Next]_vars => [chunks # {} /\ chunks' = {} => status' = "gone"]_vars
    <2> SUFFICES ASSUME IInv, Next, chunks # {}, chunks' = {} PROVE status' = "gone"
      OBVIOUS
    <2>1. PICK p \in Jobs : Step(p) BY NextIsStep
    <2>2. TypeOK BY DEF IInv
    <2>3. ~Commit(p)
      <3> SUFFICES ASSUME Commit(p) PROVE FALSE
        OBVIOUS
      <3>1. BatchesOf(mine[p]) = 1..Batches /\ mine[p] = {} BY CommitAdds
      <3>2. 1 \in 1..Batches OBVIOUS
      <3> QED BY <3>1, <3>2 DEF BatchesOf
    <2>4. DeleteRow(p)
      BY <2>1, <2>2, <2>3, Kinds DEF Calm, Dropped, ReadPdf, Batch
    <2> QED BY <2>4 DEF DeleteRow
  <1> QED BY <1>1, Invariance, PTL DEF Spec, NeverEmptied

=============================================================================
