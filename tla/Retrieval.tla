----------------------------- MODULE Retrieval -----------------------------
(***************************************************************************)
(* retrieve_context: which curriculum passages a lesson plan is written    *)
(* from.  The query is embedded, the chunks of the grade and subject are   *)
(* searched by vector and then by keyword (two statements, between which   *)
(* the document may be ingested again or deleted), both rankings are       *)
(* fused, cut at the similarity floor, scored by a small model if it       *)
(* answers, and the best are taken while they fit the prompt.              *)
(*                                                                         *)
(* A chunk is its text (with a similarity to the query and a length) and   *)
(* the ingestion that stored it, so that the same text has another row     *)
(* after every ingestion.  Only chunks with the labels asked for are       *)
(* modelled.  pgvector's relaxed_order may return near rows out of order,  *)
(* and full-text rank is any order.  Positions count from 1.               *)
(***************************************************************************)
EXTENDS Lists

CONSTANTS
    Texts,              \* texts of the chunks of a document
    Lengths,            \* lengths a text may have
    CandidateK, RerankShortlist, TopK, ContextMaxChars,     \* settings.rag_*
    MaxIngestions,      \* bound: how often the document is stored
    MaxItems,           \* bound: how many scores the model answers
    MaxBlanks           \* bound: blanks at the end of a text that is cut

ASSUME LimitsAssumption ==
    /\ CandidateK \in Nat \ {0} /\ RerankShortlist \in Nat \ {0}
    /\ TopK \in Nat \ {0} /\ Lengths \subseteq Nat \ {0}
    /\ ContextMaxChars \in Nat /\ MaxBlanks \in 0..(ContextMaxChars - 1)

Floor == 1                  \* rag_min_similarity, on a scale of 0, 1
MIN_RERANK_SCORE == 2
RRF_K == 60

VARIABLES
    useRerank,              \* settings.rag_use_rerank
    similarity, length,     \* of every text
    chunkRows, ingestions,  \* the rows of document_chunks
    phase,                  \* "embed", "vector", "keyword", "fuse", "rerank",
                            \* "choose", then "done", "refused" or "failed"
    vectorHits, keywordHits,
    shortlist,              \* rows above the floor, in fused order
    scores,                 \* rerank scores by position, or NoScores
    passages,               \* [position, size]: of the shortlist; length of the text
    changed,                \* history: stored anew between the two searches
    mixed,                  \* history: the first search met rows of two ingestions
    answered                \* history: the model answered the rerank call

inputs == <<useRerank, similarity, length>>
retrievalVars == <<inputs, chunkRows, ingestions, phase, vectorHits, keywordHits,
          shortlist, scores, passages, changed, mixed, answered>>

NoScores == <<>>            \* None; a shortlist is never empty

RetrievalInit ==
    /\ useRerank \in BOOLEAN
    /\ similarity \in [Texts -> 0..Floor]
    /\ length \in [Texts -> Lengths]
    /\ chunkRows = {} /\ ingestions = 0
    /\ phase = "embed"
    /\ vectorHits = <<>> /\ keywordHits = <<>>
    /\ shortlist = <<>> /\ scores = NoScores /\ passages = <<>>
    /\ changed = FALSE /\ mixed = FALSE /\ answered = FALSE

-----------------------------------------------------------------------------
(* The document, which an administrator may store again or delete.         *)

\* An ingestion commits: every text gets a new row.  Its DELETE, minutes ago, took
\* the rows of the ingestions committed before it; those of a run it overlapped
\* stay (see Ingestion).
Ingest ==
    /\ ingestions < MaxIngestions
    /\ phase \in {"embed", "vector", "keyword"}
    /\ \E seen \in 0..ingestions :
          chunkRows' = {row \in chunkRows : row.ingestion > seen}
                         \cup [text : Texts, ingestion : {ingestions + 1}]
    /\ ingestions' = ingestions + 1
    /\ changed' = (phase = "keyword")
    /\ UNCHANGED <<inputs, phase, vectorHits, keywordHits, shortlist,
                   scores, passages, mixed, answered>>

Delete ==
    /\ chunkRows # {}
    /\ phase \in {"embed", "vector", "keyword"}
    /\ chunkRows' = {}
    /\ UNCHANGED <<inputs, ingestions, phase, vectorHits,
                   keywordHits, shortlist, scores, passages, changed, mixed, answered>>

-----------------------------------------------------------------------------
(* The two searches.                                                       *)

\* The embedding of the query.
Embed ==
    /\ phase = "embed"
    /\ phase' = "vector"
    /\ UNCHANGED <<inputs, chunkRows, ingestions, vectorHits,
                   keywordHits, shortlist, scores, passages, changed, mixed, answered>>

\* The embedding call or a statement raises: so does retrieve_context.
Fail ==
    /\ phase \in {"embed", "vector", "keyword"}
    /\ phase' = "failed"
    /\ UNCHANGED <<inputs, chunkRows, ingestions, vectorHits,
                   keywordHits, shortlist, scores, passages, changed, mixed, answered>>

\* The results a ranking of these rows may give with LIMIT CandidateK.
Rankings(rows) ==
    {r \in UNION {[1..n -> rows] : n \in 0..CandidateK} :
        IsInjective(r) /\ (Len(r) = CandidateK \/ ToSet(r) = rows)}

SearchVector ==
    /\ phase = "vector"
    /\ vectorHits' \in Rankings(chunkRows)
    /\ mixed' = \E x, y \in chunkRows : x.ingestion # y.ingestion
    /\ phase' = "keyword"
    /\ UNCHANGED <<inputs, chunkRows, ingestions, keywordHits,
                   shortlist, scores, passages, changed, answered>>

\* Rows that share a word with the topic; none if it has no keyword terms.
SearchKeyword ==
    /\ phase = "keyword"
    /\ \E matching \in SUBSET chunkRows : keywordHits' \in Rankings(matching)
    /\ phase' = "fuse"
    /\ UNCHANGED <<inputs, chunkRows, ingestions, vectorHits,
                   shortlist, scores, passages, changed, mixed, answered>>

-----------------------------------------------------------------------------
(* Fusion and the floor.                                                   *)

RankIn(hits, row) ==
    IF row \in ToSet(hits) THEN CHOOSE i \in DOMAIN hits : hits[i] = row ELSE 0

\* The sum of 1 / (k + rank) over the rankings the row is in, as a fraction.
Score(row) ==
    LET v == RankIn(vectorHits, row)
        k == RankIn(keywordHits, row)
    IN IF v > 0 /\ k > 0 THEN <<(RRF_K + v) + (RRF_K + k), (RRF_K + v) * (RRF_K + k)>>
       ELSE <<1, RRF_K + (IF v > 0 THEN v ELSE k)>>

\* Variant of FirstSeen: the two rankings are joined as they are.
FirstSeen_Joined(v, k) == v \o k

\* The rows of both rankings in the order they are first seen.
FirstSeen(v, k) == v \o Kept(k, {i \in DOMAIN k : k[i] \notin ToSet(v)})

Above(x, y) ==
    LET s == Score(x) t == Score(y) IN s[1] * t[2] > t[1] * s[2]

\* The order of two positions: highest score first, ties as first seen.
FusedOrder(seen) ==
    {e \in (DOMAIN seen) \X (DOMAIN seen) :
        \/ Above(seen[e[1]], seen[e[2]])
        \/ ~Above(seen[e[2]], seen[e[1]]) /\ e[1] < e[2]}

\* reciprocal_rank_fusion.
Fused ==
    LET seen == FirstSeen(vectorHits, keywordHits)
    IN Sorted(seen, FusedOrder(seen))

AboveFloor(rows) ==
    Kept(rows, {i \in DOMAIN rows : similarity[rows[i].text] >= Floor})

\* Nothing found, nothing near enough, or the shortlist.
Fuse ==
    LET above == AboveFloor(Fused)
        n == IF useRerank /\ RerankShortlist < Len(above)
             THEN RerankShortlist ELSE Len(above)
    IN /\ phase = "fuse"
       /\ shortlist' = SubSeq(above, 1, n)
       /\ phase' = CASE above = <<>> -> "refused"
                     [] above # <<>> /\ useRerank -> "rerank"
                     [] OTHER -> "choose"
       /\ UNCHANGED <<inputs, chunkRows, ingestions, vectorHits,
                      keywordHits, scores, passages, changed, mixed, answered>>

-----------------------------------------------------------------------------
(* Reranking.                                                              *)

\* A score is found by position; positions not answered score 0, positions
\* not asked for are ignored, and the last score of a position counts.  (A score
\* of 0 is that of a position not answered, so answers range over 1..3.)
Scored(items) ==
    [p \in DOMAIN shortlist |->
        LET given == {i \in DOMAIN items : items[i].index = p}
        IN IF given = {} THEN 0
           ELSE items[CHOOSE i \in given : \A j \in given : j <= i].score]

ScoreLists == UNION {[1..n -> [index : 1..Len(shortlist) + 1, score : 1..3]] :
                     n \in 0..MaxItems}

Rerank ==
    /\ phase = "rerank"
    /\ \E items \in ScoreLists : scores' = Scored(items)
    /\ answered' = TRUE
    /\ phase' = "choose"
    /\ UNCHANGED <<inputs, chunkRows, ingestions, vectorHits,
                   keywordHits, shortlist, passages, changed, mixed>>

\* Variant of Unscored: a failure scores nothing.
Unscored_Nothing == [p \in DOMAIN shortlist |-> 0]

\* What rerank_candidates returns when it fails.
Unscored == NoScores

\* Any exception of the call (an API error, an answer that is no JSON, a cost
\* row that cannot be written) leaves the fused order.
RerankFails ==
    /\ phase = "rerank"
    /\ scores' = Unscored
    /\ phase' = "choose"
    /\ UNCHANGED <<inputs, chunkRows, ingestions, vectorHits,
                   keywordHits, shortlist, passages, changed, mixed, answered>>

-----------------------------------------------------------------------------
(* The passages.                                                           *)

\* The positions that are relevant; without scores, all of them.
Relevant ==
    {p \in DOMAIN shortlist : scores = NoScores \/ scores[p] >= MIN_RERANK_SCORE}

\* Variant of Order: what is not relevant is left out, the rest not sorted.
Order_Unsorted == Places(Relevant, Len(shortlist))

\* Best first, equals in fused order.
BestOrder ==
    {e \in Relevant \X Relevant :
        \/ scores # NoScores /\ scores[e[1]] > scores[e[2]]
        \/ (scores = NoScores \/ scores[e[1]] = scores[e[2]]) /\ e[1] < e[2]}

\* Positions to take.
Order == Listing(Relevant, BestOrder)

\* Variant of Take: the cap is compared with one text at a time.
Take_OneAtATime(taken, p, blanks) ==
    LET size == length[shortlist[p].text]
        cut == IF size > ContextMaxChars THEN ContextMaxChars - blanks ELSE size
    IN IF taken.full THEN taken
       ELSE [taken EXCEPT !.used = @ + cut,
                          !.list = Append(@, [position |-> p, size |-> cut])]

\* One turn of the loop of choose_passages: a text that does not fit ends it,
\* unless it is the first, which is cut (and loses its last blanks).
Take(taken, p, blanks) ==
    LET size == length[shortlist[p].text]
        remaining == ContextMaxChars - taken.used
        fits == size <= remaining
        cut == IF fits THEN size ELSE remaining - blanks
    IN IF taken.full \/ remaining <= 0 \/ (~fits /\ taken.list # <<>>)
       THEN [taken EXCEPT !.full = TRUE]
       ELSE [taken EXCEPT !.used = @ + cut,
                          !.list = Append(@, [position |-> p, size |-> cut])]

ChoosePassages(blanks) ==
    LET n == IF Len(Order) < TopK THEN Len(Order) ELSE TopK
        taken[i \in 0..n] ==
            IF i = 0 THEN [list |-> <<>>, used |-> 0, full |-> FALSE]
            ELSE Take(taken[i - 1], Order[i], blanks)
    IN taken[n].list

Choose ==
    /\ phase = "choose"
    /\ \E blanks \in 0..MaxBlanks : passages' = ChoosePassages(blanks)
    /\ phase' = IF passages' = <<>> THEN "refused" ELSE "done"
    /\ UNCHANGED <<inputs, chunkRows, ingestions, vectorHits,
                   keywordHits, shortlist, scores, changed, mixed, answered>>

RetrievalNext ==
    \/ Ingest \/ Delete
    \/ Embed \/ Fail \/ SearchVector \/ SearchKeyword \/ Fuse
    \/ Rerank \/ RerankFails \/ Choose

RetrievalSpec == RetrievalInit /\ [][RetrievalNext]_retrievalVars

-----------------------------------------------------------------------------
(* Properties.                                                             *)

RowOf(i) == shortlist[passages[i].position]
Size(i) == length[RowOf(i).text]
Found == ToSet(vectorHits) \cup ToSet(keywordHits)
Near(row) == similarity[row.text] >= Floor

\* The length of the texts together.
Total(list) ==
    LET sum[i \in 0..Len(list)] == IF i = 0 THEN 0 ELSE sum[i - 1] + list[i].size
    IN sum[Len(list)]

\* The prompt stays within its cap whatever the lengths: texts are whole, but
\* for a first one that is longer than the cap by itself; and passages are
\* left out only when there are TopK or the next one really does not fit.
PassagesFit ==
    phase = "done" =>
        LET used == Total(passages)
            n == Len(passages)
        IN /\ n \in 1..TopK
           /\ used <= ContextMaxChars
           /\ \A i \in 1..n : passages[i].size # Size(i) =>
                 i = 1 /\ Size(1) > ContextMaxChars /\ passages[1].size > 0
           /\ n < TopK /\ n < Len(Order) =>
                 used + length[shortlist[Order[n + 1]].text] > ContextMaxChars

\* Ahead in one search and not behind in the other.
Ahead(x, y) ==
    LET noWorse(hits) == RankIn(hits, y) = 0 \/ RankIn(hits, x) \in 1..RankIn(hits, y)
    IN x # y /\ noWorse(vectorHits) /\ noWorse(keywordHits)

\* The score a row was given; without scores, and outside the shortlist, rows
\* are told apart by the searches alone.
Rated(row) ==
    IF scores # NoScores /\ row \in ToSet(shortlist)
    THEN scores[RankIn(shortlist, row)] ELSE 0

\* No passage stands before, or instead of, a row that is better: scored
\* higher, or scored alike and ahead in both searches.  A row beyond the
\* shortlist is never ahead of the rows in it.
BestFirst ==
    phase = "done" =>
        \A i \in DOMAIN passages : \A row \in Found :
            /\ Near(row)
            /\ row \notin {RowOf(j) : j \in 1..i}
            => /\ Rated(RowOf(i)) >= Rated(row)
               /\ row \notin ToSet(shortlist) \/ Rated(row) = Rated(RowOf(i)) =>
                     ~Ahead(row, RowOf(i))

\* A teacher is told that the documents do not cover the topic only if nothing
\* that either search found is near, or the model scored all it was shown
\* below "partial"; a model that fails refuses nobody.
HonestRefusal ==
    phase = "refused" =>
        \/ \A row \in Found : ~Near(row)
        \/ /\ answered
           /\ \A p \in DOMAIN shortlist : scores[p] < MIN_RERANK_SCORE

\* The model is not given a text of a document twice, although both searches may
\* find it: unless the document was stored again between the two searches, or two
\* ingestions of it overlapped and left the rows of both.
NoTwins ==
    ~changed /\ ~mixed =>
        \A i, j \in DOMAIN passages : RowOf(i).text = RowOf(j).text => i = j

=============================================================================
