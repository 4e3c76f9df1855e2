------------------------------ MODULE Ranking ------------------------------
(* How a query turns the chunks two indexes offer into the ranked items of a  *)
(* retrieval run (rag/fusion.py, sparse.py, agentic.py, router.py and the     *)
(* _retrieve_* methods of services/rag_service.py), as pure operators.        *)
(* Chunks are numbers, the ids ties are broken by. Scores are integers in     *)
(* thousandths (the code rounds them to six digits); what an embedding model, *)
(* a full-text index and a reranker think of a chunk are constants.           *)
EXTENDS Integers, Sequences, FiniteSets, SequencesExt

CONSTANTS
    Queries,            \* the normalised texts asked
    Chunks,             \* document_chunk_id of every chunk there ever is
    DocOf,              \* [Chunks -> Docs]: the logical document of a chunk
    DenseScore,         \* [Queries -> [Chunks -> 0..Unit]]: cosine similarity
    SparseRaw,          \* [Queries -> [Chunks -> Nat]]: full-text rank, 0: no match
    RerankScore,        \* [Queries -> [Chunks -> 0..Unit]]
    Affinity,           \* [Queries -> [Chunks -> Nat]]: query words in titles
    Analysis,           \* [Queries -> [intent, keywordHeavy, versionSpecific, ambiguous, candidates]]
    TopK, RerankTopN, CandidateMultiplier, RrfK, DenseWeight, SparseWeight,
    MinCandidates, MinSelected, ScoreThreshold,
    MaxRetrievalCalls, MaxFallbackCalls,
    SparseEnabled, HybridEnabled

Unit == 1000
Unranked == 0           \* rerank_order of an item no reranker saw
NoFallback == "none"

FirstN(s, n) == SubSeq(s, 1, IF n < Len(s) THEN n ELSE Len(s))
Least(m, n) == IF m < n THEN m ELSE n

\* The set of candidates, best score first and smaller chunk id first among equals.
BestFirst(S) ==
    SetToSortSeq(S, LAMBDA a, b : \/ a.score > b.score
                                  \/ a.score = b.score /\ a.chunk < b.chunk)

Scored(S, score) == {[chunk |-> c, score |-> score[c]] : c \in S}

\* The vector index's answer: the nearest of the points whose payload passes
\* the filter. visible is what the payloads say, not what the database says.
DenseSearch(q, visible, limit) == FirstN(BestFirst(Scored(visible, DenseScore[q])), limit)

\* Full-text search in the database, the scores scaled to the best match.
SparseSearch(q, active, limit) ==
    LET matching == {c \in active : SparseRaw[q][c] > 0}
        best == CHOOSE m \in {SparseRaw[q][c] : c \in matching} :
                    \A c \in matching : SparseRaw[q][c] <= m
        scaled == [c \in matching |-> (SparseRaw[q][c] * Unit) \div best]
    IN FirstN(BestFirst(Scored(matching, scaled)), limit)

\* Position of the chunk in the candidates, 0 when it is not there.
RankIn(cands, c) ==
    IF \E i \in DOMAIN cands : cands[i].chunk = c
    THEN CHOOSE i \in DOMAIN cands : cands[i].chunk = c
    ELSE 0

\* Reciprocal rank fusion: each list adds its weight over RrfK plus the rank;
\* scores are scaled to the best, candidates without a positive score dropped.
ReciprocalRank(weight, rank) == IF rank = 0 THEN 0 ELSE (weight * 1000) \div (RrfK + rank)

Fuse(dense, sparse, limit) ==
    LET ids  == {dense[i].chunk : i \in DOMAIN dense} \cup {sparse[i].chunk : i \in DOMAIN sparse}
        raw  == [c \in ids |-> ReciprocalRank(DenseWeight, RankIn(dense, c))
                                 + ReciprocalRank(SparseWeight, RankIn(sparse, c))]
        kept == {c \in ids : raw[c] > 0}
        best == CHOOSE m \in {raw[c] : c \in kept} : \A c \in kept : raw[c] <= m
        place(r) == IF r = 0 THEN Cardinality(Chunks) + 1 ELSE r
        before(a, b) ==
            LET da == place(RankIn(dense, a.chunk))  db == place(RankIn(dense, b.chunk))
                sa == place(RankIn(sparse, a.chunk)) sb == place(RankIn(sparse, b.chunk))
            IN \/ a.score > b.score
               \/ a.score = b.score /\ da < db
               \/ a.score = b.score /\ da = db /\ sa < sb
               \/ a.score = b.score /\ da = db /\ sa = sb /\ a.chunk < b.chunk
    IN FirstN(SetToSortSeq(Scored(kept, [c \in kept |-> (raw[c] * Unit) \div best]), before), limit)

\* final_check_candidates: what the index offered, as far as the database still
\* serves it; the order is kept.
FinalCheck(cands, active) == SelectSeq(cands, LAMBDA k : k.chunk \in active)

\* _order_by_source_affinity: stable, and no change when no title has a query word.
BySourceAffinity(q, cands) ==
    LET place(k) == RankIn(cands, k.chunk)
    IN SetToSortSeq(ToSet(cands), LAMBDA a, b :
           \/ Affinity[q][a.chunk] > Affinity[q][b.chunk]
           \/ Affinity[q][a.chunk] = Affinity[q][b.chunk] /\ place(a) < place(b))

\* A strategy that only a router names executes as dense search.
ExecutionFamily(strategy) ==
    IF strategy \in {"dense", "fallback_dense"} THEN "dense" ELSE strategy

\* How many candidates a search asks its indexes for.
CandidateLimit(strategy) ==
    IF strategy = "hybrid" THEN Least(TopK * CandidateMultiplier, 50) ELSE TopK

\* What the indexes offer, before the database is asked again. active: what the
\* full-text query reads; visible: what the payloads of the vector index say.
Offered(q, strategy, visible, active) ==
    LET limit == CandidateLimit(strategy)
    IN CASE ExecutionFamily(strategy) = "dense"  -> DenseSearch(q, visible, limit)
         [] ExecutionFamily(strategy) = "sparse" -> SparseSearch(q, active, limit)
         [] ExecutionFamily(strategy) = "hybrid" ->
                Fuse(IF DenseWeight > 0 THEN DenseSearch(q, visible, limit) ELSE <<>>,
                     IF SparseWeight > 0 THEN SparseSearch(q, active, limit) ELSE <<>>,
                     limit)

\* The candidates an attempt keeps of what was offered.
Checked(q, strategy, offered, active) ==
    LET kept == FinalCheck(offered, active)
    IN IF strategy = "hybrid" THEN FirstN(BySourceAffinity(q, kept), TopK) ELSE kept

-----------------------------------------------------------------------------
(* The items of a run.                                                        *)

\* The reranker's order of the candidates, as positions 1..n.
RerankOrder(q, cands) ==
    LET sorted == BestFirst(Scored({cands[i].chunk : i \in DOMAIN cands}, RerankScore[q]))
    IN [i \in DOMAIN cands |-> RankIn(sorted, cands[i].chunk)]

PlainItems(cands, selected) ==
    [i \in DOMAIN cands |-> [chunk |-> cands[i].chunk, score |-> cands[i].score,
                             rerank |-> 0, order |-> Unranked, selected |-> i <= selected]]

RerankedItems(q, cands) ==
    LET order == RerankOrder(q, cands)
    IN SortSeq([i \in DOMAIN cands |->
                  [chunk |-> cands[i].chunk, score |-> cands[i].score,
                   rerank |-> RerankScore[q][cands[i].chunk], order |-> order[i],
                   selected |-> order[i] <= RerankTopN]],
               LAMBDA a, b : a.order < b.order)

\* Items of a direct strategy: dense search is reranked, the others keep their order.
DirectItems(q, strategy, cands) ==
    IF ExecutionFamily(strategy) = "dense" THEN RerankedItems(q, cands)
    ELSE PlainItems(cands, RerankTopN)

-----------------------------------------------------------------------------
(* The agentic loop.                                                          *)

\* ContextSufficiencyChecker.check
Sufficient(q, cands) ==
    LET selected == FirstN(cands, RerankTopN)
        comparing == Analysis[q].intent = "comparison"
    IN /\ cands # <<>>
       /\ Len(cands) >= MinCandidates
       /\ Len(selected) >= MinSelected
       /\ \E i \in DOMAIN cands : cands[i].score >= ScoreThreshold
       /\ comparing => /\ Len(selected) >= 2
                       /\ Cardinality({DocOf[selected[i].chunk] : i \in DOMAIN selected}) >= 2

\* merge_dedupe_candidates: the better of two scores of a chunk, best first.
MergeAttempts(attempts) ==
    LET found == UNION {ToSet(attempts[i].cands) : i \in DOMAIN attempts}
        best == {k \in found : \A o \in found : o.chunk = k.chunk => o.score <= k.score}
    IN FirstN(BestFirst(best), TopK)

\* What the sufficiency of the context is judged on.
JudgedCandidates(attempts) ==
    IF Len(attempts) = 1 THEN attempts[1].cands ELSE MergeAttempts(attempts)

RetrievalCalls == IF MaxRetrievalCalls < 1 THEN 1 ELSE Least(MaxRetrievalCalls, 3)
FallbackCalls == Least(MaxFallbackCalls, RetrievalCalls - 1)

AvailableStrategies ==
    {"dense", "fallback_dense"}
      \cup (IF SparseEnabled THEN {"sparse"} ELSE {})
      \cup (IF HybridEnabled /\ (SparseWeight <= 0 \/ SparseEnabled) THEN {"hybrid"} ELSE {})

\* The fallbacks of families no attempt has used (both kinds of fallback are
\* switched on, as in the defaults).
UnusedFallbacks(attempts) ==
    LET initial == attempts[1].strategy
        ladder == IF ExecutionFamily(initial) \in {"dense", "sparse"}
                  THEN <<"hybrid", "fallback_dense">> ELSE <<"fallback_dense">>
        tried == {ExecutionFamily(attempts[i].strategy) : i \in DOMAIN attempts}
    IN SelectSeq(ladder, LAMBDA s : s \in AvailableStrategies /\ ExecutionFamily(s) \notin tried)

\* How the loop may go on: with the first fallback, or as a planning model says,
\* which may also end it.
NextFallbacks(attempts, planned) ==
    LET usable == UnusedFallbacks(attempts)
    IN IF planned THEN ToSet(usable) \cup {NoFallback} ELSE {usable[1]}

\* Another attempt follows: the context is insufficient, the budget of calls is
\* not used up and a fallback is left.
MoreAttempts(q, attempts) ==
    /\ ~Sufficient(q, JudgedCandidates(attempts))
    /\ Len(attempts) < RetrievalCalls
    /\ Len(attempts) - 1 < FallbackCalls
    /\ UnusedFallbacks(attempts) # <<>>

\* _persist_agentic_result with context: the merged candidates are reranked and
\* ordered by title.
MergedItems(q, attempts) ==
    LET reranked == BySourceAffinity(q, RerankedItems(q, BySourceAffinity(q, MergeAttempts(attempts))))
    IN [i \in DOMAIN reranked |-> [reranked[i] EXCEPT !.selected = i <= RerankTopN]]

\* Nothing is selected when the context stayed insufficient.
AgenticItems(q, attempts) ==
    IF Sufficient(q, JudgedCandidates(attempts)) THEN MergedItems(q, attempts)
    ELSE PlainItems(BySourceAffinity(q, MergeAttempts(attempts)), 0)

\* StrategyRouter: the strategy an agentic request starts with; a planning model
\* may choose any that is available.
FirstAvailable(ladder) ==
    LET usable == SelectSeq(ladder, LAMBDA s : s \in AvailableStrategies)
    IN IF usable = <<>> THEN "fallback_dense" ELSE Head(usable)

RuleRouted(q) ==
    LET a == Analysis[q]
    IN FirstAvailable(
         IF a.versionSpecific THEN <<"version_aware", "hybrid", "dense">>
         ELSE IF a.keywordHeavy THEN <<"hybrid", "sparse", "dense">>
         ELSE IF a.intent = "comparison" THEN <<"hybrid", "dense">>
         ELSE IF a.ambiguous THEN <<"hybrid", "fallback_dense">>
         ELSE a.candidates \o <<"dense">>)

Routed(q, planned) == {RuleRouted(q)} \cup (IF planned THEN AvailableStrategies ELSE {})
=============================================================================
