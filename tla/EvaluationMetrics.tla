-------------------------- MODULE EvaluationMetrics --------------------------
(***************************************************************************)
(* What a case of an evaluation measures, as operators:                    *)
(*   backend/app/evaluation/metrics.py                                     *)
(*   backend/app/services/evaluation_service.py      agentic, graph, cache *)
(*   backend/app/rag/graph_citations.py              citable paths         *)
(*                                                                         *)
(* A text is a set of words; a keyword, a slot and an expected answer are  *)
(* words.  Scores are in thousandths, where the code rounds to six digits. *)
(***************************************************************************)
EXTENDS Integers, Sequences, FiniteSets, TLC, Functions, FiniteSetsExt, Listing

CONSTANTS
    Expected,      \* Expected[c]: what case c expects
    ChunkWords,    \* the words of each chunk
    ChunkDocument  \* the document of each chunk

\* A metric without a value.
NotApplicable == -1

AnswerDependent ==
    {"faithfulness", "claim_faithfulness", "answer_completeness", "groundedness",
     "citation_coverage", "citation_presence", "citation_correctness"}
SkipBase ==
    AnswerDependent \cup {"recall_at_k", "mrr", "context_precision", "no_context_rate"}
LowerIsBetter ==
    {"budget_exhausted_rate", "fallback_rate", "no_context_rate", "p95_latency",
     "retrieval_call_count_avg"}

ToolStrategies == {"llm_tool_orchestrator", "langchain_agentic", "langgraph_agentic"}
Agentic == ToolStrategies \cup {"agentic_router"}
Cacheable == {"dense", "sparse", "hybrid", "graph"}

Rounded(n, d) == (2000 * n + d) \div (2 * d)
Share(n, d) == IF d = 0 THEN 0 ELSE IF n > d THEN 1000 ELSE Rounded(n, d)
Flag(b) == IF b THEN 1000 ELSE 0

-----------------------------------------------------------------------------
(* Targets of a run: strategies crossed with cache modes.                  *)

\* _target_from_request_strategy
BaseTarget(strategy) ==
    IF strategy \in {"graph", "graph_postgres", "graph_neo4j"}
    THEN [label |-> IF strategy = "graph" THEN "graph_postgres" ELSE strategy,
          strategy |-> "graph",
          provider |-> IF strategy = "graph_neo4j" THEN "neo4j" ELSE "postgres"]
    ELSE [label |-> strategy, strategy |-> strategy, provider |-> "none"]

ModeOrder == <<"default", "disabled", "cold", "warm">>

\* _target_cache_modes: strategies that are not cached run once.
ModesOf(target, modes) == IF target.strategy \in Cacheable THEN modes ELSE {"default"}

TargetOf(strategy, mode) ==
    LET base == BaseTarget(strategy)
    IN [label |-> <<base.label, mode>>, strategy |-> base.strategy,
        provider |-> base.provider, cache |-> mode]

\* _selected_strategy_targets: each strategy in each of its modes; "graph" is
\* another name of "graph_postgres".
SelectedTargets(strategies, modes) ==
    LET target(k) == TargetOf(strategies[1 + (k \div 4)], ModeOrder[1 + (k % 4)])
        asked(k) == target(k).cache \in ModesOf(target(k), modes)
        seen(k) == \E j \in 0..(k - 1) : asked(j) /\ target(j) = target(k)
        chosen == InOrder({k \in 0..(4 * Len(strategies) - 1) : asked(k) /\ ~seen(k)})
    IN [n \in DOMAIN chosen |-> target(chosen[n])]

-----------------------------------------------------------------------------
(* calculate_metrics.  e is what a case expects, r what the service gave.  *)

Hits(words, keywords) == Cardinality(words \cap keywords)

\* Snippets of the retrieved items, or of the citations if there are none.
EvidenceWords(r) ==
    UNION {ChunkWords[c] : c \in IF r.items # <<>> THEN Range(r.items) ELSE Range(r.cites)}

\* The expected answer counts only in a case without keywords.
AnswerHit(e, words) == IF e.keywords = {} THEN Hits(words, e.answer) ELSE 0

TargetCount(e) ==
    CASE e.chunks # {}    -> Cardinality(e.chunks)
      [] e.chunks = {} /\ e.docs # {} -> Cardinality(e.docs)
      [] OTHER -> IF e.keywords # {} THEN Cardinality(e.keywords) ELSE Cardinality(e.answer)

MatchedTargets(e, r) ==
    CASE e.chunks # {} -> Cardinality(e.chunks \cap Range(r.items))
      [] e.chunks = {} /\ e.docs # {} ->
            Cardinality(e.docs \cap {ChunkDocument[c] : c \in Range(r.items)})
      [] OTHER -> IF e.keywords # {} THEN Hits(EvidenceWords(r), e.keywords)
                  ELSE AnswerHit(e, EvidenceWords(r))

Recall(e, r) ==
    IF TargetCount(e) = 0 THEN NotApplicable ELSE Share(MatchedTargets(e, r), TargetCount(e))

\* Ranks of relevant items; by the answer alone, the first of them all.
RelevantRanks(e, r) ==
    {n \in DOMAIN r.items :
        CASE e.chunks # {} -> r.items[n] \in e.chunks
          [] e.chunks = {} /\ e.docs # {} -> ChunkDocument[r.items[n]] \in e.docs
          [] OTHER -> IF e.keywords # {} THEN ChunkWords[r.items[n]] \cap e.keywords # {}
                      ELSE AnswerHit(e, EvidenceWords(r)) > 0}

ReciprocalRank(e, r) ==
    CASE TargetCount(e) = 0 -> NotApplicable
      [] TargetCount(e) > 0 /\ RelevantRanks(e, r) = {} -> 0
      [] OTHER -> Rounded(1, Min(RelevantRanks(e, r)))

\* A citation is held against the best signal the case has.
GoodCitation(e, r, c) ==
    CASE e.chunks # {} -> c \in e.chunks
      [] e.chunks = {} /\ e.docs # {} -> c \in Range(r.items) /\ ChunkDocument[c] \in e.docs
      [] OTHER -> IF e.keywords # {} THEN ChunkWords[c] \cap e.keywords # {}
                  ELSE e.answer \subseteq ChunkWords[c]

CitationCorrectness(e, r) ==
    IF r.cites = <<>> THEN (IF e.required THEN 0 ELSE NotApplicable)
    ELSE IF TargetCount(e) = 0 \/ (e.chunks = {} /\ e.docs # {} /\ r.items = <<>>)
         THEN NotApplicable
    ELSE Share(Cardinality({n \in DOMAIN r.cites : GoodCitation(e, r, r.cites[n])}), Len(r.cites))

ContextPrecision(e, r) ==
    IF EvidenceWords(r) = {} THEN 0
    ELSE Share(Hits(EvidenceWords(r), e.keywords) + AnswerHit(e, EvidenceWords(r)), r.selected)

\* What was said counts only if something was said.
AnswerMetrics(e, r) ==
    LET said(value) == IF r.words = {} THEN NotApplicable ELSE value
        covered(part) == IF part = {} THEN NotApplicable
                         ELSE said(Share(Hits(r.words, part), Cardinality(part)))
        presence == said(Flag(~e.required \/ r.cites # <<>>))
    IN [faithfulness |-> covered(e.keywords), answer_completeness |-> covered(e.slots),
        citation_coverage |-> presence, citation_presence |-> presence,
        citation_correctness |-> said(CitationCorrectness(e, r)),
        groundedness |->
            said(IF r.confidence # NotApplicable THEN r.confidence ELSE Flag(r.selected > 0))]

\* _replace_metrics: what comes later wins.
Replaced(metrics, replacements) ==
    [m \in DOMAIN metrics \cup DOMAIN replacements |->
        IF m \in DOMAIN replacements THEN replacements[m] ELSE metrics[m]]

CalculatedMetrics(e, r) ==
    Replaced(AnswerMetrics(e, r),
             [recall_at_k |-> Recall(e, r), mrr |-> ReciprocalRank(e, r),
              context_precision |-> ContextPrecision(e, r),
              no_context_rate |-> Flag(r.selected = 0), p95_latency |-> r.latency,
              strategy_selection_accuracy |-> NotApplicable])

\* failure_metrics: nothing was found nor said, and no time was taken.
Nothing ==
    [status |-> "failed", outcome |-> "retrieval_error", words |-> {}, cites |-> <<>>,
     items |-> <<>>, selected |-> 0, confidence |-> NotApplicable, latency |-> NotApplicable,
     tokens |-> NotApplicable, claims |-> NotApplicable, error |-> "internal_error",
     decision |-> <<>>, fallback |-> FALSE, unavailable |-> FALSE, paths |-> {},
     cache |-> "bypass"]
FailureMetrics(e) == CalculatedMetrics(e, Nothing)

-----------------------------------------------------------------------------
(* What the retrieval run adds.                                            *)

\* _agentic_metrics; a decision is empty when the run has none.
AgenticMetrics(e, target, r) ==
    IF target.strategy \notin Agentic THEN <<>>
    ELSE LET of(field) == IF r.decision = <<>> THEN NotApplicable ELSE r.decision[field]
         IN [strategy_selection_accuracy |->
                IF e.strategies = {} \/ r.decision = <<>> THEN NotApplicable
                ELSE Flag(r.decision.selected \in e.strategies),
             fallback_rate |-> Flag(r.fallback),
             budget_exhausted_rate |-> Flag(r.decision # <<>> /\ r.decision.exhausted),
             sufficiency_score_avg |-> of("sufficiency"),
             retrieval_call_count_avg |-> of("calls")]

\* Mutation: what was retrieved still counts, as nothing.
SkipReplacementsOfAnswers(r) ==
    IF r.unavailable THEN [m \in AnswerDependent |-> NotApplicable] ELSE <<>>

\* _provider_skip_base_metric_replacements: the store could not be reached,
\* which says nothing about what it holds.
SkipReplacements(r) ==
    IF r.unavailable THEN [m \in SkipBase |-> NotApplicable] ELSE <<>>

GraphMetricNames ==
    {"graph_path_relevance", "graph_citation_coverage", "multi_hop_answerability",
     "entity_relation_quality_summary"}

\* GraphPathValidator: all sources of the path are items of the run, whether
\* their versions are still active or not; it is citable if one was selected.
ValidPath(r, p) == p.sources # {} /\ p.sources \subseteq Range(r.items)
CitablePath(r, p) == ValidPath(r, p) /\ \E c \in p.sources : \E n \in 1..r.selected : r.items[n] = c
GraphCitationCoverage(r, paths) ==
    IF paths = {} THEN 1000
    ELSE Share(Cardinality({p \in paths : CitablePath(r, p)}), Cardinality(paths))

\* Paths to a selected item.
ShownPaths(r) == {p \in r.paths : \E n \in 1..r.selected : r.items[n] \in p.sources}

GraphMetrics(e, target, r) ==
    IF target.strategy # "graph" \/ r.unavailable
    THEN [m \in GraphMetricNames |-> NotApplicable]
    ELSE LET paths == ShownPaths(r)
             hints == e.entities \cup e.relations
             observed == UNION {p.entities \cup p.relations : p \in paths}
             depth == Max({0} \cup {p.depth : p \in paths})
         IN [graph_path_relevance |->
                IF hints = {} THEN NotApplicable
                ELSE Share(Cardinality(hints \cap observed), Cardinality(hints)),
             graph_citation_coverage |-> GraphCitationCoverage(r, paths),
             multi_hop_answerability |->
                IF e.hops = 0 THEN NotApplicable ELSE Flag(depth >= e.hops /\ r.selected > 0),
             entity_relation_quality_summary |-> 1000 * Cardinality(paths)]

\* _retrieval_trace_metrics
TraceMetrics(target, r) ==
    IF target.strategy \in Agentic THEN <<>>
    ELSE [fallback_rate |-> IF r.unavailable THEN NotApplicable ELSE Flag(r.fallback)]

\* _cache_metrics: a hit is measured against the cold call of the case.
CacheMetrics(target, r, baseline) ==
    IF target.strategy \notin Cacheable
    THEN [cache_hit_rate |-> NotApplicable, cache_saved_latency |-> NotApplicable]
    ELSE [cache_hit_rate |-> Flag(r.cache = "hit"),
          cache_saved_latency |->
            IF r.cache = "hit" /\ baseline # NotApplicable
            THEN Max({0, baseline - r.latency}) ELSE NotApplicable]

\* The claim judge is asked about answers and abstentions only.
ClaimMetric(r) ==
    IF r.outcome \in {"answered", "abstained"} THEN [claim_faithfulness |-> r.claims] ELSE <<>>

\* In the order of _run_case.
Measured(e, target, r, baseline) ==
    LET calculated == Replaced(CalculatedMetrics(e, r), AgenticMetrics(e, target, r))
        answered == Replaced(calculated, SkipReplacements(r))
        searched == Replaced(Replaced(GraphMetrics(e, target, r), TraceMetrics(target, r)),
                             CacheMetrics(target, r, baseline))
    IN Replaced(Replaced(answered, searched), ClaimMetric(r))
=============================================================================
