--------------------------- MODULE EvaluationReport ---------------------------
(***************************************************************************)
(* What is read from the stored items of two evaluation runs:              *)
(*   backend/app/services/evaluation_service.py   summaries, comparisons   *)
(*   backend/app/repositories/evaluation_repository.py                     *)
(*                                                                         *)
(* The runs store one item after the other; EvaluationRun models how. Here *)
(* an item is the row with its metrics, and reading is a function of rows. *)
(***************************************************************************)
EXTENDS EvaluationMetrics

CONSTANTS
    Studies,   \* pairs of runs: of each side its cases, strategies, modes, metrics
    Results,   \* Results[s]: what the service may give under strategy s
    Identity,  \* Identity[c]: how case c is known in a comparison
    HighLatency \* evaluation_failure_high_latency_ms

ASSUME LatencyAssumption == HighLatency \in Nat \ {0}

\* What a case expects is finite.
ASSUME ExpectedAssumption ==
    \A c \in DOMAIN Expected :
        LET e == Expected[c]
        IN /\ IsFiniteSet(e.chunks) /\ IsFiniteSet(e.docs) /\ IsFiniteSet(e.keywords)
           /\ IsFiniteSet(e.answer) /\ IsFiniteSet(e.slots)
           /\ IsFiniteSet(e.entities) /\ IsFiniteSet(e.relations)

\* So is what the service gives; and only a search of a graph can find that the
\* store it asks is out of reach (graph_rag_service).
ASSUME ResultsAssumption ==
    \A s \in DOMAIN Results : \A r \in Results[s] :
        /\ r.unavailable => s = "graph"
        /\ r.selected \in Nat
        /\ {r.confidence, r.latency, r.tokens, r.claims} \subseteq Int
        /\ r.decision # <<>> => {r.decision.sufficiency, r.decision.calls} \subseteq Int
        /\ r.cites \in Seq(DOMAIN ChunkWords) /\ r.items \in Seq(DOMAIN ChunkWords)
        /\ IsFiniteSet(r.paths)

VARIABLES
    study,     \* the pair an instance looks at
    stored     \* stored[side]: evaluation_run_items with their results

reportVars == <<study, stored>>

Sides == {"base", "candidate"}
NoStudy == <<>>

\* Runs are of cases there are, under strategies the service knows.
ASSUME StudiesAssumption ==
    \A s \in Studies : \A side \in Sides :
        /\ s[side].cases \in Seq(DOMAIN Expected)
        /\ s[side].strategies \in Seq(STRING)
        /\ \A n \in DOMAIN s[side].strategies :
              BaseTarget(s[side].strategies[n]).strategy \in DOMAIN Results

-----------------------------------------------------------------------------
(* The items of a run.                                                     *)

Targets(side) == SelectedTargets(study[side].strategies, study[side].modes)
Planned(side) == Len(study[side].cases) * Len(Targets(side))
Ahead(side) == Len(stored[side])
CaseAhead(side) == study[side].cases[1 + (Ahead(side) \div Len(Targets(side)))]
TargetAhead(side) == Targets(side)[1 + (Ahead(side) % Len(Targets(side)))]

\* Latency of the cold call of the case under that strategy, if it was made.
Baseline(side) ==
    LET target == TargetAhead(side)
        cold == {n \in DOMAIN stored[side] :
                    /\ stored[side][n].case = CaseAhead(side)
                    /\ stored[side][n].label = <<target.label[1], "cold">>
                    /\ stored[side][n].took # NotApplicable}
    IN IF cold = {} THEN NotApplicable ELSE stored[side][Min(cold)].took

\* A row as _store_case_result leaves it, with the metrics the run asked for.
\* Only its summary names the target.
ItemRow(side, status, r, metrics) ==
    [case |-> CaseAhead(side), label |-> TargetAhead(side).label,
     target |-> TargetAhead(side), status |-> status, outcome |-> r.outcome,
     said |-> r.outcome = "answered", tokens |-> IF status = "succeeded" THEN r.tokens
                                                 ELSE NotApplicable,
     took |-> r.latency, error |-> IF status = "failed" THEN r.error ELSE "none",
     skipped |-> r.unavailable,
     metrics |-> [m \in DOMAIN metrics \cap study[side].metrics |-> metrics[m]]]

Store(side, row) == stored' = [stored EXCEPT ![side] = Append(@, row)] /\ UNCHANGED study

\* Nothing follows an item that an attempt left running.
Going(side) ==
    /\ study # NoStudy
    /\ Ahead(side) < Planned(side)
    /\ \A n \in DOMAIN stored[side] : stored[side][n].status # "running"

Evaluate(side) ==
    /\ Going(side)
    /\ \E r \in Results[TargetAhead(side).strategy] :
          LET e == Expected[CaseAhead(side)]
              status == IF r.status = "succeeded" \/ r.unavailable THEN "succeeded" ELSE "failed"
          IN Store(side, ItemRow(side, status, r,
                            Measured(e, TargetAhead(side), r, Baseline(side))))

\* _store_case_failure
EvaluateRaises(side) ==
    /\ Going(side)
    /\ Store(side, ItemRow(side, "failed", Nothing, FailureMetrics(Expected[CaseAhead(side)])))

\* The row of create_item: no results, and only the strategy to label it by.
LeaveRunning(side) ==
    /\ Going(side)
    /\ Store(side, [ItemRow(side, "running", Nothing, <<>>) EXCEPT
                       !.label = <<TargetAhead(side).strategy, "default">>,
                       !.outcome = "none", !.error = "none"])

-----------------------------------------------------------------------------
(* One run: averages over all items, and per target.  Items keep their     *)
(* places when only some of them are looked at.                            *)

\* A stored metric counts if it has a value and the item answered what the
\* metric is about.
Counts(item, m) ==
    /\ m \in DOMAIN item.metrics
    /\ item.metrics[m] # NotApplicable
    /\ m \in AnswerDependent => item.said

\* Python's round halves to even.
HalfEven(n, d) ==
    LET q == n \div d
        r == n % d
    IN IF 2 * r > d \/ (2 * r = d /\ q % 2 = 1) THEN q + 1 ELSE q

\* _percentile: the sorted value at 95 % of the last index, which is the least one
\* that so many values do not exceed.
P95(values) ==
    LET rank == 1 + HalfEven((Cardinality(DOMAIN values) - 1) * 95, 100)
    IN Min({v \in Range(values) : Cardinality({n \in DOMAIN values : values[n] <= v}) >= rank})
Mean(values) == HalfEven(SumFunction(values), Cardinality(DOMAIN values))

Aggregate(m, values) == IF m = "p95_latency" THEN P95(values) ELSE Mean(values)
ValuesOf(items, m) == [n \in {k \in DOMAIN items : Counts(items[k], m)} |-> items[n].metrics[m]]

\* _metric_summary: failed items count with what was measured of them.
MetricSummary(items) ==
    LET names == {m \in UNION {DOMAIN items[n].metrics : n \in DOMAIN items} :
                     \E n \in DOMAIN items : Counts(items[n], m)}
    IN [m \in names |-> Aggregate(m, ValuesOf(items, m))]

Number(items, Is(_)) == Cardinality({n \in DOMAIN items : Is(items[n])})
Labelled(items, label) == RestrictValues(items, LAMBDA i : i.label = label)
LabelsOf(items) == {items[n].label : n \in DOMAIN items}

\* _strategy_comparison: failed items are only counted.
StrategyComparison(items, label) ==
    LET good == RestrictValues(items, LAMBDA i : i.label = label /\ i.status # "failed")
        names == UNION {DOMAIN good[n].metrics : n \in DOMAIN good}
        count(m) == Number(good, LAMBDA i : Counts(i, m))
    IN [m \in names |->
          [average |-> IF count(m) = 0 THEN NotApplicable ELSE Mean(ValuesOf(good, m)),
           p95 |-> IF count(m) = 0 THEN NotApplicable ELSE P95(ValuesOf(good, m)),
           count |-> count(m),
           notApplicable |-> Number(good, LAMBDA i : m \in DOMAIN i.metrics /\ ~Counts(i, m))]]

FailedCount(items, label) == Number(items, LAMBDA i : i.label = label /\ i.status = "failed")

\* Mutation: items without a value of any metric are no cases of the target.
StrategyEntryOfValues(items, label) ==
    LET compared == StrategyComparison(items, label)
        succeeded == Max({0} \cup {compared[m].count : m \in DOMAIN compared})
    IN [succeeded |-> succeeded, failed |-> FailedCount(items, label),
        cases |-> succeeded + FailedCount(items, label), metrics |-> <<>>]

\* An entry of _strategy_metrics_summary_json: its counts are the largest any
\* metric of the target shows.
StrategyEntry(items, label) ==
    LET compared == StrategyComparison(items, label)
        succeeded == Max({0} \cup {compared[m].count + compared[m].notApplicable :
                                      m \in DOMAIN compared})
        valued == {m \in DOMAIN compared : compared[m].count > 0}
    IN [succeeded |-> succeeded, failed |-> FailedCount(items, label),
        cases |-> succeeded + FailedCount(items, label),
        metrics |-> [m \in valued |-> IF m = "p95_latency" THEN compared[m].p95
                                      ELSE compared[m].average]]

\* A target has an entry once one of its items has a result or failed.
Observed(items) ==
    {label \in LabelsOf(items) :
        DOMAIN StrategyComparison(items, label) # {} \/ FailedCount(items, label) > 0}

\* _finalize_rollup_metric_summary: every label weighs the same.
AverageOfSummaries(summaries) ==
    LET names == UNION {DOMAIN summaries[l] : l \in DOMAIN summaries}
        having(m) == {l \in DOMAIN summaries : m \in DOMAIN summaries[l]}
    IN [m \in names |-> Mean([l \in having(m) |-> summaries[l][m]])]

RollUp(items, labels) ==
    LET entries == [l \in labels |-> StrategyEntry(items, l)]
        total(field) == SumFunction([l \in labels |-> entries[l][field]])
    IN [cases |-> total("cases"), succeeded |-> total("succeeded"), failed |-> total("failed"),
        metrics |-> AverageOfSummaries([l \in labels |-> entries[l].metrics])]

\* The target of the first item of that label.
TargetLabelled(items, label) == items[Min(DOMAIN Labelled(items, label))].target

\* The labels rolled up by a field of their targets, where it is one of the shown.
RolledUpBy(items, field, shown) ==
    LET observed == Observed(items)
        of == [l \in observed |-> TargetLabelled(items, l)[field]]
    IN [v \in Range(of) \cap shown |-> RollUp(items, {l \in observed : of[l] = v})]

ProviderComparison(items) == RolledUpBy(items, "provider", {"postgres", "neo4j"})
\* Targets in the default mode are not compared.
CacheComparison(items) == RolledUpBy(items, "cache", Range(ModeOrder) \ {"default"})

\* _generation_summary: tokens of all items that succeeded.
TotalTokens(items) ==
    LET known == {n \in DOMAIN items :
                     items[n].status = "succeeded" /\ items[n].tokens # NotApplicable}
    IN IF known = {} THEN NotApplicable ELSE SumFunction([n \in known |-> items[n].tokens])

\* _summary_from_loaded: a run that still executes counts its planned items.
RunSummary(side) ==
    LET items == stored[side]
    IN [cases |-> Max({Len(items), Planned(side)}),
        succeeded |-> Number(items, LAMBDA i : i.status = "succeeded"),
        failed |-> Number(items, LAMBDA i : i.status = "failed"),
        answered |-> Number(items, LAMBDA i : i.outcome = "answered"),
        abstained |-> Number(items, LAMBDA i : i.outcome = "abstained"),
        lost |-> Number(items, LAMBDA i : i.outcome \in {"no_context", "citation_error",
                                                         "generation_error", "retrieval_error"}),
        metrics |-> MetricSummary(items), tokens |-> TotalTokens(items)]

-----------------------------------------------------------------------------
(* Failures worth a new case.                                              *)

\* Rows of a store that could not be reached are recognised by the reason
\* codes of their metrics, if the run asked for one that carries them; what the
\* judge said of an answer found without the graph does not.
SkipItem(item) ==
    /\ item.target.strategy = "graph" /\ item.skipped
    /\ DOMAIN item.metrics
          \cap ((SkipBase \cup GraphMetricNames \cup {"fallback_rate"})
                 \ (IF item.said THEN {"claim_faithfulness"} ELSE AnswerDependent)) # {}

\* The latency of the item, or what its metric says of it.
LatencyOf(item) ==
    IF item.took > 0 THEN item.took
    ELSE IF Counts(item, "p95_latency") THEN item.metrics["p95_latency"] ELSE NotApplicable

\* _failure_reasons, thresholds at one half; graph metrics must be perfect.
FailureReasons(item) ==
    LET below(m, bound) == Counts(item, m) /\ item.metrics[m] < bound
        is(m, value) == Counts(item, m) /\ item.metrics[m] = value
        low == {"recall_at_k", "mrr", "citation_coverage", "groundedness", "faithfulness"}
        perfect == {"graph_path_relevance", "graph_citation_coverage", "multi_hop_answerability"}
    IN {m \in low : below(m, 500)} \cup {m \in perfect : below(m, 1000)}
       \cup {x \in {"no_context"} : item.error = "no_context_found" \/ is("no_context_rate", 1000)}
       \cup {x \in {"strategy_selection"} : is("strategy_selection_accuracy", 0)}
       \cup {x \in {"budget_exhausted"} : is("budget_exhausted_rate", 1000)}
       \cup {x \in {"high_latency"} : LatencyOf(item) > HighLatency}
       \cup {x \in {"retrieval_exception"} :
               item.error \in {"retrieval_failed", "rerank_failed", "internal_error"}}
       \cup {x \in {"generation_exception"} : item.error = "generation_failed"}
       \cup {x \in {"citation_build_failed"} : item.error = "citation_build_failed"}
       \cup {x \in {"fallback_failed"} :
               item.status = "failed" /\ is("fallback_rate", 1000) /\ item.error # "none"}

FailureCandidates(items) ==
    UNION {{<<n, reason>> : reason \in FailureReasons(items[n])} :
              n \in {k \in DOMAIN items : ~SkipItem(items[k])}}

-----------------------------------------------------------------------------
(* Two runs.                                                               *)

\* _metric_comparison_direction
Direction(delta, lowerIsBetter) ==
    CASE delta = 0 -> "unchanged"
      [] delta > 0 -> IF lowerIsBetter THEN "regressed" ELSE "improved"
      [] OTHER     -> IF lowerIsBetter THEN "improved" ELSE "regressed"

\* Deltas exist only where both sides have a value.
Compared(a, b, lowerIsBetter) ==
    IF a = NotApplicable \/ b = NotApplicable THEN [direction |-> "not_applicable", delta |-> 0]
    ELSE [direction |-> Direction(b - a, lowerIsBetter), delta |-> b - a]

CompareMetrics(base, candidate) ==
    LET of(items) == MetricSummary(items)
        value(items, m) == IF m \in DOMAIN of(items) THEN of(items)[m] ELSE NotApplicable
    IN [m \in DOMAIN of(base) \cup DOMAIN of(candidate) |->
          Compared(value(base, m), value(candidate, m), m \in LowerIsBetter)]

\* _successful_generation_item_keys: the items of tool strategies that succeeded,
\* unless one of them has no tokens.
GenerationKeys(items) ==
    LET own == {n \in DOMAIN items :
                   items[n].status = "succeeded" /\ items[n].target.strategy \in ToolStrategies}
    IN IF \E n \in own : items[n].tokens = NotApplicable THEN {}
       ELSE {<<Identity[items[n].case], items[n].case, items[n].target.strategy>> : n \in own}

CompareTokens(base, candidate) ==
    IF GenerationKeys(base) # {} /\ GenerationKeys(base) = GenerationKeys(candidate)
    THEN Compared(TotalTokens(base), TotalTokens(candidate), TRUE)
    ELSE Compared(NotApplicable, NotApplicable, TRUE)

\* A case is known by its identity, which two cases may share.
Known(item) == Identity[item.case]
Duplicated(items) ==
    {Known(items[n]) : n \in {k \in DOMAIN items :
        \E l \in DOMAIN items : l # k /\ Known(items[l]) = Known(items[k])}}

\* Mutation: a run looks only at its own duplicates.
KeysOfOwn(side, items, duplicated) ==
    LET plain(n) == IF Known(items[n]) \in Duplicated(items)
                    THEN <<Known(items[n]), items[n].label>> ELSE <<Known(items[n])>>
        taken(n) == \E k \in 1..(n - 1) : plain(k) = plain(n)
    IN [n \in DOMAIN items |-> IF taken(n) THEN plain(n) \o <<side, n>> ELSE plain(n)]

\* _case_sources_by_match_key: the label tells items of one identity apart, and
\* where it does not, the id of the item.
MatchKeys(side, items, duplicated) ==
    LET plain(n) == IF Known(items[n]) \in duplicated
                    THEN <<Known(items[n]), items[n].label>> ELSE <<Known(items[n])>>
        taken(n) == \E k \in 1..(n - 1) : plain(k) = plain(n)
    IN [n \in DOMAIN items |-> IF taken(n) THEN plain(n) \o <<side, n>> ELSE plain(n)]

\* Mutation: only an item that failed, not one left running, is a regression.
TransitionOfFailures(base, candidate, b, c) ==
    CASE b = 0 -> "added"
      [] c = 0 -> "removed"
      [] OTHER ->
            CASE base[b].status = "succeeded" /\ candidate[c].status = "failed" -> "regressed"
              [] base[b].status # "succeeded" /\ candidate[c].status = "succeeded" -> "improved"
              [] OTHER -> "unchanged"

\* _case_transition; 0 stands for no item.
Transition(base, candidate, b, c) ==
    CASE b = 0 -> "added"
      [] c = 0 -> "removed"
      [] OTHER ->
            CASE base[b].status = "succeeded" /\ candidate[c].status # "succeeded" -> "regressed"
              [] base[b].status # "succeeded" /\ candidate[c].status = "succeeded" -> "improved"
              [] OTHER -> "unchanged"

\* _case_metric_deltas
CaseDeltas(a, b) ==
    LET value(i, m) == IF m \in DOMAIN i.metrics THEN i.metrics[m] ELSE NotApplicable
    IN [m \in DOMAIN a.metrics \cup DOMAIN b.metrics |->
          Compared(value(a, m), value(b, m), FALSE).delta]

\* _compare_run_cases
CompareCases(sideA, base, sideB, candidate) ==
    LET duplicated == Duplicated(base) \cup Duplicated(candidate)
        keysA == MatchKeys(sideA, base, duplicated)
        keysB == MatchKeys(sideB, candidate, duplicated)
        at(keys, key) == IF key \in Range(keys) THEN CHOOSE n \in DOMAIN keys : keys[n] = key ELSE 0
    IN {LET b == at(keysA, key)
            c == at(keysB, key)
        IN [base |-> b, candidate |-> c, transition |-> Transition(base, candidate, b, c),
            deltas |-> IF b = 0 \/ c = 0 THEN <<>> ELSE CaseDeltas(base[b], candidate[c])]
          : key \in Range(keysA) \cup Range(keysB)}

\* compare_runs, with the numbers shown above it.
ComparisonCounts(metrics, cases) ==
    [improved |-> Cardinality({m \in DOMAIN metrics : metrics[m].direction = "improved"}),
     regressed |-> Cardinality({m \in DOMAIN metrics : metrics[m].direction = "regressed"}),
     common |-> Cardinality({x \in cases : x.base # 0 /\ x.candidate # 0}),
     baseOnly |-> Cardinality({x \in cases : x.transition = "removed"}),
     candidateOnly |-> Cardinality({x \in cases : x.transition = "added"})]

Comparison(sideA, sideB) ==
    LET metrics == CompareMetrics(stored[sideA], stored[sideB])
        cases == CompareCases(sideA, stored[sideA], sideB, stored[sideB])
    IN [metrics |-> metrics, tokens |-> CompareTokens(stored[sideA], stored[sideB]),
        cases |-> cases, counts |-> ComparisonCounts(metrics, cases)]

-----------------------------------------------------------------------------
ReportInit == study \in Studies /\ stored = [side \in Sides |-> <<>>]

ReportNext ==
    \E side \in Sides : Evaluate(side) \/ EvaluateRaises(side) \/ LeaveRunning(side)

ReportSpec == ReportInit /\ [][ReportNext]_reportVars

-----------------------------------------------------------------------------
Opposite == [improved |-> "regressed", regressed |-> "improved", added |-> "removed",
             removed |-> "added", unchanged |-> "unchanged", not_applicable |-> "not_applicable"]

\* Comparing two runs the other way round tells the same story backwards: what
\* had improved has regressed by as much, what was added is removed, and the
\* same items are held against each other (compare_runs).
ReadBothWays ==
    study # NoStudy =>
        LET forth == Comparison("base", "candidate")
            back == Comparison("candidate", "base")
            turned(x) == [direction |-> Opposite[x.direction], delta |-> -x.delta]
        IN /\ back.metrics = [m \in DOMAIN forth.metrics |-> turned(forth.metrics[m])]
           /\ back.tokens = turned(forth.tokens)
           /\ back.cases =
                {[base |-> x.candidate, candidate |-> x.base, transition |-> Opposite[x.transition],
                  deltas |-> [m \in DOMAIN x.deltas |-> -x.deltas[m]]] : x \in forth.cases}

\* Every item is in the comparison once. Items held against each other are of one
\* identity, and of one target as soon as a run has several of that identity; the
\* only items of an identity and a target on either side meet.
SameCasesCompared ==
    study # NoStudy =>
        LET base == stored["base"]
            candidate == stored["candidate"]
            cases == CompareCases("base", base, "candidate", candidate)
            only(items, n) == \A k \in DOMAIN items : Known(items[k]) = Known(items[n])
                                 /\ items[k].label = items[n].label => k = n
        IN /\ \A n \in DOMAIN base : Cardinality({x \in cases : x.base = n}) = 1
           /\ \A n \in DOMAIN candidate : Cardinality({x \in cases : x.candidate = n}) = 1
           /\ \A x \in cases : x.base # 0 /\ x.candidate # 0 =>
                 /\ Known(base[x.base]) = Known(candidate[x.candidate])
                 /\ Known(base[x.base]) \in Duplicated(base) \cup Duplicated(candidate) =>
                       base[x.base].label = candidate[x.candidate].label
           /\ \A b \in DOMAIN base, c \in DOMAIN candidate :
                 /\ Known(base[b]) = Known(candidate[c]) /\ base[b].label = candidate[c].label
                 /\ only(base, b) /\ only(candidate, c)
                 => \E x \in cases : x.base = b /\ x.candidate = c

\* The metrics that carry the reason codes of a skip, whether something was said.
TellingMetrics ==
    (SkipBase \ AnswerDependent) \cup GraphMetricNames \cup {"fallback_rate"}

\* A store that could not be reached says nothing about the answers in it: an item
\* skipped for that reason changes no average of a quality, in the run or under
\* its target. It is a failure to make a case of only for its latency, and only in
\* a run that asked for no metric by which it is known as skipped (_failure_reasons,
\* _is_graph_provider_skip_item). It counts as a success, also in the rates of
\* cache hits and in the latencies; and the judge's verdict on an answer found
\* without the graph counts (_store_claim_judgment).
SkippedDoNotCount ==
    study # NoStudy => \A side \in Sides :
        LET items == stored[side]
            others == RestrictValues(items, LAMBDA i : ~i.skipped)
            quality == (SkipBase \ {"claim_faithfulness"}) \cup GraphMetricNames
                         \cup {"fallback_rate"}
            averages(summary) == [m \in DOMAIN summary \cap quality |-> summary[m]]
        IN /\ averages(MetricSummary(items)) = averages(MetricSummary(others))
           /\ \A label \in LabelsOf(others) :
                 averages(StrategyEntry(items, label).metrics)
                   = averages(StrategyEntry(others, label).metrics)
           /\ \A f \in FailureCandidates(items) : items[f[1]].skipped =>
                 f[2] = "high_latency" /\ study[side].metrics \cap TellingMetrics = {}

\* If the run asked for a metric that every item has, each cache mode but the
\* default and each store has an entry as soon as an item of it has ended, whose
\* counts are of those items; a run has an outcome only of items that have ended;
\* and every item is on one side of a comparison or common to both
\* (_cache_comparison_summary, _provider_comparison_summary, compare_runs).
CountsAddUp ==
    study # NoStudy =>
        /\ \A side \in Sides :
              LET items == stored[side]
                  summary == RunSummary(side)
                  ended == {n \in DOMAIN items : items[n].status # "running"}
                  failed == {n \in ended : items[n].status = "failed"}
                  reports ==
                    {[field |-> "cache", left |-> "default", groups |-> CacheComparison(items)],
                     [field |-> "provider", left |-> "none", groups |-> ProviderComparison(items)]}
              IN /\ summary.answered + summary.abstained + summary.lost
                       <= summary.succeeded + summary.failed
                 /\ summary.succeeded + summary.failed = Cardinality(ended)
                 /\ "no_context_rate" \in study[side].metrics =>
                      \A report \in reports :
                        LET of(n) == items[n].target[report.field]
                        IN /\ DOMAIN report.groups = {of(n) : n \in ended} \ {report.left}
                           /\ \A g \in DOMAIN report.groups :
                                 /\ report.groups[g].cases = Cardinality({n \in ended : of(n) = g})
                                 /\ report.groups[g].failed = Cardinality({n \in failed : of(n) = g})
        /\ LET counts == Comparison("base", "candidate").counts
           IN /\ counts.common + counts.baseOnly = Ahead("base")
              /\ counts.common + counts.candidateOnly = Ahead("candidate")
=============================================================================
