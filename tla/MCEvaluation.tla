---------------------------- MODULE MCEvaluation ----------------------------
(***************************************************************************)
(* An instance for TLC of a run and its corpus, and of what is read from   *)
(* the rows of two runs.  Only rows join the two, so a behaviour is of one *)
(* or of the other: it has a study or the steps of EvaluationRun.          *)
(***************************************************************************)
EXTENDS EvaluationRun, EvaluationReport

CONSTANTS w1, w2, q1, q2, r1, r2

Interchangeable == Permutations(Workers) \cup Permutations(Promoters) \cup Permutations(Preparers)

\* The case is answerable from the source.
MCEvidence == [c \in Cases |-> Sources]
MCOutcomesOf == [c \in Cases |-> {"answered", "generation_error"}]

-----------------------------------------------------------------------------
(* Studies: what cases expect, what a service gives, which runs are read.  *)

Nobody == [chunks |-> {}, docs |-> {}, keywords |-> {}, answer |-> {}, slots |-> {},
           required |-> TRUE, strategies |-> {}, entities |-> {}, relations |-> {}, hops |-> 0]

MCChunkWords == <<{"u", "v"}, {"x"}, {"u", "x"}>>
MCChunkDocument == <<1, 2, 1>>
MCExpected ==
    <<[Nobody EXCEPT !.chunks = {1, 2}, !.keywords = {"u", "x"}, !.slots = {"u"},
                     !.entities = {"E"}, !.relations = {"R"}, !.hops = 2],
      [Nobody EXCEPT !.docs = {2}, !.answer = {"x"}, !.required = FALSE,
                     !.strategies = {"hybrid"}],
      [Nobody EXCEPT !.answer = {"u"}]>>
MCIdentity == <<1, 2, 2>>

Answered ==
    [Nothing EXCEPT !.status = "succeeded", !.outcome = "answered", !.words = {"u"},
                    !.cites = <<3, 2>>, !.items = <<3, 2>>, !.selected = 1, !.confidence = 600,
                    !.latency = 40, !.tokens = 7, !.claims = 900, !.error = "none"]
Abstained ==
    [Answered EXCEPT !.outcome = "abstained", !.words = {}, !.cites = <<>>, !.latency = 25,
                     !.claims = NotApplicable, !.tokens = 3]
NoContext == [Nothing EXCEPT !.outcome = "no_context", !.error = "no_context_found", !.latency = 10]
Found == [Answered EXCEPT !.outcome = "answered", !.words = {}, !.cites = <<>>, !.tokens = NotApplicable,
                          !.items = <<1, 2>>, !.selected = 2, !.outcome = "none"]
Paths == {[sources |-> {3}, entities |-> {"E"}, relations |-> {"R"}, depth |-> 2],
          [sources |-> {2, 1}, entities |-> {"F"}, relations |-> {"R"}, depth |-> 1]}
Decided(picked, calls) ==
    [selected |-> picked, exhausted |-> calls > 1, sufficiency |-> 500, calls |-> 1000 * calls]
\* The store is out of reach: nothing is found, or what a dense search finds.
Unreachable == [Nothing EXCEPT !.error = "graph_provider_skipped", !.latency = 5,
                               !.unavailable = TRUE]
AnsweredWithout == [Answered EXCEPT !.unavailable = TRUE, !.fallback = TRUE, !.claims = 0]

MCResults ==
    [dense |-> {Answered, NoContext, Found}, hybrid |-> {[Answered EXCEPT !.cache = "hit"], Abstained},
     graph |-> {[Answered EXCEPT !.paths = Paths], [Found EXCEPT !.fallback = TRUE], Unreachable,
               AnsweredWithout},
     agentic_router |-> {[Answered EXCEPT !.decision = Decided("dense", 2)],
                         [NoContext EXCEPT !.decision = Decided("hybrid", 1), !.fallback = TRUE]},
     llm_tool_orchestrator |-> {Answered, Abstained, NoContext}]

AllMetrics ==
    AnswerDependent \cup SkipBase \cup GraphMetricNames \cup LowerIsBetter
      \cup {"strategy_selection_accuracy", "sufficiency_score_avg", "cache_hit_rate",
            "cache_saved_latency"}
Side(cases, strategies, modes, metrics) ==
    [cases |-> cases, strategies |-> strategies, modes |-> modes, metrics |-> metrics]

MCStudies ==
    {[base |-> Side(<<1, 2>>, <<"dense">>, {"default"}, AllMetrics),
      candidate |-> Side(<<1>>, <<"dense", "llm_tool_orchestrator">>, {"default"}, AllMetrics)],
     [base |-> Side(<<1>>, <<"graph", "graph_postgres", "graph_neo4j">>, {"default"}, AllMetrics),
      candidate |-> Side(<<1>>, <<"graph_neo4j">>, {"default"},
                         {"no_context_rate", "graph_path_relevance"})],
     \* What a skipped item has tells neither run that it was skipped.
     [base |-> Side(<<1>>, <<"graph">>, {"default"}, {"p95_latency", "claim_faithfulness"}),
      candidate |-> Side(<<2>>, <<"graph_neo4j">>, {"cold"}, {"p95_latency", "mrr"})],
     [base |-> Side(<<2>>, <<"hybrid">>, {"warm", "cold"}, AllMetrics),
      candidate |-> Side(<<2, 3>>, <<"hybrid">>, {"default"}, AllMetrics)],
     [base |-> Side(<<1, 2>>, <<"agentic_router">>, {"cold"}, {"no_context_rate", "mrr"}),
      candidate |-> Side(<<2, 3>>, <<"agentic_router">>, {"default"}, AllMetrics)],
     [base |-> Side(<<1>>, <<"llm_tool_orchestrator">>, {"default"}, {"groundedness"}),
      candidate |-> Side(<<1>>, <<"llm_tool_orchestrator">>, {"default"}, AllMetrics)]}

-----------------------------------------------------------------------------
StudyInit == PreparedInit /\ RunInit /\ ReportInit
MCInit == (Init /\ study = NoStudy /\ stored = [side \in Sides |-> <<>>]) \/ StudyInit
MCNext ==
    \/ study = NoStudy /\ Next /\ UNCHANGED reportVars
    \/ ReportNext /\ UNCHANGED vars
MCSpec == MCInit /\ [][MCNext]_<<vars, reportVars>>
=============================================================================
