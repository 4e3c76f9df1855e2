------------------------------ MODULE MCRagAsk ------------------------------
(* Three documents, one with two versions; chunk 4, the new version of        *)
(* document 1, says what chunk 2 says. Query "a" finds all of them, "b" only  *)
(* by words and badly, so that the agentic loop needs its fallback. Query "c" *)
(* is worded for the graph and knows two entities, one only by its alias.     *)
EXTENDS EvaluatedQuestion

MCDocOf == <<1, 2, 3, 1>>
MCFirstActive == <<1, 2, 3>>
MCDense == [a |-> <<900, 800, 300, 950>>, b |-> <<200, 250, 100, 220>>, c |-> <<100, 200, 700, 300>>]
MCSparse == [a |-> <<0, 2, 4, 2>>, b |-> <<3, 0, 0, 0>>, c |-> <<0, 0, 1, 0>>]
MCRerank == [a |-> <<700, 900, 100, 650>>, b |-> <<400, 500, 100, 450>>, c |-> <<100, 200, 800, 300>>]
MCAffinity == [a |-> <<0, 0, 1, 0>>, b |-> <<0, 0, 0, 0>>, c |-> <<0, 0, 0, 0>>]
MCText == <<<<"u", "v">>, <<"x", "y">>, <<"z">>, <<"x", "y">>>>
MCAnalysis ==
    [a |-> [intent |-> "lookup", keywordHeavy |-> TRUE, versionSpecific |-> FALSE,
            ambiguous |-> FALSE, candidates |-> <<>>],
     b |-> [intent |-> "lookup", keywordHeavy |-> FALSE, versionSpecific |-> FALSE,
            ambiguous |-> FALSE, candidates |-> <<"dense">>],
     c |-> [intent |-> "lookup", keywordHeavy |-> FALSE, versionSpecific |-> FALSE,
            ambiguous |-> FALSE, candidates |-> <<>>]]

MCSigns == [a |-> [hit |-> FALSE, markers |-> 0, words |-> 2],
            b |-> [hit |-> TRUE, markers |-> 0, words |-> 2],
            c |-> [hit |-> TRUE, markers |-> 1, words |-> 3]]
MCFirstGraphs == {1, 2}
MCMentions == <<{1, 2}, {2, 3}, {3}, {1, 3}>>
MCRenames == <<{}, {}, {}, {2}>>
MCEntityMatch == [a |-> <<<<0, 0>>, <<0, 0>>, <<500, 500>>>>,
                  b |-> <<<<0, 0>>, <<0, 0>>, <<0, 0>>>>,
                  c |-> <<<<900, 900>>, <<100, 1000>>, <<0, 0>>>>]
MCRelations == <<[ends |-> <<1, 2>>, confidence |-> 800, chunk |-> 1],
                 [ends |-> <<2, 3>>, confidence |-> 600, chunk |-> 2],
                 [ends |-> <<1, 3>>, confidence |-> 700, chunk |-> 4],
                 [ends |-> <<3, 2>>, confidence |-> 500, chunk |-> 1]>>

Ask(mid, q, strategy, filter) ==
    [kind |-> "ask", mid |-> mid, query |-> q, strategy |-> strategy, filter |-> filter,
     bypass |-> FALSE]
SearchFor(q, strategy, filter, bypass) ==
    [kind |-> "search", mid |-> 0, query |-> q, strategy |-> strategy, filter |-> filter,
     bypass |-> bypass]

Evaluate(mid, q, strategy, filter) ==
    [kind |-> "evaluate", mid |-> mid, query |-> q, strategy |-> strategy, filter |-> filter,
     bypass |-> FALSE]
Measure(q, strategy, filter) ==
    [kind |-> "measure", mid |-> 9, query |-> q, strategy |-> strategy, filter |-> filter,
     bypass |-> FALSE]

MCNumbers == [i \in {"[1]", "[2]", "[7]", "[1000000]"} |->
                CASE i = "[1]" -> 1 [] i = "[2]" -> 2 [] i = "[7]" -> 7 [] OTHER -> 1000000]
MCAnswerLabels == <<"Answer:", "Draft:">>
MCWidth == [piece \in {"claim", "[1]", "[2]", "[7]", ".", "no evidence", "secret"} |->
              CASE piece = "claim" -> 6 [] piece = "." -> 2 [] piece = "no evidence" -> 12
                [] piece = "secret" -> 7 [] OTHER -> 4]

\* Texts of a model: two claims with their sources, among thoughts that name another;
\* more than the limit, the last source beyond it; sources it was not given, or none;
\* nothing but an excuse or a number; one that must not be passed on.
Good == <<"<think>", "claim", "[7]", "</think>", "Draft:", "claim", "[1]", ".", "Answer:",
          "claim", "[2]", ".", "claim", "[1]", ".", "Wait,", "claim">>
Long == <<"claim", "[2]", "claim", "claim", "claim", "[1]", ".">>
WrongNumber == <<"claim", "[7]", ".">>
Unparsable == <<"claim", "[1000000]", ".">>
GivesUp == <<"Answer:", "no evidence", "[7]", ".">>
Broken == <<>>
Leaking == <<"claim", "[1]", "secret", ".">>
NoNumber == <<"claim", ".", "claim", "[1]", "claim">>
OnlyMarkers == <<"[1]">>

AllTexts == {Good, Long, WrongNumber, Unparsable, GivesUp, Broken, Leaking, OnlyMarkers}

Scenario(asks, texts, n) ==
    [asks |-> asks, texts |-> texts, aloud |-> TRUE, plans |-> {}, disturbances |-> n, rebuilds |-> 0]
Quiet(scenario) == [scenario EXCEPT !.aloud = FALSE]
WithBuilds(scenario, n) == [scenario EXCEPT !.rebuilds = n]
PlannedBy(scenario, planned) == [scenario EXCEPT !.plans = planned]

\* Calls a planning model may plan: nothing, searches in its own words, more than
\* it may make, a look at the trace, an end with some, all or none of the results.
MCPlans ==
    {<<>>,
     <<SearchWith("hybrid", "b"), SearchWith("sparse", "a")>>,
     <<SearchWith("dense", "a"), [tool |-> "inspect", query |-> "", ids |-> {}]>>,
     <<Finalize({2, 9})>>,
     <<SearchWith("sparse", "b"), Finalize(AllIds)>>}

MCScenarios ==
    { \* a message sent twice, a failing or succeeding first request
      Scenario(<<Ask(1, "a", "hybrid", {}), Ask(1, "a", "hybrid", {})>>, {Good, Broken}, 2),
      \* a message sent twice with other words, and one limited to documents
      Scenario(<<Ask(1, "a", "dense", {1, 2}), Ask(1, "b", "dense", {})>>, {WrongNumber, GivesUp}, 2),
      \* one question under two messages waits for one cache entry, and a duplicate
      Scenario(<<Ask(1, "a", "hybrid", {}), Ask(2, "a", "hybrid", {}), Ask(1, "a", "hybrid", {})>>,
               {Good}, 1),
      \* an agentic ask, with every text, while documents change
      Scenario(<<Ask(1, "b", "agentic_router", {})>>, AllTexts, 3),
      Quiet(Scenario(<<Ask(1, "a", "agentic_router", {1, 2})>>, AllTexts, 3)),
      \* searches while documents change
      Scenario(<<SearchFor("a", "sparse", {}, FALSE), SearchFor("a", "sparse", {}, FALSE),
                 SearchFor("a", "dense", {}, TRUE)>>, {}, 1),
      Scenario(<<SearchFor("a", "dense", {1}, FALSE), SearchFor("a", "dense", {1}, FALSE)>>, {}, 2),
      \* searches of the graph while documents change and graphs are built
      WithBuilds(Scenario(<<SearchFor("c", "graph_postgres", {}, FALSE)>>, {}, 2), 1),
      WithBuilds(Scenario(<<SearchFor("c", "graph_neo4j", {}, FALSE)>>, {}, 2), 1),
      Scenario(<<SearchFor("c", "graph_neo4j", {1, 2}, FALSE),
                 SearchFor("c", "graph_neo4j", {1, 2}, FALSE)>>, {}, 1),
      \* a conversation over the graph, and one the router takes there
      Scenario(<<Ask(1, "c", "graph_postgres", {}), Ask(1, "c", "graph_postgres", {})>>, {Good}, 2),
      WithBuilds(Scenario(<<Ask(1, "c", "agentic_router", {1, 2})>>, {Good, WrongNumber}, 2), 1),
      \* asks whose retrieval a planner directs, by rules or by a model
      Scenario(<<Ask(1, "a", "llm_tools", {})>>, {Good}, 2),
      PlannedBy(Scenario(<<Ask(1, "b", "llm_tools", {})>>, {Good}, 2), MCPlans),
      Scenario(<<Ask(1, "a", "langchain", {1, 2})>>, {Good}, 2),
      PlannedBy(Scenario(<<Ask(1, "b", "langgraph", {})>>, {Good}, 2), MCPlans),
      PlannedBy(Scenario(<<Ask(1, "b", "agentic_router", {})>>, {Good}, 2), MCPlans),
      \* questions of an evaluation: two and three attempts of a case, two cases over one
      \* document, one over the graph, three by tools, a measurement beside an answer
      Scenario(<<Evaluate(1, "a", "hybrid", {}), Evaluate(1, "a", "hybrid", {})>>,
               {Good, NoNumber, Broken, GivesUp}, 1),
      Scenario(<<Evaluate(1, "a", "hybrid", {}), Evaluate(1, "a", "hybrid", {}),
                 Evaluate(1, "a", "hybrid", {})>>, {Good, NoNumber}, 0),
      Scenario(<<Evaluate(1, "b", "agentic_router", {1}), Measure("b", "dense", {1})>>,
               AllTexts \cup {NoNumber}, 1),
      Scenario(<<Evaluate(1, "c", "graph_neo4j", {3})>>, {Good, WrongNumber}, 3),
      Scenario(<<Evaluate(1, "a", "llm_tools", {1, 2})>>, AllTexts \cup {NoNumber}, 2),
      Scenario(<<Evaluate(1, "a", "langchain", {2})>>, {Good, NoNumber, Broken}, 1),
      Scenario(<<Evaluate(1, "b", "langgraph", {1})>>, {Good, GivesUp}, 1),
      Scenario(<<Measure("a", "sparse", {}), Evaluate(1, "a", "sparse", {})>>, {Good}, 1)}

\* Chunks in a script without ASCII letters (with AsciiWords = {}).
MCNonAsciiScenarios == {Scenario(<<Ask(1, "a", "langchain", {})>>, {Good}, 1)}
=============================================================================
