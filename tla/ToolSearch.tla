----------------------------- MODULE ToolSearch -----------------------------
(* The retrieval a planner directs by calls of search tools: the LLM tool     *)
(* orchestrator (rag/llm_orchestrator.py), LangChain's and LangGraph's        *)
(* (rag/langchain_agentic.py, langgraph_agentic.py: one planner, another loop *)
(* around it) and the compression of what the tools return                    *)
(* (rag/tool_result_compression.py), as pure operators on the state of a loop.*)
(* A call [tool, query, ids] names a search by its strategy; it has the       *)
(* number of calls before it plus one. Compression is on, as in the defaults. *)
EXTENDS ContextSelection

CONSTANTS
    MaxToolCalls, MaxSearchCalls,
    MaxItemsPerTool, MaxToolItems,      \* of one result, of a loop
    MaxSnippetWords,
    MaxTokensPerTool, MaxToolTokens,
    RejectOversized,
    Comparing,                          \* queries that compare hybrid with dense search
    ManyWords                           \* queries _looks_keyword_heavy holds for

ToolStrategies == {"llm_tools", "langchain", "langgraph"}
SearchTools == {"dense", "sparse", "hybrid"}

\* The arguments of finalize_answer may leave out the ids.
AllIds == {0}
SearchWith(tool, q) == [tool |-> tool, query |-> q, ids |-> {}]
Finalize(ids) == [tool |-> "finalize", query |-> "", ids |-> ids]

\* results: what each search found (chunks), what of it the planner is shown
\* (cands), under the number of its call.
NewLoop ==
    [status |-> "running", calls |-> 0, searches |-> 0, asked |-> {}, todo |-> <<>>,
     query |-> "", results |-> <<>>, signatures |-> {}, items |-> 0, tokens |-> 0, chosen |-> {}]

Available(tool) == tool \in AvailableStrategies
SearchLimit == Least(MaxSearchCalls, MaxToolCalls)

-----------------------------------------------------------------------------
(* Planning.                                                                  *)

Indices(loop) == DOMAIN loop.results
Succeeded(loop) == {k \in Indices(loop) : loop.results[k].ok}
Fruitful(loop) == {k \in Succeeded(loop) : loop.results[k].cands # <<>>}
IdsOf(loop, S) == {loop.results[k].call : k \in S}

\* DeterministicLLMToolCallPlanner.plan
DeterministicPlan(q, loop) ==
    IF Succeeded(loop) # {} THEN Finalize(IdsOf(loop, Fruitful(loop)))
    ELSE SearchWith(IF HybridEnabled /\ SparseEnabled THEN "hybrid" ELSE "dense", q)

\* No call at all: search first, compare when asked to, else take everything.
EmptyPlan(q, loop) ==
    IF loop.searches = 0 THEN SearchWith("dense", q)
    ELSE IF q \in Comparing /\ \A k \in Succeeded(loop) : loop.results[k].strategy # "hybrid"
    THEN SearchWith("hybrid", q)
    ELSE Finalize(IdsOf(loop, Indices(loop)))

ToolPriority(q) ==
    LET tools == IF q \in ManyWords THEN <<"hybrid", "sparse", "dense">>
                 ELSE <<"hybrid", "dense", "sparse">>
    IN SelectSeq(tools, Available)

\* _empty_search_keys: a failed search is an empty one too.
CameBackEmpty(tool, q, loop) ==
    \E k \in Indices(loop) : /\ loop.results[k].strategy = tool
                             /\ loop.results[k].query = q
                             /\ loop.results[k].cands = <<>>

\* The rules of LangChain's and LangGraph's planner.
RulePlan(q, loop) ==
    LET fresh(tool) == ~CameBackEmpty(tool, q, loop)
        tools == SelectSeq(ToolPriority(q), fresh)
    IN IF Fruitful(loop) # {} THEN Finalize(IdsOf(loop, Fruitful(loop)))
       ELSE IF loop.searches >= SearchLimit \/ tools = <<>>
       THEN Finalize(IdsOf(loop, Indices(loop)))
       ELSE SearchWith(tools[1], q)

\* _plan_next_calls_with_llm: a model's choice counts when it is one of the
\* searches not tried yet, or ends the loop with something found.
ModelPlans(q, loop) ==
    LET used == {loop.results[k].strategy : k \in Succeeded(loop)}
        open == IF loop.searches >= SearchLimit THEN {}
                ELSE {t \in SearchTools \ used : Available(t) /\ ~CameBackEmpty(t, q, loop)}
    IN {SearchWith(t, q) : t \in open}
         \cup (IF Fruitful(loop) = {} THEN {} ELSE {Finalize(IdsOf(loop, Fruitful(loop)))})

\* The plans there may be next: of the rules, or of a model (plans; of what it
\* writes two calls count).
NextPlans(kind, q, loop, plans) ==
    IF kind = "llm_tools"
    THEN {IF plan = <<>> THEN <<EmptyPlan(q, loop)>> ELSE plan :
             plan \in IF plans = {} THEN {<<DeterministicPlan(q, loop)>>} ELSE plans}
    ELSE {<<call>> : call \in {RulePlan(q, loop)}
                                \cup (IF plans = {} THEN {} ELSE ModelPlans(q, loop))}

-----------------------------------------------------------------------------
(* Calls.                                                                     *)

Key(call) == <<call.tool, call.query>>

\* The next call is a search that will be executed.
SearchDue(loop) ==
    /\ loop.todo # <<>>
    /\ loop.calls < MaxToolCalls
    /\ Head(loop.todo).tool \in SearchTools
    /\ loop.searches < SearchLimit
    /\ Key(Head(loop.todo)) \notin loop.asked
    /\ Available(Head(loop.todo).tool)

\* The search is counted and remembered.
SearchStarted(loop) ==
    [loop EXCEPT !.todo = Tail(@), !.calls = @ + 1, !.query = Head(loop.todo).query,
                 !.asked = @ \cup {Key(Head(loop.todo))}]

\* Any other call: refused (unknown, disabled, too many), a look at the trace, a
\* search already made, which ends the loop, or the end.
OtherCall(loop) ==
    LET call == Head(loop.todo)
        counted == [loop EXCEPT !.todo = Tail(@), !.calls = @ + 1]
    IN CASE loop.calls >= MaxToolCalls -> [loop EXCEPT !.todo = <<>>]
         [] loop.calls < MaxToolCalls /\ call.tool = "finalize" ->
                [counted EXCEPT !.status = "finalized", !.todo = <<>>,
                     !.chosen = IF call.ids = AllIds THEN IdsOf(loop, Indices(loop)) ELSE call.ids]
         [] /\ loop.calls < MaxToolCalls
            /\ call.tool \in SearchTools
            /\ loop.searches < SearchLimit
            /\ Key(call) \in loop.asked ->
                [counted EXCEPT !.status = "repeated", !.todo = <<>>]
         [] OTHER ->
                [counted EXCEPT !.asked = IF call.tool \in SearchTools /\ loop.searches < SearchLimit
                                          THEN @ \cup {Key(call)} ELSE @]

Over(loop) == loop.status # "running" \/ (loop.todo = <<>> /\ loop.calls >= MaxToolCalls)

\* What the loop hands on: the results finalize_answer named; all of them after a
\* repeated search, a timeout or the last call there may be.
Attempts(loop) ==
    LET named(result) == loop.status # "finalized" \/ result.call \in loop.chosen
    IN SelectSeq(loop.results, named)

-----------------------------------------------------------------------------
(* Results.                                                                   *)

\* Two texts with the same normal form are taken for duplicates.
NormalForm(text) == SelectSeq(text, LAMBDA word : word \in AsciiWords)

\* Mutation: every result has the budget of the whole loop.
FreshBudget(loop, cands) ==
    LET accept(acc, k) ==
            LET text == Text[k.chunk]
                size == Len(FirstN(text, MaxSnippetWords))
            IN IF text = <<>> \/ NormalForm(text) \in acc.forms THEN acc
               ELSE IF Len(acc.cands) >= MaxItemsPerTool
               THEN [acc EXCEPT !.exhausted = TRUE]
               ELSE IF acc.tokens + size > MaxTokensPerTool
               THEN [acc EXCEPT !.exhausted = TRUE, !.oversized = TRUE]
               ELSE [acc EXCEPT !.cands = Append(@, k), !.tokens = @ + size,
                                !.forms = @ \cup {NormalForm(text)}]
    IN FoldLeft(accept, [cands |-> <<>>, tokens |-> 0, forms |-> {}, exhausted |-> FALSE,
                         oversized |-> FALSE], cands)

\* ToolResultCompressor.compress over the candidates in the order of their ranks:
\* no text twice, and the limits of one result and of what is left of the loop's.
Accepted(loop, cands) ==
    LET accept(acc, k) ==
            LET text == Text[k.chunk]
                size == Len(FirstN(text, MaxSnippetWords))
            IN IF text = <<>> \/ NormalForm(text) \in acc.forms THEN acc
               ELSE IF Len(acc.cands) >= Least(MaxItemsPerTool, MaxToolItems - loop.items)
               THEN [acc EXCEPT !.exhausted = TRUE]
               ELSE IF acc.tokens + size > Least(MaxTokensPerTool, MaxToolTokens - loop.tokens)
               THEN [acc EXCEPT !.exhausted = TRUE, !.oversized = TRUE]
               ELSE [acc EXCEPT !.cands = Append(@, k), !.tokens = @ + size,
                                !.forms = @ \cup {NormalForm(text)}]
    IN FoldLeft(accept, [cands |-> <<>>, tokens |-> 0, forms |-> {}, exhausted |-> FALSE,
                         oversized |-> FALSE], cands)

\* The result of the search under way. One that is the same as an earlier one is
\* emptied; one too large for a single item fails.
Received(loop, strategy, cands, ranked) ==
    LET byRank == SortSeq(cands, LAMBDA a, b : RankIn(ranked, a.chunk) < RankIn(ranked, b.chunk))
        kept == Accepted(loop, byRank)
        signature == {<<k.chunk, RankIn(ranked, k.chunk)>> : k \in ToSet(kept.cands)}
        repeated == signature \in loop.signatures
        shown == IF repeated THEN <<>> ELSE kept.cands
    IN [loop EXCEPT
          !.searches = @ + 1,
          !.items = @ + Len(shown),
          !.tokens = @ + (IF repeated THEN 0 ELSE kept.tokens),
          !.signatures = IF shown = <<>> THEN @ ELSE @ \cup {signature},
          !.results = Append(@, [call |-> loop.calls, strategy |-> strategy, query |-> loop.query,
                                 found |-> {k.chunk : k \in ToSet(cands)},
                                 cands |-> shown,
                                 ok |-> ~(RejectOversized /\ shown = <<>> /\ kept.oversized),
                                 exhausted |-> kept.exhausted \/ repeated])]
=============================================================================
