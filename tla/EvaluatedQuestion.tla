-------------------------- MODULE EvaluatedQuestion --------------------------
(* The questions an evaluation asks of the retrieval and of the generator     *)
(* (evaluation/rag_service.py): like a search with an answer, or like an ask  *)
(* without a conversation, next to the requests of RagAsk. Kind "measure" is  *)
(* a retrieval without an answer, kind "evaluate" asks for one. The attempts  *)
(* of a case share its request id (here: mid), by which a failure after the   *)
(* search finds the run to mark.                                              *)
EXTENDS RagAsk

CONSTANTS MaxContextChars

\* _case_request_id: attempts that share a request id are of one case and one strategy.
ASSUME AttemptsAssumption ==
    \A s \in Scenarios : \A i, j \in DOMAIN s.asks :
       /\ {s.asks[i].kind, s.asks[j].kind} \subseteq {"evaluate", "measure"}
       /\ s.asks[i].mid = s.asks[j].mid
       => s.asks[i].strategy = s.asks[j].strategy

-----------------------------------------------------------------------------
\* _latest_retrieval_run_id
LatestRun(r) ==
    LET ofCase == {k \in DOMAIN created : asked[created[k]].mid = asked[r].mid}
    IN created[Max(ofCase)]

\* _failure_answer_outcome
Outcome == [no_context_found |-> "no_context", citation_build_failed |-> "citation_error",
            generation_failed |-> "generation_error"]

\* _context_items_from_search_items: all that was found, under its rank, served
\* still or not, as far as there is room.
LoadedContext(items) ==
    LET take(acc, n) ==
            LET cut == FirstN(Text[items[n].chunk], acc.room)
            IN IF cut = <<>> THEN acc
               ELSE [pack |-> Append(acc.pack, [id |-> n, chunk |-> items[n].chunk, text |-> cut]),
                     room |-> acc.room - Len(cut)]
    IN FoldLeft(take, [pack |-> <<>>, room |-> MaxContextChars], [n \in DOMAIN items |-> n]).pack

\* An output that is taken as it is: nothing is repaired.
Strict(output, pack) ==
    CASE output.kind = "failed"       -> "generation_failed"
      [] output.kind = "insufficient" -> "abstained"
      [] OTHER -> IF /\ output.kind = "answer"
                     /\ output.markers # <<>>
                     /\ ToSet(output.markers) \subseteq Ids(pack)
                  THEN "answered" ELSE "citation_build_failed"

\* _needs_citation_retry
NeedsCitation(output) == output.kind = "answer" /\ output.markers = <<>>

\* _generate_answer: asked again for an answer without a citation; a second call
\* that fails leaves the first output.
EvaluatedOutputs ==
    UNION {IF NeedsCitation(first)
           THEN {IF second.kind = "failed" THEN first ELSE second : second \in outputs}
           ELSE {first} : first \in outputs}

EvaluatedAnswer(output, pack, seen) ==
    [label |-> "answered", markers |-> output.markers,
     cites |-> Citations(output.markers, pack), said |-> output.said, seen |-> seen]

\* What a question may come to, over a context.
EvaluatedResults(pack, seen) ==
    {[outcome |-> Strict(output, pack), answer |-> EvaluatedAnswer(output, pack, seen)] :
     output \in EvaluatedOutputs}

-----------------------------------------------------------------------------
(* A retrieval that commits its run as succeeded, then an answer.             *)

OwnsTransaction(r) == asked[r].kind = "evaluate" /\ ByTools(r)

\* evaluate_strategy ends here.
FinishEvaluatedSearch(r) ==
    /\ req[r].stage = "answer"
    /\ Evaluated(r) /\ ~OwnsTransaction(r)
    /\ runs' = [runs EXCEPT ![r] = Found(r)]
    /\ CommitPut(r)
    /\ IF asked[r].kind = "measure" THEN Refuse(r, "measured")
       ELSE req' = [req EXCEPT ![r] = [Resting("load", NoAnswer) EXCEPT
                        !.items = req[r].items, !.seen = req[r].seen, !.lost = req[r].lost]]
    /\ UNCHANGED <<corpusVars, inputVars, session, deleter, disturbances>>

ByGraphStore(r) == asked[r].strategy \in GraphStrategies

FoundNothing(r) == req[r].stage = "load" /\ LoadedContext(req[r].items) = <<>>

MarkNothingFound(r) ==
    /\ runs' = [runs EXCEPT ![r].status = "failed"]
    /\ Refuse(r, Outcome["no_context_found"])

EvaluatedNothing(r) ==
    /\ FoundNothing(r)
    /\ ~ByGraphStore(r)
    /\ MarkNothingFound(r)
    /\ UNCHANGED <<cacheVars, inputVars, session, deleter, disturbances>>

\* An evaluation of a graph store that cannot be reached is skipped, which its run
\* does not tell.
GraphFoundNothing(r) ==
    /\ FoundNothing(r)
    /\ ByGraphStore(r)
    /\ IF req[r].lost THEN Refuse(r, "skipped") /\ UNCHANGED runs ELSE MarkNothingFound(r)
    /\ UNCHANGED <<cacheVars, inputVars, session, deleter, disturbances>>

\* Mutation: the failure is left to the result.
MarkLatestFailedNot(r, outcome) == Refuse(r, Outcome[outcome]) /\ UNCHANGED runs

\* A failure marks the latest run of the request id.
MarkLatestFailed(r, outcome) ==
    /\ runs' = [runs EXCEPT ![LatestRun(r)].status = "failed"]
    /\ Refuse(r, Outcome[outcome])

\* An abstention is a success without an answer.
MarkAnswered(r, result) ==
    /\ runs' = [runs EXCEPT ![r].status = "succeeded",
                            ![r].answer = IF result.outcome = "answered" THEN result.answer ELSE @]
    /\ Refuse(r, result.outcome)

AnswerLoaded(r) ==
    LET pack == LoadedContext(req[r].items)
    IN /\ req[r].stage = "load"
       /\ pack # <<>>
       /\ \E result \in EvaluatedResults(pack, req[r].seen) :
             IF result.outcome \in {"answered", "abstained"} THEN MarkAnswered(r, result)
             ELSE MarkLatestFailed(r, result.outcome)
       /\ UNCHANGED <<cacheVars, inputVars, session, deleter, disturbances>>

AnswerEvaluated(r) == ~ByGraphStore(r) /\ AnswerLoaded(r)
AnswerOverGraph(r) == ByGraphStore(r) /\ AnswerLoaded(r)

-----------------------------------------------------------------------------
(* A retrieval by tools and its answer in one transaction.                    *)

\* The run of a question that a planner answers.
BeginOrchestrated(r) ==
    /\ req[r].stage = "idle"
    /\ OwnsTransaction(r)
    /\ CreateRun(r)

BeginLlmTools(r)  == asked[r].strategy = "llm_tools" /\ BeginOrchestrated(r)
BeginLangChain(r) == asked[r].strategy = "langchain" /\ BeginOrchestrated(r)
BeginLangGraph(r) == asked[r].strategy = "langgraph" /\ BeginOrchestrated(r)

ToolsFoundNothing(r) ==
    /\ req[r].stage = "answer"
    /\ OwnsTransaction(r)
    /\ Sources(r) = <<>>
    /\ runs' = [runs EXCEPT ![r] = [@ EXCEPT !.status = "failed", !.items = Budgeted(r)]]
    /\ Refuse(r, Outcome["no_context_found"])
    /\ UNCHANGED <<cacheVars, inputVars, session, deleter, disturbances>>

LlmToolsFoundNothing(r)  == asked[r].strategy = "llm_tools" /\ ToolsFoundNothing(r)
LangChainFoundNothing(r) == asked[r].strategy = "langchain" /\ ToolsFoundNothing(r)
LangGraphFoundNothing(r) == asked[r].strategy = "langgraph" /\ ToolsFoundNothing(r)

\* Failures commit what the transaction wrote, and mark its own run.
AnswerTools(r) ==
    /\ req[r].stage = "answer"
    /\ OwnsTransaction(r)
    /\ \E context \in Contexts(r) : \E result \in EvaluatedResults(context.pack, req[r].seen) :
          LET outcome == result.outcome
              failed == outcome \notin {"answered", "abstained"}
          IN /\ runs' = [runs EXCEPT ![r] = [runs[r] EXCEPT
                   !.status = IF failed THEN "failed" ELSE "succeeded", !.items = context.items,
                   !.answer = IF outcome = "answered" THEN result.answer ELSE @]]
             /\ Refuse(r, IF failed THEN Outcome[outcome] ELSE outcome)
    /\ UNCHANGED <<cacheVars, inputVars, session, deleter, disturbances>>

AnswerLlmTools(r)  == asked[r].strategy = "llm_tools" /\ AnswerTools(r)
AnswerLangChain(r) == asked[r].strategy = "langchain" /\ AnswerTools(r)
AnswerLangGraph(r) == asked[r].strategy = "langgraph" /\ AnswerTools(r)

\* Only the LLM tool orchestrator's question has no handler for an error of any
\* other kind: it is rolled back and raised, and the run stays running.
RaiseUnmarked(r) ==
    /\ req[r].stage \in {"plan", "answer"}
    /\ OwnsTransaction(r)
    /\ asked[r].strategy = "llm_tools"
    /\ Disturb
    /\ Refuse(r, "raised")
    /\ UNCHANGED <<cacheVars, askVars>>

-----------------------------------------------------------------------------
EvaluationStep(r) ==
    \/ FinishEvaluatedSearch(r) \/ EvaluatedNothing(r) \/ GraphFoundNothing(r)
    \/ AnswerEvaluated(r) \/ AnswerOverGraph(r)
    \/ BeginLlmTools(r) \/ BeginLangChain(r) \/ BeginLangGraph(r)
    \/ LlmToolsFoundNothing(r) \/ LangChainFoundNothing(r) \/ LangGraphFoundNothing(r)
    \/ AnswerLlmTools(r) \/ AnswerLangChain(r) \/ AnswerLangGraph(r) \/ RaiseUnmarked(r)

EvaluationNext == Next \/ \E r \in Requests : EvaluationStep(r)

EvaluationSpec == Init /\ [][EvaluationNext]_vars

-----------------------------------------------------------------------------
\* An attempt of the same case that began before.
BegunBefore(s, r) == \E i, j \in DOMAIN created : i < j /\ created[i] = s /\ created[j] = r
EarlierAttempts(r) ==
    {s \in Requests \ {r} : Evaluated(s) /\ asked[s].mid = asked[r].mid /\ BegunBefore(s, r)}

\* Failures that are marked after the retrieval run was committed.
LateFailures == {"citation_error", "generation_error"}
Overwritten(r) == \E s \in EarlierAttempts(r) : req[s].reply.label \in LateFailures

\* Results other than failures have succeeded runs, failures failed ones, and an
\* answer is reported exactly when it is stored.
RecordedOutcome(r) ==
    LET reply == req[r].reply.label
        run == runs[r]
    IN /\ reply \in {"answered", "abstained", "measured", "skipped"} =>
             run.status = "succeeded" \/ Overwritten(r)
       /\ reply \in {"no_context", "error"} => run.status = "failed"
       /\ reply = "raised" => run.status = "running"
       /\ reply \in LateFailures =>
             run.status = "failed" \/ (~OwnsTransaction(r) /\ LatestRun(r) # r)
       /\ reply = "answered" <=> run.answer # NoAnswer

\* Each number in an answer was written by the model and stands for one chunk that
\* was found under that rank, was served when it was checked and lies in the corpus.
CitedAnswer(r) ==
    LET run == runs[r]
    IN run.answer # NoAnswer =>
          /\ {x[1] : x \in run.answer.cites} = ToSet(run.answer.markers)
          /\ ToSet(run.answer.markers) \subseteq run.answer.said
          /\ \A x, y \in run.answer.cites : x[1] = y[1] => x = y
          /\ \A x \in run.answer.cites :
                /\ x[2] \in run.answer.seen
                /\ \E i \in DOMAIN run.items : run.items[i].chunk = x[2]
                /\ asked[r].filter # {} => DocOf[x[2]] \in asked[r].filter
          /\ ~ByTools(r) => \A x \in run.answer.cites : run.items[x[1]].chunk = x[2]

Reports(r) == Evaluated(r) /\ req[r].stage = "done" /\ req[r].reply.label # "crashed"
OutcomesRecorded == \A r \in Requests : Reports(r) => RecordedOutcome(r)

\* An evaluation reports what its retrieval run records, unless attempts of the case
\* overlap: the one that fails after its search marks the run that is latest by then.
\* What is cited in a stored answer was found for it.
EvaluatedAsRecorded ==
    OutcomesRecorded /\ \A r \in Requests : Reports(r) => CitedAnswer(r)
=============================================================================
