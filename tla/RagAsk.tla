------------------------------- MODULE RagAsk -------------------------------
(* The search and ask requests of services/rag_service.py over one chat       *)
(* session, and those services/graph_rag_service.py takes to the knowledge    *)
(* graph, from the first transaction to the last, with the retrieval cache, a *)
(* corpus that changes, the archival and the deletion of the session          *)
(* (services/chat_service.py) and the row locks that make them wait. A        *)
(* request creates at most one retrieval run, so runs go by their request.    *)
EXTENDS ToolSearch, RetrievalCache

CONSTANTS
    Scenarios           \* what may happen together: [asks, texts, aloud, plans,
                        \* disturbances, rebuilds], the payloads [kind, mid, query, strategy,
                        \* filter, bypass] of the requests, the texts a generating model may
                        \* return, whether it thinks aloud, the calls a planning model may plan ({}: no model
                        \* plans) and how often the rest of the world interferes

\* The documents a request is limited to are documents (another id has no rows, like
\* that of an archived one).
ASSUME FiltersAssumption ==
    \A s \in Scenarios : \A i \in DOMAIN s.asks : s.asks[i].filter \subseteq Docs

VARIABLES
    asked,              \* the payloads of the requests of this behaviour
    outputs,            \* what its generator may answer
    plans,              \* and its planning model
    created,            \* the evaluated requests in the order of their runs
    session,            \* chat_sessions: "active", "archived" or "deleted"
    runs,               \* retrieval_runs with their items, graph paths, messages and citations
    req,                \* the requests: where each is and what it holds in memory
    deleter             \* the deletion of the session: [stage: "idle", "rows", "done"; cleared]

inputVars == <<asked, outputs, plans, created>>
askVars == <<inputVars, session, runs, deleter>>
vars == <<cacheVars, askVars, req, disturbances>>

Requests == DOMAIN asked

NoAnswer == [label |-> "none"]
NoPut == [key |-> NoKey]
NoAliases == [db |-> {}, neo |-> {}]
NoRun == [status |-> "none", strategy |-> "none", items |-> <<>>, paths |-> {}, answer |-> NoAnswer]

\* What a request holds before it begins and after it ended.
Resting(stage, reply) ==
    [stage |-> stage, strategy |-> "none", key |-> NoKey, offered |-> <<>>, starts |-> <<>>,
     settled |-> FALSE, aliased |-> NoAliases, attempts |-> <<>>, items |-> <<>>, paths |-> {},
     seen |-> {}, transient |-> FALSE, locked |-> FALSE, touched |-> FALSE, put |-> NoPut,
     lost |-> FALSE, loop |-> NewLoop, reply |-> reply]

AskInit ==
    /\ \E s \in Scenarios : /\ asked = s.asks
                            /\ outputs = {Output(text, s.aloud) : text \in s.texts}
                            /\ plans = s.plans
                            /\ disturbances = s.disturbances
                            /\ rebuilds = s.rebuilds
    /\ created = <<>>
    /\ session = "active"
    /\ runs = [r \in Requests |-> NoRun]
    /\ req = [r \in Requests |-> Resting("idle", NoAnswer)]
    /\ deleter = [stage |-> "idle", cleared |-> {}]

Init == CacheInit /\ AskInit

-----------------------------------------------------------------------------
(* Rows and their locks.                                                      *)

IsAsk(r) == asked[r].kind = "ask"
\* A question of an evaluation: what becomes of it is in EvaluatedQuestion.
Evaluated(r) == asked[r].kind \in {"evaluate", "measure"}
Exists(r) == runs[r].status \in {"running", "succeeded", "failed"}

\* Mutation: a failed request may be sent again under its message.
UnfailedRunsOfMessage(r) ==
    {s \in Requests : /\ IsAsk(s) /\ runs[s].status \in {"running", "succeeded"}
                      /\ asked[s].mid = asked[r].mid}

\* The run created for the message another request brings again.
RunsOfMessage(r) == {s \in Requests : IsAsk(s) /\ Exists(s) /\ asked[s].mid = asked[r].mid}

\* A transaction locks its run from its first item (the foreign key) or its
\* first update of the run (the summary of a graph search or of the cache) until
\* it ends.
HoldsRun(s) ==
    /\ Exists(s)
    /\ \/ req[s].stage = "answer"
       \/ req[s].locked
       \/ req[s].stage = "store" /\ req[s].items # <<>>

\* The session is locked FOR UPDATE by a duplicate that waits for the run of its
\* message and by a deletion that waits for all of them.
SessionLocked == deleter.stage = "rows" \/ \E r \in Requests : req[r].stage = "duplicate"

\* A hit or a put locks the row of its key until the transaction ends.
HoldsEntry(s, key) == \/ req[s].touched /\ req[s].key = key
                      \/ req[s].put.key = key
EntryFree(r, key) == \A s \in Requests \ {r} : ~HoldsEntry(s, key)

\* What the graph service takes on; the rest it hands to the other one.
GraphRequest(r) == \/ asked[r].strategy \in GraphStrategies
                   \/ asked[r].strategy = "agentic_router" /\ GraphRouted(asked[r].query)

\* The graph gave nothing.
FellBack(r) == GraphRequest(r) /\ req[r].strategy = GraphFallback

\* The router's other requests go round the agentic loop.
Agentic(r) == asked[r].strategy = "agentic_router" /\ ~GraphRequest(r)

\* What a run records at its end. A search of the graph that fell
\* back becomes one of the other strategy, also when its result was cached
\* (_sync_explicit_graph_base_fallback_run).
Recorded(r) ==
    IF FellBack(r) /\ asked[r].strategy \in GraphStrategies THEN GraphFallback ELSE asked[r].strategy

-----------------------------------------------------------------------------
(* How a transaction ends.                                                    *)

\* The put of a transaction that commits.
CommitPut(r) ==
    IF req[r].put = NoPut THEN UNCHANGED entries
    ELSE entries' = Stored(req[r].put.key, req[r].put.result)

End(r, reply) == req' = [req EXCEPT ![r] = Resting("done", reply)]
Refuse(r, code) == End(r, [label |-> code])

\* _mark_failed_safely after a rollback: items and put are gone, and so is the
\* run when the session was deleted.
FailRolledBack(r) ==
    /\ runs' = [runs EXCEPT ![r].status = IF @ = "running" THEN "failed" ELSE @]
    /\ Refuse(r, "error")
    /\ UNCHANGED cacheVars

\* _mark_failed_safely(rollback=False): what the transaction wrote is committed.
FailCommitted(r, items) ==
    /\ runs' = [runs EXCEPT ![r] = [status |-> "failed", strategy |-> Recorded(r), items |-> items,
                                    paths |-> req[r].paths, answer |-> NoAnswer]]
    /\ CommitPut(r)
    /\ Refuse(r, "error")
    /\ UNCHANGED corpusVars

-----------------------------------------------------------------------------
(* The first transaction.                                                     *)

\* What a client is told of an answer: the citations whose items are selected.
Answered(run) ==
    [run.answer EXCEPT !.cites = {x \in @ : \E i \in DOMAIN run.items :
                                     run.items[i].selected /\ run.items[i].chunk = x[2]}]

\* _classify_duplicate once the run of the message is not locked.
Classify(r, s) ==
    IF asked[s].query # asked[r].query THEN [label |-> "client_message_conflict"]
    ELSE CASE runs[s].status = "running"   -> [label |-> "request_in_progress"]
           [] runs[s].status = "failed"    -> [label |-> "conflict"]
           [] runs[s].status = "succeeded" -> Answered(runs[s])

Unavailable(r) ==
    /\ req[r].stage = "idle"
    /\ IsAsk(r)
    /\ ~SessionLocked
    /\ session # "active"
    /\ Refuse(r, IF session = "archived" THEN "archived_session_readonly" ELSE "not_found")
    /\ UNCHANGED <<cacheVars, askVars, disturbances>>

\* The message was sent before. With another text it is refused at once; else its
\* run is read FOR UPDATE, with the lock on the session held.
Duplicate(r) ==
    /\ req[r].stage = "idle"
    /\ IsAsk(r)
    /\ ~SessionLocked
    /\ session = "active"
    /\ \E s \in RunsOfMessage(r) :
          IF asked[s].query = asked[r].query /\ HoldsRun(s)
          THEN req' = [req EXCEPT ![r].stage = "duplicate"]
          ELSE End(r, Classify(r, s))
    /\ UNCHANGED <<cacheVars, askVars, disturbances>>

ResolveDuplicate(r) ==
    /\ req[r].stage = "duplicate"
    /\ \E s \in RunsOfMessage(r) : ~HoldsRun(s) /\ End(r, Classify(r, s))
    /\ UNCHANGED <<cacheVars, askVars, disturbances>>

ByTools(r) == asked[r].strategy \in ToolStrategies

ModelPlanned == plans # {}

\* Where a request may begin to search.
StartStrategies(r) ==
    IF asked[r].strategy # "agentic_router" THEN {asked[r].strategy}
    ELSE IF GraphRequest(r) THEN {GraphDefault}
    ELSE Routed(asked[r].query, ModelPlanned)

\* _evaluation_target_settings: evaluations have cache namespaces of their own.
Namespace(r) == IF Evaluated(r) THEN "evaluation" ELSE asked[r].kind

UsesCache(r) == ~asked[r].bypass /\ Cacheable(asked[r].strategy)

\* The run is created and committed. The key is built right afterwards, from a
\* corpus the first transaction does not read: a change in between is one before.
CreateRun(r) ==
    /\ runs' = [runs EXCEPT ![r] = [@ EXCEPT !.status = "running", !.strategy = asked[r].strategy]]
    /\ \E strategy \in StartStrategies(r) :
          req' = [req EXCEPT
           ![r].stage = IF UsesCache(r) THEN "lookup" ELSE IF ByTools(r) THEN "plan" ELSE "search",
           ![r].key = IF UsesCache(r) THEN CacheKey(Namespace(r), asked[r].query,
                                                    asked[r].strategy, asked[r].filter)
                      ELSE NoKey,
           ![r].strategy = strategy]
    /\ created' = IF Evaluated(r) THEN Append(created, r) ELSE created
    /\ UNCHANGED <<cacheVars, asked, outputs, plans, session, deleter, disturbances>>

\* A message is created with its run, under the lock of the session.
MayAppend(r) == IsAsk(r) /\ ~SessionLocked /\ session = "active" /\ RunsOfMessage(r) = {}

\* An evaluation asks its question with a search, unless a planner answers it.
BeginSearch(r) ==
    /\ req[r].stage = "idle"
    /\ ~IsAsk(r) /\ ~GraphRequest(r) /\ ~ByTools(r)
    /\ CreateRun(r)

BeginAsk(r) ==
    /\ req[r].stage = "idle"
    /\ MayAppend(r) /\ ~GraphRequest(r)
    /\ CreateRun(r)

BeginGraphSearch(r) ==
    /\ req[r].stage = "idle"
    /\ ~IsAsk(r) /\ GraphRequest(r)
    /\ CreateRun(r)

BeginGraphAsk(r) ==
    /\ req[r].stage = "idle"
    /\ MayAppend(r) /\ GraphRequest(r)
    /\ CreateRun(r)

-----------------------------------------------------------------------------
(* Retrieval: the cache, the indexes, the database.                           *)

Scope(r) == InScope(asked[r].filter, ActiveChunks)
RunGone(r) == runs[r].status = "deleted"

Lookup(r) ==
    /\ req[r].stage = "lookup"
    /\ EntryFree(r, req[r].key)
    /\ req' = [req EXCEPT ![r] =
          IF Hit(req[r].key)
          THEN [@ EXCEPT !.stage = "hydrate", !.touched = TRUE,
                         !.items = entries[req[r].key].items, !.paths = entries[req[r].key].paths]
          ELSE [@ EXCEPT !.stage = "search"]]
    /\ UNCHANGED <<cacheVars, askVars, disturbances>>

\* The savepoint of a lookup that raises is rolled back: a miss.
LookupFails(r) ==
    /\ req[r].stage = "lookup"
    /\ Disturb
    /\ req' = [req EXCEPT ![r].stage = "search"]
    /\ UNCHANGED <<cacheVars, askVars>>

\* Every cached chunk has to be served still; else, or when the items cannot be
\* saved because the run is gone, the search is done after all.
Hydrate(r) ==
    LET found == {req[r].items[i].chunk : i \in DOMAIN req[r].items}
    IN /\ req[r].stage = "hydrate"
       /\ req' = [req EXCEPT ![r] =
             IF found \subseteq Scope(r) /\ (found # {} => ~RunGone(r))
             THEN [req[r] EXCEPT !.stage = "answer", !.seen = found,
                                 !.strategy = IF entries[req[r].key].fellBack THEN GraphFallback ELSE @]
             ELSE [req[r] EXCEPT !.stage = "search", !.items = <<>>, !.paths = {}]]
       /\ UNCHANGED <<cacheVars, askVars, disturbances>>

ByGraph(r) == req[r].strategy \in GraphStrategies

\* What a request that may be cached searches in; after a graph search without
\* result, on both occasions.
Observed(r) ==
    LET settled == Settled(asked[r].strategy, asked[r].filter)
    IN IF req[r].key = NoKey THEN req[r]
       ELSE IF req[r].locked THEN [req[r] EXCEPT !.settled = @ /\ settled]
       ELSE [req[r] EXCEPT !.settled = settled, !.aliased = aliased]

\* The vector index, in place of which an evaluation looks at the rows of the
\* active versions (DatabaseVectorSearchClient).
VectorIndex(r) == IF Evaluated(r) THEN ActiveChunks ELSE indexed

Search(r) ==
    /\ req[r].stage = "search"
    /\ ~ByGraph(r)
    /\ req' = [req EXCEPT ![r] = [Observed(r) EXCEPT
          !.stage = "check",
          !.offered = Offered(IF ByTools(r) THEN req[r].loop.query ELSE asked[r].query,
                              req[r].strategy, InScope(asked[r].filter, VectorIndex(r)), Scope(r))]]
    /\ UNCHANGED <<cacheVars, askVars, disturbances>>

\* Embedding, an index, the database or the reranker fails.
RetrievalFails(r) ==
    /\ req[r].stage \in {"search", "check"}
    /\ Disturb
    /\ FailRolledBack(r)
    /\ UNCHANGED <<inputVars, session, deleter>>

-----------------------------------------------------------------------------
(* Retrieval over the graph.                                                  *)

\* A search that ran out of time before its last step keeps its result out of
\* the cache.
SearchDatabaseGraph(r) ==
    /\ req[r].stage = "search"
    /\ req[r].strategy = "graph_postgres"
    /\ \E steps \in 0..MaxDepth :
          /\ IF steps < MaxDepth THEN Disturb ELSE UNCHANGED disturbances
          /\ req' = [req EXCEPT ![r] = [Observed(r) EXCEPT
                !.stage = "check",
                !.transient = @ \/ steps < MaxDepth,
                !.offered = DatabaseCandidates(DatabaseView(asked[r].filter), asked[r].query, steps)]]
    /\ UNCHANGED <<cacheVars, askVars>>

SearchNeo4j(r) ==
    LET view == Neo4jView(asked[r].filter)
        starts == StartEntities(view, asked[r].query)
    IN /\ req[r].stage = "search"
       /\ req[r].strategy = "graph_neo4j"
       /\ req' = [req EXCEPT ![r] = [Observed(r) EXCEPT
             !.stage = "gap",
             !.starts = starts,
             !.offered = FoundPaths(view, asked[r].query, starts, MaxDepth)]]
       /\ UNCHANGED <<cacheVars, askVars, disturbances>>

\* Without a connection, or when the projection is seen to lack something, the
\* other store is asked; the result of that is not for the cache.
ToDatabaseGraph(r) ==
    req' = [req EXCEPT ![r] = [@ EXCEPT !.stage = "search", !.strategy = "graph_postgres",
                                        !.transient = TRUE, !.starts = <<>>, !.offered = <<>>]]

\* A query that fails is an empty answer, which is not for the cache either.
Neo4jFails(r) ==
    /\ \/ req[r].stage = "search" /\ req[r].strategy = "graph_neo4j"
       \/ req[r].stage = "gap"
    /\ Disturb
    /\ \/ ToDatabaseGraph(r)
       \/ req' = [req EXCEPT ![r] = [@ EXCEPT !.stage = "check", !.transient = TRUE,
                                              !.starts = <<>>, !.offered = <<>>,
                                              !.lost = Evaluated(r)]]
    /\ UNCHANGED <<cacheVars, askVars>>

\* What Neo4j knew is held against the database.
CheckProjection(r) ==
    /\ req[r].stage = "gap"
    /\ IF ProjectionGap(asked[r].filter) THEN ToDatabaseGraph(r)
       ELSE req' = [req EXCEPT ![r] = [@ EXCEPT
              !.stage = "check",
              !.starts = <<>>,
              !.offered = Neo4jCandidates(Neo4jView(asked[r].filter), asked[r].query,
                                          req[r].starts, req[r].offered, Scope(r))]]
    /\ UNCHANGED <<cacheVars, askVars, disturbances>>

\* What the graph offered, as far as the database still serves it.
Visible(r) == FirstN(FinalCheck(req[r].offered, Scope(r)), TopK)

\* The run, which gets the summary of the search, must still be there.
GraphWithoutRun(r) ==
    /\ req[r].stage = "check"
    /\ ByGraph(r)
    /\ RunGone(r)
    /\ Refuse(r, "error")
    /\ UNCHANGED <<cacheVars, askVars, disturbances>>

\* The chunks are saved with the paths that led to them.
CheckGraph(r) ==
    /\ req[r].stage = "check"
    /\ ByGraph(r)
    /\ ~RunGone(r)
    /\ Visible(r) # <<>>
    /\ req' = [req EXCEPT ![r] = [@ EXCEPT
          !.stage = "store",
          !.items = PlainItems(Visible(r), RerankTopN),
          !.paths = PathRecords(Visible(r)),
          !.seen = {Visible(r)[i].chunk : i \in DOMAIN Visible(r)},
          !.locked = TRUE,
          !.offered = <<>>]]
    /\ UNCHANGED <<cacheVars, askVars, disturbances>>

\* Without a chunk the request goes on like one that never asked the graph.
FallBack(r) ==
    /\ req[r].stage = "check"
    /\ ByGraph(r)
    /\ ~RunGone(r)
    /\ Visible(r) = <<>>
    /\ req' = [req EXCEPT ![r] = [@ EXCEPT
          !.stage = "search", !.strategy = GraphFallback, !.locked = TRUE, !.offered = <<>>]]
    /\ UNCHANGED <<cacheVars, askVars, disturbances>>

-----------------------------------------------------------------------------
(* What a search of the other indexes found is checked in the database.       *)

\* One of the attempts of the agentic loop, or the only one of a direct request.
Attempt(r) == [strategy |-> req[r].strategy,
               cands |-> Checked(asked[r].query, req[r].strategy, req[r].offered, Scope(r))]

Sighted(r, attempt) ==
    req[r].seen \cup {attempt.cands[i].chunk : i \in DOMAIN attempt.cands}

\* The items are ranked and saved, which fails when the run is gone.
CheckDirect(r) ==
    LET attempt == Attempt(r)
        items == DirectItems(asked[r].query, attempt.strategy, attempt.cands)
    IN /\ req[r].stage = "check"
       /\ ~ByGraph(r) /\ ~ByTools(r) /\ ~Agentic(r)
       /\ IF RunGone(r) /\ items # <<>> THEN Refuse(r, "error")
          ELSE req' = [req EXCEPT ![r] = [@ EXCEPT
                  !.stage = "store", !.items = items, !.seen = Sighted(r, attempt),
                  !.offered = <<>>]]
       /\ UNCHANGED <<cacheVars, askVars, disturbances>>

\* The agentic loop goes round again, or ranks the items of all its attempts and
\* saves them. It writes its trace to the run, which locks it.
CheckAgentic(r) ==
    LET q == asked[r].query
        attempts == Append(req[r].attempts, Attempt(r))
        seen == Sighted(r, Attempt(r))
        again(fallback) ==
            req' = [req EXCEPT ![r] = [@ EXCEPT
                !.stage = "search", !.strategy = fallback, !.attempts = attempts,
                !.seen = seen, !.offered = <<>>]]
        settle ==
            IF RunGone(r) THEN Refuse(r, "error")
            ELSE req' = [req EXCEPT ![r] = [@ EXCEPT
                    !.stage = "store", !.items = AgenticItems(q, attempts), !.seen = seen,
                    !.locked = TRUE, !.attempts = <<>>, !.offered = <<>>]]
    IN /\ req[r].stage = "check"
       /\ ~ByGraph(r) /\ Agentic(r)
       /\ IF ~MoreAttempts(q, attempts) THEN settle
          ELSE \E fallback \in NextFallbacks(attempts, ModelPlanned) :
                  IF fallback = NoFallback THEN settle ELSE again(fallback)
       /\ UNCHANGED <<cacheVars, askVars, disturbances>>

-----------------------------------------------------------------------------
(* Retrieval by tools.                                                        *)

\* The planner is asked.
PlanCalls(r) ==
    LET loop == req[r].loop
    IN /\ req[r].stage = "plan"
       /\ loop.todo = <<>> /\ ~Over(loop)
       /\ \E plan \in NextPlans(asked[r].strategy, asked[r].query, loop, plans) :
             req' = [req EXCEPT ![r].loop.todo = plan]
       /\ UNCHANGED <<cacheVars, askVars, disturbances>>

CallSearch(r) ==
    LET loop == req[r].loop
    IN /\ req[r].stage = "plan"
       /\ SearchDue(loop)
       /\ req' = [req EXCEPT ![r] = [@ EXCEPT
             !.stage = "search", !.strategy = Head(loop.todo).tool, !.loop = SearchStarted(loop)]]
       /\ UNCHANGED <<cacheVars, askVars, disturbances>>

CallOther(r) ==
    /\ req[r].stage = "plan"
    /\ req[r].loop.todo # <<>>
    /\ ~SearchDue(req[r].loop)
    /\ req' = [req EXCEPT ![r].loop = OtherCall(@)]
    /\ UNCHANGED <<cacheVars, askVars, disturbances>>

\* The time of the loop is up, which is noticed before and after planning and, by
\* the LLM tool orchestrator, before a search.
TimesOut(r) ==
    LET loop == req[r].loop
    IN /\ req[r].stage = "plan"
       /\ ~Over(loop)
       /\ loop.todo = <<>> \/ (asked[r].strategy = "llm_tools" /\ SearchDue(loop))
       /\ Disturb
       /\ req' = [req EXCEPT ![r].loop = [@ EXCEPT !.status = "timeout", !.todo = <<>>]]
       /\ UNCHANGED <<cacheVars, askVars>>

\* The candidates are checked and compressed to what the planner is shown.
CheckTool(r) ==
    LET query == req[r].loop.query
        cands == Checked(query, req[r].strategy, req[r].offered, Scope(r))
    IN /\ req[r].stage = "check"
       /\ ByTools(r)
       /\ req' = [req EXCEPT ![r] = [req[r] EXCEPT
             !.stage = "plan", !.offered = <<>>,
             !.seen = @ \cup {cands[i].chunk : i \in DOMAIN cands},
             !.loop = Received(@, req[r].strategy, cands, FinalCheck(req[r].offered, Scope(r)))]]
       /\ UNCHANGED <<cacheVars, askVars, disturbances>>

\* What the loop hands on is ranked and saved, its trace written to the run.
FinishLoop(r) ==
    /\ req[r].stage = "plan"
    /\ Over(req[r].loop)
    /\ IF RunGone(r) THEN Refuse(r, "error")
       ELSE req' = [req EXCEPT ![r] = [@ EXCEPT
              !.stage = "store", !.locked = TRUE,
              !.items = MergedItems(asked[r].query, Attempts(req[r].loop))]]
    /\ UNCHANGED <<cacheVars, askVars, disturbances>>

FinishLlmTools(r)  == asked[r].strategy = "llm_tools" /\ FinishLoop(r)
FinishLangChain(r) == asked[r].strategy = "langchain" /\ FinishLoop(r)
FinishLangGraph(r) == asked[r].strategy = "langgraph" /\ FinishLoop(r)

-----------------------------------------------------------------------------
\* The entries a store writes or prunes.
WillPut(r) == req[r].key # NoKey /\ ~req[r].transient
StoredKeys(r) == {req[r].key} \cup {k \in DOMAIN entries : ~entries[k].fresh}

\* What is put: the paths are those the database has for the run.
Payload(r) ==
    [items |-> req[r].items, paths |-> req[r].paths, fresh |-> TRUE, fellBack |-> FellBack(r),
     settled |-> req[r].settled, aliased |-> req[r].aliased]

\* The result is put under the key built before the search; the put, and the
\* pruning of expired entries, take effect with the commit. The cache summary is
\* written to the run.
Store(r) ==
    /\ req[r].stage = "store"
    /\ WillPut(r) => \A k \in StoredKeys(r) : EntryFree(r, k)
    /\ req' = [req EXCEPT ![r].stage = "answer",
                          ![r].put = IF WillPut(r) THEN [key |-> req[r].key, result |-> Payload(r)]
                                     ELSE NoPut]
    /\ UNCHANGED <<cacheVars, askVars, disturbances>>

\* Another transaction inserted the key while this one waited to.
StoreFails(r) ==
    /\ req[r].stage = "store"
    /\ WillPut(r)
    /\ req[r].key \in DOMAIN entries
    /\ \A k \in StoredKeys(r) : EntryFree(r, k)
    /\ req' = [req EXCEPT ![r].stage = "answer"]
    /\ UNCHANGED <<cacheVars, askVars, disturbances>>

Found(r) == [runs[r] EXCEPT !.status = "succeeded", !.strategy = Recorded(r),
                            !.items = req[r].items, !.paths = req[r].paths]

EndSearch(r) ==
    /\ req[r].stage = "answer"
    /\ asked[r].kind = "search"
    /\ runs' = [runs EXCEPT ![r] = Found(r)]
    /\ CommitPut(r)
    /\ Refuse(r, "found")
    /\ UNCHANGED <<corpusVars, inputVars, session, deleter, disturbances>>

FinishSearch(r) == ~GraphRequest(r) /\ EndSearch(r)
FinishGraphSearch(r) == GraphRequest(r) /\ EndSearch(r)

-----------------------------------------------------------------------------
(* The answer.                                                                *)

NothingSelected(items) == \A i \in DOMAIN items : ~items[i].selected

Budgeted(r) == ApplyBudget(req[r].items, IF NothingSelected(req[r].items) THEN 0
                                         ELSE MinCitationCandidates)

\* The run was deleted under a request that had no item to save.
AskWithoutRun(r) ==
    /\ req[r].stage = "answer"
    /\ IsAsk(r)
    /\ RunGone(r)
    /\ FailRolledBack(r)
    /\ UNCHANGED <<inputVars, session, deleter, disturbances>>

\* The sources a generator is given.
Sources(r) == EvidencePack(Budgeted(r))

\* What is left of the items next to a context, if there is one.
Contexts(r) ==
    {[pack |-> pack, items |-> FinalSelection(Budgeted(r), pack)] : pack \in {Sources(r)} \ {<<>>}}

NoContext(r) ==
    /\ req[r].stage = "answer"
    /\ IsAsk(r)
    /\ ~RunGone(r)
    /\ Sources(r) = <<>>
    /\ FailCommitted(r, Budgeted(r))
    /\ UNCHANGED <<inputVars, session, deleter, disturbances>>

NoContextFound(r) == ~GraphRequest(r) /\ NoContext(r)
NoGraphContextFound(r) == GraphRequest(r) /\ NoContext(r)

\* The answers an output may become, none when it is refused.
Answers(r, output, afterRetry, items, pack) ==
    LET checked == Validated(output, pack, afterRetry)
        cites == Citations(checked.markers, pack)
    IN IF output.kind = "failed" \/ ~checked.ok THEN NoAnswer
       ELSE [markers |-> checked.markers, cites |-> cites, said |-> output.said, seen |-> req[r].seen,
             label |-> ConfidenceLabel(items, checked, Cardinality(cites))]

\* What is heard of the generator: it is asked, and asked again when it gave up on
\* good sources; a second call that fails leaves the first output.
Heard(items) ==
    UNION {IF ShouldRetry(first, items)
           THEN {[output |-> IF second.kind = "failed" THEN first ELSE second,
                  again |-> second.kind # "failed"] : second \in outputs}
           ELSE {[output |-> first, again |-> FALSE]} : first \in outputs}

Generated(r, context) ==
    {Answers(r, heard.output, heard.again, context.items, context.pack) : heard \in Heard(context.items)}

\* Generation and its checks only read what the request holds. Then message
\* (which needs the session), citations, confidence and run are written, in the
\* transaction that has held the items since they were saved. Whether the
\* session was archived meanwhile is not asked again.
WriteAnswer(r) ==
    /\ req[r].stage = "answer"
    /\ IsAsk(r)
    /\ ~RunGone(r)
    /\ \E context \in Contexts(r) : \E answer \in Generated(r, context) :
          LET run == [status |-> "succeeded", strategy |-> Recorded(r), items |-> context.items,
                      paths |-> req[r].paths, answer |-> answer]
          IN IF answer = NoAnswer THEN FailCommitted(r, context.items)
             ELSE /\ ~SessionLocked
                  /\ runs' = [runs EXCEPT ![r] = run]
                  /\ CommitPut(r)
                  /\ End(r, Answered(run))
                  /\ UNCHANGED corpusVars
    /\ UNCHANGED <<inputVars, session, deleter, disturbances>>

Answer(r) == ~GraphRequest(r) /\ WriteAnswer(r)
GraphAnswer(r) == GraphRequest(r) /\ WriteAnswer(r)

\* The process dies: its transaction is rolled back, the run stays running.
Crash(r) ==
    /\ req[r].stage \notin {"idle", "done"}
    /\ Disturb
    /\ Refuse(r, "crashed")
    /\ UNCHANGED <<cacheVars, askVars>>

-----------------------------------------------------------------------------
(* The session, and what happens when everyone waits.                         *)

ArchiveSession ==
    /\ session = "active"
    /\ ~SessionLocked
    /\ Disturb
    /\ session' = "archived"
    /\ UNCHANGED <<cacheVars, inputVars, runs, req, deleter>>

\* delete_session locks the session and deletes the committed citations and items
\* (bound: one deletion, which may fail).
BeginDelete ==
    /\ deleter.stage = "idle"
    /\ session # "deleted"
    /\ ~SessionLocked
    /\ deleter' = [stage |-> "rows", cleared |-> {r \in Requests : runs[r].items # <<>>}]
    /\ Disturb
    /\ UNCHANGED <<cacheVars, inputVars, session, runs, req>>

\* Runs, messages and session follow once no run is locked (the rows are locked
\* one by one; here the deletion waits until it can have all of them). A run that has got
\* items since (no_context_found commits them) cannot be deleted: the foreign
\* key of its items fails the whole deletion.
FinishDelete ==
    LET asks == {r \in Requests : IsAsk(r) /\ Exists(r)}
    IN /\ deleter.stage = "rows"
       /\ \A r \in asks : ~HoldsRun(r)
       /\ IF \A r \in asks : runs[r].items # <<>> => r \in deleter.cleared
          THEN /\ runs' = [r \in Requests |->
                             IF r \in asks THEN [NoRun EXCEPT !.status = "deleted"] ELSE runs[r]]
               /\ session' = "deleted"
          ELSE UNCHANGED <<runs, session>>
       /\ deleter' = [stage |-> "done", cleared |-> {}]
       /\ UNCHANGED <<cacheVars, inputVars, req, disturbances>>

\* Who waits for whom, the deletion being a process of its own.
Deletion == 0

ASSUME DeletionAssumption == \A s \in Scenarios : Deletion \notin DOMAIN s.asks

WaitsFor(p, h) ==
    \/ /\ p # Deletion /\ h # Deletion
       /\ req[p].stage = "store" /\ WillPut(p)
       /\ \E k \in StoredKeys(p) : HoldsEntry(h, k)
    \/ /\ p # Deletion
       /\ req[p].stage = "answer" /\ IsAsk(p)
       /\ IF h = Deletion THEN deleter.stage = "rows" ELSE req[h].stage = "duplicate"
    \/ /\ h # Deletion
       /\ HoldsRun(h)
       /\ IF p = Deletion THEN deleter.stage = "rows"
          ELSE req[p].stage = "duplicate" /\ h \in RunsOfMessage(p)

\* A process waits, through others, for itself.
InCycle(p) ==
    LET P == Requests \cup {Deletion}
    IN \/ \E h \in P \ {p} : WaitsFor(p, h) /\ WaitsFor(h, p)
       \/ \E h, g \in P \ {p} : h # g /\ WaitsFor(p, h) /\ WaitsFor(h, g) /\ WaitsFor(g, p)

\* PostgreSQL fails the statement of one process of a cycle: a store of the cache
\* goes on without its put, an answer is lost, a duplicate and a deletion fail.
DeadlockVictim(p) ==
    /\ InCycle(p)
    /\ IF p = Deletion
       THEN /\ deleter' = [stage |-> "done", cleared |-> {}]
            /\ UNCHANGED <<cacheVars, runs, req>>
       ELSE /\ \/ /\ req[p].stage = "store"
                  /\ req' = [req EXCEPT ![p].stage = "answer"]
                  /\ UNCHANGED <<cacheVars, runs>>
               \/ req[p].stage = "answer" /\ FailRolledBack(p)
               \/ /\ req[p].stage = "duplicate"
                  /\ Refuse(p, "error")
                  /\ UNCHANGED <<cacheVars, runs>>
            /\ UNCHANGED deleter
    /\ UNCHANGED <<inputVars, session, disturbances>>

Done ==
    /\ \A r \in Requests : req[r].stage = "done"
    /\ UNCHANGED vars

Step(r) ==
    \/ Unavailable(r) \/ Duplicate(r) \/ ResolveDuplicate(r)
    \/ BeginSearch(r) \/ BeginAsk(r) \/ BeginGraphSearch(r) \/ BeginGraphAsk(r)
    \/ Lookup(r) \/ LookupFails(r) \/ Hydrate(r)
    \/ Search(r) \/ RetrievalFails(r) \/ CheckDirect(r) \/ CheckAgentic(r)
    \/ PlanCalls(r) \/ CallSearch(r) \/ CallOther(r) \/ TimesOut(r) \/ CheckTool(r)
    \/ FinishLlmTools(r) \/ FinishLangChain(r) \/ FinishLangGraph(r)
    \/ SearchDatabaseGraph(r) \/ SearchNeo4j(r) \/ Neo4jFails(r) \/ CheckProjection(r)
    \/ GraphWithoutRun(r) \/ CheckGraph(r) \/ FallBack(r)
    \/ Store(r) \/ StoreFails(r)
    \/ FinishSearch(r) \/ FinishGraphSearch(r) \/ AskWithoutRun(r)
    \/ NoContextFound(r) \/ NoGraphContextFound(r) \/ Answer(r) \/ GraphAnswer(r)
    \/ Crash(r)

Next ==
    \/ \E r \in Requests : Step(r)
    \/ ((CorpusStep /\ UNCHANGED entries) \/ ExpireEntry) /\ UNCHANGED <<askVars, req>>
    \/ ArchiveSession \/ BeginDelete \/ FinishDelete
    \/ \E p \in Requests \cup {Deletion} : DeadlockVictim(p)
    \/ Done

Spec == Init /\ [][Next]_vars

-----------------------------------------------------------------------------
(* Properties.                                                                *)

Stages == {"idle", "duplicate", "lookup", "hydrate", "plan", "search", "gap", "check", "store",
           "answer", "load", "done"}
Labels == {"High", "Medium", "Low"}

\* Values the columns and the requests may hold; only asks have answers with a
\* confidence, and only asks of a deleted session lose their run.
TypeOK ==
    /\ session \in {"active", "archived", "deleted"}
    /\ deleter.stage \in {"idle", "rows", "done"}
    /\ \A d \in Docs : active[d] = Archived \/ DocOf[active[d]] = d
    /\ indexed \subseteq Chunks
    /\ \A c \in Chunks : c \in graphs => builds[c] > 0
    /\ \A r \in Requests :
          /\ req[r].stage \in Stages
          /\ runs[r].status \in {"none", "running", "succeeded", "failed", "deleted"}
          /\ runs[r].status = "deleted" => IsAsk(r)
          /\ runs[r].answer # NoAnswer => runs[r].answer.label \in (IF IsAsk(r) THEN Labels
                                                                  ELSE {"answered"})

HasAnswer(reply) == reply.label \in Labels

\* A conversation is consistent in spite of retries of a message, failures and a
\* deletion at any moment: a message has one run, a request that ended otherwise
\* than by the death of its process, or an error nobody expects, left its run
\* finished, exactly the succeeded runs have an answer, a replay tells what the
\* first reply told, and nothing is left of a deleted session.
ConversationConsistent ==
    /\ \A r, s \in Requests :
          IsAsk(r) /\ IsAsk(s) /\ Exists(r) /\ Exists(s) /\ asked[r].mid = asked[s].mid => r = s
    /\ \A r \in Requests :
          /\ req[r].stage = "done" /\ runs[r].status = "running" => req[r].reply.label \in {"crashed", "raised"}
          /\ IsAsk(r) => (runs[r].status = "succeeded" <=> runs[r].answer # NoAnswer)
          /\ HasAnswer(req[r].reply) =>
                \A s \in RunsOfMessage(r) : /\ runs[s].status = "succeeded"
                                            /\ req[r].reply = Answered(runs[s])
    /\ session = "deleted" =>
          \A r \in Requests : IsAsk(r) => ~Exists(r) /\ runs[r].items = <<>> /\ runs[r].paths = {}

\* Consecutive relations join consecutive entities, none twice.
PathOfRelations(path) ==
    /\ \A k \in DOMAIN path.relations :
          Ends(path.relations[k]) = {path.entities[k], path.entities[k + 1]}
    /\ \A k, l \in DOMAIN path.entities : path.entities[k] = path.entities[l] => k = l
    /\ Len(path.relations) = Len(path.entities) - 1 /\ Len(path.relations) <= MaxDepth

\* A stored answer stands on what was retrieved for it: every number in its text
\* is a citation the client is shown, of one chunk that the database served when
\* it was checked and that lies in the filter, and all of them but one, of the first
\* source, are numbers the model wrote; the context had no duplicate text,
\* fits the budget, and a label above Low has the support of a score. Its graph
\* paths lead along relations without a loop, to items that are among its own and
\* that one of the relations, or a mention of the entity, was found in. A run that
\* was to search the graph and has none tells the strategy that found its items.
GroundedAnswers ==
    \A r \in Requests : IsAsk(r) /\ runs[r].status = "succeeded" =>
        LET run == runs[r]
            shown == {i \in DOMAIN run.items : run.items[i].selected}
            cited == Answered(run).cites
        IN /\ run.answer.markers # <<>>
           /\ {x[1] : x \in cited} = ToSet(run.answer.markers)
           /\ \A x, y \in cited : x[1] = y[1] <=> x[2] = y[2]
           /\ Cardinality({x[1] : x \in cited} \ run.answer.said) <= 1
           /\ \A i \in shown : /\ run.items[i].chunk \in run.answer.seen
                               /\ asked[r].filter # {} => DocOf[run.items[i].chunk] \in asked[r].filter
           /\ \A i, j \in shown : Text[run.items[i].chunk] = Text[run.items[j].chunk] => i = j
           /\ Cardinality(shown) <= MaxContextItems
           /\ FoldLeft(LAMBDA n, k : IF k.selected THEN n + Len(Text[k.chunk]) ELSE n, 0, run.items)
                <= MaxContextTokens - ReserveAnswerTokens
           /\ run.answer.label # "Low" => \E i \in shown : run.items[i].score >= MediumSupport
                                                        \/ run.items[i].rerank >= MediumSupport
           /\ asked[r].strategy \in GraphStrategies =>
                 (run.strategy = asked[r].strategy <=> run.paths # {})
           /\ \A path \in run.paths :
                 LET sources == {Relations[path.relations[k]].chunk : k \in DOMAIN path.relations}
                     mentions == {c \in Chunks : path.entities[1] \in Mentions[c]}
                 IN /\ PathOfRelations(path)
                    /\ path.chunks # {}
                    /\ path.chunks \subseteq {run.items[i].chunk : i \in DOMAIN run.items}
                    /\ path.chunks \subseteq (IF sources = {} THEN mentions ELSE sources)

\* However a retrieval by tools goes on and ends, by its planner, a repeated
\* search, the last call or its time: it stays within its budgets, makes no search
\* twice, hands on nothing it did not show its planner, and nothing is lost that it
\* showed: there are items, one of them the best of what was chosen, unless the
\* planner chose nothing of it (tool_result_compression_orchestrator_guard.md).
ToolEvidenceUsed ==
    \A r \in Requests : ByTools(r) =>
        LET loop == req[r].loop
            shown == [k \in Indices(loop) |-> ToSet(loop.results[k].cands)]
            handed == {k \in Indices(loop) : loop.status = "finalized" =>
                                              loop.results[k].call \in loop.chosen}
            best == UNION {shown[k] : k \in handed}
            items == req[r].items
        IN /\ Len(loop.results) <= SearchLimit
           /\ \A k, l \in Indices(loop) :
                 /\ loop.results[k].strategy = loop.results[l].strategy
                 /\ loop.results[k].query = loop.results[l].query
                 => k = l
           /\ FoldLeft(LAMBDA n, result : n + Len(result.cands), 0, loop.results) <= MaxToolItems
           /\ FoldLeft(LAMBDA n, result : FoldLeft(LAMBDA m, k :
                    m + Len(FirstN(Text[k.chunk], MaxSnippetWords)), n, result.cands),
                        0, loop.results) <= MaxToolTokens
           /\ req[r].stage \in {"store", "answer"} =>
                 /\ \A i \in DOMAIN items : \E k \in best : k.chunk = items[i].chunk
                 /\ (plans = {} \/ loop.status # "finalized") =>
                       (items # <<>> <=> \E k \in Indices(loop) : shown[k] # {})
                 /\ \A k \in best : \E i \in DOMAIN items : items[i].score >= k.score
                 /\ items # <<>> => \E i \in DOMAIN items : items[i].selected

\* A result the budget did not cut lacks only texts that it shows already
\* (exact_duplicate_removed).
OnlyDuplicatesDropped ==
    \A r \in Requests : \A k \in Indices(req[r].loop) :
        LET result == req[r].loop.results[k]
        IN ~result.exhausted =>
              \A c \in result.found : \E shown \in ToSet(result.cands) : Text[shown.chunk] = Text[c]
=============================================================================
