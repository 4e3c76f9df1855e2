# RAGProject: a TLA+ verification project

RAGProject is a retrieval-augmented question-answering service (FastAPI,
PostgreSQL, Qdrant, Neo4j, background workers). These modules model the parts of
the backend in which independent processes share state: the job table and its
workers, the library of documents, the jobs that keep the vector index, the
knowledge graph and the database in agreement, the evaluation of the service, and
the requests that retrieve and answer while documents change under them; and the
pure computations whose results those parts rely on. Paths below are relative to
`src/backend/app`.

## The system

| component | state it keeps | operations | what makes it hard |
|---|---|---|---|
| job table (`repositories/job_repository.py`) | rows of `jobs`: status, owner, lease, retry lineage | create, acquire, renew, succeed, fail, cancel, retry | several workers and requests on the same rows, leases that run out under a live owner |
| worker (`workers/worker_main.py`) | a batch of contexts, a heartbeat thread | poll, execute, renew, store the result, stop | crash anywhere; a heartbeat that outlives its context; a batch tail without heartbeat |
| retry service (`services/job_service.py`) | row lock of the failed job | check, count, insert | two requests for two jobs of one lineage share no lock |
| extraction and chunking (`ingest/`) | none of its own | read a workbook, a slide deck, a web page; cut, embed in batches | limits that end in the middle of a sheet, merged and missing cells, nesting, windows that overlap |
| document ingest (`workers/handlers/document_ingest_handler.py`) | `document_versions`, `document_chunks`, points in Qdrant | prepare, clean up, extract, store, index, mark ready, fail | no transaction spans PostgreSQL and Qdrant; archive, approve and sweep in between |
| document service and storage (`services/document_service.py`, `storage/`) | documents, versions, files, active version | upload, new version, page from a URL, approve, archive, retry, list, compare | a file and rows without a common transaction; requests for one document |
| URL fetch (`services/url_fetch_service.py`) | none of its own | check, resolve, connect, follow redirects | name servers and web servers answer differently each time |
| payload mirror (`workers/handlers/qdrant_mirror_update_handler.py`) | payload of the points | read snapshot, write per version | snapshot is stale by the time it is written |
| consistency sweep (`workers/handlers/qdrant_consistency_sweep_handler.py`) | none of its own | scroll, compare, delete or hide | reads Qdrant, then PostgreSQL, then writes Qdrant |
| graph build (`services/graph_index_service.py`, `graph/`, `services/neo4j_projection_service.py`) | `graph_index_runs`, entities, mentions, relations, their copy in Neo4j | queue, prepare, extract, persist, project, fail | several builds of a version, entities shared by all versions, advisory locks, a second store |
| evaluation corpus (`services/evaluation_corpus_service.py`) | sources, their documents, expected documents of cases | prepare, compute readiness, activate | a request of many transactions, a file and rows, users who change the documents |
| evaluation run (`services/evaluation_service.py`) | run, items, judgments, reviews, promoted cases | check, create, run case by case, review, promote | attempts that overlap, a cache shared by cold and warm calls, promotions at the same time |
| metrics and comparison (`evaluation/metrics.py`, `services/evaluation_service.py`) | none of its own | measure, summarise, group, compare two runs | cases that were skipped or failed, metrics without a value, the same numbers told in several places |
| evaluated question (`evaluation/rag_service.py`) | retrieval runs of an evaluation | retrieve, answer, mark the failure | a run found again by its request id, several attempts per id |
| retrieval (`rag/`, `services/rag_service.py`) | none of its own | rank, fuse, rerank, route, loop | the index lags behind the database |
| retrieval by tools (`rag/llm_orchestrator.py`, `rag/langchain_agentic.py`, `rag/langgraph_agentic.py`, `rag/tool_result_compression.py`) | calls, results and budgets of a loop | plan, search, compress, finalize | a planner that may ask for anything, many ways to end, budgets shared by the calls |
| graph retrieval (`rag/graph_retrieval.py`, `services/graph_rag_service.py`) | paths of a run | match entities, expand, list mentions, check the projection, fall back | two stores that differ, timeouts, a search and two later checks of its result |
| retrieval cache (`rag/retrieval_cache.py`) | `retrieval_cache_entries` | look up, hydrate, store, expire | a key computed before the search, stored after it; requests wait for the same key |
| ask and chat (`services/rag_service.py`, `services/chat_service.py`, `rag/generation.py`) | session, messages, runs, items, citations | ask, replay a message, repair the model's text, archive, delete | one message sent twice, deletion under a running ask, deadlocks, texts that cite what they please |
| sessions and sign-in, MCP, HTTP | see `PROJECT.json` | | not modelled, see below |

Interactions. Requests and handlers create jobs in the transaction of the
change that needs them. Workers acquire jobs in batches and call one handler per
job type; handlers call `assert_ownership` at the points they regard as
critical. Handlers write PostgreSQL and Qdrant separately. Search filters on the
payload in Qdrant and checks its candidates against PostgreSQL.

## Modules

| module | models | composed with |
|---|---|---|
| `JobLifecycle` | what the job table promises: numbered attempts, one completion by the latest attempt, finished is final, one active job per lineage | abstract specification |
| `JobQueue` | job table, workers, heartbeats, retries | implements `JobLifecycle` (`status`/`retryOf` for `phase`/`origin`) |
| `Chunking`, `TextExtraction` | from a document to pages, from pages to chunks and batches (operators) | instance together with `DocumentIngest` |
| `DocumentIngest` | the ingest of one version with its chunks and points, approve, archive, retry, orphan deletion of the sweep | its attempts are the acquisitions of `JobQueue`, whose fencing theorem justifies `IsOwner` |
| `UrlFetch` | the fetch of a page | part of `DocumentLibrary` |
| `VersionDiff` | the comparison of two versions (operators) | part of `DocumentLibrary` |
| `DocumentLibrary` | uploads, versions, files, approvals, archivals and retries of the requests | extends `UrlFetch` and `VersionDiff`; an ingest is here what its transactions do to the rows of its version and job |
| `IndexMirror` | one document with several versions: approve, archive, mirror jobs, the hiding part of the sweep | its jobs are jobs of `JobQueue` |
| `GraphExtraction` | what a build extracts: grounding of a model's answer, the rules, the fallback between them (operators) | used by `GraphIndexBuild` |
| `GraphIndexBuild` | build jobs, runs, locks, the swap of a version's graph, the projection | its jobs are jobs of `JobQueue` |
| `EvaluationCorpus` | preparing the documents of a dataset, their ingest, users | part of `EvaluationRun` |
| `EvaluationRun` | creating and executing a run, reviews, promotion of failures | extends `EvaluationCorpus` |
| `EvaluationMetrics` | what a case measures (operators) | base of the next |
| `EvaluationReport` | summaries and comparisons of the stored items of two runs | extends `EvaluationMetrics` |
| `Ranking` | dense, sparse and hybrid search, reranking, routing, the agentic loop (operators) | base of those below |
| `AnswerText` | what is taken of the text a model returns (operators) | |
| `ContextSelection` | context budget, evidence pack, validation and citations of an answer, confidence (operators) | extends `Ranking` and `AnswerText` |
| `ToolSearch` | planners, calls and the compression of results in a loop of search tools (operators) | extends `ContextSelection` |
| `Corpus` | documents, payloads, graphs and their projection, as they change under a request | extends `Ranking` |
| `GraphRetrieval` | from a query over the graph of a store to ranked chunks and paths (operators) | extends `Corpus` |
| `RetrievalCache` | the cache and what its keys name | extends `GraphRetrieval` |
| `RagAsk` | search and ask requests of a chat session, its archival and deletion | extends `ToolSearch` and `RetrievalCache` |
| `EvaluatedQuestion` | the questions an evaluation asks, next to those requests | extends `RagAsk` |
| `Listing` | the numbers of a set in order (operator) | used by `EvaluationMetrics` and `NumberLemmas` |
| `NumberLemmas` | what several proofs need of numbers, finite sets and sums | |
| `JobQueueProofs`, `DocumentIngestProofs`, `DocumentLibraryProofs`, `GraphIndexBuildProofs`, `IndexMirrorProofs`, `EvaluationRunProofs` | theorems about the module of that name | |
| `RagAskProofs` | theorems about `RagAsk` with `RetrievalCache` and `EvaluatedQuestion` | extends `EvaluatedQuestion` |
| `MCJobQueue`, `MCDocumentIngest`, `MCText`, `MCDocuments`, `MCIndexMirror`, `MCGraphIndexBuild`, `MCEvaluation`, `MCRagAsk` | instances for TLC | |

### JobQueue

One action is one transaction, with two exceptions where the order of
statements matters. `acquire_jobs` is a locking `SELECT` (`AcquireSelect`) and
the updates with the commit (`AcquireCommit`); in between the rows are locked,
other updates wait (`~RowLocked`) and other workers skip them. `retry_job` is
`RetryCheck`, `RetryCountRead` and `RetryInsert`/`RetryRefused`, because only the
partial unique index orders two requests of one lineage.

Time is the state of a lease. `LeaseExpires` may happen at any moment; it counts
as a fault only when a heartbeat attends the job, which is what a stalled
process looks like. A renewal does not look at the clock, as in the code.
Heartbeats end on a lost lease or any error, and the thread may outlive
`join(timeout)` (`stray`, `StrayRenewal`). `EndWorker` covers SIGTERM, crashes
and exceptions that escape `run_loop`. A restarted process gets a new instance
id, hence a new element of `Workers`.

`attempt`, `doneBy` and the attempt in a context are ghosts that number the
acquisitions; the code has only `locked_by`. That `locked_by` is nevertheless
enough is the property `OwnershipMeansLatestAttempt`. `MarkCanceled` is an
operation of the repository that no service calls at this commit.

### Chunking and TextExtraction

Pure operators. A word of a document is a tuple that names its place: sheet, row
and column of a cell, slide and position of a text, heading and position on a web
page. The readers turn a document into pages with what they know of their place,
and `Chunking` cuts the pages into windows of words; `ChunksTellTheirPlace` asks of
every chunk whether the place it reports (page, section, table, rows, columns) is
that of its words, whether no word was lost that the limits leave room for, and
whether the batches of embeddings keep the order. Cell types, styles, markup below
the block level and the normalisation of text are abstracted away.

### DocumentIngest

A process is an attempt of the job or of one of its retries. Every transaction
and every Qdrant call of the handler is one action; `pc` names the next one.
`assert_ownership` inside a transaction that has locked the version is part of
that action, since taking the job away commutes with the rest of it. The
clean-up of old chunk rows holds no such lock, so its check and its `DELETE` are
separate. The constant `Faults` selects what may go wrong:
`crash`, `zombie` (a lease is taken from an attempt that still runs), `qdrant`
(a call fails, before or after taking effect), `content`, `db`, `commit` (a
commit takes effect and reports an error).

### DocumentLibrary, UrlFetch and VersionDiff

An upload is `UploadDocument` (the checks of `storage/validators.py`, then the rows
in an open transaction), `SaveFile`, `CommitUpload`, and where one of them fails
the deletion of the file. A new version holds the lock of its document from its
first statement to its commit (`locked`); a new document is nobody else's until
then. A file whose writing fails midway stays as a `partial` one; a commit that
takes effect and reports an error leaves a version whose file is deleted
(`unsure`), which `FilesKept` excepts by name. `announced` collects the jobs that
approvals, archivals and ingests create: a mirror job always, graph jobs only where
`graph_indexing_enabled` is set, which is the constant `GraphEnabled`. The run has it
on; the theorems hold for both.

The ingest appears here by its transactions on the version and the job, one attempt at
a time: the `job` of a version is queued, finished, or names the transaction its
attempt comes to next. `IngestReadies` makes the version ready and `IngestReports`
stores the job's result, which are two transactions: between them the worker may die
and the job be taken again (`IngestStarts`), or the document be archived. A failing one
has several ends: an error of `_prepare_version` fails the job and leaves the version
"processing" (or ready); `_mark_failed_after_cleanup` may itself fail, which leaves a
failed job with a version that is still "processing"; and a version that was approved
after a commit of unknown outcome cannot be marked failed at all, so that a failed job
has an active version. `RetryIngest` follows `retry_job`: any failed job of the version
may be retried while none is queued or running, hence also one whose version has become
ready since (`retriable`). An attempt that runs on after it lost its job is in
`DocumentIngest` and not here.

`LibraryConsistent` relates rows, active versions, files and the two lists (what a
list shows is what its filter would find), and says what can be relied on between a
version and its job (`StatusFitsJob`): a job that succeeded has a ready version with
its chunks, a failed version has a job that failed or is being tried again, and
whatever stays "processing" has a job that will run or can be retried.

`UrlFetch` is one request's fetch, step by step: check the URL, resolve, check every
address, try them in turn, follow a redirect from the first check on. Every
resolution and every response is chosen anew. `contacted` is a ghost.

`VersionDiff` is `compare_versions` in its three phases. `ChunkHash` is the hash of the
ingest: of the text, the id of the version and the index of the chunk, one after the
other without anything between them (`ingest/hashing.py`). SHA-256 is taken to be
injective, so two chunks have the same hash exactly if these three strings, joined, are
the same: the same text in two versions of a document is *changed*, and two different
texts may be *unchanged* when the digits at the end of one run into the id of its
version ("a1" in version 1, "a" in version 11). A text is therefore a stem and the
digits at its end. Every structural key the code makes names the chunk's index, and so
does the key of a row here. `DiffAccountsForAll` holds the comparison against what it
can say with such hashes: every chunk of both sides in one item; no hash that both
sides have is shown as changed, added or removed; a version does not differ from
itself; and the counts are those of the whole comparison however few items are shown.
It makes no claim about the texts.

### IndexMirror

All points of a version share their payload, so a version has one point. A
mirror job reads the document and then its versions (two statements under READ
COMMITTED), then writes payload by payload, newest version first. A worker slot
whose process crashed loses the ownership of its job. Points arrive inactive
from the ingest. `Served` is the filter of the vector search.

### GraphExtraction and GraphIndexBuild

A chunk's text is abstracted to what grounding finds in it: a raw entity carries
the key it normalises to, the references that may name it and whether it
survives; a raw relation names its ends by reference. `Extractions` is the set of
results of a version under every combination of answers, failures and the
configured fallback.

`_persist` is one transaction whose statements interleave with those of other
builds, hence `LockRun`, `LockVersion`, `Decide`, `LockKeys` (key by key),
`WriteGraph`. A `DELETE` removes the rows it sees (`deleted`), and entities are
read under their locks (`seen`); `Conflict` is the unique index. The projection
reads mentions and relations with two statements of different snapshots and
replaces the version in Neo4j with one write; its failure fails nothing, so
`skipped` remembers where the copy may be old, and `overlapped` where two builds
of a version ran together: `ProjectionFollows` is claimed for the others only.

### EvaluationCorpus and EvaluationRun

`EvaluationCorpus` is the request that prepares a corpus, transaction by
transaction: `UploadStore` writes the file, `UploadCommit` the rows (the commit
may fail, or take effect and report an error), `LinkSource` the link. The
payload of an ingest job loses `evaluation_corpus_activate`, because the
sanitiser of job payloads drops keys it does not know; only a second request, or
a user, activates the version. A retried ingest leaves the source naming the
failed job. Both are modelled as they are.

`EvaluationRun` adds the run. `CheckCorpus` and `CreateRun` are separate, so that
documents may change in between. `run_job` never looks at its lease: two attempts
may execute one run, and `overlapped` marks it. Each case and cache mode is one
`CreateItem` and one `RunCase`; the cache of a cold and a warm call is namespaced
by attempt and case. Reviews need a successful judgment, not a finished run, so
the quality of a run that failed midway may read "passed"; `PassedMeansReviewed`
says what can be relied on nevertheless. `Promote` inserts under the unique
index and `CommitPromotions` makes it visible.

### EvaluationMetrics and EvaluationReport

Metrics are operators over abstract texts (sets of words), with -1 for "no value".
`EvaluationReport` stores the items of two runs one by one (`Evaluate`,
`EvaluateRaises`, `LeaveRunning`) and reads them in every way the service does: the
summary of a run, those by strategy and by cache mode, and the comparison of two runs
metric by metric and case by case. Its properties relate these readings to each other.
Rows keep their places when only some of them are read (a function with a smaller
domain), so that averages and percentiles are functions of finite sets of places; a
percentile is the least value that enough values do not exceed, which is the sorted
value at that index. The order of targets and items, which the service makes by loops
and sorts, is the order of those places (`InOrder`).

An item whose graph store is out of reach comes in two forms. Without an answer it is
an error that is not counted; answered by the search that stands in for the graph, it
keeps the reason that makes its metrics not applicable, but the claim judge is then
asked about the answer, and its verdict replaces that one metric and counts.
`SkippedDoNotCount` therefore speaks of every other quality. `FailureReasons` has every
reason of the code, the latency (`evaluation_failure_high_latency_ms`, the constant
`HighLatency`) and the errors of reranking among them. A skipped item is recognised by
the reason codes stored with some of its metrics, so where a run asked for none of
these (`TellingMetrics`), a slow one is listed as a failure like any other: that case,
and no other, the property excepts. The comparison by cache mode leaves out the targets in
the default mode, as the code does; `CountsAddUp` speaks of the other modes.

### Ranking, AnswerText and ContextSelection

Pure operators. Scores are integers in thousandths, where the code rounds to six
digits; what an embedding model, a full-text index or a reranker thinks of a
chunk is a constant of the instance. A chunk is a sequence of words, and a word is
a token and a character. The text a model answers with is a sequence of pieces, of
which constants say what they are for the program: a citation marker and its number,
a label, an aside, the end of a sentence, an excuse, a leak. `AnswerText` takes the
final part of it, shortens it, finds its citations, repairs or refuses them.

### ToolSearch

The three orchestrators are one loop with different planners: `NewLoop` is its
state, `NextPlans` the calls it may be given next, `SearchDue`/`SearchStarted` a
search and `OtherCall` every other call (refused, repeated, an inspection, the
end). LangChain and LangGraph run the same rules, one with a loop of calls and
one with a graph of two nodes; they share a branch here. A model plans what it
likes as far as the parser and the checks after it let it. `Accepted` and
`Received` are the compressor: candidates in the order of their rank, without
repeated texts, within the budgets of a result and of the loop. A snippet is the
first words of a text, a token is a word, and `AsciiWords` are the words the
compressor's and the evidence pack's regular expressions see. Redaction of
snippets, the truncation of queries and the mode without compression are left out.

### Corpus and GraphRetrieval

A version is one chunk, so the active version of a document is a chunk number.
`indexed` is what the payloads in Qdrant say, which follows `active` by
`MirrorDocument` at any later time. `BuildGraph` is the commit of a build, which
`GraphIndexBuild` models in detail; `ProjectGraph` follows it or fails. A
projection writes the status a version has at that moment, and no activation
repeats it: Neo4j may know active versions as inactive for good. Entities and
their aliases belong to all versions, the graph content of a version is fixed.

`GraphRetrieval` computes over a view, the part of a store a request may see. The
stores run the same search over different data and with different details,
which are kept: PostgreSQL loads a relation once and offers it at both its ends,
whoever uses it; Neo4j loads it for each entity of the frontier and bars it once a
path has used it; they list mentions in different orders, and only Neo4j's result
is held against the database. Relations have distinct ends and one chunk each;
entities of one mention are equally confident. Path ids order as numbers do, since
an instance has fewer than ten.

### RetrievalCache

A key holds a fingerprint of the corpus (the marker every activation bumps, or the
version rows of the documents a request is limited to) and, for a graph strategy,
one of the build runs of the active versions. `settled` and `aliased` of an entry
are ghosts: whether payloads and projection agreed with the database when they
were searched, and which entities had an alias.

### RagAsk

A request is a process: begin (with the computation of its key), look up,
hydrate, search, check (the final check in PostgreSQL and the writing of the
items), store, answer. It comes by one of four entrances (`BeginSearch`, `BeginAsk`,
`BeginGraphSearch`, `BeginGraphAsk`), which are four methods of the service, and
ends with what each of them does at its end: `FinishSearch` or `FinishGraphSearch`,
`NoContextFound` or `NoGraphContextFound`, `Answer` or `GraphAnswer`. `Recorded` is
what an answer writes: the assistant's message, its citations, the state of the run.
What the generator returns is one of the instance's texts, which `AnswerText` reads,
or an error. From `check` on its transaction holds its run row, and
from `store` on its cache entry; others wait. A message has one run; a second
request with the message replays, conflicts, is refused or waits
(`ResolveDuplicate`). `BeginDelete` and `FinishDelete` are the deletion of the
session. Waiting in circles of two or three is possible, and PostgreSQL aborts one
of the processes (`DeadlockVictim`). A search of the graph is one step in PostgreSQL,
cut short after any number
of expansions when it runs out of time. In Neo4j it is the search (`SearchNeo4j`),
the check of the projection with what follows it in the database
(`CheckProjection`), and a failure at any of them (`Neo4jFails`), which leads to
the other store or to an empty answer. `CheckGraph` saves what the database still
serves, or the request goes on without the graph (`FallBack`). `transient` stands
for the reason codes that keep a result out of the cache. A retrieval by tools is
`PlanCalls`, then `CallSearch` or `CallOther` per call, the search itself, and
`CheckTool`; `TimesOut` may end it wherever the code looks at the clock, and
`FinishLlmTools`, `FinishLangChain` and `FinishLangGraph` rank and save what it hands
on. `Scenarios` lists which requests an instance makes, the texts and plans of its
models, and its budget of disturbances (activations, archivals, expiries, faults,
timeouts, crashes, archiving or deleting the session) and of graph builds.

### EvaluatedQuestion

An evaluation measures a retrieval (`FinishEvaluatedSearch` commits it) and then, in
transactions of its own, answers over what was found (`EvaluatedNothing`,
`AnswerEvaluated` and their counterparts over a graph). A failure marks the latest run
of the request id as failed (`MarkLatestFailed`), and all attempts of a case share that
id: a run may be marked failed by an earlier attempt that fails late (`Overwritten`),
whose own run then stays succeeded (`RecordedOutcome`). Such a run need not be the latest
at the end: the first attempt may fail the run of the second before a third begins,
which is why the instance has three. The orchestrators answer in the transaction of
their retrieval; only `answer_llm_tools` lets an unexpected exception through and leaves
its run "running" (`RaiseUnmarked`). The generator is the strict one here: what an ask
would repair or shorten fails the case.

## Runs

| run | instance | shows |
|---|---|---|
| `queue_safety` | 2 jobs, 2 workers, batches of 2, 1 retry request, 2 faults | no double completion, no revived job, no stolen lease, constraints hold, refinement of `JobLifecycle` |
| `queue_retry` | 4 jobs, 1 worker, 2 retry requests | one active retry, lineage rooted at the first job |
| `queue_liveness` | 2 jobs of 2 types and 2 priorities, 2 workers of which one serves one type, 1 fault | every job that all workers serve is finished |
| `ingest_owner` | 3 attempts, 2 chunks, faults `crash`, `qdrant`, `content`, sweeps; 1116 workbooks, 258 slide decks and some 580 web pages | ready means indexed, no orphan points, every ingest ends; every chunk tells the place of its words |
| `ingest_zombie` | 2 attempts, 1 chunk, `zombie` and `content` | violation: a version ready without its points |
| `documents` | an ingest of 3 attempts and 1 chunk with all faults; beside it 2 requests, 1 document, 3 uploads, 3 versions without a fault, 2 with one or 1 with two, 1 worker, 15 files, 3 URLs; 1.46 million states | a reported success is never undone; rows, files, jobs and lists agree, a version with what its job came to; a comparison accounts for every chunk; a fetch contacts checked addresses only |
| `mirror_single` | 2 versions, 3 jobs, 1 worker, 1 crash | the payload catches up; an approved version gets served |
| `mirror_race` | 2 versions, 2 jobs, 2 workers | violation: the payload stays wrong although every job succeeded |
| `graph_build` | 2 versions (2 chunks, 1 chunk), 2 jobs, 2 workers, 4 runs, 3 keys, 1 fault | a graph is that of one build, builds neither conflict nor deadlock, relations join mentioned entities, partial results take nothing away, Neo4j follows |
| `evaluation` | 1 source, 2 documents, 1 case in 2 cache modes, 2 preparers, 2 workers, 2 promoters, 2 attempts, 1 change, 1 fault; beside it 5 pairs of runs over 3 cases; 1.2 million states | versions have files, results complete and kept, cold is cold, "passed" is reviewed, one promotion as evaluated, only documents that were active; comparisons read the same both ways, hold the same cases against each other, leave out what was skipped, and their counts add up |
| `ask` | 25 scenarios of 1 to 3 requests, 9 model texts, 3 documents, 4 chunks, 3 entities and 4 relations, loops of 3 calls and 2 searches, 5 plans of a model, up to 3 disturbances and 1 build; 633 000 states | consistent conversation, answers grounded in what was served, paths that lead to their items, cached results are those of the corpus and of the graph, tool loops keep their budgets and hand on what they showed, evaluated questions are recorded as reported |
| `tool_results` | one ask by tools over texts without ASCII words, budgets that cut nothing | violation: different texts dropped as duplicates |

Where an instance shows two modules that share no state (`documents`, `evaluation`),
a behaviour is of the one or of the other; their states add up instead of multiplying.

Bounds. Two workers are enough for a stale owner next to a new one, and two
jobs for a batch with a tail nobody attends; two faults let a lease be lost and a
worker die in one behaviour. Four jobs hold a job, two retries and a request
that is refused. Three attempts hold a stale one, its successor and a retry; two
chunks tell a partial upsert from a complete one. Windows of 8 words that overlap by
3, batches of 2, pages of 2 rows and limits of 2 rows, 6 cells, 3 pages and 2 slides
are each reached and passed by the workbooks, decks and web pages of the instance
(sheets of one to three rows with gaps, given and missing columns, blank cells, hidden
sheets and slides, nested and unclosed markup). Two requests for one document meet in
every order; the third upload is a version of a document with two, or a retry of what
failed. A fault of the store and an ingest that fails both count as faults
(`FaultsInstead`), and one worker runs one of the ingests at a time (`OneWorker`): what
two versions have to do with each other are their numbers, contents and which of them is
active, and no ingest changes these.
Fetches come before the rest and undisturbed, since they meet it only
in the upload of their page. The three files of text hold an equal text in two versions,
one repeated in a version, two similar ones, a shared heading, and the two texts whose
hashes are equal. Three jobs of `mirror_single` hold two approvals
and an archive, or an approval, a second one and a sweep.
Two builds of one version and one of another show both kinds of locks; four runs
are two per job. A corpus begins empty or prepared, so that neither path needs a
long prefix; two documents for one source let an upload replace another; two
attempts, two preparers and two promoters meet each other. The pairs of runs differ in
cases, strategies, cache modes and metrics, with two cases of equal identity, skipped
and failed items among them. The scenarios of `ask`
put each hazard next to the disturbances it needs, instead of all of them in one
product: a message sent twice, two questions with one cache entry (the deadlocks
of two and three), the agentic loop with every text, searches whose
documents change between key, search and store, graph searches in both stores
whose graphs and projections do, and evaluated questions whose attempts overlap. The
theorems below need no bound.

Deadlock checking is off where the instance ends by its bounds (no job left to
create, no attempt left to start). It is on in `ask`, whose requests wait for each
other's rows: there the only state without a step is the one where all are done,
and `Done` stutters in it.

Fairness. Workers poll in an endless loop, handlers return (their external calls
have timeouts) and terminal updates are tried at once: weak fairness of
`WorkerStep`, `HandlerStep`, `StartAttempt`. A lease that nobody renews runs out:
weak fairness of `LeaseExpires` without heartbeat. Nothing is assumed of
heartbeats, requests, retries, faults or the sweep. Faults are bounded, and
below the number of workers in `queue_liveness`. The library, the graph builds, the
evaluation and the requests are checked for safety only.

Symmetry is used in safety runs only: workers and clients of `JobQueue`, processes
and jobs of `GraphIndexBuild`, the actors of `EvaluationRun`, the requests of
`DocumentLibrary`.

## What the violations mean

* The handler's clean-up calls delete points without looking at the lease. The
  documents require a check right before. An attempt that lost its lease can
  delete the points its successor has just written; the successor's ready
  transaction compares numbers of rows only. `ReadyMeansIndexed` holds as long
  as running attempts keep their lease (`ingest_owner`, and the theorem
  `ReadyIsIndexed`).
* Mirror jobs of one document are not ordered. With two workers the older
  snapshot may be written last. A wrongly active payload is caught by the final
  check in PostgreSQL; a wrongly inactive one hides the active version until the
  next approval, because the sweep never activates anything.
* The compressor of tool results compares texts by their words of ASCII letters
  and digits. Texts without such words, as most Japanese ones, are all equal: of
  what a search finds, a planner is shown one chunk, and the answer rests on it.
  The evidence pack compares exact texts by their case-folded characters and has
  no such problem.

## Observations without a run

Met while modelling; the models contain the behaviour, no property forbids it.

Jobs and documents:

* `retry_count` numbers the retries of a lineage, and a reclaimed job does not
  change it; `docs/ER テーブル設計.md:878` and `docs/状態遷移図.md:361` describe it as
  the executions of the job itself.
* A file whose writing to the local store fails midway is not removed; a commit that
  takes effect but reports an error leaves a version without its file.
* The hash of a chunk covers the id of its version and its index
  (`ingest/hashing.py:16`), so the comparison of two versions shows a text they share as
  changed, and finds none of those that moved. `docs/phase2/document_diff_version_compare.md:27`
  has the hash as the first thing to match by, and the test of the comparison
  (`tests/test_document_api.py:590`) expects an unchanged chunk, from hashes it wrote by
  hand. Digits at the end of a text may make two different ones equal.
* A failed ingest job may leave its version "processing"
  (`workers/handlers/document_ingest_handler.py:289` and `:649`), until someone retries
  it. A retry of an older failed job of a version that is ready succeeds at once.
* In a workbook without cell references, a blank cell moves the columns of those
  after it; on a sheet on which the limit of cells is reached, the limit of pages is
  not looked at.
* On a web page, an unclosed `<td>` takes everything up to the next `</td>`, headings
  included; `<br>` splits a heading; a heading two levels down makes its siblings
  nest; a table in a cell loses the text of that cell.
* The last window of a segment may lie wholly within the one before it.

Questions:

* A second request for a message whose ask is running waits for its transaction
  instead of getting 409 `request_in_progress`, which `docs/API設計書.md:1994`
  promises, as soon as the first has written its items; ask against duplicate and
  ask against deletion can deadlock, and the loser may be a generated answer.
* An answer that consists of markers only is stored as the insufficient-evidence
  text, without the label "Low" such texts get elsewhere.
* Shortening a text may drop its only citation; the repair then cites the first
  source, though the model had named another.
* A process that dies leaves its run "running"; its message is
  `request_in_progress` from then on.
* The session is checked when an ask begins: archived meanwhile, it still gets the
  answer.
* The merged items of the agentic loop may come from checks at different times.
* A search while Qdrant lags may be cached until its TTL
  (`docs/phase3/retrieval_cache_foundation.md:57-88` accepts this).
* The fingerprint of the graph names the builds of active versions
  (`docs/phase3/retrieval_cache_foundation.md:73-76`), but a build of another
  version may give an entity an alias, which changes what a query matches: a cached
  graph result outlives that until its TTL. `CacheMatchesCorpus` says so
  (`aliased`).
* A stored path may keep a relation whose chunk was archived between the search
  and the final check; the items are checked again, the relations are not.
* `GraphPathSourceLocator` takes every version of a document for active, so its
  reason `inactive_source_chunk` does not occur.

Evaluations:

* `docs/Worker Job.md:1941` asks handlers to check their lease; `run_job` of an
  evaluation does not.
* Attempts of a case share a request id: the one that fails after its search marks the
  run that is latest by then. An evaluation by the LLM tool orchestrator that meets an
  unexpected exception leaves its run "running"; one skipped because the graph store
  cannot be reached leaves it "succeeded".
* The claim judge's verdict on an answer that was found without the graph counts under
  the graph's target, where all other metrics of that answer are not applicable.
* The summary of a run averages failed items, the comparison by strategy leaves them
  out. Items of a graph store that could not be reached lower the rate of cache hits
  and count in the latencies; a slow one is listed as a failure to promote where no metric
  of the run stored why it was skipped.
* Items of equal identity are told apart by their ids: in a comparison with another
  run they appear as removed and added.

## Proofs

The theorems hold for every value of the constants that satisfies the named
assumptions of the modules; TLC evaluates those assumptions in every run. Each proof
module states its inductive invariant as a conjunction of named parts, has one lemma
per action (or per group of actions that touch the same variables), and derives the
properties at the end. Every invariant was checked by TLC before it was proved.

`JobQueueProofs`, from `QueueAssumption` only, for every number of jobs, workers and
requests, every batch size and every number of faults: `TypeCorrect`, `Fencing`,
`LatestAttemptCompletes`, `LockedRowsStable`, `SingleActiveRetry`,
`RetriesPointAtRoot`, `ConstraintsHold`, `FinishedStaysFinished`, `LeaseRespected`,
`QueueImplementsLifecycle`. The properties are not inductive one by one. The invariant
`QueueInv` is:

* `TypeInv`: the types, the shape of a worker (a batch exactly in the states that
  have a current context, no batch while acquiring) and the row a request holds;
* `AcquiringRowsStable`: without it `AcquireCommit` could revive a finished row;
* `OwnershipMeansLatestAttempt`: without it a stored result could be that of an
  older attempt;
* `LineageInv`: ids are given out in order and rows not yet inserted are blank,
  so a new retry is younger than its root; the row a request holds stays failed;
* `FinishedInv`: the table constraints and the recorded attempt.

Each part is preserved assuming the earlier parts in the pre-state; `StatusStep`
collects what a step can do to `status` and is used by the last two. The two
action properties and the refinement follow from the invariant step by step.

`DocumentIngestProofs`, from `IngestAssumption`, for every number of attempts and
chunks:

* `SuccessIsLasting` (`SucceededMeansReady`) for every choice of faults, attempts that
  lost their lease included. `IngestInv` is `Shape` (the types the argument needs),
  `OwnerInv` (only a running job has an owner, and attempts start in order) and
  `SuccessInv` (the owner about to report success has left a ready version, and so has
  a finished job): the report is a transaction of its own, after the one that made the
  version ready, and the gap between the two has to be described.
* `PointsHaveRows` (`NoOrphanPoints`) for every choice of faults without `zombie`.
  `RowsInv` adds `OneAlive` (only the owner executes), `IdsNumbered` (new chunk ids are
  new to the rows and to a sweep that has read them), `DoomedStayOrphans` (what a sweep
  is about to delete has no row, and gets none) and `PhaseInv`: what an attempt knows
  at each place of the handler of the rows and points it left behind.
* `ReadyIsIndexed` (`ReadyMeansIndexed`) without `zombie` and `commit`. `ReadyInv` adds
  that nobody is in the middle of the handler on a version that is ready. With `zombie`
  it is false (run `ingest_zombie`); with `commit`, the handler cleans up after a
  commit that has made the version ready, and takes its points.

`DocumentLibraryProofs`, about `LibrarySpec`, from `FetchAssumption` and
`LibraryAssumption`, whatever files and pages are sent, whatever ids versions have, with or without the graph
index (`DiffAccounts` also from
`ChunksAssumption`, the ingest makes lists of chunks, and `DiffAssumption`, the limit of
items is a number):

* `LibraryStaysConsistent` (`LibraryConsistent`). `LibraryInv` is the types; `RowsInv`
  (keys, and numbers and contents within a document, tell versions apart; a document's
  numbers have no gap); `PendingInv` (a version waiting for its commit has the next
  number of a document that is its own or locked by it: without it two uploads could
  give one number twice); `KeysInv` (a key is given once, and its file is there exactly
  from the save on); `VersionFacts`, which is `OneServed` and `Fits` of every version; and
  `FilesKept`. `Fits` says of each place of an ingest what it has made of its version so
  far: chunks before it is ready, a ready version before it reports success. Without it
  `StatusFitsJob` would not survive the step that stores the result. Since versions are
  records of a set, a step that changes one is an injective map of the set (`Reshapes`).
* `FetchesOnlyChecked` (`OnlyCheckedContacted`): who is connecting has checked every
  address of the answer it holds, whatever the name server says next.
* `DiffAccounts` (`DiffAccountsForAll`), of any two lists of chunks, whatever texts are
  similar and however few items are shown. Each phase extends a matching, in which no
  chunk is in two pairs (`MatchByMatches`, over the loop of `_match_by_key`, with
  `MatchInv` after each chunk of the base). The phase by hash leaves no hash that is on
  both sides (`HashInv`), so what a later phase pairs, and what is left
  over, shares no hash with the other side (`HashesApart`). If both lists are equal, a
  chunk left over would leave fewer chunks of its hash on one side than on the other
  (`EqualsMatched`). The sort key tells items apart, so each has a rank of its own and
  every rank an item (`SortedShowsAll`). Nothing is assumed of the hashes: the theorem
  holds also where those of different texts are equal.

`GraphIndexBuildProofs`, from `GraphAssumption`, for any number of versions, jobs,
processes, runs and faults, and whatever the chunks contain: the invariant `Inv` is
`TypeInv`, `WorkInv` (a busy process has a job, a version, a run and, where it needs
one, a result of that version), `LockInv` (which locks the place of a process says it
holds) and `GraphInv` (what a build is about to delete is the graph that is there, and
it has seen every entity of its keys). From it:

* `OneRunPerGraph`, `EntitiesNeverConflict`, `GraphSurvivesPartial` directly;
* `RelationsStayGrounded`, if every extraction is grounded in itself. That the
  extractors do this is computed with sequence operators that select and sort, beyond
  the prover; the run `graph_build`, whose builds store every extraction there is,
  shows it for its instance.
* `ProjectionIsFaithful` with `ProjectionInv`: a version without overlapping builds has
  one process, and what that has read of the graph is what is there;
* `LocksWithoutCircle` with `OrderInv`: a process that still takes entity locks has
  only those below the ones it waits for. A circle would be a set of processes each
  waiting for another: run locks are taken first and version locks next, so its members
  wait for keys, and the one whose key is highest waits for nobody in it. The
  argument needs a greatest element of a finite set of numbers (`NumberLemmas`).

`IndexMirrorProofs`, for any number of versions, jobs, crashes, sweeps, ingests and
failing calls: `PayloadCatchesUp` (`MirrorConverges`) when there is one worker process,
which is a hypothesis of the theorem because two can overtake each other (run
`mirror_race`). `MirrorInv` is `VersionsInv` (an active version is
ready; the indexed and the ready ones have points), `WorkInv` (what the worker holds at each place of the handler is of its job)
and the argument itself: either a mirror job that has not succeeded still has its reads
before it (`Unfinished`), or the points are right, or the worker has read what is there
and has the wrong ones still before it (`Follows`).

`EvaluationRunProofs`, from `CorpusAssumption` and `RunAssumption`, for any number of
sources, documents, cases, modes, workers, requests and faults: `RunInvariant` proves
`RunInv`, which is

* `CorpusInv`: a document on its way to a source belongs to one request and its file
  is there before its rows (`UploadsInv`), sources share no document (`LinksInv`);
* `AttemptsInv`: an attempt goes through its slots (cases by modes) in order, its items
  are of slots it has been at and each is untouched until its case ends (`PlaceOf`), and
  so are the cache entries of its namespaces (`CacheOf`), which is why a cold
  measurement meets none;
* `JobInv` and `AloneInv`: while no attempts overlap, the only busy worker holds the
  job and has an item for every slot behind it (`Filled`);
* `AdmissionInv`, `PromotionsInv`: a run is created over documents found active; the
  failures a request has read and the cases it is about to commit are new.

From it follow `FilesOfVersions`, `RunsOfActive`, `ColdStaysCold`, `PassedIsReviewed`
(counting judgments and reviews is enough, by the cardinalities of sets in a set),
`FailuresPromotedOnce`, `ResultsComplete` and `ResultsStay`.

The same module proves what `EvaluationReport` reads of two runs, about `ReportSpec` and
from `ExpectedAssumption`, `ResultsAssumption` and `StudiesAssumption` (what a case
expects and what the service gives is finite and made of numbers; only a graph search
finds its store out of reach), for any cases, strategies, modes, metrics and results:

* `CasesMatch` (`SameCasesCompared`). The keys of a run are all different, since an item
  whose key is taken gets one with its place (`OneKeyEach`), and an item of the other run
  has the same key only if both have the plain one (`SharedKeys`); so there is one entry
  for each key and one key for each item.
* `BothWaysRead` (`ReadBothWays`), `SkippedIgnored` (`SkippedDoNotCount`) and `CountsAdd`
  (`CountsAddUp`) from the invariant `StudyRows`: the rows of a run are a list; each has
  measured numbers and the target of its strategy and mode; a row of a store out of reach
  has no value in any quality but the judge's (`SkippedRow`); one left running has no
  outcome and is the last. That the rows have this shape is the longer part of the proof:
  every metric is shown to be a number or "no value" for every case and result.
  Turned round, the metrics follow from `0 - (b - a) = a - b` and the entries from the
  symmetry of the keys; without the skipped rows the same values are averaged; and
  the counts add up because each ended row has one label, a label one cache mode and one
  store or none (`LabelTells`), sums over labels are cardinalities of unions (`SumOfClasses`), and
  an entry has an item of one side or of both (`EntriesCounted`).

`RagAskProofs`, about `EvaluationSpec` (every step of `RagAsk` is one of it), for any
documents and graphs, any scenarios, and whatever generators, planners, indexes and
disturbances do:

* `ConversationsStayConsistent` (`ConversationConsistent`). `ConversationInv` is `Shape`;
  `RunsInv` (what the stage of a request says of its run: an ask at work has a run that
  is running, or was deleted with its session); `MessagesInv`; `RepliesInv` (who was told
  an answer was told that of the run of its message, which stays until the session goes:
  without it a replay could not be shown to repeat the first reply); `SessionInv`; and
  `CreatedInv` (the order of evaluated runs lists them all).
* `OutcomesAreRecorded` (`OutcomesRecorded`, the first half of `EvaluatedAsRecorded`)
  from `AttemptsAssumption`: attempts that share a request id are of one case and
  strategy, so a failure never marks the run of an orchestrator that still works. For
  requests that have ended `OutcomesInv` says what `RecordedOutcome` does, and for those
  on their way what they will need for it; the order of `created` tells who can still be
  overwritten by whom.
* `CachedResultsMatch` (`CacheMatchesCorpus`) from `FiltersAssumption`,
  `FirstActiveAssumption`, `DepthAssumption` and `DeletionAssumption`. Stamps, builds,
  aliases and the marker only grow and an archived document stays archived, so a key, once
  built, is of now or of before (`Past`), and a change of a document or a graph in its
  scope makes it one that no request builds any more. `CacheInv` therefore says, of
  entries and of what each request holds for the cache, only what is true while its key
  still matches (`RightFor`): then nothing in the scope has changed since the key was
  built. `OnItsWay` says stage by stage how far a request has come towards what it would
  find now: the entities it started from, the paths, the candidates, what the projection
  check left of them, what the database still serves, and what it falls back on. Each
  stage applies to equal arguments what a retrieval of now applies (`ResultNow`): settled
  payloads and an up-to-date projection make the arguments equal, and the selections of
  sequences on the way need not be looked into.

The inner records of nested updates are named in `RagAsk` and `EvaluatedQuestion`
(`[req[r] EXCEPT ...]` instead of `@`): the prover takes an `@` within
an `[@ EXCEPT ...]` for the outer one.

`NumberLemmas` has what these share: least elements of sets of numbers (by
well-founded induction over a relation, the form of the library's theorem that the
provers can use), greatest ones, finite intervals, sets with one element more, sets in
order (`PlaceInOrder`), and sums: that the sum of a function over a finite set exists,
does not depend on the order, and is that of its classes (`SumIsSums`, `SumOfClasses`).

Only model-checked:

* liveness (`EveryJobFinishes`, `IngestSettles`, `ApprovedGetsServed`), which the
  prover does not handle, and `ENABLED` with it;
* what folds, selections and sorts of sequences compute for every input
  (`ChunksTellTheirPlace`, `GroundedAnswers`, `ToolEvidenceUsed`): the provers have no
  definition of `SelectSeq` and `SortSeq`, and an induction over data is out of their
  reach unless, as for the comparison of versions, it is one over a loop's counter;
* for the same reason, of `EvaluatedAsRecorded`, that a stored answer cites what was
  found for it.

## Not modelled, and the plan

Left out for good: HTTP routing, the frontend, deployment, audit and trace
records, what a language model or an embedding model computes (inputs of the models),
malformed payloads in Qdrant that no code writes.

Not modelled in the modelled parts: the readers of PDF, CSV, XML and Markdown, weighted
fusion, the rewriting of queries by the query planner, prompts, trace export, titles,
tags and temporary sessions; dataset manifests and limits on cases of evaluations. Chat
messages cannot be edited by a job at this commit: the handlers
`message_edit_regeneration` and `temporary_chat_cleanup` fail every job they get with
`job_handler_not_implemented`.

Planned:

1. The citations of answers, as far as lemmas about selections of sequences carry them.
2. `LockOrder` (approve against ingest) and `LeaseClock` (leases with the clocks of
   several workers).
3. The payload sanitiser against a reference definition.
