--------------------------- MODULE DocumentIngest ---------------------------
(***************************************************************************)
(* The ingest of one document version:                                     *)
(*   backend/app/workers/handlers/document_ingest_handler.py               *)
(*   backend/app/ingest/qdrant.py           DocumentIndexingService        *)
(*   backend/app/repositories/document_repository.py                       *)
(*   backend/app/services/document_service.py   approve, archive           *)
(*   backend/app/services/job_service.py        retry of the ingest job    *)
(*   backend/app/workers/handlers/qdrant_consistency_sweep_handler.py      *)
(*                                                                         *)
(* The rows of the version and of its chunks live in PostgreSQL, its       *)
(* points (one per chunk, with the chunk's id) in Qdrant: no transaction   *)
(* spans both.  Every step of the handler is one transaction or one Qdrant *)
(* call.                                                                   *)
(*                                                                         *)
(* A process is an ATTEMPT of the ingest job or of one of its retries:     *)
(* JobQueue shows that assert_ownership holds only for the latest one, so  *)
(* it is the test current = a here.  assert_ownership and the commit that  *)
(* follows it are one step where the version row is locked in between:     *)
(* taking the job away only writes the job row, so it commutes with the    *)
(* rest of that transaction.  _cleanup_existing_artifacts holds no such    *)
(* lock, and its check and its DELETE are two steps.                       *)
(***************************************************************************)
EXTENDS Naturals, FiniteSets

CONSTANTS
    MaxAttempts,   \* bound: attempts of the job and of its retries
    NumChunks,     \* chunks the chunker makes of this file
    GraphIndexing, \* graph_indexing_enabled
    SweepJobs,     \* consistency sweeps run (no service creates one, an operator may)
    Faults         \* which faults may happen, a subset of FaultKinds

\* crash   the worker process dies;
\* zombie  an attempt loses its lease while it is still executing;
\* qdrant  a Qdrant or embedding call fails, possibly after taking effect;
\* content storage, extraction or chunking fails;
\* db      a transaction of the handler fails;
\* commit  the commit of the ready transaction succeeds but reports an error.
FaultKinds == {"crash", "zombie", "qdrant", "content", "db", "commit"}

ASSUME IngestAssumption ==
    /\ MaxAttempts \in Nat \ {0}
    /\ NumChunks \in Nat \ {0}
    /\ GraphIndexing \in BOOLEAN
    /\ SweepJobs \in BOOLEAN
    /\ Faults \subseteq FaultKinds

Attempts == 1..MaxAttempts
ChunkIds == 1..(MaxAttempts * NumChunks)

VARIABLES
    verStatus,  \* document_versions.status
    isActive,   \* document_versions.is_active
    archived,   \* logical_documents.status = 'archived'
    chunks,     \* ids of the version's document_chunks rows
    nextChunk,  \* the document_chunk_id sequence
    points,     \* ids of the Qdrant points of the version
    queued,     \* follow-up jobs created, by kind
    job,        \* status of the latest ingest job
    current,    \* the attempt that owns it, 0 for none
    started,    \* attempts started so far
    pc,         \* where attempt a is in the handler
    ids,        \* the chunk ids attempt a has read and will act on
    keep,       \* attempt a will keep the chunk rows when it fails
    result,     \* what attempt a will report
    sweep,      \* the consistency sweep: "idle", "scrolled", "doomed"
    swept       \* the points of its page, then those it will delete

domainVars  == <<verStatus, isActive, archived, chunks, nextChunk, points, queued>>
jobVars     == <<job, current, started>>
attemptVars == <<pc, ids, keep, result>>
sweepVars   == <<sweep, swept>>
vars        == <<domainVars, jobVars, attemptVars, sweepVars>>

Labels == {"unborn", "prepare", "qclean", "assert", "delete", "extract", "store", "load",
           "index", "ready", "unindex", "failRead", "failClean", "markFailed", "result", "gone"}

TypeOK ==
    /\ verStatus \in {"processing", "ready", "failed"}
    /\ isActive \in BOOLEAN
    /\ archived \in BOOLEAN
    /\ chunks \subseteq ChunkIds
    /\ nextChunk \in Nat
    /\ points \subseteq ChunkIds
    /\ queued \in [{"mirror", "graph"} -> Nat]
    /\ job \in {"queued", "running", "succeeded", "failed"}
    /\ current \in Attempts \cup {0}
    /\ started \in 0..MaxAttempts
    /\ pc \in [Attempts -> Labels]
    /\ ids \in [Attempts -> SUBSET ChunkIds]
    /\ keep \in [Attempts -> BOOLEAN]
    /\ result \in [Attempts -> {"none", "succeeded", "failed"}]
    /\ sweep \in {"idle", "scrolled", "doomed"}
    /\ swept \subseteq ChunkIds

\* upload_document has committed the version and its ingest job.
Init ==
    /\ verStatus = "processing"
    /\ isActive = FALSE
    /\ archived = FALSE
    /\ chunks = {}
    /\ nextChunk = 1
    /\ points = {}
    /\ queued = [mirror |-> 0, graph |-> 0]
    /\ job = "queued"
    /\ current = 0
    /\ started = 0
    /\ pc = [a \in Attempts |-> "unborn"]
    /\ ids = [a \in Attempts |-> {}]
    /\ keep = [a \in Attempts |-> FALSE]
    /\ result = [a \in Attempts |-> "none"]
    /\ sweep = "idle"
    /\ swept = {}

-----------------------------------------------------------------------------
(* The job, as JobQueue shows it to the handler. *)

\* Mutant: every attempt passes assert_ownership.
IsOwnerAlways(a) == TRUE

IsOwner(a) == current = a

\* Mutant: a job whose worker died is not reclaimed.
StartAttemptQueuedOnly(a) ==
    /\ a = started + 1
    /\ job = "queued"
    /\ job' = "running"
    /\ current' = a
    /\ started' = a
    /\ pc' = [pc EXCEPT ![a] = "prepare"]
    /\ UNCHANGED <<domainVars, ids, keep, result, sweepVars>>

\* A worker acquires the queued job, or reclaims it after the lease ran out:
\* because the owner is gone, or ("zombie") although it is still running.
StartAttempt(a) ==
    /\ a = started + 1
    /\ \/ job = "queued"
       \/ job = "running" /\ (pc[current] = "gone" \/ "zombie" \in Faults)
    /\ job' = "running"
    /\ current' = a
    /\ started' = a
    /\ pc' = [pc EXCEPT ![a] = "prepare"]
    /\ UNCHANGED <<domainVars, ids, keep, result, sweepVars>>

\* The last attempt of the instance is not lost: the bound is not a fault.
Crash(a) ==
    /\ "crash" \in Faults
    /\ a < MaxAttempts
    /\ pc[a] \notin {"unborn", "gone"}
    /\ pc' = [pc EXCEPT ![a] = "gone"]
    /\ UNCHANGED <<domainVars, jobVars, sweepVars, ids, keep, result>>

\* _store_terminal_result: the result counts only if the lease is still held.
StoreResult(a) ==
    /\ pc[a] = "result"
    /\ IF IsOwner(a) THEN job' = result[a] /\ current' = 0
                     ELSE UNCHANGED <<job, current>>
    /\ pc' = [pc EXCEPT ![a] = "gone"]
    /\ UNCHANGED <<domainVars, started, ids, keep, result, sweepVars>>

\* retry_job with _prepare_document_ingest_retry.
RetryJob ==
    /\ job = "failed"
    /\ started < MaxAttempts
    /\ job' = "queued"
    /\ verStatus' = IF verStatus = "failed" THEN "processing" ELSE verStatus
    /\ isActive' = IF verStatus = "failed" THEN FALSE ELSE isActive
    /\ UNCHANGED <<archived, chunks, nextChunk, points, queued, current, started,
                   attemptVars, sweepVars>>

-----------------------------------------------------------------------------
(* Steps of the handler. *)

Goto(a, label) == pc' = [pc EXCEPT ![a] = label]

Report(a, r) ==
    /\ result' = [result EXCEPT ![a] = r]
    /\ Goto(a, "result")

\* The number of graph_index_build jobs after creating n more.
GraphJobs(n) == queued["graph"] + (IF GraphIndexing THEN n ELSE 0)

\* LeaseLostError reaches the worker, which drops the context.
LeaseLost(a) ==
    /\ ~IsOwner(a)
    /\ Goto(a, "gone")
    /\ UNCHANGED <<domainVars, ids, keep, result>>

\* _prepare_version: locks the version and the document.
Prepare(a) ==
    /\ pc[a] = "prepare"
    /\ \/ /\ ~archived /\ verStatus = "ready"
          /\ Report(a, "succeeded")
          /\ UNCHANGED <<domainVars, ids, keep>>
       \/ /\ archived /\ IsOwner(a)
          /\ verStatus' = "failed"
          /\ Report(a, "failed")
          /\ UNCHANGED <<isActive, archived, chunks, nextChunk, points, queued, ids, keep>>
       \/ /\ ~archived /\ verStatus # "ready" /\ IsOwner(a)
          /\ verStatus' = "processing"
          /\ ids' = [ids EXCEPT ![a] = chunks]
          /\ Goto(a, IF chunks = {} THEN "extract" ELSE "qclean")
          /\ UNCHANGED <<isActive, archived, chunks, nextChunk, points, queued, keep, result>>
       \/ (archived \/ verStatus # "ready") /\ LeaseLost(a)
       \/ /\ "db" \in Faults
          /\ Report(a, "failed")
          /\ UNCHANGED <<domainVars, ids, keep>>
    /\ UNCHANGED <<jobVars, sweepVars>>

\* Mutant: a failed Qdrant cleanup still lets the chunk rows go.
DeletePointsForgetsFailure(a, ok) ==
    /\ points' \in (IF ok THEN {points \ ids[a]} ELSE {points, points \ ids[a]})
    /\ ok \/ "qdrant" \in Faults
    /\ keep' = [keep EXCEPT ![a] = FALSE]
    /\ UNCHANGED <<verStatus, isActive, archived, chunks, nextChunk, queued, jobVars, sweepVars,
                   ids, result>>

\* A Qdrant delete by id: nobody checks who owns the job.  When it fails it may
\* or may not have been carried out, and the chunk rows will be kept.
DeletePoints(a, ok) ==
    /\ points' \in (IF ok THEN {points \ ids[a]} ELSE {points, points \ ids[a]})
    /\ ok \/ "qdrant" \in Faults
    /\ keep' = [keep EXCEPT ![a] = ~ok]
    /\ UNCHANGED <<verStatus, isActive, archived, chunks, nextChunk, queued, jobVars, sweepVars,
                   ids, result>>

\* _cleanup_existing_artifacts: the points of the chunks seen by Prepare.
CleanupPoints(a, ok) ==
    /\ pc[a] = "qclean"
    /\ DeletePoints(a, ok)
    /\ Goto(a, IF ok THEN "assert" ELSE "markFailed")

\* ... then their rows: the ownership check ...
CleanupAssert(a) ==
    /\ pc[a] = "assert"
    /\ \/ LeaseLost(a)
       \/ IsOwner(a) /\ Goto(a, "delete") /\ UNCHANGED <<domainVars, ids, keep, result>>
    /\ UNCHANGED <<jobVars, sweepVars>>

\* ... and the DELETE, without a lock on the version.
CleanupRows(a) ==
    /\ pc[a] = "delete"
    /\ \/ chunks' = {} /\ Goto(a, "extract")
       \/ "db" \in Faults /\ Goto(a, "markFailed") /\ UNCHANGED chunks
    /\ UNCHANGED <<verStatus, isActive, archived, nextChunk, points, queued, jobVars, sweepVars,
                   ids, keep, result>>

\* Storage, extraction and chunking; the text does not depend on the attempt.
ExtractAndChunk(a) ==
    /\ pc[a] = "extract"
    /\ \/ Goto(a, "store")
       \/ "content" \in Faults /\ Goto(a, "failRead")
    /\ UNCHANGED <<domainVars, jobVars, sweepVars, ids, keep, result>>

\* _store_chunks: locks the version and the document.
StoreChunks(a) ==
    /\ pc[a] = "store"
    /\ \/ /\ archived \/ "db" \in Faults
          /\ Goto(a, "failRead")
          /\ UNCHANGED <<domainVars, ids, keep, result>>
       \/ ~archived /\ LeaseLost(a)
       \/ /\ ~archived /\ IsOwner(a)
          /\ chunks' = nextChunk..(nextChunk + NumChunks - 1)
          /\ nextChunk' = nextChunk + NumChunks
          /\ verStatus' = "processing"
          /\ Goto(a, "load")
          /\ UNCHANGED <<isActive, archived, points, queued, ids, keep, result>>
    /\ UNCHANGED <<jobVars, sweepVars>>

\* _load_chunk_snapshots, in a session of its own.
LoadChunks(a) ==
    /\ pc[a] = "load"
    /\ \/ ids' = [ids EXCEPT ![a] = chunks] /\ Goto(a, "index")
       \/ "db" \in Faults /\ Goto(a, "failRead") /\ UNCHANGED ids
    /\ UNCHANGED <<domainVars, jobVars, sweepVars, keep, result>>

\* Mutant: an error of a later batch is taken for success.
IndexChunksPartial(a) ==
    /\ pc[a] = "index"
    /\ \E done \in SUBSET ids[a] : points' = points \cup done
    /\ Goto(a, "ready")
    /\ UNCHANGED <<verStatus, isActive, archived, chunks, nextChunk, queued, jobVars,
                   sweepVars, ids, keep, result>>

\* index_chunks: embeds, then upserts in batches.  A failure leaves any of the
\* points behind; there is nothing to upsert when the rows are gone.
IndexChunks(a) ==
    /\ pc[a] = "index"
    /\ \/ /\ ids[a] # {}
          /\ points' = points \cup ids[a]
          /\ Goto(a, "ready")
       \/ /\ ids[a] = {} \/ "qdrant" \in Faults
          /\ \E done \in SUBSET ids[a] : points' = points \cup done
          /\ Goto(a, "failRead")
    /\ UNCHANGED <<verStatus, isActive, archived, chunks, nextChunk, queued, jobVars, sweepVars,
                   ids, keep, result>>

\* stored_count = expected_chunk_count
CountMatches(a) == Cardinality(chunks) = Cardinality(ids[a])

\* _mark_version_ready: locks the version and the document.  It would also
\* activate the version of an evaluation corpus, but sanitize_job_payload has
\* dropped evaluation_corpus_activate from every payload, so it never does.
MarkReady(a) ==
    /\ pc[a] = "ready"
    /\ \/ /\ archived \/ "db" \in Faults \/ (IsOwner(a) /\ ~CountMatches(a))
          /\ Goto(a, "unindex")
          /\ UNCHANGED <<domainVars, ids, keep, result>>
       \/ ~archived /\ LeaseLost(a)
       \/ /\ ~archived /\ IsOwner(a) /\ CountMatches(a)
          /\ verStatus' = "ready"
          /\ queued' = [queued EXCEPT !["graph"] = GraphJobs(1)]
          /\ \/ Report(a, "succeeded")
             \/ "commit" \in Faults /\ Goto(a, "unindex") /\ UNCHANGED result
          /\ UNCHANGED <<isActive, archived, chunks, nextChunk, points, ids, keep>>
    /\ UNCHANGED <<jobVars, sweepVars>>

\* _cleanup_indexed_points after a failed ready update.
Unindex(a, ok) ==
    /\ pc[a] = "unindex"
    /\ DeletePoints(a, ok)
    /\ Goto(a, "markFailed")

\* _fail_version: reads the chunk ids the version has now (an exception here
\* leaves the handler, and the dispatcher reports the job failed) ...
FailRead(a) ==
    /\ pc[a] = "failRead"
    /\ \/ /\ ids' = [ids EXCEPT ![a] = chunks]
          /\ Goto(a, IF chunks = {} THEN "markFailed" ELSE "failClean")
          /\ keep' = [keep EXCEPT ![a] = FALSE]
          /\ UNCHANGED result
       \/ "db" \in Faults /\ Report(a, "failed") /\ UNCHANGED <<ids, keep>>
    /\ UNCHANGED <<domainVars, jobVars, sweepVars>>

\* ... deletes their points ...
FailClean(a, ok) ==
    /\ pc[a] = "failClean"
    /\ DeletePoints(a, ok)
    /\ Goto(a, "markFailed")

\* ... and marks the version failed.  An active version cannot be marked failed
\* (ck_document_versions_active_ready_only), the transaction then fails.
MarkFailed(a) ==
    /\ pc[a] = "markFailed"
    /\ \/ LeaseLost(a)
       \/ /\ IsOwner(a) /\ ~isActive
          /\ verStatus' = "failed"
          /\ chunks' = IF keep[a] THEN chunks ELSE {}
          /\ Report(a, "failed")
          /\ UNCHANGED <<isActive, archived, nextChunk, points, queued, ids, keep>>
       \/ /\ "db" \in Faults \/ (IsOwner(a) /\ isActive)
          /\ Report(a, "failed")
          /\ UNCHANGED <<domainVars, ids, keep>>
    /\ UNCHANGED <<jobVars, sweepVars>>

-----------------------------------------------------------------------------
(* Requests of users, each one transaction. *)

ApproveVersion ==
    /\ ~archived /\ verStatus = "ready" /\ ~isActive
    /\ isActive' = TRUE
    /\ queued' = [queued EXCEPT !["mirror"] = @ + 1, !["graph"] = GraphJobs(1)]
    /\ UNCHANGED <<verStatus, archived, chunks, nextChunk, points, jobVars, sweepVars, attemptVars>>

ArchiveDocument ==
    /\ ~archived
    /\ archived' = TRUE
    /\ isActive' = FALSE
    /\ queued' = [queued EXCEPT !["mirror"] = @ + 1,
                                !["graph"] = GraphJobs(IF isActive THEN 1 ELSE 0)]
    /\ UNCHANGED <<verStatus, chunks, nextChunk, points, jobVars, sweepVars, attemptVars>>

-----------------------------------------------------------------------------
(* The consistency sweep, which runs beside the ingest as a job of its own:
   here the points it deletes, in IndexMirror the payloads it repairs. *)

\* A page of the scroll: some of the points there are.
SweepScroll ==
    /\ SweepJobs
    /\ sweep = "idle"
    /\ \E page \in (SUBSET points) \ {{}} : swept' = page
    /\ sweep' = "scrolled"
    /\ UNCHANGED <<domainVars, jobVars, attemptVars>>

\* The chunk rows of the page are read later, in a session of their own: a
\* point without a row is to be deleted.  With none, or when the ownership
\* check fails, the page is done.
SweepCheck ==
    /\ sweep = "scrolled"
    /\ \/ swept' = swept \ chunks /\ swept' # {} /\ sweep' = "doomed"
       \/ swept' = {} /\ sweep' = "idle"
    /\ UNCHANGED <<domainVars, jobVars, attemptVars>>

SweepDelete(ok) ==
    /\ sweep = "doomed"
    /\ ok \/ "qdrant" \in Faults
    /\ points' \in (IF ok THEN {points \ swept} ELSE {points, points \ swept})
    /\ swept' = {}
    /\ sweep' = "idle"
    /\ UNCHANGED <<verStatus, isActive, archived, chunks, nextChunk, queued, jobVars,
                   attemptVars>>

-----------------------------------------------------------------------------
HandlerStep(a) ==
    \/ Prepare(a)
    \/ \E ok \in BOOLEAN : CleanupPoints(a, ok)
    \/ CleanupAssert(a)
    \/ CleanupRows(a)
    \/ ExtractAndChunk(a)
    \/ StoreChunks(a)
    \/ LoadChunks(a)
    \/ IndexChunks(a)
    \/ MarkReady(a)
    \/ \E ok \in BOOLEAN : Unindex(a, ok)
    \/ FailRead(a)
    \/ \E ok \in BOOLEAN : FailClean(a, ok)
    \/ MarkFailed(a)
    \/ StoreResult(a)

Next ==
    \/ \E a \in Attempts : StartAttempt(a)
    \/ \E a \in Attempts : HandlerStep(a)
    \/ \E a \in Attempts : Crash(a)
    \/ RetryJob
    \/ ApproveVersion
    \/ ArchiveDocument
    \/ SweepScroll
    \/ SweepCheck
    \/ \E ok \in BOOLEAN : SweepDelete(ok)

Spec == Init /\ [][Next]_vars

\* Workers poll and reclaim, and a handler that runs gets on with its work.
FairSpec ==
    /\ Spec
    /\ \A a \in Attempts : WF_vars(HandlerStep(a)) /\ WF_vars(StartAttempt(a))

-----------------------------------------------------------------------------
(* Properties. *)

\* docs: a version is ready only when all its chunks are in Qdrant.  A ready
\* version has chunks and every one of them has its point.
ReadyMeansIndexed ==
    verStatus = "ready" => chunks # {} /\ chunks \subseteq points

\* No point outlives its chunk row: cleanup deletes points before rows, and
\* keeps the rows when the points may still be there, so that the next attempt
\* finds them (_cleanup_existing_artifacts, _fail_version).
NoOrphanPoints == points \subseteq chunks

\* What the sweep has found to be an orphan stays one until it deletes it,
\* although ingest attempts store and index chunks in between: rows are there
\* before points, and a chunk id is never used again (_process_batch).
DoomedStayOrphans == sweep = "doomed" => swept \cap chunks = {}

\* The version of a succeeded job is ready, whatever other attempts are still
\* running: a zombie never undoes the result the owner reported
\* (assert_ownership in every transaction that writes the version).
SucceededMeansReady == job = "succeeded" => verStatus = "ready"

\* Every ingest ends, with the version ready or failed and never left
\* processing, after any crash (reclaim) and any failing call.
IngestSettles ==
    job \in {"queued", "running"} ~>
        \/ job = "succeeded" /\ verStatus = "ready"
        \/ job = "failed" /\ verStatus = "failed"
=============================================================================
