--------------------------- MODULE GraphIndexBuild ---------------------------
(***************************************************************************)
(* Builds of the knowledge graph of document versions and their projection *)
(* to Neo4j:                                                               *)
(*   backend/app/workers/handlers/graph_index_build_handler.py             *)
(*   backend/app/services/graph_index_service.py                           *)
(*   backend/app/repositories/graph_repository.py                          *)
(*   backend/app/services/neo4j_projection_service.py                      *)
(*   backend/app/scripts/queue_graph_index_builds.py                       *)
(*                                                                         *)
(* A version may have several build jobs (its ingest, its approval and the *)
(* script queue one each) and two workers may run them at the same time.   *)
(* The write of a graph is one transaction, but its statements interleave  *)
(* with those of other builds: it takes an advisory lock of the version,   *)
(* deletes the rows it sees, takes one advisory lock per entity key in     *)
(* order, reads the entities and commits.  All versions share the          *)
(* entities.  A version stays ready once it is, so the checks of its       *)
(* status, which a build repeats, cannot fail here.                        *)
(***************************************************************************)
EXTENDS GraphExtraction

CONSTANTS
    Versions, NoVersion, Jobs, Procs, NoProc,
    ChunksOf,   \* ChunksOf[v]: the sequence of its chunks
    Keys,       \* the entities the chunks are about
    Preset,     \* Preset[v]: a run created for v beforehand, 0 for none
    MaxRuns,    \* bound: rows of graph_index_runs
    MaxFaults   \* bound: crashes, lost leases and failing transactions

RunIds == 1..MaxRuns
Presets == Range(Preset) \ {0}

VARIABLES
    job,        \* jobs.status, "none" before the row exists
    payload,    \* the version of the job and the run its payload names, if any
    owner,      \* the process that holds the lease of the job
    runs,       \* graph_index_runs.status, "none" before the row exists
    runLock, verLock, keyLock,
    entities,   \* keys of graph_entities
    graph,      \* graph[v]: mention and relation rows, each with its run
    neo,        \* neo[v]: the same rows as projected to Neo4j
    proc,       \* what each worker process is doing
    faults,
    overlapped, \* versions that had two builds at the same time
    skipped     \* versions whose latest projection failed or was not tried

jobVars == <<job, payload, owner>>
lockVars == <<runLock, verLock, keyLock>>
dataVars == <<runs, entities, graph, neo>>
ghosts == <<overlapped, skipped>>
vars == <<jobVars, lockVars, dataVars, proc, faults, ghosts>>

Labels == {"idle", "prepare", "extract", "persist", "lockRun", "lockVersion", "decide",
           "lockKeys", "write", "readMentions", "readRelations", "project", "failRun",
           "succeeded", "failed"}
NoResult == Result("none", {}, {})
Idle == [pc |-> "idle", job |-> NoProc, run |-> 0, result |-> NoResult,
         deleted |-> {}, seen |-> {}, rows |-> {}]
V(p) == payload[proc[p].job].version
Extracted == [v \in Versions |-> Extractions(ChunksOf[v])]
KeysOf(result) == {m[1] : m \in result.mentions}
Rows(run, result) ==
    [run : {run}, kind : {"mention"}, row : result.mentions]
        \cup [run : {run}, kind : {"relation"}, row : result.relations]

ASSUME GraphAssumption ==
    /\ NoProc \notin Procs
    /\ MaxRuns \in Nat
    /\ \E n \in Keys \cup {0} : Keys \subseteq 0..n
    /\ Preset \in [Versions -> RunIds \cup {0}]
    /\ \A v \in Versions : \A result \in Extracted[v] : KeysOf(result) \subseteq Keys

TypeOK ==
    /\ job \in [Jobs -> {"none", "queued", "running", "succeeded", "failed"}]
    /\ payload \in [Jobs -> [version : Versions \cup {NoVersion}, run : RunIds \cup {0}]]
    /\ owner \in [Jobs -> Procs \cup {NoProc}]
    /\ runs \in [RunIds -> {"none", "queued", "running", "succeeded", "failed"}]
    /\ runLock \in [RunIds -> Procs \cup {NoProc}]
    /\ verLock \in [Versions -> Procs \cup {NoProc}]
    /\ keyLock \in [Keys -> Procs \cup {NoProc}]
    /\ entities \subseteq Keys
    /\ \A p \in Procs : /\ proc[p].pc \in Labels
                        /\ proc[p].job \in Jobs \cup {NoProc}
                        /\ proc[p].run \in RunIds \cup {0}
    /\ faults \in 0..MaxFaults
    /\ overlapped \subseteq Versions /\ skipped \subseteq Versions

Init ==
    /\ job = [j \in Jobs |-> "none"]
    /\ payload = [j \in Jobs |-> [version |-> NoVersion, run |-> 0]]
    /\ owner = [j \in Jobs |-> NoProc]
    /\ runs = [r \in RunIds |-> IF r \in Presets THEN "queued" ELSE "none"]
    /\ runLock = [r \in RunIds |-> NoProc]
    /\ verLock = [v \in Versions |-> NoProc]
    /\ keyLock = [k \in Keys |-> NoProc]
    /\ entities = {}
    /\ graph = [v \in Versions |-> {}]
    /\ neo = [v \in Versions |-> {}]
    /\ proc = [p \in Procs |-> Idle]
    /\ faults = 0
    /\ overlapped = {} /\ skipped = {}

-----------------------------------------------------------------------------
(* Jobs and workers, as JobQueue shows them to the handler. *)

IsOwner(p) == owner[proc[p].job] = p
Fault == faults < MaxFaults /\ faults' = faults + 1

\* The ingest that made the version ready, or its approval; a payload may name
\* a run made by create_index_run_for_document_version.
QueueBuild(j, v) ==
    /\ job[j] = "none"
    /\ job' = [job EXCEPT ![j] = "queued"]
    /\ \E r \in {0, Preset[v]} : payload' = [payload EXCEPT ![j] = [version |-> v, run |-> r]]
    /\ UNCHANGED <<owner, lockVars, dataVars, proc, faults, ghosts>>

\* queue_graph_index_build_jobs
QueueByScript(j, v) ==
    /\ ~\E i \in Jobs : payload[i].version = v /\ job[i] \in {"queued", "running"}
    /\ QueueBuild(j, v)
    /\ payload'[j].run = 0

\* A worker takes a queued job, that of a dead worker, or one whose lease ran
\* out while its owner still executes it.
Acquire(p, j) ==
    /\ proc[p].pc = "idle"
    /\ \/ job[j] = "queued" /\ UNCHANGED faults
       \/ job[j] = "running" /\ owner[j] = NoProc /\ UNCHANGED faults
       \/ job[j] = "running" /\ owner[j] # NoProc /\ Fault
    /\ job' = [job EXCEPT ![j] = "running"]
    /\ owner' = [owner EXCEPT ![j] = p]
    /\ proc' = [proc EXCEPT ![p] = [Idle EXCEPT !.pc = "prepare", !.job = j]]
    /\ overlapped' = IF \E q \in Procs \ {p} : proc[q].pc # "idle" /\ V(q) = payload[j].version
                     THEN overlapped \cup {payload[j].version} ELSE overlapped
    /\ UNCHANGED <<payload, lockVars, dataVars, skipped>>

Release(p) ==
    /\ runLock' = [r \in RunIds |-> IF runLock[r] = p THEN NoProc ELSE runLock[r]]
    /\ verLock' = [v \in Versions |-> IF verLock[v] = p THEN NoProc ELSE verLock[v]]
    /\ keyLock' = [k \in Keys |-> IF keyLock[k] = p THEN NoProc ELSE keyLock[k]]

\* The process dies: its transaction is rolled back, its job waits for the lease.
Crash(p) ==
    /\ proc[p].pc # "idle"
    /\ Fault
    /\ owner' = IF IsOwner(p) THEN [owner EXCEPT ![proc[p].job] = NoProc] ELSE owner
    /\ proc' = [proc EXCEPT ![p] = Idle]
    /\ Release(p)
    /\ UNCHANGED <<job, payload, dataVars, ghosts>>

\* LeaseLostError: the worker drops the job without a report.
DropJob(p) == proc' = [proc EXCEPT ![p] = Idle]

Goto(p, label) == proc' = [proc EXCEPT ![p].pc = label]

\* The next step needs nothing but the job and its run.
GotoClean(p, label) ==
    proc' = [proc EXCEPT ![p] = [Idle EXCEPT !.pc = label, !.job = proc[p].job, !.run = proc[p].run]]

-----------------------------------------------------------------------------
(* Steps of the handler. *)

\* _prepare, prepare_index_build: one transaction, closed by assert_ownership.
Prepare(p) ==
    LET named == payload[proc[p].job].run
        open  == named # 0 /\ runs[named] \in {"queued", "running"}
        fresh == CHOOSE r \in RunIds : runs[r] = "none" /\ \A s \in 1..(r - 1) : runs[s] # "none"
    IN
    /\ proc[p].pc = "prepare"
    /\ named # 0 => runLock[named] = NoProc
    /\ \/ /\ ~IsOwner(p)
          /\ DropJob(p)
          /\ UNCHANGED <<runs, skipped, faults>>
       \/ /\ IsOwner(p) /\ named # 0 /\ runs[named] = "succeeded"
          /\ proc' = [proc EXCEPT ![p].pc = "readMentions", ![p].run = named]
          /\ UNCHANGED <<runs, skipped, faults>>
       \/ /\ IsOwner(p) /\ open
          /\ runs' = [runs EXCEPT ![named] = "running"]
          /\ proc' = [proc EXCEPT ![p].pc = "extract", ![p].run = named]
          /\ UNCHANGED <<skipped, faults>>
       \/ /\ IsOwner(p) /\ ~open /\ (named # 0 => runs[named] = "failed")
          /\ \E r \in RunIds : runs[r] = "none"
          /\ runs' = [runs EXCEPT ![fresh] = "running"]
          /\ proc' = [proc EXCEPT ![p].pc = "extract", ![p].run = fresh]
          /\ UNCHANGED <<skipped, faults>>
       \/ /\ Fault
          /\ GotoClean(p, "failed")
          /\ UNCHANGED <<runs, skipped>>
    /\ UNCHANGED <<jobVars, lockVars, entities, graph, neo, overlapped>>

\* extract_from_snapshot, outside of any transaction
ExtractGraph(p) ==
    /\ proc[p].pc = "extract"
    /\ \/ /\ \E result \in Extracted[V(p)] :
                proc' = [proc EXCEPT ![p].pc = "persist", ![p].result = result]
          /\ UNCHANGED faults
       \/ Fault /\ GotoClean(p, "failRun")
    /\ UNCHANGED <<jobVars, lockVars, dataVars, ghosts>>

\* _persist begins with assert_ownership, which locks nothing.
PersistAssert(p) ==
    /\ proc[p].pc = "persist"
    /\ IF IsOwner(p) THEN Goto(p, "lockRun") ELSE DropJob(p)
    /\ UNCHANGED <<jobVars, lockVars, dataVars, faults, ghosts>>

\* get_graph_index_run(for_update=True); the run must still be running.
LockRun(p) ==
    LET r == proc[p].run IN
    /\ proc[p].pc = "lockRun"
    /\ runLock[r] = NoProc
    /\ IF runs[r] = "running"
       THEN Goto(p, "lockVersion") /\ runLock' = [runLock EXCEPT ![r] = p]
       ELSE GotoClean(p, "failRun") /\ UNCHANGED runLock
    /\ UNCHANGED <<jobVars, verLock, keyLock, dataVars, faults, ghosts>>

\* Mutant: the version lock is not waited for.
LockVersionNoWait(p) ==
    /\ proc[p].pc = "lockVersion"
    /\ verLock' = [verLock EXCEPT ![V(p)] = p]
    /\ Goto(p, "decide")
    /\ UNCHANGED <<jobVars, runLock, keyLock, dataVars, faults, ghosts>>

\* acquire_graph_index_document_version_lock
LockVersion(p) ==
    /\ proc[p].pc = "lockVersion"
    /\ verLock[V(p)] = NoProc
    /\ verLock' = [verLock EXCEPT ![V(p)] = p]
    /\ Goto(p, "decide")
    /\ UNCHANGED <<jobVars, runLock, keyLock, dataVars, faults, ghosts>>

\* Mutant: a partial result replaces an existing graph.
RefusedRetryableOnly(p) == proc[p].result.code = "retryable"

\* Results that must not replace the rows of the version.
Refused(p) ==
    \/ proc[p].result.code = "retryable"
    \/ proc[p].result.code = "partial" /\ graph[V(p)] # {}

\* persist_extraction_result up to delete_index_artifacts_for_document_version
Decide(p) ==
    /\ proc[p].pc = "decide"
    /\ \/ /\ Refused(p)
          /\ runs' = [runs EXCEPT ![proc[p].run] = "failed"]
          /\ GotoClean(p, "failed")
          /\ Release(p)
       \/ /\ ~Refused(p)
          /\ proc' = [proc EXCEPT ![p].pc = "lockKeys", ![p].deleted = graph[V(p)]]
          /\ UNCHANGED <<lockVars, runs>>
    /\ UNCHANGED <<jobVars, entities, graph, neo, faults, ghosts>>

OpenKeys(p) == {k \in KeysOf(proc[p].result) : keyLock[k] # p}

\* Mutant: a build locks the keys in an order of its own.
NextKeyUnsorted(p) == IF proc[p].run % 2 = 1 THEN Min(OpenKeys(p)) ELSE Max(OpenKeys(p))

\* The lock a build waits for next.
NextKey(p) == Min(OpenKeys(p))

\* Mutant: the entities are read without their locks.
LockKeysNot(p) ==
    /\ proc[p].pc = "lockKeys"
    /\ proc' = [proc EXCEPT ![p].pc = "write", ![p].seen = entities]
    /\ UNCHANGED <<jobVars, lockVars, dataVars, faults, ghosts>>

\* acquire_graph_entity_key_locks, key by key in sorted order, then
\* list_entities_by_keys
LockKeys(p) ==
    LET open == OpenKeys(p) IN
    /\ proc[p].pc = "lockKeys"
    /\ \/ /\ open # {}
          /\ LET k == NextKey(p) IN /\ keyLock[k] = NoProc
                                   /\ keyLock' = [keyLock EXCEPT ![k] = p]
          /\ UNCHANGED proc
       \/ /\ open = {}
          /\ proc' = [proc EXCEPT ![p].pc = "write", ![p].seen = entities]
          /\ UNCHANGED keyLock
    /\ UNCHANGED <<jobVars, runLock, verLock, dataVars, faults, ghosts>>

\* The unique index on graph_entities refuses a key inserted by another build.
Conflict(p) == (KeysOf(proc[p].result) \ proc[p].seen) \cap entities # {}

\* _upsert_entities, _persist_mentions, _persist_relations and the commit
WriteGraph(p) ==
    LET v == V(p) IN
    /\ proc[p].pc = "write"
    /\ Release(p)
    /\ \/ /\ ~Conflict(p)
          /\ entities' = entities \cup KeysOf(proc[p].result)
          /\ graph' = [graph EXCEPT ![v] = (@ \ proc[p].deleted)
                                               \cup Rows(proc[p].run, proc[p].result)]
          /\ runs' = [runs EXCEPT ![proc[p].run] = "succeeded"]
          /\ GotoClean(p, "readMentions")
          /\ skipped' = skipped \cup {v}
          /\ UNCHANGED faults
       \/ /\ Conflict(p) \/ faults < MaxFaults
          /\ faults' = IF Conflict(p) THEN faults ELSE faults + 1
          /\ GotoClean(p, "failRun")
          /\ UNCHANGED <<entities, graph, runs, skipped>>
    /\ UNCHANGED <<jobVars, neo, overlapped>>

-----------------------------------------------------------------------------
(* Projection to Neo4j, whose failures do not fail the job. *)

RowsOfKind(v, kind) == {x \in graph[v] : x.kind = kind}

\* project_document_version: disabled or unavailable, or the first SELECT of
\* _load_projection_rows.
ReadMentions(p) ==
    /\ proc[p].pc = "readMentions"
    /\ \/ GotoClean(p, "succeeded")
       \/ proc' = [proc EXCEPT ![p].pc = "readRelations", ![p].rows = RowsOfKind(V(p), "mention")]
    /\ UNCHANGED <<jobVars, lockVars, dataVars, faults, ghosts>>

\* The next SELECT, of the same session but with a snapshot of its own.
ReadRelations(p) ==
    /\ proc[p].pc = "readRelations"
    /\ proc' = [proc EXCEPT ![p].pc = "project", ![p].rows = @ \cup RowsOfKind(V(p), "relation")]
    /\ UNCHANGED <<jobVars, lockVars, dataVars, faults, ghosts>>

\* Mutant: the rows of an earlier build are not removed from Neo4j.
ProjectMerging(p) ==
    /\ proc[p].pc = "project"
    /\ GotoClean(p, "succeeded")
    /\ \/ /\ neo' = [neo EXCEPT ![V(p)] = @ \cup proc[p].rows]
          /\ skipped' = skipped \ {V(p)}
       \/ UNCHANGED <<neo, skipped>>
    /\ UNCHANGED <<jobVars, lockVars, runs, entities, graph, faults, overlapped>>

\* _replace_document_version_projection replaces the rows in one Neo4j
\* transaction, after as many attempts as are allowed.
Project(p) ==
    /\ proc[p].pc = "project"
    /\ GotoClean(p, "succeeded")
    /\ \/ /\ neo' = [neo EXCEPT ![V(p)] = proc[p].rows]
          /\ skipped' = skipped \ {V(p)}
       \/ UNCHANGED <<neo, skipped>>
    /\ UNCHANGED <<jobVars, lockVars, runs, entities, graph, faults, overlapped>>

-----------------------------------------------------------------------------
(* Ends of a job. *)

\* _fail_run: the job fails even when the run cannot be updated.
FailRun(p) ==
    LET r == proc[p].run IN
    /\ proc[p].pc = "failRun"
    /\ runLock[r] = NoProc
    /\ \/ /\ runs[r] \in {"queued", "running"} /\ IsOwner(p)
          /\ runs' = [runs EXCEPT ![r] = "failed"]
          /\ GotoClean(p, "failed")
          /\ UNCHANGED faults
       \/ /\ runs[r] \in {"queued", "running"} /\ ~IsOwner(p)
          /\ DropJob(p)
          /\ UNCHANGED <<runs, faults>>
       \/ /\ runs[r] \notin {"queued", "running"}
          /\ GotoClean(p, "failed")
          /\ UNCHANGED <<runs, faults>>
       \/ /\ Fault
          /\ GotoClean(p, "failed")
          /\ UNCHANGED runs
    /\ UNCHANGED <<jobVars, lockVars, entities, graph, neo, ghosts>>

\* The worker stores the result of the handler if it still owns the job.
Report(p) ==
    /\ proc[p].pc \in {"succeeded", "failed"}
    /\ job' = IF IsOwner(p) THEN [job EXCEPT ![proc[p].job] = proc[p].pc] ELSE job
    /\ owner' = IF IsOwner(p) THEN [owner EXCEPT ![proc[p].job] = NoProc] ELSE owner
    /\ DropJob(p)
    /\ UNCHANGED <<payload, lockVars, dataVars, faults, ghosts>>

Step(p) ==
    \/ Prepare(p) \/ ExtractGraph(p) \/ PersistAssert(p) \/ LockRun(p) \/ LockVersion(p)
    \/ Decide(p) \/ LockKeys(p) \/ WriteGraph(p) \/ ReadMentions(p) \/ ReadRelations(p)
    \/ Project(p) \/ FailRun(p) \/ Report(p)

Next ==
    \/ \E j \in Jobs, v \in Versions : QueueBuild(j, v) \/ QueueByScript(j, v)
    \/ \E p \in Procs : Crash(p) \/ Step(p) \/ \E j \in Jobs : Acquire(p, j)

Spec == Init /\ [][Next]_vars

-----------------------------------------------------------------------------
(* Properties. *)

\* The rows of a version are those of one build that succeeded, never a
\* mixture of two.  This is what the advisory lock of the version is for:
\* a DELETE does not see rows another transaction has not committed.
GraphOfOneRun ==
    \A v \in Versions : \A x, y \in graph[v] : x.run = y.run /\ runs[x.run] = "succeeded"

\* Building shared entities never runs into the unique index: between the read
\* of the entities and the commit nobody else inserts one of its keys.
NoEntityConflict == \A p \in Procs : proc[p].pc = "write" => ~Conflict(p)

\* A relation joins two different entities mentioned in the same chunk of the
\* version, whichever extractor found it.
RelationsGrounded ==
    \A v \in Versions : \A x \in RowsOfKind(v, "relation") :
        /\ x.row[1] # x.row[2]
        /\ \A e \in {x.row[1], x.row[2]} :
              \E m \in RowsOfKind(v, "mention") : m.row = <<e, x.row[3]>>

\* Where builds of a version did not overlap and its latest projection was
\* made, Neo4j has the rows of PostgreSQL as soon as no job of it is running.
ProjectionFollows ==
    \A v \in Versions \ (overlapped \cup skipped) :
        (\A j \in Jobs : payload[j].version = v => job[j] # "running") => neo[v] = graph[v]

\* A graph is only replaced by a complete one: neither an unreachable model
\* nor a partly failed extraction takes rows away.
PartialKeepsGraph ==
    [][\A v \in Versions : (graph[v] # {} /\ graph'[v] # graph[v]) =>
          \E p \in Procs : proc[p].pc = "write" /\ proc[p].result.code \in {"completed", "fallback"}]_vars

\* p waits for a lock that q holds.
WaitsFor(p, q) ==
    \/ proc[p].pc \in {"lockRun", "failRun"} /\ runLock[proc[p].run] = q
    \/ proc[p].pc = "lockVersion" /\ verLock[V(p)] = q
    \/ proc[p].pc = "lockKeys" /\ OpenKeys(p) # {} /\ keyLock[NextKey(p)] = q

\* Builds never wait for each other in a circle: run, version and keys are
\* locked in this order by all of them, and the keys in their own order.
NoLockCycle ==
    \A S \in (SUBSET Procs) \ {{}} : \E p \in S : \A q \in S : ~WaitsFor(p, q)
=============================================================================
