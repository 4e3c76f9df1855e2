---------------------------- MODULE IndexMirror ----------------------------
(***************************************************************************)
(* The copy of is_active and of the document status that the points in     *)
(* Qdrant carry, and the jobs that keep it up with PostgreSQL:             *)
(*   backend/app/services/document_service.py      approve, archive        *)
(*   backend/app/repositories/document_repository.py                       *)
(*   backend/app/workers/handlers/qdrant_mirror_update_handler.py          *)
(*   backend/app/workers/handlers/qdrant_consistency_sweep_handler.py      *)
(*   backend/app/rag/retrieval.py                  the search filter       *)
(*                                                                         *)
(* One logical document with its versions.  All points of a version get    *)
(* the same payload, so a version has one point here.  A job is a row of   *)
(* JobQueue; a retry of a failed one takes its place.  A mirror job reads  *)
(* the document row, then the version rows (two statements under READ      *)
(* COMMITTED), then writes the payloads one version after the other, and   *)
(* looks at its lease only once, before the versions are read.             *)
(***************************************************************************)
EXTENDS Naturals

CONSTANTS
    NumVersions,  \* versions of the document
    MaxJobs,      \* bound: mirror and sweep jobs
    Workers,      \* worker processes
    MaxCrashes,   \* bound: crashes of workers
    NoWorker      \* locked_by of a process that is gone, or NULL

ASSUME MirrorAssumption ==
    /\ NumVersions \in Nat \ {0}
    /\ MaxJobs \in Nat
    /\ MaxCrashes \in Nat
    /\ NoWorker \notin Workers

Versions == 1..NumVersions
Jobs     == 1..MaxJobs

VARIABLES
    \* PostgreSQL
    docStatus,  \* logical_documents.status
    active,     \* the version with is_active, 0 for none
    stage,      \* stage[v]: "new", "stored" (chunk rows), "indexed" (points), "ready", "gone"
    kind,       \* kind[j]: "none", "mirror", "sweep"
    jstatus,    \* jobs.status, "absent" before the INSERT
    owner,      \* jobs.locked_by
    \* Qdrant
    ptDoc,      \* logical_document_status in the payload of v, "none" without a point
    ptActive,   \* is_active in the payload of v
    \* worker w
    wpc,        \* "idle", "doc", "versions", "write", "scroll", "read", "repair", "store"
    wjob,       \* the job it executes, 0 for none
    wdoc,       \* the document status its mirror job has read
    wactive,    \* the active version its mirror job has read
    todo,       \* versions whose payload it still has to write
    outcome,    \* result to store
    crashes     \* crashes so far

dbVars     == <<docStatus, active, stage>>
jobVars    == <<kind, jstatus, owner>>
pointVars  == <<ptDoc, ptActive>>
workerVars == <<wpc, wjob, wdoc, wactive, todo, outcome>>
vars       == <<dbVars, jobVars, pointVars, workerVars, crashes>>

TypeOK ==
    /\ docStatus \in {"active", "archived"}
    /\ active \in Versions \cup {0}
    /\ stage \in [Versions -> {"new", "stored", "indexed", "ready", "gone"}]
    /\ kind \in [Jobs -> {"none", "mirror", "sweep"}]
    /\ jstatus \in [Jobs -> {"absent", "queued", "running", "succeeded", "failed"}]
    /\ owner \in [Jobs -> Workers \cup {NoWorker}]
    /\ ptDoc \in [Versions -> {"none", "active", "archived"}]
    /\ ptActive \in [Versions -> BOOLEAN]
    /\ wpc \in [Workers -> {"idle", "doc", "versions", "write",
                            "scroll", "read", "repair", "store"}]
    /\ wjob \in [Workers -> Jobs \cup {0}]
    /\ wdoc \in [Workers -> {"none", "active", "archived"}]
    /\ wactive \in [Workers -> Versions \cup {0}]
    /\ todo \in [Workers -> SUBSET Versions]
    /\ outcome \in [Workers -> {"none", "succeeded", "failed"}]
    /\ crashes \in 0..MaxCrashes

Init ==
    /\ docStatus = "active"
    /\ active = 0
    /\ stage = [v \in Versions |-> "new"]
    /\ kind = [j \in Jobs |-> "none"]
    /\ jstatus = [j \in Jobs |-> "absent"]
    /\ owner = [j \in Jobs |-> NoWorker]
    /\ ptDoc = [v \in Versions |-> "none"]
    /\ ptActive = [v \in Versions |-> FALSE]
    /\ wpc = [w \in Workers |-> "idle"]
    /\ wjob = [w \in Workers |-> 0]
    /\ wdoc = [w \in Workers |-> "none"]
    /\ wactive = [w \in Workers |-> 0]
    /\ todo = [w \in Workers |-> {}]
    /\ outcome = [w \in Workers |-> "none"]
    /\ crashes = 0

-----------------------------------------------------------------------------
(* Requests, each one transaction. *)

\* The job row that a transaction inserts.
InsertJob(j, k) ==
    /\ jstatus[j] = "absent"
    /\ \A i \in 1..(j - 1) : jstatus[i] # "absent"
    /\ kind' = [kind EXCEPT ![j] = k]
    /\ jstatus' = [jstatus EXCEPT ![j] = "queued"]
    /\ UNCHANGED owner

\* Mutant: the switch of the active version creates no mirror job.
ApproveVersionUnmirrored(v, j) ==
    /\ docStatus = "active"
    /\ active # v
    /\ stage[v] = "ready"
    /\ active' = v
    /\ jstatus[j] = "absent"
    /\ UNCHANGED <<docStatus, stage, jobVars, pointVars, workerVars, crashes>>

\* set_active_version demotes the previous one.
ApproveVersion(v, j) ==
    /\ docStatus = "active"
    /\ active # v
    /\ stage[v] = "ready"
    /\ active' = v
    /\ InsertJob(j, "mirror")
    /\ UNCHANGED <<docStatus, stage, pointVars, workerVars, crashes>>

ArchiveDocument(j) ==
    /\ docStatus = "active"
    /\ docStatus' = "archived"
    /\ active' = 0
    /\ InsertJob(j, "mirror")
    /\ UNCHANGED <<stage, pointVars, workerVars, crashes>>

\* No service creates a sweep; an operator may insert one.
CreateSweepJob(j) ==
    /\ InsertJob(j, "sweep")
    /\ UNCHANGED <<dbVars, pointVars, workerVars, crashes>>

\* POST /jobs/{id}/retry
RetryJob(j) ==
    /\ jstatus[j] = "failed"
    /\ jstatus' = [jstatus EXCEPT ![j] = "queued"]
    /\ owner' = [owner EXCEPT ![j] = NoWorker]
    /\ UNCHANGED <<kind, dbVars, pointVars, workerVars, crashes>>

-----------------------------------------------------------------------------
(* The ingest of a version, as far as its payload is concerned. *)

StoreChunks(v) ==
    /\ docStatus = "active"
    /\ stage[v] = "new"
    /\ stage' = [stage EXCEPT ![v] = "stored"]
    /\ UNCHANGED <<docStatus, active, jobVars, pointVars, workerVars, crashes>>

\* build_qdrant_point copies the status of the document and is_active from a
\* snapshot taken when the ingest began: an active document, no active version.
IndexChunks(v) ==
    /\ stage[v] = "stored"
    /\ stage' = [stage EXCEPT ![v] = "indexed"]
    /\ ptDoc' = [ptDoc EXCEPT ![v] = "active"]
    /\ ptActive' = [ptActive EXCEPT ![v] = FALSE]
    /\ UNCHANGED <<docStatus, active, jobVars, workerVars, crashes>>

\* _mark_version_ready, or the clean-up when the document has been archived.
MarkReady(v) ==
    /\ stage[v] = "indexed"
    /\ \/ /\ docStatus = "active"
          /\ stage' = [stage EXCEPT ![v] = "ready"]
          /\ UNCHANGED pointVars
       \/ /\ docStatus = "archived"
          /\ stage' = [stage EXCEPT ![v] = "gone"]
          /\ ptDoc' = [ptDoc EXCEPT ![v] = "none"]
          /\ ptActive' = [ptActive EXCEPT ![v] = FALSE]
    /\ UNCHANGED <<docStatus, active, jobVars, workerVars, crashes>>

-----------------------------------------------------------------------------
(* Workers. *)

Owns(w) == owner[wjob[w]] = w

\* A queued job, one whose process is gone, or one whose lease ran out while
\* another worker still executes it.
AcquireJob(w, j) ==
    /\ wpc[w] = "idle"
    /\ jstatus[j] \in {"queued", "running"}
    /\ owner[j] # w
    /\ jstatus' = [jstatus EXCEPT ![j] = "running"]
    /\ owner' = [owner EXCEPT ![j] = w]
    /\ wjob' = [wjob EXCEPT ![w] = j]
    /\ wpc' = [wpc EXCEPT ![w] = IF kind[j] = "mirror" THEN "doc" ELSE "scroll"]
    /\ UNCHANGED <<kind, dbVars, pointVars, wdoc, wactive, todo, outcome, crashes>>

\* The worker is done with its job, one way or the other.
Release(w) ==
    /\ wjob' = [wjob EXCEPT ![w] = 0]
    /\ wpc' = [wpc EXCEPT ![w] = "idle"]
    /\ wdoc' = [wdoc EXCEPT ![w] = "none"]
    /\ wactive' = [wactive EXCEPT ![w] = 0]
    /\ todo' = [todo EXCEPT ![w] = {}]
    /\ outcome' = [outcome EXCEPT ![w] = "none"]

\* The process dies; its successor in slot w has another instance id.
CrashWorker(w) ==
    /\ crashes < MaxCrashes
    /\ wjob[w] # 0
    /\ crashes' = crashes + 1
    /\ owner' = [j \in Jobs |-> IF owner[j] = w THEN NoWorker ELSE owner[j]]
    /\ Release(w)
    /\ UNCHANGED <<kind, jstatus, dbVars, pointVars>>

Finish(w, r) ==
    /\ outcome' = [outcome EXCEPT ![w] = r]
    /\ wpc' = [wpc EXCEPT ![w] = "store"]

\* LeaseLostError: the worker forgets the job.
DropJob(w) == ~Owns(w) /\ Release(w)

StoreResult(w) ==
    /\ wpc[w] = "store"
    /\ \/ DropJob(w) /\ UNCHANGED jobVars
       \/ /\ Owns(w)
          /\ jstatus' = [jstatus EXCEPT ![wjob[w]] = outcome[w]]
          /\ owner' = [owner EXCEPT ![wjob[w]] = NoWorker]
          /\ Release(w)
          /\ UNCHANGED kind
    /\ UNCHANGED <<dbVars, pointVars, crashes>>

-----------------------------------------------------------------------------
(* qdrant_mirror_update *)

MirrorReadDocument(w) ==
    /\ wpc[w] = "doc"
    /\ \/ DropJob(w)
       \/ /\ Owns(w)
          /\ wdoc' = [wdoc EXCEPT ![w] = docStatus]
          /\ wpc' = [wpc EXCEPT ![w] = "versions"]
          /\ UNCHANGED <<wjob, wactive, todo, outcome>>
    /\ UNCHANGED <<dbVars, jobVars, pointVars, crashes>>

\* Versions without chunk rows are skipped.  A database error fails the job.
MirrorReadVersions(w) ==
    /\ wpc[w] = "versions"
    /\ \/ /\ wactive' = [wactive EXCEPT ![w] = active]
          /\ todo' = [todo EXCEPT ![w] = {v \in Versions : stage[v] \notin {"new", "gone"}}]
          /\ wpc' = [wpc EXCEPT ![w] = "write"]
          /\ UNCHANGED outcome
       \/ Finish(w, "failed") /\ UNCHANGED <<wactive, todo>>
    /\ UNCHANGED <<dbVars, jobVars, pointVars, wjob, wdoc, crashes>>

\* set_payload by document_version_id: it reaches the points there are now.
SetPayload(w, v) ==
    /\ ptDoc' = [ptDoc EXCEPT ![v] = IF @ = "none" THEN @ ELSE wdoc[w]]
    /\ ptActive' = [ptActive EXCEPT ![v] = ptDoc[v] # "none" /\ wactive[w] = v]

\* Mutant: only the version that is active is written.
MirrorWriteActiveOnly(w) ==
    /\ wpc[w] = "write"
    /\ \/ todo[w] = {} /\ Finish(w, "succeeded") /\ UNCHANGED <<pointVars, todo>>
       \/ \E v \in todo[w] :
             /\ todo' = [todo EXCEPT ![w] = @ \ {v}]
             /\ IF wactive[w] = v THEN SetPayload(w, v) ELSE UNCHANGED pointVars
             /\ UNCHANGED <<wpc, outcome>>
    /\ UNCHANGED <<dbVars, jobVars, wjob, wdoc, wactive, crashes>>

\* The newest version first.  A failing call may have taken effect.
MirrorWrite(w) ==
    /\ wpc[w] = "write"
    /\ \/ todo[w] = {} /\ Finish(w, "succeeded") /\ UNCHANGED <<pointVars, todo>>
       \/ \E v \in todo[w] :
             /\ \A u \in todo[w] : u <= v
             /\ todo' = [todo EXCEPT ![w] = @ \ {v}]
             /\ \/ SetPayload(w, v) /\ UNCHANGED <<wpc, outcome>>
                \/ SetPayload(w, v) /\ Finish(w, "failed")
                \/ UNCHANGED pointVars /\ Finish(w, "failed")
    /\ UNCHANGED <<dbVars, jobVars, wjob, wdoc, wactive, crashes>>

-----------------------------------------------------------------------------
(* qdrant_consistency_sweep: it only ever hides points. *)

SweepScroll(w) ==
    /\ wpc[w] = "scroll"
    /\ todo' = [todo EXCEPT ![w] = {v \in Versions : ptActive[v]}]
    /\ wpc' = [wpc EXCEPT ![w] = "read"]
    /\ UNCHANGED <<dbVars, jobVars, pointVars, wjob, wdoc, wactive, outcome, crashes>>

SweepRead(w) ==
    LET stale == {v \in todo[w] : docStatus = "archived" \/ active # v}
    IN  /\ wpc[w] = "read"
        /\ \/ /\ stale = {}
              /\ todo' = [todo EXCEPT ![w] = {}]
              /\ Finish(w, "succeeded")
              /\ UNCHANGED <<wjob, wdoc, wactive>>
           \/ stale # {} /\ DropJob(w)
           \/ /\ stale # {} /\ Owns(w)
              /\ todo' = [todo EXCEPT ![w] = stale]
              /\ wpc' = [wpc EXCEPT ![w] = "repair"]
              /\ UNCHANGED <<wjob, wdoc, wactive, outcome>>
        /\ UNCHANGED <<dbVars, jobVars, pointVars, crashes>>

SweepRepair(w) ==
    /\ wpc[w] = "repair"
    /\ \/ /\ ptActive' = [v \in Versions |-> ptActive[v] /\ v \notin todo[w]]
          /\ \E r \in {"succeeded", "failed"} : Finish(w, r)
       \/ UNCHANGED ptActive /\ Finish(w, "failed")
    /\ todo' = [todo EXCEPT ![w] = {}]
    /\ UNCHANGED <<dbVars, jobVars, ptDoc, wjob, wdoc, wactive, crashes>>

-----------------------------------------------------------------------------
JobStep(w) ==
    \/ MirrorReadDocument(w)
    \/ MirrorReadVersions(w)
    \/ MirrorWrite(w)
    \/ SweepScroll(w)
    \/ SweepRead(w)
    \/ SweepRepair(w)
    \/ StoreResult(w)

WorkerStep(w) == JobStep(w) \/ \E j \in Jobs : AcquireJob(w, j)

Next ==
    \/ \E v \in Versions, j \in Jobs : ApproveVersion(v, j)
    \/ \E j \in Jobs : ArchiveDocument(j)
    \/ \E j \in Jobs : CreateSweepJob(j)
    \/ \E j \in Jobs : RetryJob(j)
    \/ \E v \in Versions : StoreChunks(v)
    \/ \E v \in Versions : IndexChunks(v)
    \/ \E v \in Versions : MarkReady(v)
    \/ \E w \in Workers : WorkerStep(w)
    \/ \E w \in Workers : CrashWorker(w)

Spec == Init /\ [][Next]_vars

\* Workers poll, reclaim what was left behind, and get on with their jobs.
FairSpec == Spec /\ \A w \in Workers : WF_vars(WorkerStep(w))

-----------------------------------------------------------------------------
(* Properties. *)

\* The filter of the vector search lets the points of v through.  (Its third
\* field, the status of the version, is "ready" whenever is_active is true:
\* ck_document_versions_active_ready_only.)
Served(v) == ptActive[v] /\ ptDoc[v] = "active"

\* No job is waiting, running or failed.
Settled == \A j \in Jobs : jstatus[j] \in {"absent", "succeeded"}

\* Once every mirror job has succeeded, search finds the points of the active
\* version and of no other, whatever approvals, archives, ingests, failing
\* calls, crashes and retries happened while the jobs ran
\* (QdrantMirrorUpdateHandler.handle).
MirrorConverges ==
    (Settled /\ \A w \in Workers : wjob[w] = 0) => \A v \in Versions : Served(v) <=> active = v

\* An approved version becomes visible to search, unless it is superseded or a
\* job failed and waits for somebody to retry it.
ApprovedGetsServed ==
    \A v \in Versions :
        active = v ~> (Served(v) \/ active # v \/ \E j \in Jobs : jstatus[j] = "failed")
=============================================================================
