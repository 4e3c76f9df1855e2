-------------------------- MODULE IndexMirrorProofs --------------------------
(***************************************************************************)
(* Proofs about IndexMirror with one worker process, for any number of     *)
(* versions, jobs and crashes.  With two, MirrorConverges does not hold    *)
(* (run mirror_race).                                                      *)
(***************************************************************************)
EXTENDS IndexMirror, TLAPS

-----------------------------------------------------------------------------
(* The inductive invariant. *)

\* An active version is ready, in an active document; the versions with points
\* are those that were indexed.
VersionsInv ==
    /\ active # 0 => docStatus = "active" /\ stage[active] = "ready"
    /\ \A v \in Versions :
          /\ stage[v] \in {"indexed", "ready"} <=> ptDoc[v] # "none"
          /\ ptActive[v] => ptDoc[v] # "none"

\* Worker w is at the job it holds, with what it has read or found out.
WorkInv(w) ==
    /\ wpc[w] = "idle" <=> wjob[w] = 0
    /\ wjob[w] # 0 => jstatus[wjob[w]] = "running" /\ owner[wjob[w]] = w
    /\ wpc[w] \in {"doc", "versions", "write"} => kind[wjob[w]] = "mirror"
    /\ wpc[w] \in {"scroll", "read", "repair"} => kind[wjob[w]] = "sweep"
    /\ wpc[w] \in {"versions", "write"} => wdoc[w] # "none"
    /\ wpc[w] = "store" => outcome[w] # "none"
    /\ \A j \in Jobs : jstatus[j] # "absent" => kind[j] \in {"mirror", "sweep"}

\* A mirror job that w does not hold has its reads before it.
Unfinished(w) ==
    \E j \in Jobs : /\ kind[j] = "mirror" /\ j # wjob[w]
                    /\ jstatus[j] \in {"queued", "running", "failed"}

Right(v) == Served(v) <=> active = v

\* Without such a job the points are right, or w has read what they should be
\* and has those before it that are not, or reports that it failed; and a sweep
\* hides no active version.
PointOf(w, v) ==
    \/ Right(v)
    \/ wpc[w] \in {"doc", "versions"}
    \/ wpc[w] = "write" /\ v \in todo[w]
    \/ wpc[w] = "store" /\ kind[wjob[w]] = "mirror" /\ outcome[w] = "failed"
Follows(w) ==
    /\ wpc[w] \in {"versions", "write"} => wdoc[w] = docStatus
    /\ wpc[w] = "write" => wactive[w] = active
    /\ wpc[w] = "repair" => active \notin todo[w]
    /\ \A v \in Versions : PointOf(w, v)

MirrorInv(w) == TypeOK /\ VersionsInv /\ WorkInv(w) /\ (Unfinished(w) \/ Follows(w))

LEMMA MirrorInit == ASSUME NEW w \in Workers, Init PROVE MirrorInv(w)
  BY MirrorAssumption
     DEF Init, MirrorInv, TypeOK, Versions, VersionsInv, WorkInv, Follows, PointOf, Right, Served

-----------------------------------------------------------------------------
(* Types. *)

LEMMA RequestTypes ==
    ASSUME TypeOK,
           \/ \E v \in Versions, j \in Jobs : ApproveVersion(v, j)
           \/ \E j \in Jobs : ArchiveDocument(j) \/ CreateSweepJob(j) \/ RetryJob(j)
           \/ \E v \in Versions : StoreChunks(v) \/ IndexChunks(v) \/ MarkReady(v)
    PROVE  TypeOK'
  <1>1. ASSUME NEW v \in Versions, NEW j \in Jobs, ApproveVersion(v, j) PROVE TypeOK'
    BY <1>1 DEF ApproveVersion, InsertJob, TypeOK, pointVars, workerVars
  <1>2. ASSUME NEW j \in Jobs, ArchiveDocument(j) \/ CreateSweepJob(j) PROVE TypeOK'
    BY <1>2 DEF ArchiveDocument, CreateSweepJob, InsertJob, TypeOK, dbVars, pointVars, workerVars
  <1>3. ASSUME NEW j \in Jobs, RetryJob(j) PROVE TypeOK'
    BY <1>3 DEF RetryJob, TypeOK, dbVars, pointVars, workerVars
  <1>4. ASSUME NEW v \in Versions, StoreChunks(v) \/ IndexChunks(v) \/ MarkReady(v) PROVE TypeOK'
    <2>1. CASE StoreChunks(v)
      BY <2>1 DEF StoreChunks, TypeOK, jobVars, pointVars, workerVars
    <2>2. CASE IndexChunks(v)
      BY <2>2 DEF IndexChunks, TypeOK, jobVars, workerVars
    <2>3. CASE MarkReady(v)
      <3>1. stage' \in [Versions -> {"new", "stored", "indexed", "ready", "gone"}]
        BY <2>3 DEF MarkReady, TypeOK
      <3>2. /\ ptDoc' \in [Versions -> {"none", "active", "archived"}]
            /\ ptActive' \in [Versions -> BOOLEAN]
        <4>1. CASE UNCHANGED pointVars
          BY <4>1 DEF TypeOK, pointVars
        <4>2. CASE ptDoc' = [ptDoc EXCEPT ![v] = "none"] /\ ptActive' = [ptActive EXCEPT ![v] = FALSE]
          BY <4>2 DEF TypeOK
        <4> QED
          BY <2>3, <4>1, <4>2 DEF MarkReady
      <3> QED
        BY <2>3, <3>1, <3>2 DEF MarkReady, TypeOK, jobVars, workerVars
    <2> QED
      BY <1>4, <2>1, <2>2, <2>3
  <1> QED
    BY <1>1, <1>2, <1>3, <1>4

LEMMA ReleaseTypes ==
    ASSUME TypeOK, NEW w \in Workers, Release(w)
    PROVE  /\ wpc' \in [Workers -> {"idle", "doc", "versions", "write",
                                    "scroll", "read", "repair", "store"}]
           /\ wjob' \in [Workers -> Jobs \cup {0}]
           /\ wdoc' \in [Workers -> {"none", "active", "archived"}]
           /\ wactive' \in [Workers -> Versions \cup {0}]
           /\ todo' \in [Workers -> SUBSET Versions]
           /\ outcome' \in [Workers -> {"none", "succeeded", "failed"}]
  BY DEF Release, TypeOK

LEMMA WorkerTypes ==
    ASSUME TypeOK, NEW w \in Workers, WorkInv(w),
           JobStep(w) \/ CrashWorker(w) \/ \E j \in Jobs : AcquireJob(w, j)
    PROVE  TypeOK'
  <1>1. ASSUME NEW j \in Jobs, AcquireJob(w, j) PROVE TypeOK'
    BY <1>1 DEF AcquireJob, TypeOK, dbVars, pointVars
  <1>2. CASE CrashWorker(w)
    BY <1>2, ReleaseTypes, MirrorAssumption DEF CrashWorker, TypeOK, dbVars, pointVars
  <1>3. CASE StoreResult(w)
    <2>1. outcome[w] \in {"succeeded", "failed"}
      BY <1>3 DEF StoreResult, WorkInv, TypeOK
    <2>2. /\ jstatus' \in [Jobs -> {"absent", "queued", "running", "succeeded", "failed"}]
          /\ owner' \in [Jobs -> Workers \cup {NoWorker}]
      BY <1>3, <2>1 DEF StoreResult, TypeOK, jobVars
    <2>3. Release(w) /\ UNCHANGED <<dbVars, pointVars, kind, crashes>>
      BY <1>3 DEF StoreResult, DropJob, jobVars
    <2> QED
      BY <2>2, <2>3, ReleaseTypes DEF TypeOK, dbVars, pointVars
  <1>4. CASE MirrorReadDocument(w)
    BY <1>4, ReleaseTypes DEF MirrorReadDocument, DropJob, TypeOK, dbVars, jobVars, pointVars
  <1>5. CASE MirrorReadVersions(w)
    BY <1>5 DEF MirrorReadVersions, Finish, TypeOK, dbVars, jobVars, pointVars
  <1>6. CASE MirrorWrite(w)
    <2>1. UNCHANGED <<dbVars, jobVars, wjob, wdoc, wactive, crashes>>
      BY <1>6 DEF MirrorWrite
    <2>2. /\ todo' \in [Workers -> SUBSET Versions]
          /\ wpc' \in [Workers -> {"idle", "doc", "versions", "write",
                                   "scroll", "read", "repair", "store"}]
          /\ outcome' \in [Workers -> {"none", "succeeded", "failed"}]
      BY <1>6 DEF MirrorWrite, Finish, TypeOK
    <2>3. UNCHANGED pointVars \/ \E v \in Versions : v \in todo[w] /\ SetPayload(w, v)
      BY <1>6 DEF MirrorWrite, TypeOK
    <2>4. ptDoc' \in [Versions -> {"none", "active", "archived"}]
      BY <2>3 DEF SetPayload, TypeOK, pointVars, MirrorInv
    <2>5. ptActive' \in [Versions -> BOOLEAN]
      <3>1. CASE UNCHANGED pointVars
        BY <3>1 DEF TypeOK, pointVars
      <3>2. CASE \E v \in Versions : v \in todo[w] /\ SetPayload(w, v)
        <4>1. PICK v \in Versions, b \in BOOLEAN : ptActive' = [ptActive EXCEPT ![v] = b]
          BY <3>2 DEF SetPayload
        <4> QED
          BY <4>1 DEF TypeOK
      <3> QED
        BY <2>3, <3>1, <3>2
    <2> QED
      BY <2>1, <2>2, <2>4, <2>5 DEF TypeOK, dbVars, jobVars
  <1>7. CASE SweepScroll(w)
    BY <1>7 DEF SweepScroll, TypeOK, dbVars, jobVars, pointVars
  <1>9. CASE SweepRepair(w)
    <2>1. ptActive' \in [Versions -> BOOLEAN]
      <3>1. CASE UNCHANGED ptActive
        BY <3>1 DEF TypeOK
      <3>2. CASE ptActive' = [v \in Versions |-> ptActive[v] /\ v \notin todo[w]]
        <4>1. \A v \in Versions : (ptActive[v] /\ v \notin todo[w]) \in BOOLEAN
          OBVIOUS
        <4> QED
          BY <3>2, <4>1
      <3> QED
        BY <1>9, <3>1, <3>2 DEF SweepRepair
    <2> QED
      BY <1>9, <2>1 DEF SweepRepair, Finish, TypeOK, dbVars, jobVars
  <1>8. CASE SweepRead(w)
    BY <1>8, ReleaseTypes DEF SweepRead, DropJob, Finish, TypeOK, dbVars, jobVars, pointVars
  <1> QED
    BY <1>1, <1>2, <1>3, <1>4, <1>5, <1>6, <1>7, <1>8, <1>9 DEF JobStep

-----------------------------------------------------------------------------
(* Requests and ingests. *)

\* A new job is not one that a worker holds.
LEMMA InsertedJob ==
    ASSUME TypeOK, NEW w \in Workers, WorkInv(w), NEW j \in Jobs, NEW k \in {"mirror", "sweep"},
           InsertJob(j, k), UNCHANGED workerVars
    PROVE  /\ j # wjob[w] /\ kind'[j] = k /\ jstatus'[j] = "queued"
           /\ WorkInv(w)'
           /\ Unfinished(w) => Unfinished(w)'
           /\ wjob[w] # 0 => kind'[wjob[w]] = kind[wjob[w]]
  <1>1. /\ j # wjob[w] /\ kind'[j] = k /\ jstatus'[j] = "queued"
        /\ owner' = owner
        /\ \A i \in Jobs \ {j} : kind'[i] = kind[i] /\ jstatus'[i] = jstatus[i]
    <2>1. j # 0
      BY DEF Jobs
    <2>2. j # wjob[w]
      BY <2>1 DEF InsertJob, WorkInv
    <2> QED
      BY <2>2 DEF InsertJob, TypeOK
  <1>2. /\ wjob[w] \in Jobs \cup {0} /\ jstatus[j] = "absent"
        /\ wpc' = wpc /\ wjob' = wjob /\ wdoc' = wdoc /\ outcome' = outcome
    BY DEF TypeOK, InsertJob, workerVars
  <1>3. wpc[w] \in {"doc", "versions", "write", "scroll", "read", "repair"} => wjob[w] # 0
    BY DEF WorkInv
  <1>4. WorkInv(w)'
    BY <1>1, <1>2, <1>3 DEF WorkInv
  <1>5. Unfinished(w) => Unfinished(w)'
    BY <1>1, <1>2 DEF Unfinished
  <1> QED
    BY <1>1, <1>2, <1>4, <1>5

\* A change of the active version or of the document comes with a mirror job.
LEMMA ChangeStep ==
    ASSUME NEW w \in Workers, MirrorInv(w), NEW j \in Jobs,
           ArchiveDocument(j) \/ \E v \in Versions : ApproveVersion(v, j)
    PROVE  MirrorInv(w)'
  <1> USE DEF MirrorInv
  <1>1. TypeOK'
    BY RequestTypes
  <1>2. InsertJob(j, "mirror") /\ UNCHANGED workerVars
    BY DEF ArchiveDocument, ApproveVersion
  <1>3. WorkInv(w)' /\ Unfinished(w)'
    BY <1>2, InsertedJob DEF Unfinished, workerVars
  <1>4. VersionsInv'
    <2>1. UNCHANGED <<stage, ptDoc, ptActive>>
      BY DEF ArchiveDocument, ApproveVersion, pointVars
    <2>2. active' # 0 => docStatus' = "active" /\ stage'[active'] = "ready"
      BY DEF ArchiveDocument, ApproveVersion
    <2> QED
      BY <2>1, <2>2 DEF VersionsInv
  <1> QED
    BY <1>1, <1>3, <1>4

LEMMA SweepOrRetry ==
    ASSUME NEW w \in Workers, MirrorInv(w), NEW j \in Jobs, CreateSweepJob(j) \/ RetryJob(j)
    PROVE  MirrorInv(w)'
  <1> USE DEF MirrorInv
  <1>1. TypeOK'
    BY RequestTypes
  <1>2. UNCHANGED <<dbVars, pointVars, workerVars>>
    BY DEF CreateSweepJob, RetryJob
  <1>3. VersionsInv'
    BY <1>2 DEF VersionsInv, dbVars, pointVars
  <1>4. /\ WorkInv(w)' /\ (Unfinished(w) => Unfinished(w)')
        /\ wjob[w] # 0 => kind'[wjob[w]] = kind[wjob[w]]
    <2>1. CASE CreateSweepJob(j)
      BY <1>2, <2>1, InsertedJob DEF CreateSweepJob, workerVars
    <2>2. CASE RetryJob(j)
      BY <1>2, <2>2 DEF RetryJob, WorkInv, Unfinished, TypeOK, workerVars
    <2> QED
      BY <2>1, <2>2
  <1>5. Follows(w) => Follows(w)'
    BY <1>2, <1>4 DEF Follows, PointOf, Right, Served, WorkInv, dbVars, pointVars, workerVars
  <1> QED
    BY <1>1, <1>3, <1>4, <1>5

\* An ingest makes and takes away points that are not active, of versions that
\* are not.
LEMMA IngestStep ==
    ASSUME NEW w \in Workers, MirrorInv(w), NEW v \in Versions,
           StoreChunks(v) \/ IndexChunks(v) \/ MarkReady(v)
    PROVE  MirrorInv(w)'
  <1> USE DEF MirrorInv
  <1>1. TypeOK'
    BY RequestTypes
  <1>2. UNCHANGED <<docStatus, active, jobVars, workerVars>>
    BY DEF StoreChunks, IndexChunks, MarkReady
  <1>3. active # v
    BY DEF StoreChunks, IndexChunks, MarkReady, VersionsInv, Versions
  <1>4. /\ stage'[v] \in {"indexed", "ready"} <=> ptDoc'[v] # "none"
        /\ ptActive'[v] => ptActive[v] /\ ptDoc'[v] # "none" /\ ptDoc'[v] = ptDoc[v]
        /\ \A u \in Versions \ {v} : /\ stage'[u] = stage[u] /\ ptDoc'[u] = ptDoc[u]
                                     /\ ptActive'[u] = ptActive[u]
    BY DEF StoreChunks, IndexChunks, MarkReady, TypeOK, VersionsInv, pointVars
  <1>5. VersionsInv'
    BY <1>2, <1>3, <1>4 DEF VersionsInv, TypeOK
  <1>6. WorkInv(w)' /\ Unfinished(w)' = Unfinished(w)
    BY <1>2 DEF WorkInv, Unfinished, jobVars, workerVars
  <1>7. \A u \in Versions : Right(u) => Right(u)'
    BY <1>2, <1>3, <1>4 DEF Right, Served
  <1>8. Follows(w) => Follows(w)'
    BY <1>2, <1>7 DEF Follows, PointOf, jobVars, workerVars
  <1> QED
    BY <1>1, <1>5, <1>6, <1>8

-----------------------------------------------------------------------------
(* The worker. *)

\* Where a worker lets its job go, a mirror job it did not finish is unfinished.
LEMMA LetGo ==
    ASSUME TypeOK, TypeOK', NEW w \in Workers, WorkInv(w), Release(w), wjob[w] # 0, kind' = kind,
           \A j \in Jobs \ {wjob[w]} : jstatus'[j] = jstatus[j],
           jstatus'[wjob[w]] \in {"running", "succeeded", "failed"}
    PROVE  /\ WorkInv(w)' /\ wpc'[w] = "idle"
           /\ Unfinished(w) => Unfinished(w)'
           /\ kind[wjob[w]] = "mirror" /\ jstatus'[wjob[w]] # "succeeded" => Unfinished(w)'
  <1>1. /\ wjob[w] \in Jobs /\ wjob'[w] = 0 /\ wpc'[w] = "idle"
        /\ \A j \in Jobs : j # 0
    BY DEF Release, TypeOK, Jobs
  <1>2. WorkInv(w)'
    BY <1>1 DEF WorkInv
  <1>3. Unfinished(w) => Unfinished(w)'
    BY <1>1 DEF Unfinished
  <1>4. kind[wjob[w]] = "mirror" /\ jstatus'[wjob[w]] # "succeeded" => Unfinished(w)'
    BY <1>1 DEF Unfinished
  <1> QED
    BY <1>1, <1>2, <1>3, <1>4

\* When nothing else is unfinished, the points of an idle worker are right.
LEMMA RightFollows ==
    ASSUME NEW w \in Workers, wpc[w] \in {"idle", "scroll", "read", "doc", "store"},
           \A v \in Versions : Right(v)
    PROVE  Follows(w)
  BY DEF Follows, PointOf

LEMMA AcquireStep ==
    ASSUME NEW w \in Workers, MirrorInv(w), NEW j \in Jobs, AcquireJob(w, j)
    PROVE  MirrorInv(w)'
  <1> USE DEF MirrorInv
  <1>1. TypeOK'
    BY WorkerTypes
  <1>2. UNCHANGED <<kind, dbVars, pointVars, wdoc, wactive, todo, outcome>>
    BY DEF AcquireJob
  <1>3. VersionsInv'
    BY <1>2 DEF VersionsInv, dbVars, pointVars
  <1>4. /\ wpc[w] = "idle" /\ wjob[w] = 0 /\ wjob'[w] = j /\ j # 0
        /\ jstatus'[j] = "running" /\ owner'[j] = w
        /\ \A i \in Jobs \ {j} : jstatus'[i] = jstatus[i]
        /\ jstatus[j] # "absent"
        /\ wpc'[w] = IF kind[j] = "mirror" THEN "doc" ELSE "scroll"
    BY DEF AcquireJob, WorkInv, TypeOK, Jobs
  <1>5. WorkInv(w)'
    BY <1>2, <1>4 DEF WorkInv
  <1>6. CASE kind[j] = "mirror"
    BY <1>1, <1>3, <1>4, <1>5, <1>6 DEF Follows, PointOf
  <1>7. CASE kind[j] # "mirror"
    <2>1. Unfinished(w) => Unfinished(w)'
      BY <1>2, <1>4, <1>7 DEF Unfinished
    <2>2. Follows(w) => Follows(w)'
      BY <1>2, <1>4, <1>7 DEF Follows, PointOf, Right, Served, dbVars, pointVars
    <2> QED
      BY <1>1, <1>3, <1>5, <2>1, <2>2
  <1> QED
    BY <1>6, <1>7

LEMMA CrashStep ==
    ASSUME NEW w \in Workers, MirrorInv(w), CrashWorker(w) PROVE MirrorInv(w)'
  <1> USE DEF MirrorInv
  <1>1. TypeOK'
    BY WorkerTypes
  <1>2. Release(w) /\ wjob[w] # 0 /\ UNCHANGED <<kind, jstatus, dbVars, pointVars>>
    BY DEF CrashWorker
  <1>3. VersionsInv'
    BY <1>2 DEF VersionsInv, dbVars, pointVars
  <1>4. jstatus'[wjob[w]] = "running"
    BY <1>2 DEF WorkInv
  <1>5. /\ WorkInv(w)' /\ wpc'[w] = "idle"
        /\ Unfinished(w) => Unfinished(w)'
        /\ kind[wjob[w]] = "mirror" => Unfinished(w)'
    BY <1>1, <1>2, <1>4, LetGo
  <1>6. CASE kind[wjob[w]] = "mirror"
    BY <1>1, <1>3, <1>5, <1>6
  <1>7. CASE kind[wjob[w]] # "mirror"
    <2>1. Follows(w) => \A v \in Versions : Right(v)
      BY <1>7 DEF Follows, PointOf, WorkInv
    <2>2. Follows(w) => Follows(w)'
      BY <1>2, <1>5, <2>1 DEF Follows, PointOf, Right, Served, dbVars, pointVars
    <2> QED
      BY <1>1, <1>3, <1>5, <2>2
  <1> QED
    BY <1>6, <1>7

\* The only worker has its lease.
LEMMA HoldsJob ==
    ASSUME TypeOK, NEW w \in Workers, WorkInv(w), wpc[w] # "idle"
    PROVE  wjob[w] \in Jobs /\ Owns(w) /\ jstatus[wjob[w]] = "running" /\ ~DropJob(w)
  BY DEF TypeOK, WorkInv, Owns, DropJob

LEMMA StoreStep ==
    ASSUME NEW w \in Workers, MirrorInv(w), StoreResult(w) PROVE MirrorInv(w)'
  <1> USE DEF MirrorInv
  <1>1. TypeOK'
    BY WorkerTypes DEF JobStep
  <1>2. wpc[w] = "store" /\ wjob[w] \in Jobs /\ wjob[w] # 0 /\ ~DropJob(w)
    BY HoldsJob DEF StoreResult, WorkInv
  <1>3. /\ Release(w) /\ UNCHANGED <<kind, dbVars, pointVars>>
        /\ jstatus' = [jstatus EXCEPT ![wjob[w]] = outcome[w]]
    BY <1>2 DEF StoreResult
  <1>4. VersionsInv'
    BY <1>3 DEF VersionsInv, dbVars, pointVars
  <1>5. /\ jstatus'[wjob[w]] = outcome[w] /\ outcome[w] \in {"succeeded", "failed"}
        /\ \A j \in Jobs \ {wjob[w]} : jstatus'[j] = jstatus[j]
    BY <1>2, <1>3 DEF TypeOK, WorkInv
  <1>6. /\ WorkInv(w)' /\ wpc'[w] = "idle"
        /\ Unfinished(w) => Unfinished(w)'
        /\ kind[wjob[w]] = "mirror" /\ outcome[w] = "failed" => Unfinished(w)'
    BY <1>1, <1>2, <1>3, <1>5, LetGo
  <1>7. CASE kind[wjob[w]] = "mirror" /\ outcome[w] = "failed"
    BY <1>1, <1>4, <1>6, <1>7
  <1>8. CASE ~(kind[wjob[w]] = "mirror" /\ outcome[w] = "failed")
    <2>1. Follows(w) => \A v \in Versions : Right(v)
      BY <1>2, <1>8 DEF Follows, PointOf
    <2>2. Follows(w) => Follows(w)'
      BY <1>3, <1>6, <2>1 DEF Follows, PointOf, Right, Served, dbVars, pointVars
    <2> QED
      BY <1>1, <1>4, <1>6, <2>2
  <1> QED
    BY <1>7, <1>8

\* A step of the handler that does not let the job go.
LEMMA HandlerKeeps ==
    ASSUME TypeOK, TypeOK', NEW w \in Workers, WorkInv(w), UNCHANGED <<dbVars, jobVars, wjob>>,
           wpc[w] # "idle",
           \/ /\ kind[wjob[w]] = "mirror"
              /\ wpc'[w] \in {"versions", "write", "store"}
           \/ /\ kind[wjob[w]] = "sweep"
              /\ wpc'[w] \in {"read", "repair", "store"},
           wpc'[w] \in {"versions", "write"} => wdoc'[w] # "none",
           wpc'[w] = "store" => outcome'[w] # "none"
    PROVE  WorkInv(w)' /\ Unfinished(w)' = Unfinished(w)
  <1>1. WorkInv(w)'
    BY DEF WorkInv, jobVars
  <1>2. Unfinished(w)' = Unfinished(w)
    BY DEF Unfinished, jobVars
  <1> QED
    BY <1>1, <1>2

\* The mirror reads what is there.
LEMMA ReadStep ==
    ASSUME NEW w \in Workers, MirrorInv(w), MirrorReadDocument(w) \/ MirrorReadVersions(w)
    PROVE  MirrorInv(w)'
  <1> USE DEF MirrorInv
  <1>1. TypeOK'
    BY WorkerTypes DEF JobStep
  <1>2. wpc[w] \in {"doc", "versions"} /\ ~DropJob(w) /\ kind[wjob[w]] = "mirror"
    BY HoldsJob DEF MirrorReadDocument, MirrorReadVersions, WorkInv
  <1>3. /\ UNCHANGED <<dbVars, jobVars, pointVars, wjob>>
        /\ \/ wpc'[w] = "versions" /\ wdoc'[w] = docStatus
           \/ /\ wpc[w] = "versions" /\ wpc'[w] = "write" /\ wdoc' = wdoc /\ wactive'[w] = active
              /\ todo'[w] = {v \in Versions : stage[v] \notin {"new", "gone"}}
           \/ wpc'[w] = "store" /\ outcome'[w] = "failed"
    BY <1>2 DEF MirrorReadDocument, MirrorReadVersions, Finish, TypeOK
  <1>4. VersionsInv'
    BY <1>3 DEF VersionsInv, dbVars, pointVars
  <1>5. WorkInv(w)' /\ Unfinished(w)' = Unfinished(w)
    <2>1. wpc'[w] \in {"versions", "write"} => wdoc'[w] # "none"
      BY <1>3 DEF WorkInv, TypeOK
    <2> QED
      BY <1>1, <1>2, <1>3, <2>1, HandlerKeeps
  <1>6. Follows(w) => Follows(w)'
    <2>1. ASSUME NEW v \in Versions, stage[v] \in {"new", "gone"} PROVE Right(v)
      BY <2>1 DEF VersionsInv, Right, Served, Versions
    <2>2. \A v \in Versions : Right(v)' = Right(v)
      BY <1>3 DEF Right, Served, dbVars, pointVars
    <2>3. CASE wpc'[w] = "versions"
      BY <1>2, <1>3, <2>3 DEF Follows, PointOf, dbVars
    <2>4. CASE wpc'[w] = "write"
      BY <1>2, <1>3, <2>1, <2>2, <2>4 DEF Follows, PointOf, dbVars
    <2>5. CASE wpc'[w] = "store"
      BY <1>2, <1>3, <2>5 DEF Follows, PointOf, jobVars
    <2> QED
      BY <1>3, <2>3, <2>4, <2>5
  <1> QED
    BY <1>1, <1>4, <1>5, <1>6

\* What the mirror writes is right, if what it has read is still there.
LEMMA WriteStep ==
    ASSUME NEW w \in Workers, MirrorInv(w), MirrorWrite(w) PROVE MirrorInv(w)'
  <1> USE DEF MirrorInv
  <1>1. TypeOK'
    BY WorkerTypes DEF JobStep
  <1>2. wpc[w] = "write" /\ kind[wjob[w]] = "mirror"
    BY DEF MirrorWrite, WorkInv
  <1>3. UNCHANGED <<dbVars, jobVars, wjob, wdoc, wactive>>
    BY DEF MirrorWrite
  <1>4. \/ /\ todo[w] = {} /\ wpc'[w] = "store" /\ outcome'[w] = "succeeded" /\ UNCHANGED pointVars
        \/ /\ wpc'[w] = "store" /\ outcome'[w] = "failed"
           /\ UNCHANGED pointVars \/ \E v \in todo[w] : SetPayload(w, v)
        \/ /\ wpc'[w] = "write"
           /\ \E v \in todo[w] : SetPayload(w, v) /\ todo'[w] = todo[w] \ {v}
    BY <1>2 DEF MirrorWrite, Finish, TypeOK
  <1>5. ASSUME NEW v \in Versions, SetPayload(w, v)
        PROVE  /\ ptDoc'[v] = IF ptDoc[v] = "none" THEN "none" ELSE wdoc[w]
               /\ ptActive'[v] <=> ptDoc[v] # "none" /\ wactive[w] = v
               /\ \A u \in Versions \ {v} : ptDoc'[u] = ptDoc[u] /\ ptActive'[u] = ptActive[u]
    BY <1>5 DEF SetPayload, TypeOK
  <1>6. todo[w] \subseteq Versions
    BY DEF TypeOK
  <1>7. wpc'[w] \in {"write", "store"} /\ (wpc'[w] = "store" => outcome'[w] # "none")
    BY <1>4
  <1>8. WorkInv(w)' /\ Unfinished(w)' = Unfinished(w)
    <2>1. wdoc'[w] # "none"
      BY <1>2, <1>3 DEF WorkInv
    <2> QED
      BY <1>1, <1>2, <1>3, <1>7, <2>1, HandlerKeeps
  <1>9. VersionsInv'
    <2> DEFINE kept(v) == (ptDoc'[v] = "none" <=> ptDoc[v] = "none")
                          /\ (ptActive'[v] => ptDoc'[v] # "none")
    <2>1. ASSUME NEW v \in Versions PROVE kept(v)
      <3>1. wdoc[w] # "none"
        BY <1>2 DEF WorkInv
      <3>2. CASE UNCHANGED pointVars
        BY <3>2 DEF VersionsInv, pointVars
      <3>3. ASSUME NEW u \in Versions, SetPayload(w, u) PROVE kept(v)
        BY <1>5, <3>1, <3>3 DEF VersionsInv
      <3> QED
        BY <1>4, <1>6, <3>2, <3>3
    <2> QED
      BY <1>3, <2>1 DEF VersionsInv, dbVars
  <1>10. ASSUME NEW v \in Versions, SetPayload(w, v), Follows(w) PROVE Right(v)'
    <2>1. wdoc[w] = docStatus /\ wactive[w] = active
      BY <1>2, <1>10 DEF Follows
    <2>2. active = v => ptDoc[v] # "none" /\ docStatus = "active"
      BY DEF VersionsInv, Versions
    <2>3. CASE ptDoc[v] = "none"
      BY <1>3, <1>5, <1>10, <2>2, <2>3 DEF Right, Served, dbVars
    <2>4. CASE ptDoc[v] # "none"
      BY <1>3, <1>5, <1>10, <2>1, <2>2, <2>4 DEF Right, Served, dbVars
    <2> QED
      BY <2>3, <2>4
  <1>11. ASSUME NEW v \in Versions, NEW u \in Versions \ {v}, SetPayload(w, v) PROVE Right(u)' = Right(u)
    BY <1>3, <1>5, <1>11 DEF Right, Served, dbVars
  <1>12. Follows(w) => Follows(w)'
    <2> SUFFICES ASSUME Follows(w) PROVE Follows(w)'
      OBVIOUS
    <2>0. \A v \in Versions : Right(v) \/ v \in todo[w]
      BY <1>2 DEF Follows, PointOf
    <2>1. CASE wpc'[w] = "write"
      <3>1. PICK v \in todo[w] : SetPayload(w, v) /\ todo'[w] = todo[w] \ {v}
        BY <1>4, <2>1
      <3>2. \A u \in Versions : Right(u)' \/ u \in todo'[w]
        BY <1>6, <1>10, <1>11, <2>0, <3>1
      <3> QED
        BY <1>2, <1>3, <2>1, <3>2 DEF Follows, PointOf, dbVars
    <2>2. CASE wpc'[w] = "store" /\ outcome'[w] = "failed"
      BY <1>2, <1>3, <2>2 DEF Follows, PointOf, jobVars
    <2>3. CASE wpc'[w] = "store" /\ todo[w] = {} /\ UNCHANGED pointVars
      BY <1>3, <2>0, <2>3 DEF Follows, PointOf, Right, Served, dbVars, pointVars
    <2> QED
      BY <1>4, <2>1, <2>2, <2>3
  <1> QED
    BY <1>1, <1>8, <1>9, <1>12

\* A sweep reads what is served and hides what should not be.
LEMMA SweepStep ==
    ASSUME NEW w \in Workers, MirrorInv(w), SweepScroll(w) \/ SweepRead(w) \/ SweepRepair(w)
    PROVE  MirrorInv(w)'
  <1> USE DEF MirrorInv
  <1>1. TypeOK'
    BY WorkerTypes DEF JobStep
  <1>2. wpc[w] \in {"scroll", "read", "repair"} /\ ~DropJob(w) /\ kind[wjob[w]] = "sweep"
    BY HoldsJob DEF SweepScroll, SweepRead, SweepRepair, WorkInv
  <1>3. /\ UNCHANGED <<dbVars, jobVars, ptDoc, wjob>>
        /\ \/ wpc'[w] = "read" /\ UNCHANGED ptActive
           \/ /\ wpc'[w] = "repair" /\ UNCHANGED ptActive
              /\ todo'[w] = {v \in todo[w] : docStatus = "archived" \/ active # v}
           \/ /\ wpc'[w] = "store" /\ outcome'[w] # "none"
              /\ \/ UNCHANGED ptActive
                 \/ /\ wpc[w] = "repair"
                    /\ ptActive' = [v \in Versions |-> ptActive[v] /\ v \notin todo[w]]
    BY <1>2 DEF SweepScroll, SweepRead, SweepRepair, Finish, TypeOK, pointVars
  <1>4. ASSUME NEW v \in Versions
        PROVE  /\ ptActive'[v] => ptActive[v]
               /\ ptActive[v] /\ ~ptActive'[v] => wpc[w] = "repair" /\ v \in todo[w]
    BY <1>3
  <1>5. VersionsInv'
    BY <1>3, <1>4 DEF VersionsInv, dbVars
  <1>6. WorkInv(w)' /\ Unfinished(w)' = Unfinished(w)
    BY <1>1, <1>2, <1>3, HandlerKeeps
  <1>7. Follows(w) => Follows(w)'
    <2> SUFFICES ASSUME Follows(w) PROVE Follows(w)'
      OBVIOUS
    <2>1. \A v \in Versions : Right(v)
      BY <1>2 DEF Follows, PointOf
    <2>2. ASSUME NEW v \in Versions PROVE Right(v)'
      <3>1. CASE ptActive'[v] <=> ptActive[v]
        BY <1>3, <2>1, <3>1 DEF Right, Served, dbVars
      <3>2. CASE ptActive[v] /\ ~ptActive'[v]
        <4>1. active # v
          BY <1>4, <3>2 DEF Follows
        <4> QED
          BY <1>3, <3>2, <4>1 DEF Right, Served, dbVars
      <3> QED
        BY <1>4, <3>1, <3>2
    <2>3. wpc'[w] = "repair" => active' \notin todo'[w]
      <3>1. docStatus = "archived" => active = 0
        BY DEF VersionsInv
      <3>2. todo[w] \subseteq Versions /\ 0 \notin Versions
        BY DEF TypeOK, Versions
      <3> QED
        BY <1>3, <3>1, <3>2 DEF dbVars
    <2> QED
      BY <1>3, <2>2, <2>3 DEF Follows, PointOf
  <1> QED
    BY <1>1, <1>5, <1>6, <1>7

-----------------------------------------------------------------------------
LEMMA MirrorStep ==
    ASSUME NEW w \in Workers, Workers = {w} PROVE MirrorInv(w) /\ [Next]_vars => MirrorInv(w)'
  <1> SUFFICES ASSUME MirrorInv(w), [Next]_vars PROVE MirrorInv(w)'
    OBVIOUS
  <1>1. CASE UNCHANGED vars
    BY <1>1 DEF vars, dbVars, jobVars, pointVars, workerVars, MirrorInv, TypeOK, VersionsInv, WorkInv,
       Unfinished, Follows, PointOf, Right, Served
  <1>2. CASE \/ \E v \in Versions, j \in Jobs : ApproveVersion(v, j)
             \/ \E j \in Jobs : ArchiveDocument(j)
    BY <1>2, ChangeStep
  <1>3. CASE \E j \in Jobs : CreateSweepJob(j) \/ RetryJob(j)
    BY <1>3, SweepOrRetry
  <1>4. CASE \E v \in Versions : StoreChunks(v) \/ IndexChunks(v) \/ MarkReady(v)
    BY <1>4, IngestStep
  <1>5. CASE WorkerStep(w) \/ CrashWorker(w)
    BY <1>5, AcquireStep, CrashStep, StoreStep, ReadStep, WriteStep, SweepStep DEF WorkerStep, JobStep
  <1> QED
    BY <1>1, <1>2, <1>3, <1>4, <1>5 DEF Next

\* With one worker process, once every mirror job has succeeded, search finds the
\* active version and no other, whatever approvals, archivals, ingests, sweeps,
\* failing calls, crashes and retries there were (QdrantMirrorUpdateHandler.handle,
\* and the mirror jobs of approve_version and archive_document).
THEOREM PayloadCatchesUp ==
    ASSUME NEW w, Workers = {w} PROVE Spec => []MirrorConverges
  <1>1. w \in Workers
    OBVIOUS
  <1>2. Init => MirrorInv(w)
    BY <1>1, MirrorInit
  <1>3. MirrorInv(w) /\ [Next]_vars => MirrorInv(w)'
    BY <1>1, MirrorStep
  <1>4. MirrorInv(w) => MirrorConverges
    <2> SUFFICES ASSUME MirrorInv(w), Settled, wjob[w] = 0, NEW v \in Versions PROVE Right(v)
      BY <1>1 DEF MirrorConverges, Right
    <2>1. ~Unfinished(w)
      BY DEF Unfinished, Settled
    <2> QED
      BY <2>1 DEF MirrorInv, Follows, PointOf, WorkInv
  <1> QED
    BY <1>2, <1>3, <1>4, PTL DEF Spec
=============================================================================
