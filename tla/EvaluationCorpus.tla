-------------------------- MODULE EvaluationCorpus --------------------------
(***************************************************************************)
(* The isolated corpus of an evaluation dataset:                           *)
(*   backend/app/services/evaluation_corpus_service.py                     *)
(*   backend/app/services/document_service.py      upload, approve, archive*)
(*   backend/app/repositories/evaluation_repository.py                     *)
(*                                                                         *)
(* A request to prepare the corpus walks over its sources: it approves,    *)
(* keeps or uploads the document of each and then computes the readiness   *)
(* of the whole.  An upload writes a file, commits the rows of document,   *)
(* version and ingest job, and only a later transaction links them to the  *)
(* source.  Several requests may prepare one corpus, while jobs ingest its *)
(* documents and users approve, archive and retry them like any other.     *)
(*                                                                         *)
(* The upload asks the ingest to activate its version, but the payload of  *)
(* a job keeps known keys only and loses that flag, so a version becomes   *)
(* ready without being active.  Each document has one version here.        *)
(***************************************************************************)
EXTENDS Integers, FiniteSets

CONSTANTS
    Sources,      \* source keys, in the order of their processing: 1..n
    Docs,         \* document ids
    Cases,        \* evaluation cases of the dataset
    Evidence,     \* Evidence[c]: the sources an answerable case expects
    Preparers,    \* concurrent requests to prepare the corpus
    MaxPrepares,  \* bound: requests in all
    MaxChanges,   \* bound: acts of users on documents, cases and results
    MaxFaults     \* bound: crashes, lost leases, failing transactions

ASSUME CorpusAssumption ==
    /\ \E n \in Sources : Sources = 1..n
    /\ Docs \subseteq Nat \ {0} /\ Sources \subseteq Docs
    /\ Evidence \in [Cases -> SUBSET Sources]

VARIABLES
    version,   \* version[d]: status of the version, "none" before its row
    active,    \* documents whose version is active
    archived,
    ingest,    \* ingest[d]: the ingest job the upload created
    retrying,  \* documents that a manual retry of their ingest job works on
    files,     \* documents whose file is in the storage
    lostFile,  \* documents whose file was removed for a commit that took effect
    everActive,
    source,    \* source[s]: evaluation_corpus_sources: document, status, failure_code
    corpus,    \* evaluation_datasets.corpus_status
    expected,  \* expected[c]: expected_document_ids of the case
    prep,      \* prep[p]: what each request is doing
    prepares, changes, faults

docVars == <<version, active, archived, ingest, retrying, files, lostFile, everActive>>
sourceVars == <<source, corpus, expected>>
corpusVars == <<docVars, sourceVars, prep, prepares, changes, faults>>

Resting == [pc |-> "idle", at |-> 1, doc |-> 0]

CorpusTypeOK ==
    /\ version \in [Docs -> {"none", "processing", "ready", "failed"}]
    /\ ingest \in [Docs -> {"none", "running", "succeeded", "failed"}]
    /\ active \subseteq Docs /\ archived \subseteq Docs /\ retrying \subseteq Docs
    /\ files \subseteq Docs /\ lostFile \subseteq Docs /\ everActive \subseteq Docs
    /\ source \in [Sources -> [doc : Docs \cup {0}, failed : BOOLEAN,
                               status : {"pending", "preparing", "ready", "failed"}]]
    /\ corpus \in {"not_prepared", "preparing", "ready", "failed"}
    /\ expected \in [Cases -> SUBSET Docs]
    /\ \A p \in Preparers :
         /\ prep[p].pc \in {"idle", "source", "check", "store", "commit", "link", "readiness"}
         /\ prep[p].at \in Sources /\ prep[p].doc \in Docs \cup {0}
    /\ prepares \in 0..MaxPrepares /\ changes \in 0..MaxChanges /\ faults \in 0..MaxFaults

CorpusInit ==
    /\ version = [d \in Docs |-> "none"]
    /\ ingest = [d \in Docs |-> "none"]
    /\ active = {} /\ archived = {} /\ retrying = {}
    /\ files = {} /\ lostFile = {} /\ everActive = {}
    /\ source = [s \in Sources |-> [doc |-> 0, status |-> "pending", failed |-> FALSE]]
    /\ corpus = "not_prepared"
    /\ expected = [c \in Cases |-> {}]
    /\ prep = [p \in Preparers |-> Resting]
    /\ prepares = 0 /\ changes = 0 /\ faults = 0

\* A corpus prepared before, with document s for source s.
PreparedInit ==
    /\ version = [d \in Docs |-> IF d \in Sources THEN "ready" ELSE "none"]
    /\ ingest = [d \in Docs |-> IF d \in Sources THEN "succeeded" ELSE "none"]
    /\ active = Sources /\ archived = {} /\ retrying = {}
    /\ files = Sources /\ lostFile = {} /\ everActive = Sources
    /\ source = [s \in Sources |-> [doc |-> s, status |-> "ready", failed |-> FALSE]]
    /\ corpus = "ready"
    /\ expected = Evidence
    /\ prep = [p \in Preparers |-> Resting]
    /\ prepares = 0 /\ changes = 0 /\ faults = 0

Fault == faults < MaxFaults /\ faults' = faults + 1
Change == changes < MaxChanges /\ changes' = changes + 1

-----------------------------------------------------------------------------
(* Documents: the ingest job, and users who treat them like other documents. *)

\* One outcome of the ingest job: the version gets ready or failed, or the job
\* ends as failed and leaves the version processing.
Ingest(d) ==
    /\ version[d] = "processing"
    /\ ingest[d] = "running" \/ d \in retrying
    /\ \E status \in {"ready", "failed"} :
         /\ version' = [version EXCEPT ![d] = status]
         /\ ingest' = IF d \in retrying THEN ingest
                      ELSE [ingest EXCEPT ![d] = IF status = "ready" THEN "succeeded" ELSE status]
    /\ retrying' = retrying \ {d}
    /\ UNCHANGED <<active, archived, files, lostFile, everActive, sourceVars, prep,
                   prepares, changes, faults>>

LoseIngest(d) ==
    /\ version[d] = "processing" /\ ingest[d] = "running"
    /\ Fault
    /\ ingest' = [ingest EXCEPT ![d] = "failed"]
    /\ UNCHANGED <<version, active, archived, retrying, files, lostFile, everActive,
                   sourceVars, prep, prepares, changes>>

\* retry_job makes a new job; the source still names the failed one.
RetryIngest(d) ==
    /\ ingest[d] = "failed" /\ version[d] # "ready" /\ d \notin retrying
    /\ Change
    /\ version' = [version EXCEPT ![d] = "processing"]
    /\ retrying' = retrying \cup {d}
    /\ UNCHANGED <<active, archived, ingest, files, lostFile, everActive, sourceVars, prep,
                   prepares, faults>>

\* approve_version: refused for an archived document or a version not ready.
MayApprove(d) == version[d] = "ready" /\ d \notin archived
Activate(d) ==
    /\ active' = active \cup {d}
    /\ everActive' = everActive \cup {d}

ApproveByUser(d) ==
    /\ MayApprove(d) /\ d \notin active
    /\ Change
    /\ Activate(d)
    /\ UNCHANGED <<version, archived, ingest, retrying, files, lostFile, sourceVars, prep,
                   prepares, faults>>

ArchiveDocument(d) ==
    /\ version[d] # "none" /\ d \notin archived
    /\ Change
    /\ archived' = archived \cup {d}
    /\ active' = active \ {d}
    /\ UNCHANGED <<version, ingest, retrying, files, lostFile, everActive, sourceVars, prep,
                   prepares, faults>>

-----------------------------------------------------------------------------
(* prepare *)

Indexed(d) == d # 0 /\ version[d] = "ready"   \* a ready version has chunks
NextSource(p) ==
    prep' = [prep EXCEPT ![p] =
        IF @.at + 1 \in Sources THEN [pc |-> "source", at |-> @.at + 1, doc |-> 0]
        ELSE [Resting EXCEPT !.pc = "readiness"]]
Proceed(p, pc, d) == prep' = [prep EXCEPT ![p] = [@ EXCEPT !.pc = pc, !.doc = d]]
SourceStatus(s, status) == source' = [source EXCEPT ![s].status = status]

\* _record_prepare_failure
RecordPrepareFailure(p) ==
    /\ source' = [source EXCEPT ![prep[p].at].status = "failed", ![prep[p].at].failed = TRUE]
    /\ NextSource(p)

PrepareStart(p) ==
    /\ prep[p].pc = "idle" /\ prepares < MaxPrepares
    /\ prepares' = prepares + 1
    /\ corpus' = "preparing"
    /\ Proceed(p, "source", 0)
    /\ UNCHANGED <<docVars, source, expected, changes, faults>>

\* The version is ready and not active: approve it, then look at it again.
PrepareApprove(p) ==
    LET d == source[prep[p].at].doc IN
    /\ prep[p].pc = "source"
    /\ IF Indexed(d) /\ d \notin active
       THEN IF MayApprove(d) THEN Activate(d) /\ Proceed(p, "check", d) /\ UNCHANGED source
            ELSE RecordPrepareFailure(p) /\ UNCHANGED <<active, everActive>>
       ELSE Proceed(p, "check", d) /\ UNCHANGED <<active, everActive, source>>
    /\ UNCHANGED <<version, archived, ingest, retrying, files, lostFile, corpus, expected,
                   prepares, changes, faults>>

PrepareCheck(p) ==
    LET s == prep[p].at
        d == prep[p].doc
    IN  /\ prep[p].pc = "check"
        /\ \/ /\ Indexed(d) /\ d \in active
              /\ source' = [source EXCEPT ![s].status = "ready", ![s].failed = FALSE]
              /\ NextSource(p)
           \/ /\ d # 0 /\ version[d] = "processing" /\ ingest[d] = "running"
              /\ SourceStatus(s, "preparing")
              /\ NextSource(p)
           \/ /\ ~(Indexed(d) /\ d \in active)
              /\ ~(d # 0 /\ version[d] = "processing" /\ ingest[d] = "running")
              /\ Proceed(p, "store", 0)
              /\ UNCHANGED source
        /\ UNCHANGED <<docVars, corpus, expected, prepares, changes, faults>>

-----------------------------------------------------------------------------
(* upload_document: rows, file, commit; and the link in a transaction of its own. *)

Free(d) == version[d] = "none" /\ d \notin files /\ \A p \in Preparers : prep[p].doc # d

UploadStore(p) ==
    /\ prep[p].pc = "store"
    /\ \/ \E d \in Docs : /\ Free(d) /\ \A e \in Docs : Free(e) => d <= e
                          /\ files' = files \cup {d}
                          /\ Proceed(p, "commit", d)
          /\ UNCHANGED <<source, faults>>
       \/ Fault /\ RecordPrepareFailure(p) /\ UNCHANGED files
    /\ UNCHANGED <<version, active, archived, ingest, retrying, lostFile, everActive, corpus,
                   expected, prepares, changes>>

InsertDocument(d) ==
    /\ version' = [version EXCEPT ![d] = "processing"]
    /\ ingest' = [ingest EXCEPT ![d] = "running"]

\* Mutant: the file is removed whether the commit failed or not.
UploadCommitCleaning(p) ==
    LET d == prep[p].doc IN
    /\ prep[p].pc = "commit"
    /\ InsertDocument(d)
    /\ Proceed(p, "link", d)
    /\ files' = files \ {d}
    /\ UNCHANGED <<lostFile, source, faults, active, archived, retrying, everActive, corpus,
                   expected, prepares, changes>>

\* A failed commit removes the file; the removal may fail too (suppress), and
\* a commit that reports an error may have taken effect.
UploadCommit(p) ==
    LET d == prep[p].doc IN
    /\ prep[p].pc = "commit"
    /\ \/ /\ InsertDocument(d)
          /\ Proceed(p, "link", d)
          /\ UNCHANGED <<files, lostFile, source, faults>>
       \/ /\ Fault
          /\ files' \in {files, files \ {d}}
          /\ \/ UNCHANGED <<version, ingest, lostFile>>
             \/ InsertDocument(d) /\ lostFile' = lostFile \cup {d}
          /\ RecordPrepareFailure(p)
    /\ UNCHANGED <<active, archived, retrying, everActive, corpus, expected, prepares, changes>>

LinkSource(p) ==
    /\ prep[p].pc = "link"
    /\ \/ /\ source' = [source EXCEPT ![prep[p].at] =
                            [doc |-> prep[p].doc, status |-> "preparing", failed |-> FALSE]]
          /\ NextSource(p)
          /\ UNCHANGED faults
       \/ Fault /\ RecordPrepareFailure(p)
    /\ UNCHANGED <<docVars, corpus, expected, prepares, changes>>

\* The process of the request dies: an uncommitted upload leaves its file.
PrepareCrash(p) ==
    /\ prep[p].pc # "idle"
    /\ Fault
    /\ prep' = [prep EXCEPT ![p] = Resting]
    /\ UNCHANGED <<docVars, sourceVars, prepares, changes>>

-----------------------------------------------------------------------------
(* readiness: recomputes the status of every source, the documents the cases *)
(* expect and the status of the corpus.                                      *)

\* Mutant: an inactive version counts.
SourceIndexed(s) == Indexed(source[s].doc)
SourceReady(s) == Indexed(source[s].doc) /\ source[s].doc \in active
SourceFailed(s) ==
    LET d == source[s].doc IN
    /\ ~SourceReady(s)
    /\ IF d # 0 /\ (version[d] = "failed" \/ ingest[d] = "failed") THEN TRUE
       ELSE d = 0 /\ source[s].failed

\* Whether the facts are in the chunks (present) and the probe finds them
\* (probed) depends on texts; the probe is skipped while a ready corpus is fresh.
CorpusReady(present, probed, fresh) ==
    /\ \A s \in Sources : SourceReady(s)
    /\ present
    /\ probed \/ (fresh /\ corpus = "ready")

Readiness(ready) ==
    /\ source' = [s \in Sources |->
           LET d == source[s].doc IN
           [doc |-> d, failed |-> SourceFailed(s),
            status |-> CASE SourceReady(s) -> "ready"
                         [] SourceFailed(s) -> "failed"
                         [] ~SourceReady(s) /\ ~SourceFailed(s) /\ d # 0 -> "preparing"
                         [] OTHER -> "pending"]]
    /\ expected' = [c \in Cases |->
           IF Evidence[c] = {} THEN expected[c]
           ELSE {source[s].doc : s \in {t \in Evidence[c] : SourceReady(t)}}]
    /\ corpus' = IF \E s \in Sources : SourceFailed(s) THEN "failed"
                 ELSE IF ready THEN "ready"
                 ELSE IF \E s \in Sources : source[s].doc # 0 THEN "preparing"
                 ELSE "not_prepared"

Outcomes == {CorpusReady(present, probed, fresh) : present, probed, fresh \in BOOLEAN}

PrepareReadiness(p) ==
    /\ prep[p].pc = "readiness"
    /\ \E ready \in Outcomes : Readiness(ready)
    /\ prep' = [prep EXCEPT ![p] = Resting]
    /\ UNCHANGED <<docVars, prepares, changes, faults>>

CorpusStep ==
    \/ \E d \in Docs : \/ Ingest(d) \/ LoseIngest(d) \/ RetryIngest(d)
                       \/ ApproveByUser(d) \/ ArchiveDocument(d)
    \/ \E p \in Preparers :
         \/ PrepareStart(p) \/ PrepareApprove(p) \/ PrepareCheck(p)
         \/ UploadStore(p) \/ UploadCommit(p) \/ LinkSource(p)
         \/ PrepareCrash(p) \/ PrepareReadiness(p)

-----------------------------------------------------------------------------
\* A version row has its file in the storage, unless its commit took effect and
\* reported an error: the file is written before the rows are committed and
\* removed only for rows that are not (upload_document).
VersionsHaveFiles == \A d \in Docs \ lostFile : version[d] # "none" => d \in files
=============================================================================
