--------------------------- MODULE DocumentLibrary ---------------------------
(***************************************************************************)
(* Documents and their versions as the administrators' requests change     *)
(* them:                                                                   *)
(*   backend/app/services/document_service.py                              *)
(*   backend/app/repositories/document_repository.py                       *)
(*   backend/app/storage/validators.py, file_storage.py                    *)
(*                                                                         *)
(* An upload writes rows in a transaction and a file outside of it; a new  *)
(* version of a document is added under the lock of its row.  The ingest   *)
(* is here what its transactions do to the rows of a version and of its    *)
(* job, one attempt at a time; the points it writes, and an attempt that   *)
(* runs on after it lost its job, are in DocumentIngest.                   *)
(***************************************************************************)
EXTENDS UrlFetch, VersionDiff

CONSTANTS
    Files,          \* what may be sent: [name, suffixes, mime, size, body, content]
    ChunksOf,       \* ChunksOf[content]: the texts and headings of its chunks
    VersionIds,     \* VersionIds[key]: document_version_id of the version with that file
    GraphEnabled,   \* graph_indexing_enabled
    MaxBytes,       \* upload_max_bytes
    AllowedSuffixes, MimesOf, BodyOf, RequiredParts, ZipLimits,
    MaxDocuments, MaxUploads, MaxVersions, MaxStorageFaults   \* bounds

ASSUME LibraryAssumption ==
    /\ "free" \notin Requests
    /\ {MaxDocuments, MaxUploads, MaxStorageFaults} \subseteq Nat
    /\ VersionIds \in [1..MaxUploads -> Nat]
    /\ GraphEnabled \in BOOLEAN

VARIABLES
    documents,  \* documents[d]: logical_documents.status, "none" before its insert
    versions,   \* document_versions, with the state of their ingest job
    files,      \* keys of the whole files in the store
    partial,    \* keys of files whose writing failed halfway
    upload,     \* upload[r]: the transaction of request r
    locked,     \* locked[d]: the request that holds the row of d, or "free"
    announced,  \* mirror and graph jobs created: <<kind, document or version>>
    nextKey,    \* next storage key
    unsure,     \* keys whose commit took effect but reported an error
    storageFaults

libraryVars == <<documents, versions, files, partial, upload, locked, announced, nextKey,
                 unsure, storageFaults, fetch>>

DocumentIds == 1..MaxDocuments
NoUpload == [pc |-> "idle"]

LibraryInit ==
    /\ FetchInit
    /\ documents = [d \in DocumentIds |-> "none"]
    /\ versions = {}
    /\ files = {} /\ partial = {} /\ unsure = {}
    /\ upload = [r \in Requests |-> NoUpload]
    /\ locked = [d \in DocumentIds |-> "free"]
    /\ announced = {}
    /\ nextKey = 1
    /\ storageFaults = 0

-----------------------------------------------------------------------------
(* What may be stored. *)

\* sanitize_file_name, _extension, _reject_dangerous_suffixes
SafeName(f) ==
    /\ f.name \notin {"none", "controlCharacters", "path"}
    /\ f.suffixes # <<>> /\ Last(f.suffixes) \in AllowedSuffixes
    /\ "executable" \notin Range(f.suffixes)

\* _validate_docx_archive, _validate_office_archive; the limits differ.
SoundArchive(suffix, parts) ==
    LET limits == ZipLimits[suffix]
        named(name) == {n \in DOMAIN parts : parts[n].name = name}
    IN /\ Len(parts) \in 1..limits.parts
       /\ \A name \in RequiredParts[suffix] : named(name) # {}
       /\ \A n \in DOMAIN parts :
            ~parts[n].forbidden /\ parts[n].size <= limits.ratio * parts[n].packed
       /\ FoldLeft(LAMBDA total, part : total + part.size, 0, parts) <= limits.total
       /\ named(limits.main) # {}
       /\ parts[Max(named(limits.main))].size <= limits.mainSize

\* _validate_magic_bytes: markup is refused for what it embeds.
SoundBody(suffix, mime, body) ==
    /\ body.kind = BodyOf[suffix]
    /\ body.kind = "zip" => SoundArchive(suffix, body.parts)
    /\ body.kind = "text" =>
         /\ body.flaw \notin {"null", "undecodable"}
         /\ suffix = "xml" \/ mime = "xml" => body.flaw = "none"
         /\ suffix = "html" => body.flaw # "svg"

\* validate_upload
Accepted(f) ==
    /\ f.size \in 1..MaxBytes
    /\ SafeName(f)
    /\ f.mime \in MimesOf[Last(f.suffixes)]
    /\ SoundBody(Last(f.suffixes), f.mime, f.body)

AcceptedFiles == {f \in Files : Accepted(f)}

\* The ingest makes a list of chunks of what is accepted.
ASSUME ChunksAssumption ==
    /\ \A f \in AcceptedFiles : f.content \in DOMAIN ChunksOf
    /\ \A c \in DOMAIN ChunksOf : ChunksOf[c] \in Seq(Range(ChunksOf[c]))

-----------------------------------------------------------------------------
(* What is shown. *)

VersionsOf(d) == {v \in versions : v.doc = d}

\* latest_versions_by_document_ids
Latest(d) == CHOOSE v \in VersionsOf(d) : \A w \in VersionsOf(d) : w.no <= v.no

\* display_status
DisplayStatus(d, v) ==
    IF documents[d] = "archived" THEN "archived"
    ELSE CASE v.status \in {"failed", "processing"} -> v.status
           [] v.status = "ready" -> IF v.active THEN "active" ELSE "pending_review"
           [] OTHER -> "archived"

\* _document_status_filter; "all" stands for no filter, "none" for a contradiction.
DocumentFilter(status, display) ==
    LET required == CASE display = "archived" -> "archived"
                      [] display = "all" -> "all"
                      [] OTHER -> "active"
    IN IF "all" \notin {status, required} /\ status # required THEN "none"
       ELSE IF status # "all" THEN status
       ELSE IF required # "all" THEN required ELSE "active"

\* _display_status_filter, over the latest version.
VersionFilter(display, v) ==
    CASE display \in {"all", "archived"} -> TRUE
      [] display = "active" -> v.status = "ready" /\ v.active
      [] display = "pending_review" -> v.status = "ready" /\ ~v.active
      [] OTHER -> v.status = display

\* list_documents, without its order and pages.
ListDocuments(status, display) ==
    {d \in DocumentIds : /\ documents[d] # "none"
                         /\ documents[d] = DocumentFilter(status, display)
                         /\ VersionFilter(display, Latest(d))}

\* What the chunk rows of a version follow from, and the rows compare_versions
\* reads.
Origin(v) == <<v.key, v.content, v.chunked>>
Origins == (1..MaxUploads) \X (DOMAIN ChunksOf) \X BOOLEAN
RowsFrom(o) == IF o[3] THEN Rows(VersionIds[o[1]], ChunksOf[o[2]]) ELSE <<>>

-----------------------------------------------------------------------------
(* An upload: rows, file, commit. *)

Free(d) == locked[d] = "free"
Taken == {d \in DocumentIds : documents[d] # "none"}
             \cup {upload[r].doc : r \in {q \in Requests : upload[q].pc # "idle"}}

Unlock(r) == locked' = [d \in DocumentIds |-> IF locked[d] = r THEN "free" ELSE locked[d]]
Drop(r) == upload' = [upload EXCEPT ![r] = NoUpload] /\ Unlock(r)
StorageFault == storageFaults < MaxStorageFaults /\ storageFaults' = storageFaults + 1

\* create_logical_document, create_version: rows nobody else sees yet.
InsertRows(r, d, no, f) ==
    /\ upload[r].pc = "idle"
    /\ nextKey <= MaxUploads
    /\ upload' = [upload EXCEPT ![r] = [pc |-> "inserted", doc |-> d, no |-> no,
                                        content |-> f.content, key |-> nextKey]]
    /\ nextKey' = nextKey + 1
    /\ UNCHANGED <<documents, versions, files, partial, announced, unsure, storageFaults>>

NewDocument(r, f) ==
    /\ DocumentIds \ Taken # {}
    /\ InsertRows(r, Min(DocumentIds \ Taken), 1, f)
    /\ UNCHANGED locked

\* upload_document
UploadDocument(r, f) ==
    /\ fetch[r].pc = "none"
    /\ NewDocument(r, f)
    /\ UNCHANGED fetch

\* ingest_url: the page that was fetched, or an error when it is not accepted.
IngestUrl(r) ==
    /\ fetch[r].pc = "fetched"
    /\ fetch' = [fetch EXCEPT ![r] = NotFetching]
    /\ \/ fetch[r].page \in AcceptedFiles /\ NewDocument(r, fetch[r].page)
       \/ /\ fetch[r].page \notin AcceptedFiles
          /\ UNCHANGED <<documents, versions, files, partial, upload, locked, announced,
                         nextKey, unsure, storageFaults>>

\* add_version: the row of the document is locked until the commit.  A content
\* the document has already is not stored again.
AddVersion(r, d, f) ==
    /\ fetch[r].pc = "none"
    /\ documents[d] = "active" /\ Free(d)
    /\ \A v \in VersionsOf(d) : v.content # f.content
    /\ Cardinality(versions) + Cardinality({q \in Requests : upload[q].pc = "inserted"})
         < MaxVersions
    /\ InsertRows(r, d, Latest(d).no + 1, f)
    /\ locked' = [locked EXCEPT ![d] = r]
    /\ UNCHANGED fetch

\* save_bytes
SaveFile(r) ==
    /\ upload[r].pc = "inserted"
    /\ files' = files \cup {upload[r].key}
    /\ upload' = [upload EXCEPT ![r].pc = "saved"]
    /\ UNCHANGED <<documents, versions, partial, locked, announced, nextKey, unsure,
                   storageFaults, fetch>>

\* Nothing is deleted: storage_saved is still false.
SaveFails(r) ==
    /\ upload[r].pc = "inserted"
    /\ StorageFault
    /\ partial' \in {partial, partial \cup {upload[r].key}}
    /\ Drop(r)
    /\ UNCHANGED <<documents, versions, files, announced, nextKey, unsure, fetch>>

\* The rows of the version and of its ingest job become visible together.
Written(r) ==
    /\ documents' = [documents EXCEPT ![upload[r].doc] = "active"]
    /\ versions' = versions \cup
         {[doc |-> upload[r].doc, no |-> upload[r].no, content |-> upload[r].content,
           key |-> upload[r].key, status |-> "processing", active |-> FALSE,
           chunked |-> FALSE, job |-> "queued", retriable |-> FALSE]}

\* Mutant: the commit is noted only after the rows were refreshed, which may
\* fail, so the file of a committed version is taken away again.
CommitUploadRefreshed(r) ==
    /\ upload[r].pc = "saved"
    /\ Written(r)
    /\ \/ Drop(r)
       \/ upload' = [upload EXCEPT ![r].pc = "undo"] /\ Unlock(r)
    /\ UNCHANGED <<files, partial, announced, nextKey, unsure, storageFaults, fetch>>

\* An error after it, when the rows are refreshed, changes nothing any more.
CommitUpload(r) ==
    /\ upload[r].pc = "saved"
    /\ Written(r)
    /\ Drop(r)
    /\ UNCHANGED <<files, partial, announced, nextKey, unsure, storageFaults, fetch>>

\* The job, the audit entry or the commit fails; a commit that reports an error
\* may have taken effect.
CommitFails(r) ==
    /\ upload[r].pc = "saved"
    /\ StorageFault
    /\ \/ UNCHANGED <<documents, versions, unsure>>
       \/ Written(r) /\ unsure' = unsure \cup {upload[r].key}
    /\ upload' = [upload EXCEPT ![r].pc = "undo"]
    /\ Unlock(r)
    /\ UNCHANGED <<files, partial, announced, nextKey, fetch>>

\* suppress(Exception): the delete may fail as well.
DeleteFile(r) ==
    /\ upload[r].pc = "undo"
    /\ \/ files' = files \ {upload[r].key} /\ UNCHANGED storageFaults
       \/ StorageFault /\ UNCHANGED files
    /\ Drop(r)
    /\ UNCHANGED <<documents, versions, partial, announced, nextKey, unsure, fetch>>

\* The API process dies; PostgreSQL rolls its transaction back.
RequestDies(r) ==
    /\ upload[r].pc # "idle"
    /\ StorageFault
    /\ Drop(r)
    /\ UNCHANGED <<documents, versions, files, partial, announced, nextKey, unsure, fetch>>

-----------------------------------------------------------------------------
(* Requests of one transaction, under the lock of the document. *)

uploadVars == <<files, partial, upload, locked, nextKey, unsure, storageFaults, fetch>>

Replace(v, w) == versions' = (versions \ {v}) \cup {w}
Mirror(d) == <<"mirror", d>>
Graph(v) == <<"graph", v.key>>
GraphsOf(vs) == IF GraphEnabled THEN {Graph(v) : v \in vs} ELSE {}

\* approve_version, set_active_version
Approve(v) ==
    LET previous == {w \in VersionsOf(v.doc) : w.active}
    IN /\ Free(v.doc) /\ documents[v.doc] = "active"
       /\ v.status = "ready" /\ ~v.active
       /\ versions' = (versions \ ({v} \cup previous))
                        \cup {[w EXCEPT !.active = FALSE] : w \in previous}
                        \cup {[v EXCEPT !.active = TRUE]}
       /\ announced' = announced \cup {Mirror(v.doc)} \cup GraphsOf(previous \cup {v})
       /\ UNCHANGED <<documents, uploadVars>>

\* archive_document
Archive(d) ==
    LET active == {w \in VersionsOf(d) : w.active}
    IN /\ Free(d) /\ documents[d] = "active"
       /\ documents' = [documents EXCEPT ![d] = "archived"]
       /\ versions' = (versions \ active) \cup {[w EXCEPT !.active = FALSE] : w \in active}
       /\ announced' = announced \cup {Mirror(d)} \cup GraphsOf(active)
       /\ UNCHANGED uploadVars

\* retry_job with _prepare_document_ingest_retry: any job of the version that
\* failed may be retried while none waits or runs, even when a later one
\* succeeded.
RetryIngest(v) ==
    /\ v.retriable /\ v.job \in {"succeeded", "failed"}
    /\ IF v.status = "failed"
       THEN /\ Free(v.doc)
            /\ Replace(v, [v EXCEPT !.job = "queued", !.status = "processing", !.active = FALSE])
       ELSE Replace(v, [v EXCEPT !.job = "queued"])
    /\ UNCHANGED <<documents, announced, uploadVars>>

-----------------------------------------------------------------------------
(* The ingest.  A running job names the transaction its attempt comes to    *)
(* next; one that fails, or a call between them, changes nothing here.      *)

Attempting == {"prepare", "clean", "store", "ready", "fail", "succeeding", "failing"}

\* A worker takes the job, or takes it again when its worker died.
IngestStarts(v) ==
    /\ v.job \in {"queued"} \cup Attempting
    /\ Replace(v, [v EXCEPT !.job = "prepare"])
    /\ UNCHANGED <<documents, announced, uploadVars>>

\* _prepare_version: an error here fails the job and leaves the version as it is.
IngestPrepares(v) ==
    /\ v.job = "prepare"
    /\ Free(v.doc)
    /\ \/ documents[v.doc] = "archived" /\ Replace(v, [v EXCEPT !.status = "failed", !.job = "failing"])
       \/ /\ documents[v.doc] = "active"
          /\ Replace(v, IF v.status = "ready" THEN [v EXCEPT !.job = "succeeding"]
                        ELSE [v EXCEPT !.status = "processing",
                                       !.job = IF v.chunked THEN "clean" ELSE "store"])
       \/ Replace(v, [v EXCEPT !.job = "failing"])
    /\ UNCHANGED <<documents, announced, uploadVars>>

\* _cleanup_existing_artifacts
IngestCleans(v) ==
    /\ v.job = "clean"
    /\ \/ Replace(v, [v EXCEPT !.chunked = FALSE, !.job = "store"])
       \/ Replace(v, [v EXCEPT !.job = "fail"])
    /\ UNCHANGED <<documents, announced, uploadVars>>

\* The file is read, then _store_chunks.
IngestStores(v) ==
    /\ v.job = "store"
    /\ \/ /\ Free(v.doc) /\ documents[v.doc] = "active"
          /\ v.key \in files
          /\ Replace(v, [v EXCEPT !.chunked = TRUE, !.job = "ready"])
       \/ Replace(v, [v EXCEPT !.job = "fail"])
    /\ UNCHANGED <<documents, announced, uploadVars>>

\* The points are written, then _mark_version_ready, whose commit may report an
\* error although it took effect.
IngestReadies(v) ==
    /\ v.job = "ready"
    /\ \/ /\ Free(v.doc) /\ documents[v.doc] = "active"
          /\ \E next \in {"succeeding", "fail"} :
               Replace(v, [v EXCEPT !.status = "ready", !.job = next])
          /\ announced' = announced \cup GraphsOf({v})
       \/ Replace(v, [v EXCEPT !.job = "fail"]) /\ UNCHANGED announced
    /\ UNCHANGED <<documents, uploadVars>>

\* _fail_version, _mark_failed_after_cleanup: the chunk rows stay when their
\* points could not be deleted.  An active version cannot be marked failed
\* (ck_document_versions_active_ready_only); the job fails without it then, and
\* after any other error, and may leave a version that is still "processing".
IngestFails(v) ==
    /\ v.job = "fail"
    /\ \/ /\ ~v.active
          /\ \E chunked \in {FALSE, v.chunked} :
               Replace(v, [v EXCEPT !.status = "failed", !.chunked = chunked, !.job = "failing"])
       \/ Replace(v, [v EXCEPT !.job = "failing"])
    /\ UNCHANGED <<documents, announced, uploadVars>>

\* The dispatcher stores the result in a transaction of its own.
IngestReports(v) ==
    /\ v.job \in {"succeeding", "failing"}
    /\ Replace(v, IF v.job = "succeeding" THEN [v EXCEPT !.job = "succeeded"]
                  ELSE [v EXCEPT !.job = "failed", !.retriable = TRUE])
    /\ UNCHANGED <<documents, announced, uploadVars>>

IngestStep(v) ==
    \/ IngestStarts(v) \/ IngestPrepares(v) \/ IngestCleans(v) \/ IngestStores(v)
    \/ IngestReadies(v) \/ IngestFails(v) \/ IngestReports(v)

-----------------------------------------------------------------------------
\* A request that fetches a page is in no other transaction.
FetchStep(r) ==
    /\ upload[r].pc = "idle"
    /\ (\E u \in DOMAIN Urls : BeginFetch(r, u)) \/ Connect(r) \/ GiveUpFetch(r)
    /\ UNCHANGED <<documents, versions, files, partial, upload, locked, announced, nextKey,
                   unsure, storageFaults>>

LibraryNext ==
    \/ \E r \in Requests :
         \/ FetchStep(r) \/ IngestUrl(r)
         \/ \E f \in AcceptedFiles :
              UploadDocument(r, f) \/ \E d \in DocumentIds : AddVersion(r, d, f)
         \/ SaveFile(r) \/ SaveFails(r) \/ CommitUpload(r) \/ CommitFails(r)
         \/ DeleteFile(r) \/ RequestDies(r)
    \/ \E v \in versions :
         Approve(v) \/ RetryIngest(v) \/ IngestStep(v)
    \/ \E d \in DocumentIds : Archive(d)

LibrarySpec == LibraryInit /\ [][LibraryNext]_libraryVars

-----------------------------------------------------------------------------
(* Properties. *)

\* Versions of a document are numbered without a gap, each with a content of
\* its own: the lock of add_version, not the unique constraints of
\* document_versions, keeps two requests from storing the same one.
NumberedByLock ==
    \A d \in DocumentIds :
        /\ {v.no : v \in VersionsOf(d)} = 1..Cardinality(VersionsOf(d))
        /\ \A v, w \in VersionsOf(d) : v.content = w.content => v = w

\* At most one version is served, a ready one of a document in use, and the
\* jobs that let the index and the graph follow were created.
OneServed ==
    \A v \in versions : v.active =>
        /\ v.status = "ready" /\ documents[v.doc] = "active"
        /\ \A w \in VersionsOf(v.doc) : w.active => w = v
        /\ {Mirror(v.doc)} \cup GraphsOf({v}) \subseteq announced

\* A version has its whole file unless the outcome of its commit was unknown; a
\* file without a version belongs to a request, or something failed for it.
FilesKept ==
    LET owned == {v.key : v \in versions}
                   \cup {upload[r].key : r \in {q \in Requests : upload[q].pc # "idle"}}
    IN /\ \A v \in versions : v.key \in files \/ v.key \in unsure
       /\ Cardinality((files \cup partial) \ owned) <= storageFaults

\* A job that succeeded leaves a version that is ready, with its chunks; only
\* one that failed, or was taken and may be taken again, leaves one that is not.
\* So a version that stays "processing" has a job that will run or one that can
\* be retried.
StatusFitsJob ==
    \A v \in versions :
        /\ v.job = "succeeded" => v.status = "ready"
        /\ v.status = "ready" => v.chunked
        /\ v.status = "failed" => v.job \in {"failed"} \cup Attempting
        /\ v.job = "failed" => v.retriable

\* A document is listed under the display status it is shown with, and under
\* no other.
ListedAsShown ==
    \A d \in DocumentIds : documents[d] # "none" =>
        LET shown == DisplayStatus(d, Latest(d))
        IN \A display \in {"active", "pending_review", "processing", "failed", "archived"} :
             \A status \in {"all", documents[d]} :
                 d \in ListDocuments(status, display) <=> shown = display

\* Rows, files, jobs and lists agree, whatever requests run at the same time
\* and wherever one of them fails.
LibraryConsistent ==
    NumberedByLock /\ OneServed /\ FilesKept /\ StatusFitsJob /\ ListedAsShown

\* Each chunk is in one item of the comparison, no hash that both sides have is
\* shown as changed, added and removed, a version does not differ from itself,
\* and items left out of the answer stay in its counts.  Of texts this says
\* nothing: two versions with the same text differ in its hash.
AccountsForAll(base, target) ==
    LET diff == ChunkDiff(base, target)
        typed(types) == {x \in diff.items : DiffType(base, target, x) \in types}
    IN /\ \A b \in DOMAIN base : Cardinality({x \in diff.items : x[1] = b}) = 1
       /\ \A t \in DOMAIN target : Cardinality({x \in diff.items : x[2] = t}) = 1
       /\ {base[x[1]].hash : x \in typed({"removed", "changed"})}
            \cap {target[x[2]].hash : x \in typed({"added", "changed"})} = {}
       /\ base = target => diff.unchanged = Len(base)
       /\ diff.unchanged + diff.changed + diff.added = Len(target)
       /\ diff.unchanged + diff.changed + diff.removed = Len(base)
       /\ diff.truncated \/ Range(diff.shown) = diff.items

AccountedPairs ==
    {pair \in Origins \X Origins : AccountsForAll(RowsFrom(pair[1]), RowsFrom(pair[2]))}

\* The comparison of any two versions of a document accounts for every chunk
\* of both (compare_versions, _chunk_diff).
DiffAccountsForAll ==
    \A v \in versions : \A w \in VersionsOf(v.doc) :
        <<Origin(v), Origin(w)>> \in AccountedPairs
=============================================================================
