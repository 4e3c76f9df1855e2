------------------------ MODULE DocumentLibraryProofs ------------------------
(***************************************************************************)
(* Proofs about DocumentLibrary and UrlFetch, for any number of requests,  *)
(* documents, versions and faults, whatever files and pages are sent and   *)
(* name servers answer.                                                    *)
(***************************************************************************)
EXTENDS DocumentLibrary, NumberLemmas

-----------------------------------------------------------------------------
(* The inductive invariant. *)

Contents == {f.content : f \in AcceptedFiles}
Keys == 1..MaxUploads
Version ==
    [doc : DocumentIds, no : Nat, content : Contents, key : Keys,
     status : {"processing", "ready", "failed"}, active : BOOLEAN, chunked : BOOLEAN,
     job : {"queued", "succeeded", "failed"} \cup Attempting, retriable : BOOLEAN]
Upload ==
    {NoUpload} \cup
    [pc : {"inserted", "saved", "undo"}, doc : DocumentIds, no : Nat, content : Contents,
     key : Keys]

LibraryType ==
    /\ documents \in [DocumentIds -> {"none", "active", "archived"}]
    /\ versions \subseteq Version
    /\ files \subseteq Keys /\ partial \subseteq Keys /\ unsure \subseteq Keys
    /\ upload \in [Requests -> Upload]
    /\ locked \in [DocumentIds -> Requests \cup {"free"}]
    /\ nextKey \in Nat \ {0}
    /\ storageFaults \in Nat

Working(r) == upload[r].pc # "idle"
Pending(r) == upload[r].pc \in {"inserted", "saved"}
Numbers(d) == {v.no : v \in VersionsOf(d)}
NumberedUpTo(d, n) == n \in Nat /\ Numbers(d) = 1..n

\* The rows of the versions: keys, numbers and contents tell them apart.
RowsInv ==
    /\ \A v, w \in versions : v.key = w.key => v = w
    /\ \A v, w \in versions :
         v.doc = w.doc /\ (v.no = w.no \/ v.content = w.content) => v.key = w.key
    /\ \A d \in DocumentIds : \E n \in Nat : NumberedUpTo(d, n)
    /\ \A d \in DocumentIds : documents[d] = "none" <=> VersionsOf(d) = {}

\* A version that waits for its commit gets the next number of a document that
\* is its own or locked by it.
PendingOf(r) ==
    Pending(r) =>
        /\ NumberedUpTo(upload[r].doc, upload[r].no - 1)
        /\ \A v \in VersionsOf(upload[r].doc) : v.content # upload[r].content
        /\ \/ documents[upload[r].doc] = "none"
           \/ documents[upload[r].doc] = "active" /\ locked[upload[r].doc] = r
        /\ \A q \in Requests : Pending(q) /\ upload[q].doc = upload[r].doc => q = r
PendingInv == \A r \in Requests : PendingOf(r)

\* Keys are given once.
KeysOf(r) ==
    Working(r) =>
        /\ upload[r].key < nextKey /\ upload[r].key \notin partial
        /\ \A q \in Requests : Working(q) /\ upload[q].key = upload[r].key => q = r
        /\ upload[r].pc = "inserted" => upload[r].key \notin files
        /\ upload[r].pc = "saved" => upload[r].key \in files
        /\ \A v \in versions : v.key = upload[r].key =>
              upload[r].pc = "undo" /\ v.key \in unsure
KeysInv ==
    /\ \A r \in Requests : KeysOf(r)
    /\ \A v \in versions : v.key < nextKey
    /\ \A k \in files \cup partial : k < nextKey

\* Where the job is tells what the ingest has made of the version.
Fits(v) ==
    /\ v.status = "ready" => v.chunked
    /\ v.job \in {"clean", "store", "ready"} => v.status = "processing"
    /\ v.job = "ready" => v.chunked
    /\ v.job \in {"succeeding", "succeeded"} => v.status = "ready"
    /\ v.status = "failed" => v.job \in {"prepare", "failing", "failed"}
    /\ v.job = "failed" => v.retriable
VersionFacts == (\A v \in versions : Fits(v)) /\ OneServed

LibraryInv == LibraryType /\ RowsInv /\ PendingInv /\ KeysInv /\ VersionFacts /\ FilesKept

\* Which steps there are: they change the uploads, the versions or the fetches.
UploadStep(r) ==
    \/ SaveFile(r) \/ SaveFails(r) \/ CommitUpload(r) \/ CommitFails(r)
    \/ DeleteFile(r) \/ RequestDies(r)
InsertStep(r, f) == NewDocument(r, f) \/ \E d \in DocumentIds : AddVersion(r, d, f)
VersionStep(v) == Approve(v) \/ RetryIngest(v) \/ IngestStep(v)
stored == <<documents, versions, files, partial, upload, locked, announced, nextKey, unsure,
            storageFaults>>

LEMMA Steps ==
    ASSUME LibraryNext
    PROVE  \/ UNCHANGED stored
           \/ \E r \in Requests, f \in AcceptedFiles : InsertStep(r, f)
           \/ \E r \in Requests : UploadStep(r)
           \/ \E v \in versions : VersionStep(v)
           \/ \E d \in DocumentIds : Archive(d)
  BY DEF LibraryNext, FetchStep, IngestUrl, UploadDocument, UploadStep, InsertStep, VersionStep, stored

-----------------------------------------------------------------------------
(* The rows, whose versions are only changed in what is not their identity. *)

Reshapes(g) ==
    /\ g \in [versions -> Version]
    /\ versions' = {g[v] : v \in versions}
    /\ \A v \in versions : /\ g[v].doc = v.doc /\ g[v].no = v.no
                           /\ g[v].content = v.content /\ g[v].key = v.key

LEMMA Reshaped ==
    ASSUME LibraryType, RowsInv, NEW g, Reshapes(g)
    PROVE  /\ versions' \subseteq Version
           /\ \A v, w \in versions' : v.key = w.key => v = w
           /\ \A v, w \in versions' :
                v.doc = w.doc /\ (v.no = w.no \/ v.content = w.content) => v.key = w.key
           /\ \A d : Numbers(d)' = Numbers(d) /\ (VersionsOf(d)' = {} <=> VersionsOf(d) = {})
           /\ \A d : {v.content : v \in VersionsOf(d)'} = {v.content : v \in VersionsOf(d)}
           /\ {v.key : v \in versions'} = {v.key : v \in versions}
  <1>1. versions' \subseteq Version
    BY DEF Reshapes
  <1>2. \A v \in versions' : \E x \in versions : v = g[x]
    BY DEF Reshapes
  <1>3. /\ \A v, w \in versions' : v.key = w.key => v = w
        /\ \A v, w \in versions' :
             v.doc = w.doc /\ (v.no = w.no \/ v.content = w.content) => v.key = w.key
    BY <1>2 DEF Reshapes, RowsInv
  <1>4. ASSUME NEW d
        PROVE  /\ Numbers(d)' = Numbers(d) /\ (VersionsOf(d)' = {} <=> VersionsOf(d) = {})
               /\ {v.content : v \in VersionsOf(d)'} = {v.content : v \in VersionsOf(d)}
    <2>1. \A v \in VersionsOf(d)' : \E x \in VersionsOf(d) : v.no = x.no /\ v.content = x.content
      BY <1>2 DEF VersionsOf, Reshapes
    <2>2. \A x \in VersionsOf(d) : \E v \in VersionsOf(d)' : v.no = x.no /\ v.content = x.content
      BY DEF VersionsOf, Reshapes
    <2>3. Numbers(d)' = Numbers(d)
      BY <2>1, <2>2 DEF Numbers
    <2>4. {v.content : v \in VersionsOf(d)'} = {v.content : v \in VersionsOf(d)}
      BY <2>1, <2>2
    <2> QED
      BY <2>1, <2>2, <2>3, <2>4
  <1>5. {v.key : v \in versions'} = {v.key : v \in versions}
    BY <1>2 DEF Reshapes
  <1> QED
    BY <1>1, <1>3, <1>4, <1>5

\* One version replaced.
LEMMA Replaced ==
    ASSUME LibraryType, NEW v \in versions, NEW w \in Version, Replace(v, w),
           w.doc = v.doc, w.no = v.no, w.content = v.content, w.key = v.key
    PROVE  \E g : Reshapes(g)
  <1> DEFINE g == [x \in versions |-> IF x = v THEN w ELSE x]
  <1>1. g \in [versions -> Version]
    BY DEF LibraryType
  <1>2. versions' = {g[x] : x \in versions}
    BY DEF Replace
  <1>3. \A x \in versions : /\ g[x].doc = x.doc /\ g[x].no = x.no
                            /\ g[x].content = x.content /\ g[x].key = x.key
    OBVIOUS
  <1> HIDE DEF g
  <1> QED
    BY <1>1, <1>2, <1>3 DEF Reshapes

\* An ingest and a retry replace one version by one that is no more active.
LEMMA IngestReplaces ==
    ASSUME LibraryType, VersionFacts, NEW v \in versions, RetryIngest(v) \/ IngestStep(v)
    PROVE  \E w \in Version :
             /\ Replace(v, w) /\ Fits(w)
             /\ w.active => v.active /\ w.status = "ready"
             /\ w.doc = v.doc /\ w.no = v.no /\ w.content = v.content /\ w.key = v.key
             /\ UNCHANGED <<documents, uploadVars>> /\ announced \subseteq announced'
  <1> DEFINE Becomes(w) ==
               /\ w \in Version
               /\ Replace(v, w) /\ Fits(w)
               /\ w.active => v.active /\ w.status = "ready"
               /\ w.doc = v.doc /\ w.no = v.no /\ w.content = v.content /\ w.key = v.key
             Becoming == \E w : Becomes(w)
  <1>1. v \in Version
    BY DEF LibraryType
  <1>2. Fits(v) /\ (v.active => v.status = "ready" /\ documents[v.doc] = "active")
    BY DEF VersionFacts, OneServed
  <1>3. ASSUME RetryIngest(v) PROVE Becoming
    <2>1. CASE v.status = "failed"
      <3>1. Becomes([v EXCEPT !.job = "queued", !.status = "processing", !.active = FALSE])
        BY <1>1, <1>2, <1>3, <2>1 DEF RetryIngest, Version, Fits, Attempting
      <3> QED  BY <3>1
    <2>2. CASE v.status # "failed"
      <3>1. Becomes([v EXCEPT !.job = "queued"])
        BY <1>1, <1>2, <1>3, <2>2 DEF RetryIngest, Version, Fits, Attempting
      <3> QED  BY <3>1
    <2> QED  BY <2>1, <2>2
  <1>4. ASSUME IngestStarts(v) PROVE Becoming
    <2>1. Becomes([v EXCEPT !.job = "prepare"])
      BY <1>1, <1>2, <1>4 DEF IngestStarts, Version, Fits, Attempting
    <2> QED  BY <2>1
  <1>5. ASSUME v.job \in {"prepare", "fail"}, Replace(v, [v EXCEPT !.job = "failing"]) PROVE Becoming
    <2>1. Becomes([v EXCEPT !.job = "failing"])
      BY <1>1, <1>2, <1>5 DEF Version, Fits, Attempting
    <2> QED  BY <2>1
  <1>6. ASSUME v.job \in {"clean", "store", "ready"}, Replace(v, [v EXCEPT !.job = "fail"])
        PROVE  Becoming
    <2>1. Becomes([v EXCEPT !.job = "fail"])
      BY <1>1, <1>2, <1>6 DEF Version, Fits, Attempting
    <2> QED  BY <2>1
  <1>7. ASSUME IngestPrepares(v) PROVE Becoming
    <2>1. CASE documents[v.doc] = "archived" /\ Replace(v, [v EXCEPT !.status = "failed", !.job = "failing"])
      <3>1. Becomes([v EXCEPT !.status = "failed", !.job = "failing"])
        BY <1>1, <1>2, <2>1 DEF Version, Fits, Attempting
      <3> QED  BY <3>1
    <2>2. CASE v.status = "ready" /\ Replace(v, [v EXCEPT !.job = "succeeding"])
      <3>1. Becomes([v EXCEPT !.job = "succeeding"])
        BY <1>1, <1>2, <2>2 DEF Version, Fits, Attempting
      <3> QED  BY <3>1
    <2>3. ASSUME v.status # "ready", NEW next \in {"clean", "store"},
                 Replace(v, [v EXCEPT !.status = "processing", !.job = next])
          PROVE  Becoming
      <3>1. Becomes([v EXCEPT !.status = "processing", !.job = next])
        BY <1>1, <1>2, <2>3 DEF Version, Fits, Attempting
      <3> QED  BY <3>1
    <2> HIDE DEF Becoming
    <2> QED  BY <1>5, <1>7, <2>1, <2>2, <2>3 DEF IngestPrepares
  <1>8. ASSUME IngestCleans(v) PROVE Becoming
    <2>1. CASE Replace(v, [v EXCEPT !.chunked = FALSE, !.job = "store"])
      <3>1. Becomes([v EXCEPT !.chunked = FALSE, !.job = "store"])
        BY <1>1, <1>2, <1>8, <2>1 DEF IngestCleans, Version, Fits, Attempting
      <3> QED  BY <3>1
    <2> HIDE DEF Becoming
    <2> QED  BY <1>6, <1>8, <2>1 DEF IngestCleans
  <1>9. ASSUME IngestStores(v) PROVE Becoming
    <2>1. CASE Replace(v, [v EXCEPT !.chunked = TRUE, !.job = "ready"])
      <3>1. Becomes([v EXCEPT !.chunked = TRUE, !.job = "ready"])
        BY <1>1, <1>2, <1>9, <2>1 DEF IngestStores, Version, Fits, Attempting
      <3> QED  BY <3>1
    <2> HIDE DEF Becoming
    <2> QED  BY <1>6, <1>9, <2>1 DEF IngestStores
  <1>10. ASSUME IngestReadies(v) PROVE Becoming
    <2>1. ASSUME NEW next \in {"succeeding", "fail"},
                 Replace(v, [v EXCEPT !.status = "ready", !.job = next])
          PROVE  Becoming
      <3>1. Becomes([v EXCEPT !.status = "ready", !.job = next])
        BY <1>1, <1>2, <1>10, <2>1 DEF IngestReadies, Version, Fits, Attempting
      <3> QED  BY <3>1
    <2> HIDE DEF Becoming
    <2> QED  BY <1>6, <1>10, <2>1 DEF IngestReadies
  <1>11. ASSUME IngestFails(v) PROVE Becoming
    <2>1. ASSUME ~v.active, NEW c \in {FALSE, v.chunked},
                 Replace(v, [v EXCEPT !.status = "failed", !.chunked = c, !.job = "failing"])
          PROVE  Becoming
      <3>1. Becomes([v EXCEPT !.status = "failed", !.chunked = c, !.job = "failing"])
        BY <1>1, <1>2, <2>1 DEF Version, Fits, Attempting
      <3> QED  BY <3>1
    <2> HIDE DEF Becoming
    <2> QED  BY <1>5, <1>11, <2>1 DEF IngestFails
  <1>12. ASSUME IngestReports(v) PROVE Becoming
    <2>1. CASE v.job = "succeeding"
      <3>1. Becomes([v EXCEPT !.job = "succeeded"])
        BY <1>1, <1>2, <1>12, <2>1 DEF IngestReports, Version, Fits, Attempting
      <3> QED  BY <3>1
    <2>2. CASE v.job = "failing"
      <3>1. Becomes([v EXCEPT !.job = "failed", !.retriable = TRUE])
        BY <1>1, <1>2, <1>12, <2>2 DEF IngestReports, Version, Fits, Attempting
      <3> QED  BY <3>1
    <2> QED  BY <1>12, <2>1, <2>2 DEF IngestReports
  <1>13. UNCHANGED <<documents, uploadVars>> /\ announced \subseteq announced'
    BY DEF RetryIngest, IngestStep, IngestStarts, IngestPrepares, IngestCleans, IngestStores,
           IngestReadies, IngestFails, IngestReports
  <1> HIDE DEF Becomes
  <1>14. Becoming
    BY <1>3, <1>4, <1>7, <1>8, <1>9, <1>10, <1>11, <1>12 DEF IngestStep
  <1> QED
    BY <1>13, <1>14 DEF Becomes

LEMMA ActiveOrNot ==
    \A v \in Version : \A b \in BOOLEAN : [v EXCEPT !.active = b] \in Version
  BY DEF Version

\* Archiving apart, nothing here touches a document.
LEMMA VersionStepKeeps ==
    ASSUME NEW v \in versions, VersionStep(v)
    PROVE  documents' = documents
  BY DEF VersionStep, Approve, RetryIngest, IngestStep, IngestStarts, IngestPrepares, IngestCleans,
         IngestStores, IngestReadies, IngestFails, IngestReports

LEMMA VersionStepReshapes ==
    ASSUME LibraryType, VersionFacts,
           (\E v \in versions : VersionStep(v)) \/ (\E d \in DocumentIds : Archive(d))
    PROVE  (\E g : Reshapes(g)) /\ UNCHANGED uploadVars
  <1>1. ASSUME NEW v \in versions, Approve(v) PROVE (\E g : Reshapes(g)) /\ UNCHANGED uploadVars
    <2> DEFINE previous == {w \in VersionsOf(v.doc) : w.active}
               g == [x \in versions |-> IF x = v THEN [x EXCEPT !.active = TRUE]
                                        ELSE IF x \in previous THEN [x EXCEPT !.active = FALSE]
                                        ELSE x]
    <2>1. g \in [versions -> Version]
      BY ActiveOrNot DEF LibraryType
    <2>2. \A x \in versions : /\ g[x].doc = x.doc /\ g[x].no = x.no
                              /\ g[x].content = x.content /\ g[x].key = x.key
      BY DEF LibraryType, Version
    <2>3. v \notin previous /\ previous \subseteq versions
      BY <1>1 DEF Approve, VersionsOf
    <2>4. versions' = (versions \ ({v} \cup previous)) \cup {[w EXCEPT !.active = FALSE] : w \in previous}
                        \cup {[v EXCEPT !.active = TRUE]}
      BY <1>1 DEF Approve
    <2>5. versions' = {g[x] : x \in versions}
      BY <2>3, <2>4
    <2> QED
      BY <1>1, <2>1, <2>2, <2>5 DEF Approve, Reshapes
  <1>2. ASSUME NEW v \in versions, RetryIngest(v) \/ IngestStep(v)
        PROVE  (\E g : Reshapes(g)) /\ UNCHANGED uploadVars
    BY <1>2, IngestReplaces, Replaced
  <1>3. ASSUME NEW d \in DocumentIds, Archive(d)
        PROVE  (\E g : Reshapes(g)) /\ UNCHANGED uploadVars
    <2> DEFINE served == {w \in VersionsOf(d) : w.active}
               g == [x \in versions |-> IF x \in served THEN [x EXCEPT !.active = FALSE] ELSE x]
    <2>1. g \in [versions -> Version]
      BY ActiveOrNot DEF LibraryType
    <2>2. \A x \in versions : /\ g[x].doc = x.doc /\ g[x].no = x.no
                              /\ g[x].content = x.content /\ g[x].key = x.key
      BY DEF LibraryType, Version
    <2>3. versions' = (versions \ served) \cup {[w EXCEPT !.active = FALSE] : w \in served}
      BY <1>3 DEF Archive
    <2>4. versions' = {g[x] : x \in versions}
      BY <2>3 DEF VersionsOf
    <2> QED
      BY <1>3, <2>1, <2>2, <2>4 DEF Archive, Reshapes
  <1> QED
    BY <1>1, <1>2, <1>3 DEF VersionStep

-----------------------------------------------------------------------------
(* What the uploads do. *)

\* The latest version has the greatest number.
LEMMA LatestIs ==
    ASSUME LibraryType, RowsInv, NEW d \in DocumentIds, documents[d] # "none"
    PROVE  \E n \in Nat \ {0} : /\ NumberedUpTo(d, n)
                                /\ Latest(d) \in VersionsOf(d) /\ Latest(d).no = n
  <1>1. VersionsOf(d) # {}
    BY DEF RowsInv
  <1>2. PICK n \in Nat : NumberedUpTo(d, n)
    BY DEF RowsInv
  <1>3. n \in 1..n
    BY <1>1, <1>2 DEF NumberedUpTo, Numbers
  <1>4. PICK x \in VersionsOf(d) : x.no = n
    BY <1>2, <1>3 DEF NumberedUpTo, Numbers
  <1>5. \A w \in VersionsOf(d) : w.no \in 1..n
    BY <1>2 DEF NumberedUpTo, Numbers
  <1>6. \A w \in VersionsOf(d) : w.no <= x.no
    BY <1>4, <1>5
  <1>7. Latest(d) \in VersionsOf(d) /\ \A w \in VersionsOf(d) : w.no <= Latest(d).no
    BY <1>4, <1>6 DEF Latest
  <1>8. n <= Latest(d).no /\ Latest(d).no \in 1..n
    BY <1>4, <1>5, <1>7
  <1> QED
    BY <1>2, <1>3, <1>7, <1>8

\* An upload begins with the next key and the next number of a document that is
\* new or that it locks.
Begins(r, d, no, content) ==
    /\ upload[r].pc = "idle"
    /\ upload' = [upload EXCEPT ![r] = [pc |-> "inserted", doc |-> d, no |-> no,
                                        content |-> content, key |-> nextKey]]
    /\ nextKey \in Keys /\ nextKey' = nextKey + 1
    /\ UNCHANGED <<documents, versions, files, partial, announced, unsure, storageFaults>>
    /\ NumberedUpTo(d, no - 1)
    /\ \A v \in VersionsOf(d) : v.content # content
    /\ \/ /\ documents[d] = "none" /\ UNCHANGED locked
          /\ \A q \in Requests : Working(q) => upload[q].doc # d
       \/ documents[d] = "active" /\ locked[d] = "free" /\ locked' = [locked EXCEPT ![d] = r]

LEMMA InsertBegins ==
    ASSUME LibraryType, RowsInv, NEW r \in Requests, NEW f \in AcceptedFiles, InsertStep(r, f)
    PROVE  \E d \in DocumentIds, no \in Nat \ {0} : Begins(r, d, no, f.content)
  <1>1. nextKey <= MaxUploads => nextKey \in Keys
    BY LibraryAssumption DEF LibraryType, Keys
  <1>2. CASE NewDocument(r, f)
    <2> DEFINE d == Min(DocumentIds \ Taken)
    <2>1. DocumentIds \ Taken # {} /\ DocumentIds \ Taken \subseteq Nat
      BY <1>2, LibraryAssumption DEF NewDocument, DocumentIds
    <2>2. d \in DocumentIds \ Taken
      BY <2>1, MinLeast
    <2> HIDE DEF d
    <2>3. documents[d] = "none" /\ \A q \in Requests : Working(q) => upload[q].doc # d
      BY <2>2 DEF Taken, Working
    <2>4. VersionsOf(d) = {}
      BY <2>2, <2>3 DEF RowsInv
    <2>5. NumberedUpTo(d, 1 - 1)
      BY <2>4 DEF NumberedUpTo, Numbers
    <2>6. InsertRows(r, d, 1, f) /\ UNCHANGED locked
      BY <1>2 DEF NewDocument, d
    <2>7. Begins(r, d, 1, f.content)
      BY <1>1, <2>3, <2>4, <2>5, <2>6 DEF Begins, InsertRows
    <2> QED
      BY <2>2, <2>7
  <1>3. ASSUME NEW d \in DocumentIds, AddVersion(r, d, f)
        PROVE  \E no \in Nat \ {0} : Begins(r, d, no, f.content)
    <2>1. PICK n \in Nat \ {0} : NumberedUpTo(d, n) /\ Latest(d).no = n
      BY <1>3, LatestIs DEF AddVersion
    <2>2. NumberedUpTo(d, (n + 1) - 1)
      BY <2>1
    <2>3. Begins(r, d, n + 1, f.content)
      BY <1>1, <1>3, <2>1, <2>2 DEF AddVersion, Begins, InsertRows, Free
    <2> QED
      BY <2>3
  <1> QED
    BY <1>2, <1>3 DEF InsertStep

\* The upload of r ends, or goes to its clean-up, and gives its lock back.
LEMMA UnlockType == ASSUME LibraryType, NEW r \in Requests, Unlock(r)
                    PROVE  locked' \in [DocumentIds -> Requests \cup {"free"}]
  BY DEF LibraryType, Unlock

LEMMA UploadRecords ==
    ASSUME LibraryType, NEW r \in Requests
    PROVE  /\ NoUpload \in Upload
           /\ Working(r) => /\ upload[r].doc \in DocumentIds /\ upload[r].no \in Nat
                            /\ upload[r].content \in Contents /\ upload[r].key \in Keys
                            /\ [upload[r] EXCEPT !.pc = "saved"] \in Upload
                            /\ [upload[r] EXCEPT !.pc = "undo"] \in Upload
  <1>1. upload[r] \in Upload
    BY DEF LibraryType
  <1> QED
    BY <1>1 DEF Working, Upload, NoUpload

LEMMA WrittenVersion ==
    ASSUME LibraryType, NEW r \in Requests, Working(r)
    PROVE  [doc |-> upload[r].doc, no |-> upload[r].no, content |-> upload[r].content,
            key |-> upload[r].key, status |-> "processing", active |-> FALSE,
            chunked |-> FALSE, job |-> "queued", retriable |-> FALSE] \in Version
  BY UploadRecords DEF Version

LEMMA TypeStep ==
    ASSUME LibraryType, RowsInv, VersionFacts, LibraryNext PROVE LibraryType'
  <1>1. CASE UNCHANGED stored
    BY <1>1 DEF stored, LibraryType
  <1>2. ASSUME NEW r \in Requests, NEW f \in AcceptedFiles, InsertStep(r, f) PROVE LibraryType'
    <2>1. PICK d \in DocumentIds, no \in Nat \ {0} : Begins(r, d, no, f.content)
      BY <1>2, InsertBegins
    <2>2. upload' \in [Requests -> Upload]
      BY <2>1 DEF Begins, LibraryType, Upload, Contents
    <2>3. locked' \in [DocumentIds -> Requests \cup {"free"}]
      BY <2>1 DEF Begins, LibraryType
    <2> QED
      BY <2>1, <2>2, <2>3 DEF Begins, LibraryType
  <1>3. ASSUME NEW r \in Requests, UploadStep(r) PROVE LibraryType'
    <2>1. Working(r)
      BY <1>3 DEF UploadStep, SaveFile, SaveFails, CommitUpload, CommitFails, DeleteFile,
                  RequestDies, Working
    <2>2. upload' \in [Requests -> Upload] /\ locked' \in [DocumentIds -> Requests \cup {"free"}]
      BY <1>3, <2>1, UploadRecords, UnlockType DEF UploadStep, SaveFile, SaveFails, CommitUpload,
         CommitFails, DeleteFile, RequestDies, Drop, LibraryType
    <2>3. versions' \subseteq Version /\ documents' \in [DocumentIds -> {"none", "active", "archived"}]
      BY <1>3, <2>1, UploadRecords, WrittenVersion DEF UploadStep, SaveFile, SaveFails, CommitUpload,
         CommitFails, DeleteFile, RequestDies, Written, LibraryType
    <2>4. files' \subseteq Keys /\ partial' \subseteq Keys /\ unsure' \subseteq Keys
      <3>1. files \subseteq Keys /\ partial \subseteq Keys /\ unsure \subseteq Keys
        BY DEF LibraryType
      <3>2. upload[r].key \in Keys
        BY <2>1, UploadRecords
      <3> HIDE DEF Keys
      <3> QED
        BY <1>3, <3>1, <3>2 DEF UploadStep, SaveFile, SaveFails, CommitUpload, CommitFails,
           DeleteFile, RequestDies
    <2>5. nextKey' = nextKey /\ storageFaults' \in {storageFaults, storageFaults + 1}
      BY <1>3 DEF UploadStep, SaveFile, SaveFails, CommitUpload, CommitFails, DeleteFile,
         RequestDies, StorageFault
    <2> QED
      BY <2>2, <2>3, <2>4, <2>5 DEF LibraryType
  <1>4. CASE (\E v \in versions : VersionStep(v)) \/ (\E d \in DocumentIds : Archive(d))
    <2>1. versions' \subseteq Version /\ UNCHANGED uploadVars
      BY <1>4, VersionStepReshapes, Reshaped
    <2>2. documents' \in [DocumentIds -> {"none", "active", "archived"}]
      BY <1>4, VersionStepKeeps DEF Archive, LibraryType
    <2> QED
      BY <2>1, <2>2 DEF uploadVars, LibraryType
  <1> QED
    BY <1>1, <1>2, <1>3, <1>4, Steps

-----------------------------------------------------------------------------
(* Rows, and the versions that wait for their commit. *)

\* What an upload does besides its own record: it may write its version.
UploadWrites(r) ==
    /\ \A q \in Requests \ {r} : upload'[q] = upload[q]
    /\ \A d \in DocumentIds : locked[d] # r => locked'[d] = locked[d]
    /\ \/ upload[r].pc = "inserted" /\ UNCHANGED <<documents, versions>>
       \/ upload[r].pc \in {"saved", "undo"} /\ UNCHANGED <<documents, versions>>
       \/ upload[r].pc = "saved" /\ Written(r)
    /\ \/ upload'[r].pc \in {"idle", "undo"}
       \/ /\ upload[r].pc = "inserted" /\ upload' = [upload EXCEPT ![r].pc = "saved"]
          /\ UNCHANGED <<documents, versions, locked>>

LEMMA UploadStepWrites ==
    ASSUME LibraryType, NEW r \in Requests, UploadStep(r) PROVE UploadWrites(r)
  <1>0. upload \in [Requests -> Upload] /\ locked \in [DocumentIds -> Requests \cup {"free"}]
    BY DEF LibraryType
  <1>1. ASSUME Drop(r)
        PROVE  /\ \A q \in Requests \ {r} : upload'[q] = upload[q]
               /\ \A d \in DocumentIds : locked[d] # r => locked'[d] = locked[d]
               /\ upload'[r].pc = "idle"
    BY <1>0, <1>1 DEF Drop, Unlock, NoUpload
  <1>2. upload[r].pc # "idle" => [upload[r] EXCEPT !.pc = "undo"].pc = "undo"
    BY <1>0 DEF Upload, NoUpload
  <1>3. CASE SaveFile(r)
    BY <1>0, <1>3 DEF SaveFile, UploadWrites
  <1>4. CASE SaveFails(r)
    BY <1>1, <1>4 DEF SaveFails, UploadWrites
  <1>5. CASE CommitUpload(r)
    BY <1>1, <1>5 DEF CommitUpload, UploadWrites
  <1>6. CASE CommitFails(r)
    BY <1>0, <1>2, <1>6 DEF CommitFails, UploadWrites, Unlock
  <1>7. CASE DeleteFile(r)
    BY <1>1, <1>7 DEF DeleteFile, UploadWrites
  <1>8. CASE RequestDies(r)
    <2>1. upload[r].pc \in {"inserted", "saved", "undo"}
      BY <1>0, <1>8 DEF RequestDies, Upload, NoUpload
    <2> QED
      BY <1>1, <1>8, <2>1 DEF RequestDies, UploadWrites
  <1> QED
    BY <1>3, <1>4, <1>5, <1>6, <1>7, <1>8 DEF UploadStep

\* The new version has the next number of its document.
LEMMA WrittenRows ==
    ASSUME LibraryType, RowsInv, PendingInv, KeysInv, NEW r \in Requests,
           upload[r].pc = "saved", Written(r)
    PROVE  /\ RowsInv'
           /\ \A d \in DocumentIds \ {upload[r].doc} :
                VersionsOf(d)' = VersionsOf(d) /\ documents'[d] = documents[d]
  <1>1. PICK d \in DocumentIds, x \in Version :
           /\ d = upload[r].doc /\ x.doc = d /\ x.no = upload[r].no
           /\ x.content = upload[r].content /\ x.key = upload[r].key
           /\ versions' = versions \cup {x}
    <2> DEFINE x == [doc |-> upload[r].doc, no |-> upload[r].no, content |-> upload[r].content,
                     key |-> upload[r].key, status |-> "processing", active |-> FALSE,
                     chunked |-> FALSE, job |-> "queued", retriable |-> FALSE]
    <2>1. x \in Version /\ upload[r].doc \in DocumentIds
      BY WrittenVersion, UploadRecords DEF Working
    <2> QED
      BY <2>1 DEF Written
  <1>2. /\ NumberedUpTo(d, x.no - 1) /\ \A v \in VersionsOf(d) : v.content # x.content
        /\ \A v \in versions : v.key # x.key
        /\ documents[d] \in {"none", "active"}
    BY <1>1 DEF PendingInv, PendingOf, Pending, KeysInv, KeysOf, Working
  <1>3. documents' = [documents EXCEPT ![d] = "active"] /\ d \in DOMAIN documents
    BY <1>1 DEF Written, LibraryType
  <1>4. x.no \in Nat
    BY <1>1 DEF Version
  <1>5. /\ \A e \in DocumentIds \ {d} : VersionsOf(e)' = VersionsOf(e)
        /\ VersionsOf(d)' = VersionsOf(d) \cup {x}
    BY <1>1 DEF VersionsOf
  <1>6. \A v \in VersionsOf(d) : v.no # x.no
    <2>1. \A v \in VersionsOf(d) : v.no \in 1..(x.no - 1)
      BY <1>2 DEF NumberedUpTo, Numbers
    <2> QED
      BY <1>4, <2>1
  <1>7. \A v, w \in versions' : v.key = w.key => v = w
    BY <1>1, <1>2 DEF RowsInv
  <1>8. \A v, w \in versions' :
           v.doc = w.doc /\ (v.no = w.no \/ v.content = w.content) => v.key = w.key
    BY <1>1, <1>2, <1>6 DEF RowsInv, VersionsOf
  <1>9. NumberedUpTo(d, x.no)'
    <2>1. Numbers(d)' = Numbers(d) \cup {x.no}
      BY <1>5 DEF Numbers
    <2>2. Numbers(d) = 1..(x.no - 1) /\ x.no - 1 \in Nat
      BY <1>2 DEF NumberedUpTo
    <2>3. 1..(x.no - 1) \cup {x.no} = 1..x.no
      BY <1>4, <2>2
    <2> QED
      BY <1>4, <2>1, <2>2, <2>3 DEF NumberedUpTo
  <1>10. \A e \in DocumentIds : \E n \in Nat : NumberedUpTo(e, n)'
    <2>1. \A e \in DocumentIds \ {d} : \E n \in Nat : NumberedUpTo(e, n)'
      BY <1>5 DEF RowsInv, NumberedUpTo, Numbers
    <2> QED
      BY <1>4, <1>9, <2>1
  <1>11. \A e \in DocumentIds : documents'[e] = "none" <=> VersionsOf(e)' = {}
    <2>1. \A e \in DocumentIds \ {d} : documents'[e] = documents[e]
      BY <1>3 DEF LibraryType
    <2>2. documents'[d] = "active" /\ VersionsOf(d)' # {}
      BY <1>3, <1>5
    <2> QED
      BY <1>5, <2>1, <2>2 DEF RowsInv
  <1>12. RowsInv'
    BY <1>7, <1>8, <1>10, <1>11 DEF RowsInv
  <1> QED
    BY <1>1, <1>3, <1>5, <1>12 DEF LibraryType

LEMMA RowsStep ==
    ASSUME LibraryType, RowsInv, PendingInv, KeysInv, VersionFacts, LibraryNext PROVE RowsInv'
  <1>1. ASSUME UNCHANGED <<documents, versions>> PROVE RowsInv'
    BY <1>1 DEF RowsInv, NumberedUpTo, Numbers, VersionsOf
  <1>2. ASSUME NEW r \in Requests, NEW f \in AcceptedFiles, InsertStep(r, f) PROVE RowsInv'
    BY <1>1, <1>2, InsertBegins DEF Begins
  <1>3. ASSUME NEW r \in Requests, UploadStep(r) PROVE RowsInv'
    BY <1>1, <1>3, UploadStepWrites, WrittenRows DEF UploadWrites
  <1>4. CASE (\E v \in versions : VersionStep(v)) \/ (\E d \in DocumentIds : Archive(d))
    <2>1. PICK g : Reshapes(g)
      BY <1>4, VersionStepReshapes
    <2>2. \A d \in DocumentIds : documents'[d] = "none" <=> documents[d] = "none"
      BY <1>4, VersionStepKeeps DEF Archive, LibraryType
    <2>3. \A d \in DocumentIds : Numbers(d)' = Numbers(d) /\ (VersionsOf(d)' = {} <=> VersionsOf(d) = {})
      BY <2>1, Reshaped
    <2>4. /\ \A v, w \in versions' : v.key = w.key => v = w
          /\ \A v, w \in versions' :
               v.doc = w.doc /\ (v.no = w.no \/ v.content = w.content) => v.key = w.key
      BY <2>1, Reshaped
    <2> QED
      BY <2>2, <2>3, <2>4 DEF RowsInv, NumberedUpTo
  <1> QED
    BY <1>1, <1>2, <1>3, <1>4, Steps DEF stored

LEMMA PendingStep ==
    ASSUME LibraryType, RowsInv, PendingInv, KeysInv, VersionFacts, LibraryNext PROVE PendingInv'
  <1>0. "free" \notin Requests
    BY LibraryAssumption
  <1>1. CASE UNCHANGED stored
    BY <1>1 DEF stored, PendingInv, PendingOf, Pending, NumberedUpTo, Numbers, VersionsOf
  <1>2. ASSUME NEW r \in Requests, NEW f \in AcceptedFiles, InsertStep(r, f) PROVE PendingInv'
    <2>1. PICK d \in DocumentIds, no \in Nat \ {0} : Begins(r, d, no, f.content)
      BY <1>2, InsertBegins
    <2>2. \A q \in Requests \ {r} : upload'[q] = upload[q]
      BY <2>1 DEF Begins, LibraryType
    <2>3. upload'[r] = [pc |-> "inserted", doc |-> d, no |-> no, content |-> f.content, key |-> nextKey]
      BY <2>1 DEF Begins, LibraryType
    <2>4. ASSUME NEW q \in Requests \ {r}, Pending(q) PROVE upload[q].doc # d
      BY <1>0, <2>1, <2>4 DEF Begins, PendingInv, PendingOf, Pending, Working
    <2>5. \A e \in DocumentIds \ {d} : locked'[e] = locked[e]
      BY <2>1 DEF Begins, LibraryType
    <2>6. \A e : VersionsOf(e)' = VersionsOf(e) /\ Numbers(e)' = Numbers(e)
      BY <2>1 DEF Begins, VersionsOf, Numbers
    <2>7. PendingOf(r)'
      <3>1. NumberedUpTo(d, no - 1)' /\ \A v \in VersionsOf(d)' : v.content # f.content
        BY <2>1, <2>6 DEF Begins, NumberedUpTo
      <3>2. documents'[d] = "none" \/ (documents'[d] = "active" /\ locked'[d] = r)
        BY <2>1 DEF Begins, LibraryType
      <3>3. \A q \in Requests : Pending(q)' /\ upload'[q].doc = d => q = r
        BY <2>2, <2>4 DEF Pending
      <3> QED
        BY <2>3, <3>1, <3>2, <3>3 DEF PendingOf, NumberedUpTo
    <2>8. ASSUME NEW q \in Requests \ {r}, Pending(q) PROVE PendingOf(q)'
      <3>1. upload[q].doc # d /\ upload[q].doc \in DocumentIds
        BY <2>4, <2>8, UploadRecords DEF Pending, Working
      <3>2. PendingOf(q)
        BY DEF PendingInv
      <3>3. \A s \in Requests : Pending(s)' /\ upload'[s].doc = upload[q].doc => s = q
        BY <2>2, <2>3, <2>8, <3>1, <3>2 DEF Pending, PendingOf
      <3> QED
        BY <2>1, <2>2, <2>5, <2>6, <2>8, <3>1, <3>2, <3>3 DEF PendingOf, Begins, NumberedUpTo
    <2> QED
      BY <2>2, <2>7, <2>8 DEF PendingInv, PendingOf, Pending
  <1>3. ASSUME NEW r \in Requests, UploadStep(r) PROVE PendingInv'
    <2>1. UploadWrites(r)
      BY <1>3, UploadStepWrites
    <2>2. ASSUME NEW q \in Requests \ {r}, Pending(q) PROVE PendingOf(q)'
      <3>1. upload[q].doc \in DocumentIds /\ upload'[q] = upload[q] /\ PendingOf(q)
        BY <2>1, <2>2, UploadRecords DEF Pending, Working, PendingInv, UploadWrites
      <3>2. VersionsOf(upload[q].doc)' = VersionsOf(upload[q].doc)
            /\ documents'[upload[q].doc] = documents[upload[q].doc]
        <4>1. ASSUME upload[r].pc = "saved", Written(r) PROVE upload[q].doc # upload[r].doc
          BY <2>2, <3>1, <4>1 DEF PendingOf, Pending
        <4> QED
          BY <2>1, <3>1, <4>1, WrittenRows DEF UploadWrites, VersionsOf
      <3>3. locked[upload[q].doc] = q => locked'[upload[q].doc] = q
        BY <2>1, <3>1 DEF UploadWrites
      <3>4. \A s \in Requests : Pending(s)' /\ upload'[s].doc = upload[q].doc => s = q
        <4>1. Pending(r)' => Pending(r) /\ upload'[r].doc = upload[r].doc
          BY <2>1 DEF UploadWrites, Pending, LibraryType, Upload, NoUpload
        <4> QED
          BY <2>1, <2>2, <3>1, <4>1 DEF UploadWrites, Pending, PendingOf
      <3> QED
        BY <2>2, <3>1, <3>2, <3>3, <3>4 DEF PendingOf, NumberedUpTo, Numbers
    <2>3. PendingOf(r)'
      <3>1. CASE upload'[r].pc \in {"idle", "undo"}
        BY <3>1 DEF PendingOf, Pending
      <3>2. CASE /\ upload[r].pc = "inserted" /\ upload' = [upload EXCEPT ![r].pc = "saved"]
                 /\ UNCHANGED <<documents, versions, locked>>
        <4>1. /\ upload'[r].doc = upload[r].doc /\ upload'[r].no = upload[r].no
              /\ upload'[r].content = upload[r].content
              /\ \A q \in Requests \ {r} : upload'[q] = upload[q]
          BY <3>2 DEF LibraryType, Upload, NoUpload
        <4>2. PendingOf(r) /\ Pending(r)
          BY <3>2 DEF PendingInv, Pending
        <4> QED
          BY <3>2, <4>1, <4>2 DEF PendingOf, Pending, NumberedUpTo, Numbers, VersionsOf
      <3> QED
        BY <2>1, <3>1, <3>2 DEF UploadWrites
    <2> QED
      BY <2>1, <2>2, <2>3 DEF PendingInv, PendingOf, Pending, UploadWrites
  <1>4. CASE (\E v \in versions : VersionStep(v)) \/ (\E d \in DocumentIds : Archive(d))
    <2>1. PICK g : Reshapes(g)
      BY <1>4, VersionStepReshapes
    <2>2. UNCHANGED <<upload, locked>>
      BY <1>4, VersionStepReshapes DEF uploadVars
    <2>3. \A d \in DocumentIds :
             documents'[d] = documents[d] \/ (documents[d] = "active" /\ locked[d] = "free")
      BY <1>4, VersionStepKeeps DEF Archive, LibraryType, Free
    <2>4. SUFFICES ASSUME NEW r \in Requests, Pending(r) PROVE PendingOf(r)'
      BY <2>2 DEF PendingInv, PendingOf, Pending
    <2>5. PICK d \in DocumentIds : d = upload[r].doc
      BY <2>4, UploadRecords DEF Pending, Working
    <2>6. PendingOf(r)
      BY DEF PendingInv
    <2>7. documents'[d] = documents[d]
      BY <1>0, <2>3, <2>4, <2>5, <2>6 DEF PendingOf
    <2>8. Numbers(d)' = Numbers(d) /\ {v.content : v \in VersionsOf(d)'} = {v.content : v \in VersionsOf(d)}
      BY <2>1, Reshaped
    <2>9. \A v \in VersionsOf(d)' : v.content # upload[r].content
      BY <2>4, <2>5, <2>6, <2>8 DEF PendingOf
    <2> QED
      BY <2>2, <2>4, <2>5, <2>6, <2>7, <2>8, <2>9 DEF PendingOf, Pending, NumberedUpTo
  <1> QED
    BY <1>1, <1>2, <1>3, <1>4, Steps

-----------------------------------------------------------------------------
(* Keys and files. *)

\* What an upload does to the files, k being its key.
UploadTouches(r, k) ==
    /\ k = upload[r].key /\ k \in Keys /\ Working(r) /\ nextKey' = nextKey
    /\ files \ {k} \subseteq files' /\ files' \subseteq files \cup {k}
    /\ partial \subseteq partial' /\ partial' \subseteq partial \cup {k}
    /\ unsure \subseteq unsure'
    /\ \/ versions' = versions
       \/ /\ upload[r].pc = "saved" /\ files' = files
          /\ \E x \in Version : /\ x.key = k /\ ~x.active /\ x.doc = upload[r].doc
                                /\ x.status = "processing" /\ x.job = "queued"
                                /\ versions' = versions \cup {x}
    /\ \/ upload'[r].pc = "idle"
       \/ /\ upload[r].pc = "inserted" /\ upload' = [upload EXCEPT ![r].pc = "saved"]
          /\ files' = files \cup {k} /\ UNCHANGED <<partial, versions>>
       \/ /\ upload[r].pc = "saved" /\ upload' = [upload EXCEPT ![r].pc = "undo"]
          /\ UNCHANGED <<files, partial>>
          /\ versions' = versions \/ unsure' = unsure \cup {k}
    /\ files \subseteq files' \/ upload[r].pc = "undo"

LEMMA UploadStepTouches ==
    ASSUME LibraryType, NEW r \in Requests, UploadStep(r) PROVE \E k : UploadTouches(r, k)
  <1>0. Working(r) /\ upload \in [Requests -> Upload]
    BY DEF UploadStep, SaveFile, SaveFails, CommitUpload, CommitFails, DeleteFile, RequestDies,
           Working, LibraryType
  <1>1. PICK k \in Keys : k = upload[r].key
    BY <1>0, UploadRecords
  <1>2. ASSUME Drop(r) PROVE upload'[r].pc = "idle"
    BY <1>0, <1>2 DEF Drop, NoUpload
  <1>3. ASSUME Written(r)
        PROVE  \E x \in Version : /\ x.key = k /\ ~x.active /\ x.doc = upload[r].doc
                                  /\ x.status = "processing" /\ x.job = "queued"
                                  /\ versions' = versions \cup {x}
    BY <1>0, <1>1, <1>3, WrittenVersion DEF Written
  <1> USE <1>0, <1>1 DEF UploadTouches
  <1>4. CASE SaveFile(r)
    BY <1>4 DEF SaveFile
  <1>5. CASE SaveFails(r)
    BY <1>2, <1>5 DEF SaveFails
  <1>6. CASE CommitUpload(r)
    BY <1>2, <1>3, <1>6 DEF CommitUpload
  <1>7. CASE CommitFails(r)
    BY <1>3, <1>7 DEF CommitFails
  <1>8. CASE DeleteFile(r)
    BY <1>2, <1>8 DEF DeleteFile
  <1>9. CASE RequestDies(r)
    BY <1>2, <1>9 DEF RequestDies
  <1> QED
    BY <1>4, <1>5, <1>6, <1>7, <1>8, <1>9 DEF UploadStep

LEMMA KeysStep ==
    ASSUME LibraryType, RowsInv, PendingInv, KeysInv, VersionFacts, LibraryNext PROVE KeysInv'
  <1>0. \A q \in Requests : Working(q) => upload[q].key \in Nat
    <2>1. Keys \subseteq Nat
      BY LibraryAssumption DEF Keys
    <2>2. \A q \in Requests : Working(q) => upload[q].key \in Keys
      BY UploadRecords
    <2> QED
      BY <2>1, <2>2
  <1>1. CASE UNCHANGED stored
    BY <1>1 DEF stored, KeysInv, KeysOf, Working
  <1>2. ASSUME NEW r \in Requests, NEW f \in AcceptedFiles, InsertStep(r, f) PROVE KeysInv'
    <2>1. PICK d \in DocumentIds, no \in Nat \ {0} : Begins(r, d, no, f.content)
      BY <1>2, InsertBegins
    <2>2. /\ \A q \in Requests \ {r} : upload'[q] = upload[q]
          /\ upload'[r].pc = "inserted" /\ upload'[r].key = nextKey
      BY <2>1 DEF Begins, LibraryType
    <2>3. nextKey \in Nat /\ nextKey' = nextKey + 1 /\ UNCHANGED <<versions, files, partial, unsure>>
      BY <2>1 DEF Begins, LibraryType
    <2>4. /\ \A v \in versions : v.key \in Nat /\ v.key < nextKey
          /\ \A k \in files \cup partial : k \in Nat /\ k < nextKey
          /\ \A q \in Requests : Working(q) => upload[q].key < nextKey
      BY DEF KeysInv, KeysOf, LibraryType, Version, Keys
    <2>5. KeysOf(r)'
      BY <1>0, <2>2, <2>3, <2>4 DEF KeysOf, Working
    <2>6. \A q \in Requests \ {r} : KeysOf(q)'
      BY <1>0, <2>2, <2>3, <2>4 DEF KeysInv, KeysOf, Working
    <2>7. /\ \A v \in versions : v.key < nextKey + 1
          /\ \A k \in files \cup partial : k < nextKey + 1
      BY <2>3, <2>4
    <2> QED
      BY <2>3, <2>5, <2>6, <2>7 DEF KeysInv
  <1>3. ASSUME NEW r \in Requests, UploadStep(r) PROVE KeysInv'
    <2>1. PICK k : UploadTouches(r, k)
      BY <1>3, UploadStepTouches
    <2>2. \A q \in Requests \ {r} : upload'[q] = upload[q]
      BY <1>3, UploadStepWrites DEF UploadWrites
    <2>3. k < nextKey /\ nextKey' = nextKey /\ k = upload[r].key /\ Working(r)
      BY <2>1 DEF UploadTouches, KeysInv, KeysOf
    <2>4. \A v \in versions' : v.key = k \/ v \in versions
      BY <2>1 DEF UploadTouches
    <2>5. Working(r)' => upload'[r].key = k
      BY <2>1 DEF UploadTouches, Working, LibraryType, Upload, NoUpload
    <2>6. ASSUME NEW q \in Requests \ {r}, Working(q) PROVE KeysOf(q)'
      <3>1. upload'[q] = upload[q] /\ upload[q].key # k /\ KeysOf(q)
        BY <2>2, <2>3, <2>6 DEF KeysInv, KeysOf
      <3>2. \A s \in Requests : (Working(s)' /\ upload'[s].key = upload[q].key) => s = q
        BY <2>2, <2>3, <2>5, <2>6, <3>1 DEF Working, KeysOf
      <3>3. /\ upload[q].key \in files' <=> upload[q].key \in files
            /\ upload[q].key \notin partial' /\ unsure \subseteq unsure'
        BY <2>1, <2>6, <3>1 DEF UploadTouches, KeysOf
      <3> QED
        BY <2>3, <2>4, <2>6, <3>1, <3>2, <3>3 DEF KeysOf, Working
    <2>7. KeysOf(r)'
      <3>1. CASE upload'[r].pc = "idle"
        BY <3>1 DEF KeysOf, Working
      <3>2. ASSUME Working(r)'
            PROVE  \A q \in Requests : (Working(q)' /\ upload'[q].key = k) => q = r
        BY <2>2, <2>3 DEF Working, KeysInv, KeysOf
      <3>3. CASE /\ upload[r].pc = "inserted" /\ upload' = [upload EXCEPT ![r].pc = "saved"]
                 /\ files' = files \cup {k} /\ UNCHANGED <<partial, versions>>
        <4>1. upload'[r].pc = "saved"
          BY <3>3 DEF LibraryType, Upload, NoUpload
        <4> QED
          BY <2>3, <2>5, <3>2, <3>3, <4>1 DEF KeysInv, KeysOf, Working
      <3>4. CASE /\ upload[r].pc = "saved" /\ upload' = [upload EXCEPT ![r].pc = "undo"]
                 /\ UNCHANGED <<files, partial>>
                 /\ versions' = versions \/ unsure' = unsure \cup {k}
        <4>1. upload'[r].pc = "undo"
          BY <3>4 DEF LibraryType, Upload, NoUpload
        <4>2. \A v \in versions : v.key # k
          BY <2>3, <3>4 DEF KeysInv, KeysOf
        <4> QED
          BY <2>3, <2>4, <2>5, <3>2, <3>4, <4>1, <4>2 DEF KeysInv, KeysOf, Working
      <3> QED
        BY <2>1, <3>1, <3>3, <3>4 DEF UploadTouches
    <2>8. \A q \in Requests : KeysOf(q)'
      BY <2>2, <2>6, <2>7 DEF KeysOf, Working
    <2>9. (\A v \in versions' : v.key < nextKey) /\ \A i \in files' \cup partial' : i < nextKey
      BY <2>1, <2>3, <2>4 DEF UploadTouches, KeysInv
    <2> QED
      BY <2>3, <2>8, <2>9 DEF KeysInv
  <1>4. CASE (\E v \in versions : VersionStep(v)) \/ (\E d \in DocumentIds : Archive(d))
    <2>1. UNCHANGED uploadVars /\ {v.key : v \in versions'} = {v.key : v \in versions}
      BY <1>4, VersionStepReshapes, Reshaped
    <2>2. \A v \in versions' : \E x \in versions : x.key = v.key
      BY <2>1
    <2>3. UNCHANGED <<files, partial, upload, nextKey, unsure>>
      BY <2>1 DEF uploadVars
    <2> QED
      BY <2>2, <2>3 DEF KeysInv, KeysOf, Working
  <1> QED
    BY <1>1, <1>2, <1>3, <1>4, Steps

-----------------------------------------------------------------------------
(* The served version, and the files. *)

Alike(v, w) ==
    v.status = w.status /\ v.job = w.job /\ v.chunked = w.chunked /\ v.retriable = w.retriable

LEMMA AlikeFits == \A v, w : Alike(v, w) /\ Fits(w) => Fits(v)
  BY DEF Alike, Fits

\* Only an approval makes a version active.
LEMMA VersionFactsStep ==
    ASSUME LibraryType, RowsInv, PendingInv, KeysInv, VersionFacts, LibraryNext PROVE VersionFacts'
  <1>1. ASSUME UNCHANGED <<documents, versions, announced>> PROVE VersionFacts'
    BY <1>1 DEF VersionFacts, OneServed, VersionsOf
  <1>2. ASSUME NEW r \in Requests, NEW f \in AcceptedFiles, InsertStep(r, f) PROVE VersionFacts'
    BY <1>1, <1>2, InsertBegins DEF Begins
  <1>3. ASSUME NEW r \in Requests, UploadStep(r) PROVE VersionFacts'
    <2>1. announced' = announced
      BY <1>3 DEF UploadStep, SaveFile, SaveFails, CommitUpload, CommitFails, DeleteFile, RequestDies
    <2>2. CASE UNCHANGED <<documents, versions>>
      BY <1>1, <2>1, <2>2
    <2>3. CASE upload[r].pc = "saved" /\ Written(r)
      <3>1. PICK k : UploadTouches(r, k)
        BY <1>3, UploadStepTouches
      <3>2. \A v \in versions' :
              \/ v \in versions
              \/ v.status = "processing" /\ v.job = "queued" /\ ~v.active
        BY <3>1 DEF UploadTouches
      <3>3. \A d \in DocumentIds : documents[d] = "active" => documents'[d] = "active"
        BY <2>3 DEF Written, LibraryType
      <3>4. \A v \in versions' : Fits(v)
        BY <3>2 DEF VersionFacts, Fits
      <3>5. \A v \in versions : v.doc \in DocumentIds
        BY DEF LibraryType, Version
      <3>6. OneServed'
        BY <2>1, <3>2, <3>3, <3>5 DEF VersionFacts, OneServed, VersionsOf
      <3> QED
        BY <3>4, <3>6 DEF VersionFacts
    <2> QED
      BY <1>3, <2>2, <2>3, UploadStepWrites DEF UploadWrites
  <1>4. ASSUME NEW v \in versions, Approve(v) PROVE VersionFacts'
    <2> DEFINE previous == {w \in VersionsOf(v.doc) : w.active}
    <2>0. v \in Version /\ versions \subseteq Version
      BY DEF LibraryType
    <2>1. /\ documents[v.doc] = "active" /\ documents' = documents /\ v.status = "ready"
          /\ versions' = (versions \ ({v} \cup previous))
                           \cup {[w EXCEPT !.active = FALSE] : w \in previous}
                           \cup {[v EXCEPT !.active = TRUE]}
          /\ announced' = announced \cup {Mirror(v.doc)} \cup GraphsOf(previous \cup {v})
      BY <1>4 DEF Approve
    <2>2. PICK u \in Version : /\ u = [v EXCEPT !.active = TRUE] /\ u.doc = v.doc /\ u.key = v.key
                               /\ u.active /\ u.status = "ready" /\ Alike(u, v)
      BY <2>0, <2>1, ActiveOrNot DEF Version, Alike
    <2>3. \A w \in previous : /\ [w EXCEPT !.active = FALSE].active = FALSE
                              /\ Alike([w EXCEPT !.active = FALSE], w)
      BY <2>0 DEF VersionsOf, Version, Alike
    <2>4. \A x \in versions' : \E w \in versions : Alike(x, w)
      <3>1. previous \subseteq versions /\ Alike(u, v)
        BY <2>1, <2>2 DEF VersionsOf
      <3> SUFFICES ASSUME NEW x \in versions'
                   PROVE  \E w \in versions : Alike(x, w)
        OBVIOUS
      <3>2. CASE x \in versions
        BY <3>2 DEF Alike
      <3>3. CASE x = u
        BY <3>1, <3>3
      <3>4. CASE \E w \in previous : x = [w EXCEPT !.active = FALSE]
        BY <2>3, <3>1, <3>4
      <3> HIDE DEF previous
      <3> QED
        BY <2>1, <2>2, <3>2, <3>3, <3>4
    <2>5. \A x \in versions' : Fits(x)
      BY <2>4, AlikeFits DEF VersionFacts
    <2>6. \A x \in versions' : x.active => x = u \/ (x \in versions /\ x.doc # v.doc)
      BY <2>1, <2>2, <2>3 DEF VersionsOf
    <2>7. {Mirror(u.doc)} \cup GraphsOf({u}) \subseteq announced'
      BY <2>1, <2>2 DEF GraphsOf, Graph
    <2>8. announced \subseteq announced'
      BY <2>1
    <2>9. OneServed'
      <3> SUFFICES ASSUME NEW x \in versions', x.active
                   PROVE  /\ x.status = "ready" /\ documents[x.doc] = "active"
                          /\ \A w \in versions' : w.doc = x.doc /\ w.active => w = x
                          /\ {Mirror(x.doc)} \cup GraphsOf({x}) \subseteq announced'
        BY <2>1 DEF OneServed, VersionsOf
      <3>1. CASE x = u
        BY <2>1, <2>2, <2>6, <2>7, <3>1
      <3>2. CASE x \in versions /\ x.doc # v.doc
        BY <2>2, <2>6, <2>8, <3>2 DEF VersionFacts, OneServed, VersionsOf
      <3> QED
        BY <2>6, <3>1, <3>2
    <2> QED
      BY <2>5, <2>9 DEF VersionFacts
  <1>5. ASSUME NEW v \in versions, RetryIngest(v) \/ IngestStep(v) PROVE VersionFacts'
    <2>1. PICK w \in Version :
            /\ Replace(v, w) /\ Fits(w)
            /\ w.active => v.active /\ w.status = "ready"
            /\ w.doc = v.doc /\ w.key = v.key
            /\ documents' = documents /\ announced \subseteq announced'
      BY <1>5, IngestReplaces
    <2>2. versions' = (versions \ {v}) \cup {w}
      BY <2>1 DEF Replace
    <2>3. \A x \in versions' : Fits(x)
      BY <2>1, <2>2 DEF VersionFacts
    <2>4. GraphsOf({w}) = GraphsOf({v})
      BY <2>1 DEF GraphsOf, Graph
    <2>5. ASSUME NEW x \in versions', x.active
          PROVE  /\ x.status = "ready" /\ documents[x.doc] = "active"
                 /\ \A y \in versions' : y.doc = x.doc /\ y.active => y = x
                 /\ {Mirror(x.doc)} \cup GraphsOf({x}) \subseteq announced'
      <3>1. CASE x = w
        BY <2>1, <2>2, <2>4, <2>5, <3>1 DEF VersionFacts, OneServed, VersionsOf
      <3>2. CASE x \in versions \ {v}
        BY <2>1, <2>2, <2>5, <3>2 DEF VersionFacts, OneServed, VersionsOf
      <3> QED
        BY <2>2, <3>1, <3>2
    <2>6. OneServed'
      BY <2>1, <2>5 DEF OneServed, VersionsOf
    <2> QED
      BY <2>3, <2>6 DEF VersionFacts
  <1>6. ASSUME NEW d \in DocumentIds, Archive(d) PROVE VersionFacts'
    <2> DEFINE served == {w \in VersionsOf(d) : w.active}
    <2>0. versions \subseteq Version
      BY DEF LibraryType
    <2>1. /\ documents' = [documents EXCEPT ![d] = "archived"]
          /\ versions' = (versions \ served) \cup {[w EXCEPT !.active = FALSE] : w \in served}
          /\ announced \subseteq announced'
      BY <1>6 DEF Archive
    <2>2. \A w \in served : /\ [w EXCEPT !.active = FALSE].active = FALSE
                            /\ Alike([w EXCEPT !.active = FALSE], w)
      BY <2>0 DEF VersionsOf, Version, Alike
    <2>3. \A x \in versions' : \E w \in versions : Alike(x, w)
      <3> SUFFICES ASSUME NEW x \in versions'
                   PROVE  \E w \in versions : Alike(x, w)
        OBVIOUS
      <3>1. served \subseteq versions
        BY DEF VersionsOf
      <3>2. CASE x \in versions
        BY <3>2 DEF Alike
      <3>3. CASE \E w \in served : x = [w EXCEPT !.active = FALSE]
        BY <2>2, <3>1, <3>3
      <3> HIDE DEF served
      <3> QED
        BY <2>1, <3>2, <3>3
    <2>4. \A x \in versions' : Fits(x)
      BY <2>3, AlikeFits DEF VersionFacts
    <2>5. \A x \in versions' : x.active => x \in versions /\ x.doc # d
      BY <2>1, <2>2 DEF VersionsOf
    <2>6. \A e \in DocumentIds \ {d} : documents'[e] = documents[e]
      BY <2>1 DEF LibraryType
    <2>7. \A x \in versions : x.doc \in DocumentIds
      BY <2>0 DEF Version
    <2>8. OneServed'
      BY <2>1, <2>5, <2>6, <2>7 DEF VersionFacts, OneServed, VersionsOf
    <2> QED
      BY <2>4, <2>8 DEF VersionFacts
  <1> QED
    BY <1>1, <1>2, <1>3, <1>4, <1>5, <1>6, Steps DEF stored, VersionStep

Owned == {v.key : v \in versions} \cup {upload[r].key : r \in {q \in Requests : Working(q)}}
Orphans == (files \cup partial) \ Owned

LEMMA FilesKeptMeans ==
    FilesKept <=> /\ \A v \in versions : v.key \in files \/ v.key \in unsure
                  /\ Cardinality(Orphans) <= storageFaults
  BY DEF FilesKept, Orphans, Owned, Working

LEMMA KeptThen ==
    ASSUME \A v \in versions' : v.key \in files' \/ v.key \in unsure',
           Cardinality(Orphans') <= storageFaults'
    PROVE  FilesKept'
  BY DEF FilesKept, Orphans, Owned, Working

LEMMA FewerOrphans ==
    ASSUME LibraryType, Orphans' \subseteq Orphans, Cardinality(Orphans) <= storageFaults,
           storageFaults' \in {storageFaults, storageFaults + 1}
    PROVE  Cardinality(Orphans') <= storageFaults'
  <1>1. IsFiniteSet(Keys)
    BY LibraryAssumption, FS_Interval DEF Keys
  <1>2. IsFiniteSet(Orphans) /\ Cardinality(Orphans) \in Nat
    BY <1>1, FS_Subset, FS_CardinalityType DEF Orphans, LibraryType
  <1>3. Cardinality(Orphans') <= Cardinality(Orphans) /\ Cardinality(Orphans') \in Nat
    BY <1>2, FS_Subset, FS_CardinalityType
  <1> QED
    BY <1>2, <1>3 DEF LibraryType

LEMMA OneMoreOrphan ==
    ASSUME LibraryType, NEW k, Orphans' \subseteq Orphans \cup {k},
           Cardinality(Orphans) <= storageFaults, storageFaults' = storageFaults + 1
    PROVE  Cardinality(Orphans') <= storageFaults'
  <1>1. IsFiniteSet(Keys)
    BY LibraryAssumption, FS_Interval DEF Keys
  <1>2. IsFiniteSet(Orphans) /\ Cardinality(Orphans) \in Nat
    BY <1>1, FS_Subset, FS_CardinalityType DEF Orphans, LibraryType
  <1>3. Cardinality(Orphans') \in Nat /\ Cardinality(Orphans') <= Cardinality(Orphans) + 1
    BY <1>2, OneMore
  <1> QED
    BY <1>2, <1>3 DEF LibraryType

LEMMA FilesStep ==
    ASSUME LibraryType, RowsInv, PendingInv, KeysInv, VersionFacts, FilesKept, LibraryNext
    PROVE  FilesKept'
  <1>0. /\ \A v \in versions : v.key \in files \/ v.key \in unsure
        /\ Cardinality(Orphans) <= storageFaults
    BY FilesKeptMeans
  <1>1. CASE UNCHANGED stored
    BY <1>1 DEF stored, FilesKept
  <1>2. ASSUME NEW r \in Requests, NEW f \in AcceptedFiles, InsertStep(r, f) PROVE FilesKept'
    <2>1. PICK d \in DocumentIds, no \in Nat \ {0} : Begins(r, d, no, f.content)
      BY <1>2, InsertBegins
    <2>2. \A q \in Requests : Working(q) => upload'[q] = upload[q]
      BY <2>1 DEF Begins, Working, LibraryType
    <2>3. Owned \subseteq Owned' /\ UNCHANGED <<versions, files, partial, unsure, storageFaults>>
      BY <2>1, <2>2 DEF Begins, Owned, Working
    <2>4. Orphans' \subseteq Orphans
      BY <2>3 DEF Orphans
    <2> QED
      BY <1>0, <2>3, <2>4, FewerOrphans, KeptThen
  <1>3. ASSUME NEW r \in Requests, UploadStep(r) PROVE FilesKept'
    <2>1. PICK k : UploadTouches(r, k)
      BY <1>3, UploadStepTouches
    <2>2. \A q \in Requests \ {r} : upload'[q] = upload[q]
      BY <1>3, UploadStepWrites DEF UploadWrites
    <2>3. \A v \in versions' : v.key \in files' \/ v.key \in unsure'
      <3>1. ASSUME NEW v \in versions PROVE v.key \in files' \/ v.key \in unsure'
        <4>1. CASE v.key # k
          BY <1>0, <2>1, <4>1 DEF UploadTouches
        <4>2. CASE v.key = k
          BY <1>0, <2>1, <4>2 DEF UploadTouches, KeysInv, KeysOf
        <4> QED
          BY <4>1, <4>2
      <3>2. upload[r].pc = "saved" => k \in files
        BY <2>1 DEF UploadTouches, KeysInv, KeysOf
      <3> QED
        BY <2>1, <3>1, <3>2 DEF UploadTouches
    <2>4. Owned \subseteq Owned' \cup {k}
      BY <2>1, <2>2 DEF UploadTouches, Owned, Working
    <2>5. Orphans' \subseteq Orphans \cup {k}
      BY <2>1, <2>4 DEF UploadTouches, Orphans
    <2>6. CASE storageFaults' = storageFaults + 1
      BY <1>0, <2>3, <2>5, <2>6, OneMoreOrphan, KeptThen
    <2>7. CASE storageFaults' = storageFaults
      <3>1. k \in Owned' \/ k \notin files' \cup partial'
        <4>1. CASE SaveFile(r)
          <5>1. upload'[r].pc = "saved" /\ upload'[r].key = k
            BY <2>1, <4>1 DEF SaveFile, UploadTouches, LibraryType, Upload, NoUpload
          <5> QED
            BY <5>1 DEF Owned, Working
        <4>2. CASE CommitUpload(r)
          <5>1. \E v \in versions' : v.key = k
            <6> DEFINE x == [doc |-> upload[r].doc, no |-> upload[r].no,
                             content |-> upload[r].content, key |-> upload[r].key,
                             status |-> "processing", active |-> FALSE, chunked |-> FALSE,
                             job |-> "queued", retriable |-> FALSE]
            <6>1. x \in versions' /\ x.key = upload[r].key
              BY <4>2 DEF CommitUpload, Written
            <6> QED
              BY <2>1, <6>1 DEF UploadTouches
          <5> QED
            BY <5>1 DEF Owned
        <4>3. CASE DeleteFile(r)
          <5>1. files' = files \ {k} \/ storageFaults' = storageFaults + 1
            BY <2>1, <4>3 DEF DeleteFile, StorageFault, UploadTouches
          <5>2. k \notin partial /\ partial' = partial
            BY <2>1, <4>3 DEF DeleteFile, UploadTouches, KeysInv, KeysOf
          <5> QED
            BY <2>7, <5>1, <5>2 DEF LibraryType
        <4>4. CASE SaveFails(r) \/ CommitFails(r) \/ RequestDies(r)
          BY <2>7, <4>4 DEF SaveFails, CommitFails, RequestDies, StorageFault, LibraryType
        <4> QED
          BY <1>3, <4>1, <4>2, <4>3, <4>4 DEF UploadStep
      <3>2. Orphans' \subseteq Orphans
        BY <2>1, <2>4, <2>5, <3>1 DEF UploadTouches, Orphans
      <3> QED
        BY <1>0, <2>3, <2>7, <3>2, FewerOrphans, KeptThen
    <2>8. storageFaults' \in {storageFaults, storageFaults + 1}
      BY <1>3 DEF UploadStep, SaveFile, SaveFails, CommitUpload, CommitFails, DeleteFile,
         RequestDies, StorageFault
    <2> QED
      BY <2>6, <2>7, <2>8
  <1>4. CASE (\E v \in versions : VersionStep(v)) \/ (\E d \in DocumentIds : Archive(d))
    <2>1. UNCHANGED uploadVars /\ {v.key : v \in versions'} = {v.key : v \in versions}
      BY <1>4, VersionStepReshapes, Reshaped
    <2>2. UNCHANGED <<files, partial, upload, unsure, storageFaults>>
      BY <2>1 DEF uploadVars
    <2>3. Orphans' \subseteq Orphans
      BY <2>1, <2>2 DEF Orphans, Owned, Working
    <2>4. \A v \in versions' : \E x \in versions : x.key = v.key
      BY <2>1
    <2> QED
      BY <1>0, <2>2, <2>3, <2>4, FewerOrphans, KeptThen
  <1> QED
    BY <1>1, <1>2, <1>3, <1>4, Steps

-----------------------------------------------------------------------------
(* The library is consistent. *)

LEMMA LibraryInvInit == LibraryInit => LibraryInv
  <1> SUFFICES ASSUME LibraryInit PROVE LibraryInv
    OBVIOUS
  <1>1. LibraryType
    BY LibraryAssumption DEF LibraryInit, LibraryType, Upload
  <1>2. RowsInv
    <2>1. \A d \in DocumentIds : VersionsOf(d) = {} /\ NumberedUpTo(d, 0)
      BY DEF LibraryInit, VersionsOf, NumberedUpTo, Numbers
    <2> QED
      BY <2>1 DEF LibraryInit, RowsInv
  <1>3. PendingInv /\ KeysInv
    BY DEF LibraryInit, PendingInv, PendingOf, Pending, KeysInv, KeysOf, Working, NoUpload
  <1>4. VersionFacts
    BY DEF LibraryInit, VersionFacts, OneServed
  <1>5. FilesKept
    <2>1. Orphans = {} /\ storageFaults = 0 /\ versions = {}
      BY DEF LibraryInit, Orphans
    <2> QED
      BY <2>1, FilesKeptMeans, FS_EmptySet
  <1> QED
    BY <1>1, <1>2, <1>3, <1>4, <1>5 DEF LibraryInv

LEMMA LibraryInvStep == LibraryInv /\ [LibraryNext]_libraryVars => LibraryInv'
  <1> SUFFICES ASSUME LibraryInv, [LibraryNext]_libraryVars PROVE LibraryInv'
    OBVIOUS
  <1>1. CASE LibraryNext
    BY <1>1, TypeStep, RowsStep, PendingStep, KeysStep, VersionFactsStep, FilesStep DEF LibraryInv
  <1>2. CASE UNCHANGED libraryVars
    BY <1>2 DEF libraryVars, LibraryInv, LibraryType, RowsInv, NumberedUpTo, Numbers, PendingInv,
       PendingOf, Pending, KeysInv, KeysOf, Working, VersionFacts, OneServed,
       FilesKept, VersionsOf, Mirror, GraphsOf, Graph
  <1> QED
    BY <1>1, <1>2

LEMMA LibraryInvHolds == LibrarySpec => []LibraryInv
  BY LibraryInvInit, LibraryInvStep, PTL DEF LibrarySpec

LEMMA RowsNumbered == LibraryInv => NumberedByLock
  <1> SUFFICES ASSUME LibraryInv, NEW d \in DocumentIds
               PROVE  /\ {v.no : v \in VersionsOf(d)} = 1..Cardinality(VersionsOf(d))
                      /\ \A v, w \in VersionsOf(d) : v.content = w.content => v = w
    BY DEF NumberedByLock
  <1>1. PICK n \in Nat : NumberedUpTo(d, n)
    BY DEF LibraryInv, RowsInv
  <1> DEFINE number == [v \in VersionsOf(d) |-> v.no]
  <1>2. number \in [VersionsOf(d) -> Nat]
    BY DEF LibraryInv, LibraryType, VersionsOf, Version
  <1>3. {number[v] : v \in VersionsOf(d)} = 1..n
    BY <1>1 DEF NumberedUpTo, Numbers
  <1>4. \A v, w \in VersionsOf(d) : number[v] = number[w] \/ v.content = w.content => v = w
    BY DEF LibraryInv, RowsInv, VersionsOf
  <1> HIDE DEF number
  <1>5. Cardinality(VersionsOf(d)) = n
    BY <1>2, <1>3, <1>4, Numbered
  <1> QED
    BY <1>1, <1>4, <1>5 DEF NumberedUpTo, Numbers

LEMMA ShownIsListed == LibraryInv => ListedAsShown
  <1> SUFFICES ASSUME LibraryInv, NEW d \in DocumentIds, documents[d] # "none",
                      NEW display \in {"active", "pending_review", "processing", "failed", "archived"},
                      NEW status \in {"all", documents[d]}
               PROVE  d \in ListDocuments(status, display) <=> DisplayStatus(d, Latest(d)) = display
    BY DEF ListedAsShown
  <1>1. documents[d] \in {"active", "archived"}
    BY DEF LibraryInv, LibraryType
  <1>2. /\ Latest(d) \in versions /\ Latest(d).doc = d
        /\ Latest(d).status \in {"processing", "ready", "failed"} /\ Latest(d).active \in BOOLEAN
    BY LatestIs DEF LibraryInv, LibraryType, VersionsOf, Version
  <1>3. Latest(d).active => Latest(d).status = "ready" /\ documents[d] = "active"
    BY <1>2 DEF LibraryInv, VersionFacts, OneServed
  <1>4. d \in ListDocuments(status, display) <=>
          documents[d] = DocumentFilter(status, display) /\ VersionFilter(display, Latest(d))
    BY DEF ListDocuments
  <1>5. documents[d] = DocumentFilter(status, display) <=>
          documents[d] = (IF display = "archived" THEN "archived" ELSE "active")
    BY <1>1 DEF DocumentFilter
  <1>6. CASE documents[d] = "archived"
    <2>1. DisplayStatus(d, Latest(d)) = "archived"
      BY <1>6 DEF DisplayStatus
    <2> QED
      BY <1>4, <1>5, <1>6, <2>1 DEF VersionFilter
  <1>7. CASE documents[d] = "active"
    <2>1. DisplayStatus(d, Latest(d)) =
            IF Latest(d).status # "ready" THEN Latest(d).status
            ELSE IF Latest(d).active THEN "active" ELSE "pending_review"
      BY <1>2, <1>7 DEF DisplayStatus
    <2>2. display # "archived" =>
            (VersionFilter(display, Latest(d)) <=> DisplayStatus(d, Latest(d)) = display)
      BY <1>2, <2>1 DEF VersionFilter
    <2>3. DisplayStatus(d, Latest(d)) # "archived"
      BY <1>2, <2>1
    <2> QED
      BY <1>4, <1>5, <1>7, <2>2, <2>3
  <1> QED
    BY <1>1, <1>6, <1>7

\* Whatever requests run at the same time, and wherever one of them dies or the
\* storage or a commit fails: versions are numbered without a gap under the lock
\* of their document, one is served, files are kept, what an ingest job came to
\* fits its version, and lists and pages agree (upload_document, add_version,
\* approve_version, archive_document, retry_job, list_documents, handle).
THEOREM LibraryStaysConsistent == LibrarySpec => []LibraryConsistent
  <1>1. LibraryInv => LibraryConsistent
    <2>1. (\A v \in versions : Fits(v)) => StatusFitsJob
      BY DEF Fits, StatusFitsJob, Attempting
    <2> QED
      BY <2>1, RowsNumbered, ShownIsListed DEF LibraryInv, VersionFacts, LibraryConsistent
  <1> QED
    BY <1>1, LibraryInvHolds, PTL

-----------------------------------------------------------------------------
(* The fetch of a page. *)

Answers == {<<>>} \cup UNION {Urls[u].resolved : u \in DOMAIN Urls}
Pages == {NotFetching.page} \cup
             {response.page : response \in UNION {Urls[u].responses : u \in DOMAIN Urls}}
Fetch ==
    [pc : {"none", "connect", "fetched", "refused"}, url : DOMAIN Urls \cup {0}, addresses : Answers,
     redirects : 0..MaxRedirects, page : Pages, contacted : SUBSET Public]

\* Who connects has checked every address of the answer it holds.
FetchInv ==
    /\ fetch \in [Requests -> Fetch]
    /\ \A r \in Requests : fetch[r].pc = "connect" =>
         /\ fetch[r].url \in DOMAIN Urls
         /\ fetch[r].addresses \in Seq(Range(fetch[r].addresses))
         /\ Range(fetch[r].addresses) \subseteq Public

\* What a request may become.
Checked(f) ==
    /\ f \in Fetch
    /\ f.pc = "connect" => /\ f.url \in DOMAIN Urls
                           /\ f.addresses \in Seq(Range(f.addresses))
                           /\ Range(f.addresses) \subseteq Public

LEMMA CheckedStep ==
    ASSUME FetchInv, NEW r \in Requests, NEW f, Checked(f), fetch' = [fetch EXCEPT ![r] = f]
    PROVE  FetchInv'
  BY DEF FetchInv, Checked

LEMMA NotFetchingChecked ==
    ASSUME NEW contacted \in SUBSET Public, NEW pc \in {"none", "refused"}
    PROVE  Checked([[NotFetching EXCEPT !.pc = pc] EXCEPT !.contacted = contacted])
  <1>1. 0 \in 0..MaxRedirects /\ <<>> \in Answers /\ NotFetching.page \in Pages
    BY FetchAssumption DEF Answers, Pages
  <1>2. [[NotFetching EXCEPT !.pc = pc] EXCEPT !.contacted = contacted] \in Fetch
    BY <1>1 DEF NotFetching, Fetch
  <1>3. [[NotFetching EXCEPT !.pc = pc] EXCEPT !.contacted = contacted].pc = pc
    BY DEF NotFetching
  <1> QED
    BY <1>2, <1>3 DEF Checked

LEMMA InitialChecked == Checked(NotFetching)
  <1>1. 0 \in 0..MaxRedirects /\ <<>> \in Answers /\ NotFetching.page \in Pages
    BY FetchAssumption DEF Answers, Pages
  <1>2. NotFetching \in Fetch /\ NotFetching.pc = "none"
    BY <1>1 DEF NotFetching, Fetch
  <1> QED
    BY <1>2 DEF Checked

LEMMA VisitChecks ==
    ASSUME FetchInv, NEW r \in Requests, NEW u \in DOMAIN Urls, NEW redirects \in 0..MaxRedirects,
           NEW contacted \in SUBSET Public, Visit(r, u, redirects, contacted)
    PROVE  FetchInv'
  <1>1. PICK addresses \in Urls[u].resolved :
           IF ValidUrl(u, addresses)
           THEN Become(r, [NotFetching EXCEPT !.pc = "connect", !.url = u, !.addresses = addresses,
                                              !.redirects = redirects], contacted)
           ELSE Refuse(r, contacted)
    BY DEF Visit
  <1>2. CASE ValidUrl(u, addresses)
    <2> DEFINE f == [[NotFetching EXCEPT !.pc = "connect", !.url = u, !.addresses = addresses,
                                         !.redirects = redirects] EXCEPT !.contacted = contacted]
    <2>1. Range(addresses) \subseteq Public /\ addresses \in Seq(Range(addresses))
      BY <1>2, FetchAssumption DEF ValidUrl
    <2>2. f \in Fetch
      BY DEF NotFetching, Fetch, Answers, Pages
    <2>3. Checked(f)
      BY <2>1, <2>2 DEF NotFetching, Checked
    <2>4. fetch' = [fetch EXCEPT ![r] = f]
      BY <1>1, <1>2 DEF Become
    <2> HIDE DEF f
    <2> QED
      BY <2>3, <2>4, CheckedStep
  <1>3. CASE ~ValidUrl(u, addresses)
    BY <1>1, <1>3, NotFetchingChecked, CheckedStep DEF Refuse, Become
  <1> QED
    BY <1>2, <1>3

LEMMA ConnectChecks ==
    ASSUME FetchInv, NEW r \in Requests, Connect(r) PROVE FetchInv'
  <1> DEFINE addresses == fetch[r].addresses
             tried(n) == fetch[r].contacted \cup {addresses[k] : k \in 1..n}
  <1>1. /\ fetch[r].url \in DOMAIN Urls /\ addresses \in Seq(Range(addresses))
        /\ Range(addresses) \subseteq Public /\ fetch[r] \in Fetch
    BY DEF FetchInv, Connect
  <1>2. \A n \in 0..Len(addresses) : tried(n) \in SUBSET Public
    BY <1>1 DEF Fetch
  <1>3. DOMAIN addresses = 1..Len(addresses) /\ Len(addresses) \in Nat
    BY <1>1
  <1>4. fetch[r].redirects \in 0..MaxRedirects
    BY <1>1 DEF Fetch
  <1>5. CASE Refuse(r, tried(Len(addresses)))
    <2>1. tried(Len(addresses)) \in SUBSET Public
      BY <1>2, <1>3
    <2> HIDE DEF tried, addresses
    <2> QED
      BY <1>5, <2>1, NotFetchingChecked, CheckedStep DEF Refuse, Become
  <1>6. ASSUME NEW n \in DOMAIN addresses, NEW response \in Urls[fetch[r].url].responses,
               Answered(r, response, tried(n))
        PROVE  FetchInv'
    <2>1. tried(n) \in SUBSET Public
      BY <1>2, <1>3
    <2> HIDE DEF tried, addresses
    <2>2. ASSUME Refuse(r, tried(n)) PROVE FetchInv'
      BY <2>1, <2>2, NotFetchingChecked, CheckedStep DEF Refuse, Become
    <2>3. CASE response.kind = "redirect"
      <3>1. response.to \in DOMAIN Urls \cup {0}
        BY <1>1, <2>3, FetchAssumption
      <3>2. CASE fetch[r].redirects >= MaxRedirects \/ response.to = 0
        BY <1>6, <2>2, <2>3, <3>2 DEF Answered
      <3>3. CASE ~(fetch[r].redirects >= MaxRedirects \/ response.to = 0)
        <4>1. Visit(r, response.to, fetch[r].redirects + 1, tried(n))
          BY <1>6, <2>3, <3>3 DEF Answered
        <4>2. fetch[r].redirects + 1 \in 0..MaxRedirects
          BY <1>4, <3>3, FetchAssumption
        <4> QED
          BY <2>1, <3>1, <3>3, <4>1, <4>2, VisitChecks
      <3> QED
        BY <3>2, <3>3
    <2>4. CASE response.kind = "page"
      <3> DEFINE f == [[NotFetching EXCEPT !.pc = "fetched", !.page = response.page]
                          EXCEPT !.contacted = tried(n)]
      <3>1. response.page \in Pages
        BY <1>1, <1>6 DEF Pages
      <3>2. 0 \in 0..MaxRedirects /\ <<>> \in Answers
        BY FetchAssumption DEF Answers
      <3>3. f \in Fetch
        BY <2>1, <3>1, <3>2 DEF NotFetching, Fetch
      <3>4. f.pc = "fetched"
        BY DEF NotFetching
      <3>5. fetch' = [fetch EXCEPT ![r] = f]
        BY <1>6, <2>4 DEF Answered, Become
      <3> HIDE DEF f
      <3> QED
        BY <3>3, <3>4, <3>5, CheckedStep DEF Checked
    <2>5. CASE response.kind \notin {"redirect", "page"}
      BY <1>6, <2>2, <2>5 DEF Answered
    <2> QED
      BY <2>3, <2>4, <2>5
  <1> QED
    BY <1>5, <1>6 DEF Connect

LEMMA FetchInvStep == FetchInv /\ [LibraryNext]_libraryVars => FetchInv'
  <1> SUFFICES ASSUME FetchInv, [LibraryNext]_libraryVars PROVE FetchInv'
    OBVIOUS
  <1>1. CASE UNCHANGED fetch
    BY <1>1 DEF FetchInv
  <1>2. ASSUME NEW r \in Requests, fetch' = [fetch EXCEPT ![r] = NotFetching] PROVE FetchInv'
    BY <1>2, InitialChecked, CheckedStep
  <1>3. ASSUME NEW r \in Requests, FetchStep(r) PROVE FetchInv'
    <2>1. ASSUME NEW u \in DOMAIN Urls, BeginFetch(r, u) PROVE FetchInv'
      BY <2>1, FetchAssumption, VisitChecks DEF BeginFetch
    <2> QED
      BY <1>2, <1>3, <2>1, ConnectChecks DEF FetchStep, GiveUpFetch
  <1> QED
    BY <1>1, <1>2, <1>3 DEF LibraryNext, IngestUrl, UploadDocument, AddVersion, SaveFile, SaveFails,
       CommitUpload, CommitFails, DeleteFile, RequestDies, Archive, uploadVars, libraryVars,
       Approve, RetryIngest, IngestStep, IngestStarts, IngestPrepares, IngestCleans, IngestStores,
       IngestReadies, IngestFails, IngestReports

\* Whatever name servers answer, when and to which redirect: only addresses that
\* were checked are contacted, and redirects end (_validate_url, _safe_stream).
THEOREM FetchesOnlyChecked == LibrarySpec => []OnlyCheckedContacted
  <1>1. LibraryInit => FetchInv
    BY InitialChecked DEF LibraryInit, FetchInit, FetchInv, Checked
  <1>2. FetchInv => OnlyCheckedContacted
    BY DEF FetchInv, Fetch, OnlyCheckedContacted
  <1> QED
    BY <1>1, <1>2, FetchInvStep, PTL DEF LibrarySpec

-----------------------------------------------------------------------------
(* The comparison of two versions: a matching of their chunks. *)

Lefts(pairs) == {p[1] : p \in pairs}
Rights(pairs) == {p[2] : p \in pairs}

\* No chunk of either side is in two pairs.
Matching(base, target, pairs) ==
    /\ pairs \subseteq (DOMAIN base) \X (DOMAIN target)
    /\ \A p, q \in pairs : p[1] = q[1] \/ p[2] = q[2] => p = q

\* The loop of _match_by_key: what it does at a chunk of the base ...
Candidates(phase, base, target, acc, b) ==
    {t \in acc.queue : Key(phase, target[t], t) = Key(phase, base[b], b)}
Suitable(phase, base, target, acc, b) ==
    {t \in Candidates(phase, base, target, acc, b) : Acceptable(phase, base[b], target[t])}
MatchStep(phase, base, target, acc, b) ==
    LET candidates == Candidates(phase, base, target, acc, b)
        good == Suitable(phase, base, target, acc, b)
    IN IF good = {} THEN [acc EXCEPT !.queue = acc.queue \ candidates]
       ELSE [queue |-> acc.queue \ {t \in candidates : t <= Min(good)},
             pairs |-> acc.pairs \cup {<<b, Min(good)>>}]

\* ... and where it is after each of them.
WalkAt(phase, base, target, pairs, w, b) ==
    IF b = 0 THEN [queue |-> DOMAIN target \ Rights(pairs), pairs |-> pairs]
    ELSE IF b \in DOMAIN base \ Lefts(pairs) THEN MatchStep(phase, base, target, w[b - 1], b)
    ELSE w[b - 1]
Walks(phase, base, target, pairs, w) ==
    w = [b \in 0..Len(base) |-> WalkAt(phase, base, target, pairs, w, b)]

LEMMA WalkExists ==
    ASSUME NEW phase, NEW base, Len(base) \in Nat, NEW target, NEW pairs
    PROVE  \E w : Walks(phase, base, target, pairs, w)
  <1> DEFINE N == Len(base)
             at(w, b) == WalkAt(phase, base, target, pairs, w, b)
             UpTo(w, n) == /\ w = [b \in 0..N |-> w[b]]
                           /\ \A b \in 0..N : b <= n => w[b] = at(w, b)
             Bad == {n \in Nat : ~\E w : UpTo(w, n)}
             next(w) == [b \in 0..N |-> at(w, b)]
  <1>1. \A w, v, b : (b # 0 => w[b - 1] = v[b - 1]) => at(w, b) = at(v, b)
    BY DEF WalkAt
  <1>2. \A v : at(v, 0) = at(v, 0) /\ \A w : at(w, 0) = at(v, 0)
    BY DEF WalkAt
  <1> HIDE DEF at
  <1>3. ASSUME NEW w, NEW n \in Nat, UpTo(w, n - 1) PROVE UpTo(next(w), n)
    <2>1. \A b \in 0..N : next(w)[b] = at(w, b)
      OBVIOUS
    <2>2. ASSUME NEW b \in 0..N, b <= n PROVE next(w)[b] = at(next(w), b)
      <3>1. CASE b = 0
        BY <2>1, <3>1, <1>2
      <3>2. CASE b # 0
        <4>1. b - 1 \in 0..N /\ b - 1 <= n - 1
          BY <2>2, <3>2
        <4>2. w[b - 1] = at(w, b - 1)
          BY <1>3, <4>1
        <4>3. next(w)[b - 1] = w[b - 1]
          BY <2>1, <4>1, <4>2
        <4>4. at(next(w), b) = at(w, b)
          BY <1>1, <4>3
        <4> QED  BY <2>1, <4>4
      <3> QED  BY <3>1, <3>2
    <2> QED  BY <2>2
  <1>4. Bad = {}
    <2> SUFFICES ASSUME Bad # {} PROVE FALSE
      OBVIOUS
    <2>1. PICK n \in Bad : \A k \in Bad : n <= k
      <3>1. Bad \subseteq Nat
        OBVIOUS
      <3> HIDE DEF Bad
      <3> QED  BY <3>1, LeastExists
    <2>2. \E w : UpTo(w, n - 1)
      <3>1. CASE n = 0
        <4> DEFINE w == [b \in 0..N |-> 0]
        <4>1. UpTo(w, n - 1)
          BY <3>1
        <4> QED  BY <4>1
      <3>2. CASE n # 0
        <4>1. n - 1 \in Nat /\ ~(n <= n - 1)
          BY <3>2
        <4>2. n - 1 \notin Bad
          <5> HIDE DEF Bad
          <5> QED  BY <2>1, <4>1
        <4> QED  BY <4>1, <4>2
      <3> QED  BY <3>1, <3>2
    <2>3. PICK w : UpTo(w, n - 1)
      BY <2>2
    <2>4. UpTo(next(w), n)
      BY <1>3, <2>3
    <2> QED  BY <2>4
  <1>5. PICK w : UpTo(w, N)
    BY <1>4
  <1>6. \A b \in 0..N : w[b] = at(w, b)
    BY <1>5
  <1> HIDE DEF UpTo
  <1>7. w = [b \in 0..N |-> at(w, b)]
    BY <1>5, <1>6 DEF UpTo
  <1> QED
    BY <1>7 DEF Walks, at

LEMMA MatchByWalks ==
    ASSUME NEW phase, NEW base, Len(base) \in Nat, NEW target, NEW pairs
    PROVE  \E w : /\ Walks(phase, base, target, pairs, w)
                  /\ MatchBy(phase, base, target, pairs) = w[Len(base)].pairs
  <1> DEFINE w == CHOOSE v : Walks(phase, base, target, pairs, v)
  <1>1. Walks(phase, base, target, pairs, w)
    BY WalkExists
  <1>2. MatchBy(phase, base, target, pairs) = w[Len(base)].pairs
    BY DEF MatchBy, Walks, WalkAt, MatchStep, Candidates, Suitable, Lefts, Rights
  <1> QED
    BY <1>1, <1>2

MatchInv(base, target, start, acc, b) ==
    /\ acc = [queue |-> acc.queue, pairs |-> acc.pairs]
    /\ acc.queue \subseteq (DOMAIN target) \ Rights(acc.pairs)
    /\ Matching(base, target, acc.pairs) /\ start \subseteq acc.pairs
    /\ Lefts(acc.pairs) \subseteq Lefts(start) \cup 1..b

\* Of the phase by hash: what is left over on one side has no equal on the other.
HashInv(base, target, acc, b) ==
    /\ acc.queue = (DOMAIN target) \ Rights(acc.pairs)
    /\ \A p \in acc.pairs : base[p[1]].hash = target[p[2]].hash
    /\ \A i \in 1..b : i \notin Lefts(acc.pairs) =>
          \A t \in acc.queue : target[t].hash # base[i].hash

\* A pair more, of two chunks that are in none.
LEMMA PairAdded ==
    ASSUME NEW base, NEW target, NEW pairs, Matching(base, target, pairs),
           NEW b \in DOMAIN base, b \notin Lefts(pairs), NEW t \in DOMAIN target, t \notin Rights(pairs),
           NEW more, more = pairs \cup {<<b, t>>}
    PROVE  /\ Matching(base, target, more)
           /\ Lefts(more) = Lefts(pairs) \cup {b}
           /\ Rights(more) = Rights(pairs) \cup {t}
  <1>1. <<b, t>> \in (DOMAIN base) \X (DOMAIN target) /\ <<b, t>>[1] = b /\ <<b, t>>[2] = t
    OBVIOUS
  <1>2. PICK new : new = <<b, t>>
    OBVIOUS
  <1>3. \A p \in pairs : p[1] # b /\ p[2] # t
    BY DEF Lefts, Rights
  <1>4. Matching(base, target, pairs \cup {new})
    BY <1>1, <1>2, <1>3 DEF Matching
  <1>5. /\ Lefts(pairs \cup {new}) = Lefts(pairs) \cup {b}
        /\ Rights(pairs \cup {new}) = Rights(pairs) \cup {t}
    BY <1>1, <1>2 DEF Lefts, Rights
  <1> QED
    BY <1>2, <1>4, <1>5

LEMMA StepMatches ==
    ASSUME NEW phase, NEW base, NEW target, DOMAIN base \subseteq Nat, DOMAIN target \subseteq Nat,
           NEW start, NEW acc, NEW b \in (DOMAIN base) \ Lefts(start), b # 0,
           MatchInv(base, target, start, acc, b - 1)
    PROVE  /\ MatchInv(base, target, start, MatchStep(phase, base, target, acc, b), b)
           /\ phase = "hash" /\ HashInv(base, target, acc, b - 1)
                => HashInv(base, target, MatchStep(phase, base, target, acc, b), b)
  <1> DEFINE candidates == Candidates(phase, base, target, acc, b)
             good == Suitable(phase, base, target, acc, b)
             new == MatchStep(phase, base, target, acc, b)
             t == Min(good)
  <1>0. b \in Nat /\ b \notin Lefts(acc.pairs) /\ good \subseteq candidates /\ candidates \subseteq acc.queue
    BY DEF MatchInv, Candidates, Suitable
  <1>1. \A i \in 1..b : i \in 1..(b - 1) \/ i = b
    BY <1>0
  <1>2. phase = "hash" =>
           /\ \A x \in acc.queue : x \in candidates <=> target[x].hash = base[b].hash
           /\ good = candidates
    BY DEF Candidates, Suitable, Key, Acceptable
  <1>3. CASE good = {}
    <2>1. new = [queue |-> acc.queue \ candidates, pairs |-> acc.pairs]
      BY <1>3 DEF MatchStep, MatchInv
    <2>2. MatchInv(base, target, start, new, b)
      <3>1. new.queue = acc.queue \ candidates /\ new.pairs = acc.pairs
        BY <2>1
      <3>2. 1..(b - 1) \subseteq 1..b
        BY <1>0
      <3> HIDE DEF new, candidates, good
      <3> QED  BY <2>1, <3>1, <3>2 DEF MatchInv
    <2>3. ASSUME phase = "hash", HashInv(base, target, acc, b - 1) PROVE HashInv(base, target, new, b)
      <3>1. new.queue = acc.queue /\ new.pairs = acc.pairs
        BY <1>2, <1>3, <2>1, <2>3
      <3>2. \A x \in acc.queue : target[x].hash # base[b].hash
        BY <1>2, <1>3, <2>3
      <3> HIDE DEF new, candidates, good
      <3> QED  BY <1>1, <2>3, <3>1, <3>2 DEF HashInv
    <2> QED  BY <2>2, <2>3
  <1>4. CASE good # {}
    <2>1. t \in good /\ \A x \in good : t <= x
      <3>1. good \subseteq Nat
        BY <1>0 DEF MatchInv
      <3> HIDE DEF good
      <3> QED  BY <1>4, <3>1, MinLeast
    <2>2. t \in DOMAIN target /\ t \notin Rights(acc.pairs) /\ t \in Nat
      BY <1>0, <2>1 DEF MatchInv
    <2>3. new = [queue |-> acc.queue \ {x \in candidates : x <= t}, pairs |-> acc.pairs \cup {<<b, t>>}]
      BY <1>4 DEF MatchStep
    <2>4. new.queue = acc.queue \ {x \in candidates : x <= t} /\ new.pairs = acc.pairs \cup {<<b, t>>}
      BY <2>3
    <2>5. Matching(base, target, acc.pairs)
      BY DEF MatchInv
    <2> HIDE DEF t, new, good, candidates
    <2>6. /\ Matching(base, target, new.pairs)
          /\ Lefts(new.pairs) = Lefts(acc.pairs) \cup {b}
          /\ Rights(new.pairs) = Rights(acc.pairs) \cup {t}
      <3>1. PICK pairs : pairs = acc.pairs
        OBVIOUS
      <3>2. PICK x : x = t
        OBVIOUS
      <3>3. PICK more : more = new.pairs
        OBVIOUS
      <3>4. Matching(base, target, pairs) /\ b \notin Lefts(pairs) /\ x \notin Rights(pairs)
        BY <1>0, <2>2, <2>5, <3>1, <3>2
      <3>5. b \in DOMAIN base /\ x \in DOMAIN target /\ more = pairs \cup {<<b, x>>}
        BY <2>2, <2>4, <3>1, <3>2, <3>3
      <3>6. /\ Matching(base, target, more)
            /\ Lefts(more) = Lefts(pairs) \cup {b}
            /\ Rights(more) = Rights(pairs) \cup {x}
        BY <3>4, <3>5, PairAdded
      <3> QED  BY <3>1, <3>2, <3>3, <3>6
    <2>7. t \in candidates /\ t \notin new.queue /\ new.queue \subseteq acc.queue
      BY <1>0, <2>1, <2>2, <2>4
    <2>8. MatchInv(base, target, start, new, b)
      <3>1. b \in 1..b /\ 1..(b - 1) \subseteq 1..b
        BY <1>0
      <3>2. start \subseteq new.pairs
        BY <2>4 DEF MatchInv
      <3>3. Lefts(new.pairs) \subseteq Lefts(start) \cup 1..b
        BY <2>6, <3>1 DEF MatchInv
      <3>4. new.queue \subseteq (DOMAIN target) \ Rights(new.pairs)
        BY <2>6, <2>7 DEF MatchInv
      <3>5. new = [queue |-> new.queue, pairs |-> new.pairs]
        BY <2>3, <2>4
      <3> QED  BY <2>6, <3>2, <3>3, <3>4, <3>5 DEF MatchInv
    <2>9. ASSUME phase = "hash", HashInv(base, target, acc, b - 1) PROVE HashInv(base, target, new, b)
      <3>1. \A x \in candidates : x <= t <=> x = t
        <4> TAKE x \in candidates
        <4>1. t <= x /\ x \in Nat
          BY <1>0, <1>2, <2>1, <2>9 DEF MatchInv
        <4> QED  BY <2>2, <4>1
      <3>2. new.queue = acc.queue \ {t}
        BY <1>0, <2>4, <2>7, <3>1
      <3>3. new.queue = (DOMAIN target) \ Rights(new.pairs)
        BY <2>6, <2>9, <3>2 DEF HashInv
      <3>4. base[b].hash = target[t].hash
        BY <1>0, <1>2, <2>7, <2>9
      <3>5. \A p \in new.pairs : base[p[1]].hash = target[p[2]].hash
        <4>1. \A p \in new.pairs : p \in acc.pairs \/ (p[1] = b /\ p[2] = t)
          BY <2>4
        <4> QED  BY <2>9, <3>4, <4>1 DEF HashInv
      <3>6. \A i \in 1..b : i \notin Lefts(new.pairs) =>
               \A x \in new.queue : target[x].hash # base[i].hash
        BY <1>1, <2>6, <2>7, <2>9 DEF HashInv
      <3> QED  BY <3>3, <3>5, <3>6 DEF HashInv
    <2> QED  BY <2>8, <2>9 DEF new
  <1> QED
    BY <1>3, <1>4

HashMatched(base, target, pairs) ==
    /\ \A p \in pairs : base[p[1]].hash = target[p[2]].hash
    /\ \A b \in (DOMAIN base) \ Lefts(pairs), t \in (DOMAIN target) \ Rights(pairs) :
          base[b].hash # target[t].hash

\* _match_by_key
LEMMA MatchByMatches ==
    ASSUME NEW phase, NEW base, NEW target, Len(base) \in Nat, DOMAIN base = 1..Len(base),
           DOMAIN target \subseteq Nat, NEW start, Matching(base, target, start)
    PROVE  /\ Matching(base, target, MatchBy(phase, base, target, start))
           /\ start \subseteq MatchBy(phase, base, target, start)
           /\ phase = "hash" /\ start = {} =>
                HashMatched(base, target, MatchBy(phase, base, target, start))
  <1> DEFINE N == Len(base)
  <1>1. PICK w : /\ Walks(phase, base, target, start, w)
                 /\ MatchBy(phase, base, target, start) = w[N].pairs
    BY MatchByWalks
  <1>2. \A b \in 0..N : w[b] = WalkAt(phase, base, target, start, w, b)
    BY <1>1 DEF Walks
  <1> DEFINE Good(b) == /\ MatchInv(base, target, start, w[b], b)
                        /\ phase = "hash" /\ start = {} => HashInv(base, target, w[b], b)
             Bad == {b \in 0..N : ~Good(b)}
  <1>3. Good(0)
    <2>0. 0 \in 0..N
      OBVIOUS
    <2>1. w[0] = [queue |-> DOMAIN target \ Rights(start), pairs |-> start]
      BY <1>2, <2>0 DEF WalkAt
    <2>2. w[0].queue = DOMAIN target \ Rights(start) /\ w[0].pairs = start
      BY <2>1
    <2> QED  BY <2>1, <2>2 DEF MatchInv, HashInv
  <1>4. ASSUME NEW b \in 0..N, b # 0, Good(b - 1) PROVE Good(b)
    <2>1. b \in DOMAIN base /\ b - 1 \in 0..N /\ b \in Nat
      BY <1>4
    <2>2. CASE b \in DOMAIN base \ Lefts(start)
      <3>1. w[b] = MatchStep(phase, base, target, w[b - 1], b)
        BY <1>2, <1>4, <2>2 DEF WalkAt
      <3>2. PICK acc : acc = w[b - 1]
        OBVIOUS
      <3>3. MatchInv(base, target, start, acc, b - 1)
        BY <1>4, <3>2
      <3>4. phase = "hash" /\ start = {} => HashInv(base, target, acc, b - 1)
        BY <1>4, <3>2
      <3>5. /\ MatchInv(base, target, start, MatchStep(phase, base, target, acc, b), b)
            /\ phase = "hash" /\ HashInv(base, target, acc, b - 1)
                => HashInv(base, target, MatchStep(phase, base, target, acc, b), b)
        BY <1>4, <2>1, <2>2, <3>3, StepMatches
      <3> QED  BY <3>1, <3>2, <3>4, <3>5
    <2>3. CASE b \notin DOMAIN base \ Lefts(start)
      <3>1. w[b] = w[b - 1] /\ b \in Lefts(start)
        BY <1>2, <1>4, <2>1, <2>3 DEF WalkAt
      <3>2. start = {} => FALSE
        BY <3>1 DEF Lefts
      <3>3. 1..(b - 1) \subseteq 1..b
        BY <2>1
      <3> QED  BY <1>4, <3>1, <3>2, <3>3 DEF MatchInv
    <2> QED  BY <2>2, <2>3
  <1> HIDE DEF Good
  <1>5. Bad = {}
    <2> SUFFICES ASSUME Bad # {} PROVE FALSE
      OBVIOUS
    <2>1. PICK b \in Bad : \A k \in Bad : b <= k
      <3>1. Bad \subseteq Nat
        OBVIOUS
      <3> HIDE DEF Bad
      <3> QED  BY <3>1, LeastExists
    <2>2. b # 0 /\ b \in 0..N /\ ~Good(b)
      BY <1>3, <2>1
    <2>3. b - 1 \in 0..N /\ ~(b <= b - 1)
      BY <2>2
    <2>4. Good(b - 1)
      <3>1. b - 1 \notin Bad
        <4> HIDE DEF Bad
        <4> QED  BY <2>1, <2>3
      <3> QED  BY <2>3, <3>1
    <2> QED  BY <1>4, <2>2, <2>4
  <1>6. Good(N) /\ N \in Nat
    BY <1>5
  <1>7. PICK acc : acc = w[N]
    OBVIOUS
  <1>8. MatchInv(base, target, start, acc, N)
    BY <1>6, <1>7 DEF Good
  <1>9. phase = "hash" /\ start = {} => HashMatched(base, target, acc.pairs)
    BY <1>6, <1>7 DEF Good, HashInv, HashMatched
  <1> QED
    BY <1>1, <1>7, <1>8, <1>9 DEF MatchInv

\* What _chunk_diff matches: first by hash, then the rest by structure and by place.
LEMMA MatchedIs ==
    ASSUME NEW base, NEW target, Len(base) \in Nat, DOMAIN base = 1..Len(base),
           DOMAIN target \subseteq Nat
    PROVE  /\ Matching(base, target, Matched(base, target))
           /\ \E first : /\ first \subseteq Matched(base, target)
                         /\ Matching(base, target, first) /\ HashMatched(base, target, first)
  <1>1. Matching(base, target, {})
    BY DEF Matching
  <1> DEFINE first == MatchBy("hash", base, target, {})
             second == MatchBy("structure", base, target, first)
             third == MatchBy("index", base, target, second)
             at(g, n) == IF n = 0 THEN {} ELSE MatchBy(Phases[n], base, target, g[n - 1])
             Is(g) == g = [n \in 0..Len(Phases) |-> at(g, n)]
             after == CHOOSE g : Is(g)
  <1>2. Matched(base, target) = third
    <2>0. \A g : /\ at(g, 1) = MatchBy(Phases[1], base, target, g[0])
                 /\ at(g, 2) = MatchBy(Phases[2], base, target, g[1])
                 /\ at(g, 3) = MatchBy(Phases[3], base, target, g[2])
      <3>1. 1 - 1 = 0 /\ 2 - 1 = 1 /\ 3 - 1 = 2 /\ 1 # 0 /\ 2 # 0 /\ 3 # 0
        OBVIOUS
      <3> QED  BY <3>1, Zenon
    <2>1. /\ Len(Phases) = 3
          /\ Phases[1] = "hash" /\ Phases[2] = "structure" /\ Phases[3] = "index"
      BY DEF Phases
    <2> DEFINE g == [n \in 0..3 |-> IF n = 0 THEN {} ELSE IF n = 1 THEN first
                                    ELSE IF n = 2 THEN second ELSE third]
    <2>2. \A n \in 0..3 : n = 0 \/ n = 1 \/ n = 2 \/ n = 3
      OBVIOUS
    <2>3. g[0] = {} /\ g[1] = first /\ g[2] = second /\ g[3] = third
      OBVIOUS
    <2> HIDE DEF first, second, third
    <2>4. \A n \in 0..3 : g[n] = at(g, n)
      <3>1. at(g, 0) = {}
        OBVIOUS
      <3>2. at(g, 1) = first /\ at(g, 2) = second /\ at(g, 3) = third
        <4> HIDE DEF g, at
        <4>1. at(g, 1) = first
          BY <2>0, <2>1, <2>3 DEF first
        <4>2. at(g, 2) = second
          BY <2>0, <2>1, <2>3 DEF second
        <4>3. at(g, 3) = third
          BY <2>0, <2>1, <2>3 DEF third
        <4> QED  BY <4>1, <4>2, <4>3
      <3> HIDE DEF g, at
      <3> QED  BY <2>2, <2>3, <3>1, <3>2
    <2>5. g = [n \in 0..3 |-> at(g, n)]
      <3> HIDE DEF at
      <3> QED  BY <2>4
    <2>6. Is(g)
      BY <2>1, <2>5
    <2> HIDE DEF g
    <2>7. Is(after)
      BY <2>6
    <2>8. Matched(base, target) = after[3]
      BY <2>1 DEF Matched
    <2> HIDE DEF after
    <2>9. \A n \in 0..3 : after[n] = at(after, n)
      BY <2>1, <2>7
    <2>10. /\ after[0] = at(after, 0) /\ after[1] = at(after, 1)
           /\ after[2] = at(after, 2) /\ after[3] = at(after, 3)
      BY <2>9
    <2>11. after[0] = {}
      BY <2>10
    <2> HIDE DEF at
    <2>12. after[1] = first
      BY <2>0, <2>1, <2>10, <2>11 DEF first
    <2>13. after[2] = second
      BY <2>0, <2>1, <2>10, <2>12 DEF second
    <2>14. after[3] = third
      BY <2>0, <2>1, <2>10, <2>13 DEF third
    <2> QED  BY <2>8, <2>14
  <1> HIDE DEF at, Is, after
  <1>3. Matching(base, target, first) /\ HashMatched(base, target, first)
    BY <1>1, MatchByMatches
  <1> HIDE DEF first
  <1>4. Matching(base, target, second) /\ first \subseteq second
    BY <1>3, MatchByMatches
  <1> HIDE DEF second
  <1>5. Matching(base, target, third) /\ second \subseteq third
    BY <1>4, MatchByMatches
  <1> QED
    BY <1>2, <1>3, <1>4, <1>5

-----------------------------------------------------------------------------
(* What the comparison shows and counts. *)

ChunkList(s) == Len(s) \in Nat /\ DOMAIN s = 1..Len(s)

ItemsOf(base, target) ==
    LET pairs == Matched(base, target)
    IN pairs \cup {<<b, 0>> : b \in DOMAIN base \ Lefts(pairs)}
             \cup {<<0, t>> : t \in DOMAIN target \ Rights(pairs)}
OfType(base, target, type) == {x \in ItemsOf(base, target) : DiffType(base, target, x) = type}

\* Items of two lists with n and m chunks: each chunk of either side is in one.
ItemList(items, n, m) ==
    /\ \A x \in items : /\ x = <<x[1], x[2]>> /\ x[1] \in 0..n /\ x[2] \in 0..m
                        /\ x[1] # 0 \/ x[2] # 0
    /\ \A x, y \in items : (x[1] = y[1] /\ x[1] # 0) \/ (x[2] = y[2] /\ x[2] # 0) => x = y
    /\ \A b \in 1..n : \E x \in items : x[1] = b
    /\ \A t \in 1..m : \E x \in items : x[2] = t

LEMMA ItemsAre ==
    ASSUME NEW base, NEW target, ChunkList(base), ChunkList(target)
    PROVE  ItemList(ItemsOf(base, target), Len(base), Len(target))
  <1> DEFINE n == Len(base)
             m == Len(target)
  <1>1. PICK pairs : pairs = Matched(base, target)
    OBVIOUS
  <1>2. Matching(base, target, pairs)
    BY <1>1, MatchedIs DEF ChunkList
  <1>3. n \in Nat /\ m \in Nat /\ DOMAIN base = 1..n /\ DOMAIN target = 1..m
    BY DEF ChunkList
  <1> DEFINE left == {<<b, 0>> : b \in (1..n) \ Lefts(pairs)}
             right == {<<0, t>> : t \in (1..m) \ Rights(pairs)}
  <1>4. PICK items : items = pairs \cup left \cup right
    OBVIOUS
  <1>5. ItemsOf(base, target) = items
    BY <1>1, <1>3, <1>4 DEF ItemsOf
  <1>6. \A x \in pairs : x = <<x[1], x[2]>> /\ x[1] \in 1..n /\ x[2] \in 1..m
    BY <1>2, <1>3 DEF Matching
  <1>7. \A x \in left : x = <<x[1], x[2]>> /\ x[1] \in (1..n) \ Lefts(pairs) /\ x[2] = 0
    OBVIOUS
  <1>8. \A x \in right : x = <<x[1], x[2]>> /\ x[1] = 0 /\ x[2] \in (1..m) \ Rights(pairs)
    OBVIOUS
  <1>9. \A x \in items : x \in pairs \/ x \in left \/ x \in right
    BY <1>4
  <1>10. \A x \in pairs : x[1] \in Lefts(pairs) /\ x[2] \in Rights(pairs)
    BY DEF Lefts, Rights
  <1>11. \A b \in 1..n : \E x \in items : x[1] = b
    <2> TAKE b \in 1..n
    <2>1. CASE b \in Lefts(pairs)
      BY <1>4, <2>1 DEF Lefts
    <2>2. CASE b \notin Lefts(pairs)
      <3>1. <<b, 0>> \in left /\ <<b, 0>>[1] = b
        BY <2>2
      <3> QED  BY <1>4, <3>1
    <2> QED  BY <2>1, <2>2
  <1>12. \A t \in 1..m : \E x \in items : x[2] = t
    <2> TAKE t \in 1..m
    <2>1. CASE t \in Rights(pairs)
      BY <1>4, <2>1 DEF Rights
    <2>2. CASE t \notin Rights(pairs)
      <3>1. <<0, t>> \in right /\ <<0, t>>[2] = t
        BY <2>2
      <3> QED  BY <1>4, <3>1
    <2> QED  BY <2>1, <2>2
  <1> HIDE DEF left, right
  <1>13. \A x \in items : /\ x = <<x[1], x[2]>> /\ x[1] \in 0..n /\ x[2] \in 0..m
                          /\ x[1] # 0 \/ x[2] # 0
    <2> TAKE x \in items
    <2>1. CASE x \in pairs
      BY <1>3, <1>6, <2>1
    <2>2. CASE x \in left
      BY <1>3, <1>7, <2>2
    <2>3. CASE x \in right
      BY <1>3, <1>8, <2>3
    <2> QED  BY <1>9, <2>1, <2>2, <2>3
  <1>14. ASSUME NEW x \in items, NEW y \in items, x[1] = y[1], x[1] # 0 PROVE x = y
    <2>1. x \in pairs \/ x \in left
      BY <1>8, <1>9, <1>14
    <2>2. y \in pairs \/ y \in left
      BY <1>8, <1>9, <1>14
    <2>3. x \in pairs <=> y \in pairs
      BY <1>7, <1>10, <1>14, <2>1, <2>2
    <2>4. CASE x \in pairs
      BY <1>2, <1>14, <2>3, <2>4 DEF Matching
    <2>5. CASE x \notin pairs
      <3>1. x = <<x[1], 0>> /\ y = <<y[1], 0>>
        BY <1>7, <2>1, <2>2, <2>3, <2>5
      <3> QED  BY <1>14, <3>1
    <2> QED  BY <2>4, <2>5
  <1>15. ASSUME NEW x \in items, NEW y \in items, x[2] = y[2], x[2] # 0 PROVE x = y
    <2>1. x \in pairs \/ x \in right
      BY <1>7, <1>9, <1>15
    <2>2. y \in pairs \/ y \in right
      BY <1>7, <1>9, <1>15
    <2>3. x \in pairs <=> y \in pairs
      BY <1>8, <1>10, <1>15, <2>1, <2>2
    <2>4. CASE x \in pairs
      BY <1>2, <1>15, <2>3, <2>4 DEF Matching
    <2>5. CASE x \notin pairs
      <3>1. x = <<0, x[2]>> /\ y = <<0, y[2]>>
        BY <1>8, <2>1, <2>2, <2>3, <2>5
      <3> QED  BY <1>15, <3>1
    <2> QED  BY <2>4, <2>5
  <1> QED
    BY <1>5, <1>11, <1>12, <1>13, <1>14, <1>15 DEF ItemList

\* The items with a chunk on one side are as many as the chunks of that side.
LEMMA SidesCounted ==
    ASSUME NEW n \in Nat, NEW m \in Nat, NEW items, ItemList(items, n, m)
    PROVE  /\ IsFiniteSet(items)
           /\ Cardinality({x \in items : x[1] # 0}) = n
           /\ Cardinality({x \in items : x[2] # 0}) = m
  <1> DEFINE L == {x \in items : x[1] # 0}
             R == {x \in items : x[2] # 0}
             left == [x \in L |-> x[1]]
             right == [x \in R |-> x[2]]
  <1>1. IsFiniteSet(L) /\ Cardinality(L) = n
    <2>1. left \in [L -> Nat] /\ \A x, y \in L : left[x] = left[y] => x = y
      BY DEF ItemList
    <2>2. {left[x] : x \in L} \subseteq 1..n
      <3>1. \A x \in L : left[x] \in 1..n
        BY DEF ItemList
      <3> QED  BY <3>1
    <2>3. 1..n \subseteq {left[x] : x \in L}
      <3> SUFFICES ASSUME NEW b \in 1..n PROVE \E x \in L : left[x] = b
        OBVIOUS
      <3>1. PICK x \in items : x[1] = b
        BY DEF ItemList
      <3>2. x \in L /\ left[x] = b
        BY <3>1
      <3> HIDE DEF L, left
      <3> QED  BY <3>2
    <2>4. {left[x] : x \in L} = 1..n
      BY <2>2, <2>3
    <2> HIDE DEF left, L
    <2> QED  BY <2>1, <2>4, Numbered
  <1>2. IsFiniteSet(R) /\ Cardinality(R) = m
    <2>1. right \in [R -> Nat] /\ \A x, y \in R : right[x] = right[y] => x = y
      BY DEF ItemList
    <2>2. {right[x] : x \in R} \subseteq 1..m
      <3>1. \A x \in R : right[x] \in 1..m
        BY DEF ItemList
      <3> QED  BY <3>1
    <2>3. 1..m \subseteq {right[x] : x \in R}
      <3> SUFFICES ASSUME NEW t \in 1..m PROVE \E x \in R : right[x] = t
        OBVIOUS
      <3>1. PICK x \in items : x[2] = t
        BY DEF ItemList
      <3>2. x \in R /\ right[x] = t
        BY <3>1
      <3> HIDE DEF R, right
      <3> QED  BY <3>2
    <2>4. {right[x] : x \in R} = 1..m
      BY <2>2, <2>3
    <2> HIDE DEF right, R
    <2> QED  BY <2>1, <2>4, Numbered
  <1>3. items = L \cup R
    BY DEF ItemList
  <1>4. IsFiniteSet(L \cup R)
    <2> HIDE DEF L, R
    <2> QED  BY <1>1, <1>2, FS_Union
  <1> QED
    BY <1>1, <1>2, <1>3, <1>4

\* Sets without a common element are counted together.
LEMMA CountedTogether ==
    ASSUME NEW S, NEW A, NEW B, NEW C, IsFiniteSet(S), S = A \cup B \cup C,
           A \cap B = {}, A \cap C = {}, B \cap C = {}
    PROVE  /\ Cardinality(S) = Cardinality(A) + Cardinality(B) + Cardinality(C)
           /\ Cardinality(A) \in Nat /\ Cardinality(B) \in Nat /\ Cardinality(C) \in Nat
  <1>1. IsFiniteSet(A) /\ IsFiniteSet(B) /\ IsFiniteSet(C) /\ IsFiniteSet(A \cup B)
    BY FS_Subset
  <1>2. Cardinality(A) \in Nat /\ Cardinality(B) \in Nat /\ Cardinality(C) \in Nat
    BY <1>1, FS_CardinalityType
  <1>3. Cardinality(A \cup B) = Cardinality(A) + Cardinality(B)
    <2>1. Cardinality(A \cup B) = Cardinality(A) + Cardinality(B) - Cardinality(A \cap B)
      BY <1>1, FS_Union
    <2> QED  BY <1>2, <2>1, FS_EmptySet
  <1>4. Cardinality((A \cup B) \cup C) = Cardinality(A \cup B) + Cardinality(C)
    <2>1. (A \cup B) \cap C = {}
      OBVIOUS
    <2>2. Cardinality((A \cup B) \cup C)
            = Cardinality(A \cup B) + Cardinality(C) - Cardinality((A \cup B) \cap C)
      BY <1>1, FS_Union
    <2>3. Cardinality(A \cup B) \in Nat
      BY <1>1, FS_CardinalityType
    <2> QED  BY <1>2, <2>1, <2>2, <2>3, FS_EmptySet
  <1> QED
    BY <1>2, <1>3, <1>4

LEMMA TypesCounted ==
    ASSUME NEW base, NEW target, ChunkList(base), ChunkList(target)
    PROVE  LET count(type) == Cardinality(OfType(base, target, type))
           IN /\ count("unchanged") + count("changed") + count("removed") = Len(base)
              /\ count("unchanged") + count("changed") + count("added") = Len(target)
  <1> DEFINE items == ItemsOf(base, target)
             U == OfType(base, target, "unchanged")
             C == OfType(base, target, "changed")
             R == OfType(base, target, "removed")
             A == OfType(base, target, "added")
             L == {x \in items : x[1] # 0}
             T == {x \in items : x[2] # 0}
  <1>1. ItemList(items, Len(base), Len(target))
    BY ItemsAre
  <1>2. IsFiniteSet(items) /\ Cardinality(L) = Len(base) /\ Cardinality(T) = Len(target)
    <2> HIDE DEF items
    <2> QED  BY <1>1, SidesCounted DEF ChunkList
  <1>3. L = U \cup C \cup R /\ T = U \cup C \cup A
    <2>1. \A x \in items : x[1] # 0 \/ x[2] # 0
      BY <1>1 DEF ItemList
    <2> HIDE DEF items
    <2>2. \A x \in items :
             /\ x[1] # 0 <=> DiffType(base, target, x) \in {"unchanged", "changed", "removed"}
             /\ x[2] # 0 <=> DiffType(base, target, x) \in {"unchanged", "changed", "added"}
      BY <2>1 DEF DiffType
    <2> QED  BY <2>2 DEF OfType, items
  <1>4. U \cap C = {} /\ U \cap R = {} /\ U \cap A = {} /\ C \cap R = {} /\ C \cap A = {}
    BY DEF OfType
  <1>5. IsFiniteSet(L) /\ IsFiniteSet(T)
    <2> HIDE DEF items
    <2> QED  BY <1>2, FS_Subset
  <1> HIDE DEF U, C, R, A, L, T
  <1>6. Cardinality(L) = Cardinality(U) + Cardinality(C) + Cardinality(R)
    BY <1>3, <1>4, <1>5, CountedTogether
  <1>7. Cardinality(T) = Cardinality(U) + Cardinality(C) + Cardinality(A)
    BY <1>3, <1>4, <1>5, CountedTogether
  <1> QED
    BY <1>2, <1>6, <1>7 DEF U, C, R, A

\* Items that stand for a hash both sides have are pairs that the hash made.
LEMMA HashesApart ==
    ASSUME NEW base, NEW target, ChunkList(base), ChunkList(target),
           NEW first, first \subseteq Matched(base, target),
           Matching(base, target, first), HashMatched(base, target, first)
    PROVE  /\ \A x \in ItemsOf(base, target) :
                 (x[1] \in Lefts(first) \/ x[2] \in Rights(first))
                    => DiffType(base, target, x) = "unchanged"
           /\ \A x, y \in ItemsOf(base, target) :
                 /\ DiffType(base, target, x) \in {"removed", "changed"}
                 /\ DiffType(base, target, y) \in {"added", "changed"}
                 => base[x[1]].hash # target[y[2]].hash
  <1>1. PICK items : items = ItemsOf(base, target)
    OBVIOUS
  <1>2. ItemList(items, Len(base), Len(target))
    BY <1>1, ItemsAre
  <1>3. first \subseteq items
    BY <1>1 DEF ItemsOf
  <1>4. \A p \in first : p[1] # 0 /\ p[2] # 0 /\ DiffType(base, target, p) = "unchanged"
    BY DEF Matching, HashMatched, DiffType, ChunkList
  <1>5. ASSUME NEW x \in items, x[1] \in Lefts(first) \/ x[2] \in Rights(first) PROVE x \in first
    <2>1. PICK p \in first : p[1] = x[1] \/ p[2] = x[2]
      BY <1>5 DEF Lefts, Rights
    <2>2. x = p
      BY <1>2, <1>3, <1>4, <2>1 DEF ItemList
    <2> QED  BY <2>2
  <1>6. ASSUME NEW x \in items, DiffType(base, target, x) \in {"removed", "changed"}
        PROVE  x[1] \in (DOMAIN base) \ Lefts(first)
    <2>1. x[1] # 0 /\ x[1] \in 0..Len(base)
      BY <1>2, <1>6 DEF DiffType, ItemList
    <2>2. x[1] \notin Lefts(first)
      BY <1>4, <1>5, <1>6
    <2> QED  BY <2>1, <2>2 DEF ChunkList
  <1>7. ASSUME NEW y \in items, DiffType(base, target, y) \in {"added", "changed"}
        PROVE  y[2] \in (DOMAIN target) \ Rights(first)
    <2>1. y[2] # 0 /\ y[2] \in 0..Len(target)
      BY <1>2, <1>7 DEF DiffType, ItemList
    <2>2. y[2] \notin Rights(first)
      BY <1>4, <1>5, <1>7
    <2> QED  BY <2>1, <2>2 DEF ChunkList
  <1> QED
    BY <1>1, <1>4, <1>5, <1>6, <1>7 DEF HashMatched

\* Of two equal lists each chunk finds its hash: of each hash there are as many
\* on one side as on the other.
LEMMA EqualsMatched ==
    ASSUME NEW base, ChunkList(base), NEW first,
           Matching(base, base, first), HashMatched(base, base, first)
    PROVE  Lefts(first) = DOMAIN base
  <1>1. Lefts(first) \subseteq DOMAIN base /\ IsFiniteSet(DOMAIN base)
    BY FS_Interval DEF Lefts, Matching, ChunkList
  <1>2. ASSUME NEW b \in DOMAIN base, b \notin Lefts(first) PROVE FALSE
    <2> DEFINE A == {t \in DOMAIN base : base[t].hash = base[b].hash}
               of(t) == CHOOSE p \in first : p[2] = t
               left == [t \in A |-> of(t)[1]]
    <2>1. ASSUME NEW t \in A PROVE of(t) \in first /\ of(t)[2] = t
      <3>1. t \in Rights(first)
        BY <1>2 DEF HashMatched
      <3> QED  BY <3>1 DEF Rights
    <2>2. \A t \in A : left[t] \in A \ {b}
      <3> TAKE t \in A
      <3>1. PICK p \in first : p = of(t)
        BY <2>1
      <3>2. p[1] \in DOMAIN base /\ base[p[1]].hash = base[p[2]].hash /\ p[1] \in Lefts(first)
        BY DEF Matching, HashMatched, Lefts
      <3>3. left[t] = p[1] /\ p[2] = t
        BY <2>1, <3>1
      <3> QED  BY <1>2, <3>2, <3>3
    <2>3. \A s, t \in A : left[s] = left[t] => s = t
      <3> TAKE s, t \in A
      <3>1. PICK p \in first : p = of(s)
        BY <2>1
      <3>2. PICK q \in first : q = of(t)
        BY <2>1
      <3>3. left[s] = p[1] /\ p[2] = s /\ left[t] = q[1] /\ q[2] = t
        BY <2>1, <3>1, <3>2
      <3> HIDE DEF left, of
      <3> QED  BY <3>3 DEF Matching
    <2>4. left \in [A -> A \ {b}]
      BY <2>2
    <2>5. b \in A /\ IsFiniteSet(A)
      BY <1>1, FS_Subset
    <2> HIDE DEF A, left
    <2>6. left \in Injection(A, A \ {b})
      BY <2>3, <2>4 DEF Injection, IsInjective
    <2>7. IsFiniteSet(A \ {b}) /\ Cardinality(A \ {b}) = Cardinality(A) - 1
      BY <2>5, FS_RemoveElement
    <2>8. Cardinality(A) <= Cardinality(A \ {b})
      BY <2>6, <2>7, FS_Injection
    <2>9. Cardinality(A) \in Nat
      BY <2>5, FS_CardinalityType
    <2> QED  BY <2>7, <2>8, <2>9
  <1> QED
    BY <1>1, <1>2

-----------------------------------------------------------------------------
(* The order of the items shows each of them. *)

UpTo(items, x) == {y \in items : y = x \/ Before(y, x)}

\* _chunk_match_sort_key tells the items of a comparison apart.
LEMMA ItemsOrdered ==
    ASSUME NEW n \in Nat, NEW m \in Nat, NEW items, ItemList(items, n, m)
    PROVE  /\ \A x, y \in items : x # y => Before(x, y) \/ Before(y, x)
           /\ \A x, y \in items : ~(Before(x, y) /\ Before(y, x)) /\ ~Before(x, x)
           /\ \A x, y, z \in items : Before(x, y) /\ Before(y, z) => Before(x, z)
  <1> DEFINE p(x) == Place(x)[1]
             q(x) == Place(x)[2]
  <1>1. \A x \in items : x[1] \in 0..n /\ x[2] \in 0..m /\ (x[1] # 0 \/ x[2] # 0)
    BY DEF ItemList
  <1>2. \A x \in items : p(x) \in Int /\ q(x) \in Int
    BY <1>1 DEF Place
  <1>3. \A x, y \in items : Before(x, y) <=> p(x) < p(y) \/ (p(x) = p(y) /\ q(x) < q(y))
    BY DEF Before
  <1>4. ASSUME NEW x \in items, NEW y \in items, p(x) = p(y), q(x) = q(y) PROVE x = y
    <2>1. (x[1] = y[1] /\ x[1] # 0) \/ (x[2] = y[2] /\ x[2] # 0)
      BY <1>1, <1>4 DEF Place
    <2> QED  BY <2>1 DEF ItemList
  <1> HIDE DEF p, q
  <1>5. \A x, y \in items : x # y => Before(x, y) \/ Before(y, x)
    BY <1>2, <1>3, <1>4
  <1>6. \A x, y \in items : ~(Before(x, y) /\ Before(y, x)) /\ ~Before(x, x)
    BY <1>2, <1>3
  <1>7. \A x, y, z \in items : Before(x, y) /\ Before(y, z) => Before(x, z)
    BY <1>2, <1>3
  <1> QED
    BY <1>5, <1>6, <1>7

\* Each item has a rank of its own, and Sorted has an item at each rank.
LEMMA SortedShowsAll ==
    ASSUME NEW items, IsFiniteSet(items),
           \A x, y \in items : x # y => Before(x, y) \/ Before(y, x),
           \A x, y \in items : ~(Before(x, y) /\ Before(y, x)) /\ ~Before(x, x),
           \A x, y, z \in items : Before(x, y) /\ Before(y, z) => Before(x, z)
    PROVE  /\ DOMAIN Sorted(items) = 1..Cardinality(items)
           /\ {Sorted(items)[k] : k \in 1..Cardinality(items)} = items
  <1> DEFINE N == Cardinality(items)
             rank(x) == Cardinality(UpTo(items, x))
  <1>1. N \in Nat /\ \A T \in SUBSET items : IsFiniteSet(T) /\ Cardinality(T) \in Nat
    BY FS_Subset, FS_CardinalityType
  <1>2. \A x \in items : UpTo(items, x) \in SUBSET items /\ x \in UpTo(items, x)
    BY DEF UpTo
  <1>3. \A x \in items : rank(x) \in 1..N
    <2> TAKE x \in items
    <2>1. PICK S : S = UpTo(items, x)
      OBVIOUS
    <2>2. IsFiniteSet(S) /\ Cardinality(S) \in Nat /\ S \in SUBSET items /\ S # {}
      BY <1>1, <1>2, <2>1
    <2>3. Cardinality(S) <= N
      BY <2>2, FS_Subset
    <2>4. Cardinality(S) # 0
      BY <2>2, FS_EmptySet
    <2> QED  BY <1>1, <2>1, <2>2, <2>3, <2>4
  <1>4. ASSUME NEW x \in items, NEW y \in items, Before(x, y) PROVE rank(x) < rank(y)
    <2>1. PICK S, T : S = UpTo(items, x) /\ T = UpTo(items, y)
      OBVIOUS
    <2>2. S \in SUBSET T
      BY <1>4, <2>1 DEF UpTo
    <2>3. y \in T /\ y \notin S
      BY <1>4, <2>1 DEF UpTo
    <2>4. IsFiniteSet(T) /\ Cardinality(S) \in Nat /\ Cardinality(T) \in Nat
      BY <1>1, <1>2, <2>1
    <2>5. Cardinality(S) <= Cardinality(T) /\ Cardinality(S) # Cardinality(T)
      BY <2>2, <2>3, <2>4, FS_Subset
    <2> QED  BY <2>1, <2>4, <2>5
  <1> HIDE DEF rank
  <1>5. \A x, y \in items : rank(x) = rank(y) => x = y
    BY <1>1, <1>3, <1>4
  <1> DEFINE f == [x \in items |-> rank(x)]
  <1>6. f \in Injection(items, 1..N)
    BY <1>3, <1>5 DEF Injection, IsInjective
  <1>7. \A k \in 1..N : \E x \in items : rank(x) = k
    <2>1. IsFiniteSet(1..N) /\ Cardinality(1..N) = N
      BY <1>1, FS_Interval
    <2>2. f \in Surjection(items, 1..N)
      <3> HIDE DEF f
      <3> QED  BY <1>6, <2>1, FS_Injection
    <2> QED  BY <2>2 DEF Surjection
  <1>8. \A k \in 1..N : Sorted(items)[k] \in items /\ rank(Sorted(items)[k]) = k
    <2>1. \A k \in 1..N : Sorted(items)[k] = CHOOSE x \in items : rank(x) = k
      BY DEF Sorted, rank, UpTo
    <2> QED  BY <1>7, <2>1
  <1>9. \A x \in items : rank(x) \in 1..N /\ Sorted(items)[rank(x)] = x
    BY <1>3, <1>5, <1>8
  <1>10. DOMAIN Sorted(items) = 1..N
    BY DEF Sorted
  <1>11. {Sorted(items)[k] : k \in 1..N} = items
    BY <1>8, <1>9
  <1> QED
    BY <1>10, <1>11

\* The items shown are all of them or the answer says that it is shortened.
LEMMA AllShown ==
    ASSUME NEW base, NEW target, ChunkList(base), ChunkList(target)
    PROVE  ChunkDiff(base, target).truncated
             \/ Range(ChunkDiff(base, target).shown) = ItemsOf(base, target)
  <1>1. PICK items : items = ItemsOf(base, target)
    OBVIOUS
  <1>2. PICK n \in Nat, m \in Nat : n = Len(base) /\ m = Len(target)
    BY DEF ChunkList
  <1>3. ItemList(items, n, m)
    BY <1>1, <1>2, ItemsAre
  <1>4. IsFiniteSet(items)
    BY <1>3, SidesCounted
  <1>5. PICK N \in Nat : N = Cardinality(items)
    BY <1>4, FS_CardinalityType
  <1>6. PICK s : s = Sorted(items)
    OBVIOUS
  <1>7. DOMAIN s = 1..N /\ {s[k] : k \in 1..N} = items
    BY <1>3, <1>4, <1>5, <1>6, ItemsOrdered, SortedShowsAll
  <1>8. /\ ChunkDiff(base, target).truncated = (N > MaxDiffItems)
        /\ ChunkDiff(base, target).shown = SubSeq(s, 1, IF N < MaxDiffItems THEN N ELSE MaxDiffItems)
    BY <1>1, <1>5, <1>6 DEF ChunkDiff, ItemsOf, Lefts, Rights
  <1>9. CASE N > MaxDiffItems
    BY <1>8, <1>9
  <1>10. CASE ~(N > MaxDiffItems)
    <2>1. (IF N < MaxDiffItems THEN N ELSE MaxDiffItems) = N
      BY <1>10, DiffAssumption
    <2>2. SubSeq(s, 1, N) = [k \in 1..N |-> s[k]]
      BY DEF SubSeq
    <2>3. Range([k \in 1..N |-> s[k]]) = {s[k] : k \in 1..N}
      BY DEF Range
    <2> QED  BY <1>1, <1>7, <1>8, <2>1, <2>2, <2>3
  <1> QED
    BY <1>9, <1>10

-----------------------------------------------------------------------------
(* The comparison accounts for every chunk of both versions. *)

LEMMA AllAccounted ==
    ASSUME NEW base, NEW target, ChunkList(base), ChunkList(target)
    PROVE  AccountsForAll(base, target)
  <1> DEFINE n == Len(base)
             m == Len(target)
  <1>1. PICK items : items = ItemsOf(base, target)
    OBVIOUS
  <1>2. PICK diff : diff = ChunkDiff(base, target)
    OBVIOUS
  <1>3. diff.items = items
    BY <1>1, <1>2 DEF ChunkDiff, ItemsOf, Lefts, Rights
  <1>4. /\ diff.added = Cardinality(OfType(base, target, "added"))
        /\ diff.removed = Cardinality(OfType(base, target, "removed"))
        /\ diff.changed = Cardinality(OfType(base, target, "changed"))
        /\ diff.unchanged = Cardinality(OfType(base, target, "unchanged"))
    BY <1>2 DEF ChunkDiff, OfType, ItemsOf, Lefts, Rights
  <1>5. ItemList(items, n, m)
    BY <1>1, ItemsAre
  <1>6. PICK first : /\ first \subseteq Matched(base, target)
                     /\ Matching(base, target, first) /\ HashMatched(base, target, first)
    <2>1. Len(base) \in Nat /\ DOMAIN base = 1..Len(base) /\ DOMAIN target \subseteq Nat
      BY DEF ChunkList
    <2>2. \E first : /\ first \subseteq Matched(base, target)
                     /\ Matching(base, target, first) /\ HashMatched(base, target, first)
      BY <2>1, MatchedIs
    <2> QED  BY <2>2
  <1>7. \A b \in DOMAIN base : Cardinality({x \in items : x[1] = b}) = 1
    <2> TAKE b \in DOMAIN base
    <2>1. b \in 1..n /\ b # 0
      BY DEF ChunkList
    <2>2. PICK x \in items : x[1] = b
      BY <1>5, <2>1 DEF ItemList
    <2>3. {y \in items : y[1] = b} = {x}
      BY <1>5, <2>1, <2>2 DEF ItemList
    <2> QED  BY <2>3, FS_Singleton
  <1>8. \A t \in DOMAIN target : Cardinality({x \in items : x[2] = t}) = 1
    <2> TAKE t \in DOMAIN target
    <2>1. t \in 1..m /\ t # 0
      BY DEF ChunkList
    <2>2. PICK x \in items : x[2] = t
      BY <1>5, <2>1 DEF ItemList
    <2>3. {y \in items : y[2] = t} = {x}
      BY <1>5, <2>1, <2>2 DEF ItemList
    <2> QED  BY <2>3, FS_Singleton
  <1>9. \A x, y \in items :
           /\ DiffType(base, target, x) \in {"removed", "changed"}
           /\ DiffType(base, target, y) \in {"added", "changed"}
           => base[x[1]].hash # target[y[2]].hash
    BY <1>1, <1>6, HashesApart
  <1>10. {base[x[1]].hash : x \in {y \in items : DiffType(base, target, y) \in {"removed", "changed"}}}
           \cap {target[x[2]].hash : x \in {y \in items : DiffType(base, target, y) \in {"added", "changed"}}}
         = {}
    BY <1>9
  <1>11. ASSUME base = target PROVE diff.unchanged = n
    <2>1. Lefts(first) = DOMAIN base
      BY <1>6, <1>11, EqualsMatched
    <2>2. \A x \in items : x[1] # 0 => x[1] \in Lefts(first)
      BY <1>5, <2>1 DEF ItemList, ChunkList
    <2>3. \A x \in items : x[1] \in Lefts(first) => DiffType(base, target, x) = "unchanged"
      BY <1>1, <1>6, HashesApart
    <2>4. \A x \in items : DiffType(base, target, x) = "unchanged" => x[1] # 0
      BY DEF DiffType
    <2>5. OfType(base, target, "unchanged") = {x \in items : x[1] # 0}
      BY <1>1, <2>2, <2>3, <2>4 DEF OfType
    <2>6. Cardinality({x \in items : x[1] # 0}) = n
      BY <1>5, SidesCounted DEF ChunkList
    <2> QED  BY <1>4, <2>5, <2>6
  <1>12. /\ diff.unchanged + diff.changed + diff.removed = n
         /\ diff.unchanged + diff.changed + diff.added = m
    BY <1>4, TypesCounted
  <1>13. diff.truncated \/ Range(diff.shown) = items
    BY <1>1, <1>2, AllShown
  <1> QED
    BY <1>2, <1>3, <1>7, <1>8, <1>10, <1>11, <1>12, <1>13 DEF AccountsForAll

\* Whatever chunks the versions of a document have and whichever two of them are
\* compared: no chunk is lost or told twice, a hash they share is told as
\* unchanged as often as both have it, a version does not differ from itself, and
\* the counts are of all chunks (compare_versions, _match_by_key, _chunk_diff).
THEOREM DiffAccounts == LibrarySpec => []DiffAccountsForAll
  <1>1. ASSUME NEW v \in versions, LibraryInv
        PROVE  ChunkList(RowsFrom(Origin(v))) /\ Origin(v) \in Origins
    <2>1. v.content \in Contents /\ v.chunked \in BOOLEAN /\ v.key \in 1..MaxUploads
      BY <1>1 DEF LibraryInv, LibraryType, Version, Keys
    <2>2. v.content \in DOMAIN ChunksOf
      BY <2>1, ChunksAssumption DEF Contents
    <2>3. PICK s : s = ChunksOf[v.content]
      OBVIOUS
    <2>4. s \in Seq(Range(s))
      BY <2>2, <2>3, ChunksAssumption
    <2>5. PICK n \in Nat : DOMAIN s = 1..n
      BY <2>4
    <2>6. PICK rows : rows = Rows(VersionIds[v.key], s)
      OBVIOUS
    <2>7. rows = [k \in 1..n |-> rows[k]]
      BY <2>5, <2>6 DEF Rows
    <2>8. ChunkList(rows) /\ ChunkList(<<>>)
      BY <2>5, <2>7 DEF ChunkList
    <2>9. Origin(v) \in Origins /\ RowsFrom(Origin(v)) \in {rows, <<>>}
      BY <2>1, <2>2, <2>3, <2>6 DEF Origin, Origins, RowsFrom
    <2> QED  BY <2>8, <2>9
  <1>2. LibraryInv => DiffAccountsForAll
    <2> SUFFICES ASSUME LibraryInv, NEW v \in versions, NEW w \in VersionsOf(v.doc)
                 PROVE  <<Origin(v), Origin(w)>> \in AccountedPairs
      BY DEF DiffAccountsForAll
    <2>1. w \in versions
      BY DEF VersionsOf
    <2>2. /\ ChunkList(RowsFrom(Origin(v))) /\ Origin(v) \in Origins
          /\ ChunkList(RowsFrom(Origin(w))) /\ Origin(w) \in Origins
      BY <1>1, <2>1
    <2>3. AccountsForAll(RowsFrom(Origin(v)), RowsFrom(Origin(w)))
      BY <2>2, AllAccounted
    <2> QED  BY <2>2, <2>3 DEF AccountedPairs
  <1> QED
    BY <1>2, LibraryInvHolds, PTL
=============================================================================
