------------------------- MODULE EvaluationRunProofs -------------------------
(***************************************************************************)
(* Proofs about EvaluationRun and EvaluationCorpus, for any number of      *)
(* sources, documents, cases, modes, workers, requests and faults.         *)
(***************************************************************************)
EXTENDS EvaluationRun, EvaluationReport, NumberLemmas, SequenceTheorems

-----------------------------------------------------------------------------
(* The corpus: the inductive invariant.                                    *)

Statuses == {"none", "processing", "ready", "failed"}
Source == [doc : Docs \cup {0}, failed : BOOLEAN,
           status : {"pending", "preparing", "ready", "failed"}]
Preparing == [pc : {"idle", "source", "check", "store", "commit", "link", "readiness"},
              at : Sources, doc : Docs \cup {0}]
CorpusType ==
    /\ version \in [Docs -> Statuses]
    /\ ingest \in [Docs -> {"none", "running", "succeeded", "failed"}]
    /\ source \in [Sources -> Source]
    /\ prep \in [Preparers -> Preparing]

Uploads(p) == prep[p].pc \in {"commit", "link"}

\* A document on its way to a source belongs to one request and to no source;
\* its file is there before its rows.
UploadOf(p) ==
    Uploads(p) =>
        /\ prep[p].doc \in Docs
        /\ \A s \in Sources : source[s].doc # prep[p].doc
        /\ \A q \in Preparers : Uploads(q) /\ prep[q].doc = prep[p].doc => q = p
        /\ prep[p].pc = "commit" => prep[p].doc \in files /\ version[prep[p].doc] = "none"
        /\ prep[p].pc = "link" => version[prep[p].doc] # "none"
UploadsInv == \A p \in Preparers : UploadOf(p)

\* A document is linked to one source, after its rows were committed.
LinksInv ==
    /\ \A s \in Sources : source[s].doc # 0 => version[source[s].doc] # "none"
    /\ \A s, t \in Sources : source[s].doc # 0 /\ source[s].doc = source[t].doc => s = t

RowsInv == \A d \in Docs : version[d] = "none" => ingest[d] = "none"

CorpusInv ==
    /\ CorpusType /\ RowsInv /\ UploadsInv /\ LinksInv
    /\ VersionsHaveFiles /\ active \subseteq everActive

LEMMA SourceNumbers == 1 \in Sources /\ Sources \subseteq Nat /\ 0 \notin Docs /\ IsFiniteSet(Sources)
  <1>1. PICK n \in Sources : Sources = 1..n
    BY CorpusAssumption
  <1>2. n \in Nat
    BY CorpusAssumption
  <1>3. IsFiniteSet(1..n)
    BY <1>2, FS_Interval
  <1>4. 1 \in Sources /\ Sources \subseteq Nat
    BY <1>1, <1>2
  <1>5. 0 \notin Docs
    BY CorpusAssumption
  <1> QED
    BY <1>1, <1>3, <1>4, <1>5

LEMMA CorpusInvInit ==
    ASSUME CorpusInit \/ PreparedInit PROVE CorpusInv
  <1>1. CASE CorpusInit
    BY <1>1, SourceNumbers
       DEF CorpusInit, CorpusInv, CorpusType, RowsInv, UploadsInv, UploadOf, Uploads, LinksInv,
           VersionsHaveFiles, Statuses, Source, Preparing, Resting
  <1>2. CASE PreparedInit
    BY <1>2, SourceNumbers, CorpusAssumption
       DEF PreparedInit, CorpusInv, CorpusType, RowsInv, UploadsInv, UploadOf, Uploads, LinksInv,
           VersionsHaveFiles, Statuses, Source, Preparing, Resting
  <1> QED
    BY <1>1, <1>2

-----------------------------------------------------------------------------
(* The steps of the corpus by what they do to documents, links and uploads. *)

\* Rows change, none appears or goes.
Keeps ==
    /\ CorpusType' /\ RowsInv'
    /\ \A d \in Docs : version'[d] = "none" <=> version[d] = "none"
    /\ UNCHANGED <<files, lostFile>>
    /\ active' \subseteq everActive'
SameLinks == \A s \in Sources : source'[s].doc = source[s].doc
\* A request goes on and has no upload.
Aside(p) ==
    /\ prep'[p].pc \notin {"commit", "link"}
    /\ \A q \in Preparers \ {p} : prep'[q] = prep[q]

LEMMA KeepsInv ==
    ASSUME CorpusInv, Keeps, SameLinks,
           prep' = prep \/ \E p \in Preparers : Aside(p)
    PROVE  CorpusInv'
  <1> USE DEF CorpusInv
  <1>1. \A q \in Preparers : Uploads(q)' => prep'[q] = prep[q] /\ Uploads(q)
    BY DEF Aside, Uploads
  <1>2. UploadsInv'
    BY <1>1 DEF UploadsInv, UploadOf, Keeps, SameLinks
  <1>3. LinksInv'
    BY DEF LinksInv, Keeps, SameLinks, CorpusType, Source
  <1>4. VersionsHaveFiles'
    BY DEF VersionsHaveFiles, Keeps
  <1> QED
    BY <1>2, <1>3, <1>4 DEF Keeps

\* The next source, or the readiness.
LEMMA GoesOn ==
    ASSUME CorpusType, NEW p \in Preparers, NextSource(p)
    PROVE  prep' \in [Preparers -> Preparing] /\ Aside(p)
  BY SourceNumbers DEF CorpusType, NextSource, Preparing, Aside, Resting

LEMMA Proceeds ==
    ASSUME CorpusType, NEW p \in Preparers, NEW d \in Docs \cup {0},
           NEW pc \in {"source", "check", "store", "commit", "link"}, Proceed(p, pc, d)
    PROVE  /\ prep' \in [Preparers -> Preparing]
           /\ prep'[p].pc = pc /\ prep'[p].doc = d /\ prep'[p].at = prep[p].at
           /\ \A q \in Preparers \ {p} : prep'[q] = prep[q]
  BY DEF CorpusType, Proceed, Preparing

LEMMA Records ==
    ASSUME CorpusType, NEW p \in Preparers, RecordPrepareFailure(p)
    PROVE  /\ source' \in [Sources -> Source] /\ SameLinks
           /\ prep' \in [Preparers -> Preparing] /\ Aside(p)
  <1>1. prep[p].at \in Sources
    BY DEF CorpusType, Preparing
  <1>2. source' \in [Sources -> Source] /\ SameLinks
    BY <1>1 DEF RecordPrepareFailure, CorpusType, Source, SameLinks
  <1> QED
    BY <1>2, GoesOn DEF RecordPrepareFailure

LEMMA ReadinessKeeps ==
    ASSUME CorpusType, NEW ready, Readiness(ready)
    PROVE  source' \in [Sources -> Source] /\ SameLinks
  <1>1. \A s \in Sources : source[s].doc \in Docs \cup {0}
    BY DEF CorpusType, Source
  <1>2. \A s \in Sources : SourceFailed(s) \in BOOLEAN
    BY DEF SourceFailed
  <1> QED
    BY <1>1, <1>2 DEF Readiness, Source, SameLinks

LEMMA DocumentStep ==
    ASSUME CorpusInv, NEW d \in Docs,
           \/ Ingest(d) \/ LoseIngest(d) \/ RetryIngest(d)
           \/ ApproveByUser(d) \/ ArchiveDocument(d)
    PROVE  CorpusInv'
  <1> USE DEF CorpusInv
  <1>1. UNCHANGED <<source, prep, files, lostFile>>
    BY DEF Ingest, LoseIngest, RetryIngest, ApproveByUser, ArchiveDocument, sourceVars
  <1>2. Keeps
    <2>1. CASE Ingest(d)
      BY <2>1, <1>1 DEF Ingest, Keeps, CorpusType, RowsInv, Statuses, sourceVars
    <2>2. CASE LoseIngest(d)
      BY <2>2, <1>1 DEF LoseIngest, Keeps, CorpusType, RowsInv, Statuses, sourceVars
    <2>3. CASE RetryIngest(d)
      BY <2>3, <1>1 DEF RetryIngest, Keeps, CorpusType, RowsInv, Statuses, sourceVars
    <2>4. CASE ApproveByUser(d)
      BY <2>4, <1>1 DEF ApproveByUser, Activate, Keeps, CorpusType, RowsInv, sourceVars
    <2>5. CASE ArchiveDocument(d)
      BY <2>5, <1>1 DEF ArchiveDocument, Keeps, CorpusType, RowsInv, sourceVars
    <2> QED
      BY <2>1, <2>2, <2>3, <2>4, <2>5
  <1> QED
    BY <1>1, <1>2, KeepsInv DEF SameLinks

LEMMA RequestStep ==
    ASSUME CorpusInv, NEW p \in Preparers,
           \/ PrepareStart(p) \/ PrepareApprove(p) \/ PrepareCheck(p)
           \/ PrepareCrash(p) \/ PrepareReadiness(p)
    PROVE  CorpusInv'
  <1> USE DEF CorpusInv
  <1>0. prep[p].at \in Sources /\ prep[p].doc \in Docs \cup {0}
    BY DEF CorpusType, Preparing
  <1>1. UNCHANGED <<version, ingest, files, lostFile>> /\ active' \subseteq everActive'
    BY DEF PrepareStart, PrepareApprove, PrepareCheck, PrepareCrash, PrepareReadiness, docVars,
           sourceVars, Activate
  <1>2. /\ source' \in [Sources -> Source] /\ SameLinks
        /\ prep' \in [Preparers -> Preparing] /\ Aside(p)
    <2>1. CASE PrepareStart(p)
      BY <2>1, Proceeds DEF PrepareStart, Aside, SameLinks, CorpusType
    <2>2. CASE PrepareApprove(p)
      <3>1. source[prep[p].at].doc \in Docs \cup {0}
        BY <1>0 DEF CorpusType, Source
      <3>2. CASE RecordPrepareFailure(p)
        BY <3>2, Records
      <3>3. CASE Proceed(p, "check", source[prep[p].at].doc) /\ UNCHANGED source
        BY <3>1, <3>3, Proceeds DEF Aside, SameLinks, CorpusType
      <3> QED
        BY <2>2, <3>2, <3>3 DEF PrepareApprove
    <2>3. CASE PrepareCheck(p)
      <3>1. CASE NextSource(p)
        BY <2>3, <3>1, <1>0, GoesOn DEF PrepareCheck, SourceStatus, SameLinks, CorpusType, Source
      <3>2. CASE Proceed(p, "store", 0) /\ UNCHANGED source
        BY <3>2, Proceeds DEF Aside, SameLinks, CorpusType
      <3> QED
        BY <2>3, <3>1, <3>2 DEF PrepareCheck
    <2>4. CASE PrepareCrash(p)
      BY <2>4, SourceNumbers DEF PrepareCrash, Resting, Aside, Preparing, SameLinks, CorpusType, sourceVars
    <2>5. CASE PrepareReadiness(p)
      BY <2>5, SourceNumbers, ReadinessKeeps DEF PrepareReadiness, Resting, Aside, Preparing, CorpusType
    <2> QED
      BY <2>1, <2>2, <2>3, <2>4, <2>5
  <1>3. Keeps
    BY <1>1, <1>2 DEF Keeps, CorpusType, RowsInv
  <1> QED
    BY <1>2, <1>3, KeepsInv

LEMMA UploadStoreStep ==
    ASSUME CorpusInv, NEW p \in Preparers, UploadStore(p)
    PROVE  CorpusInv'
  <1> USE DEF CorpusInv
  <1>1. UNCHANGED <<version, ingest, lostFile, active, everActive>>
    BY DEF UploadStore
  <1>2. CASE RecordPrepareFailure(p) /\ UNCHANGED files
    <2>1. Keeps
      BY <1>1, <1>2, Records DEF Keeps, CorpusType, RowsInv
    <2> QED
      BY <1>2, <2>1, Records, KeepsInv
  <1>3. CASE ~(RecordPrepareFailure(p) /\ UNCHANGED files)
    <2>1. PICK d \in Docs : /\ Free(d) /\ files' = files \cup {d}
                            /\ Proceed(p, "commit", d) /\ UNCHANGED source
      BY <1>3 DEF UploadStore
    <2>2. /\ prep' \in [Preparers -> Preparing]
          /\ prep'[p].pc = "commit" /\ prep'[p].doc = d
          /\ \A q \in Preparers \ {p} : prep'[q] = prep[q]
      BY <2>1, Proceeds
    <2>3. version[d] = "none" /\ \A q \in Preparers : prep[q].doc # d
      BY <2>1 DEF Free
    <2>4. \A s \in Sources : source[s].doc # d
      BY <2>3, SourceNumbers DEF LinksInv
    <2>5. UploadsInv'
      <3> SUFFICES ASSUME NEW q \in Preparers PROVE UploadOf(q)'
        BY DEF UploadsInv
      <3>1. CASE q = p
        BY <1>1, <2>1, <2>2, <2>3, <2>4, <3>1 DEF UploadOf, Uploads
      <3>2. CASE q # p
        BY <1>1, <2>1, <2>2, <2>3, <3>2 DEF UploadsInv, UploadOf, Uploads
      <3> QED
        BY <3>1, <3>2
    <2> QED
      BY <1>1, <2>1, <2>2, <2>5 DEF CorpusType, RowsInv, LinksInv, VersionsHaveFiles
  <1> QED
    BY <1>2, <1>3

LEMMA UploadCommitStep ==
    ASSUME CorpusInv, NEW p \in Preparers, UploadCommit(p)
    PROVE  CorpusInv'
  <1> USE DEF CorpusInv
  <1> PICK d : d = prep[p].doc
    OBVIOUS
  <1>1. /\ d \in Docs /\ d \in files /\ version[d] = "none"
        /\ \A s \in Sources : source[s].doc # d
        /\ \A q \in Preparers : Uploads(q) /\ prep[q].doc = d => q = p
    BY DEF UploadCommit, UploadsInv, UploadOf, Uploads
  <1>2. UNCHANGED <<active, everActive>>
    BY DEF UploadCommit
  <1>3. InsertDocument(d) =>
          /\ version' \in [Docs -> Statuses] /\ version'[d] # "none"
          /\ ingest' \in [Docs -> {"none", "running", "succeeded", "failed"}]
          /\ \A e \in Docs \ {d} : version'[e] = version[e] /\ ingest'[e] = ingest[e]
    BY <1>1 DEF InsertDocument, CorpusType, Statuses
  <1>4. CASE InsertDocument(d) /\ Proceed(p, "link", d) /\ UNCHANGED <<files, lostFile, source>>
    <2>1. /\ prep' \in [Preparers -> Preparing]
          /\ prep'[p].pc = "link" /\ prep'[p].doc = d
          /\ \A q \in Preparers \ {p} : prep'[q] = prep[q]
      BY <1>1, <1>4, Proceeds
    <2>2. UploadsInv'
      <3> SUFFICES ASSUME NEW q \in Preparers PROVE UploadOf(q)'
        BY DEF UploadsInv
      <3>1. CASE q = p
        BY <1>1, <1>3, <1>4, <2>1, <3>1 DEF UploadOf, Uploads
      <3>2. CASE q # p
        BY <1>1, <1>3, <1>4, <2>1, <3>2 DEF UploadsInv, UploadOf, Uploads
      <3> QED
        BY <3>1, <3>2
    <2>3. LinksInv'
      BY <1>1, <1>3, <1>4 DEF LinksInv, CorpusType, Source
    <2> QED
      BY <1>1, <1>2, <1>3, <1>4, <2>1, <2>2, <2>3
         DEF CorpusType, RowsInv, VersionsHaveFiles, InsertDocument
  <1>5. CASE /\ files' \in {files, files \ {d}}
             /\ \/ UNCHANGED <<version, ingest, lostFile>>
                \/ InsertDocument(d) /\ lostFile' = lostFile \cup {d}
             /\ RecordPrepareFailure(p)
    <2>1. /\ source' \in [Sources -> Source] /\ SameLinks
          /\ prep' \in [Preparers -> Preparing] /\ Aside(p)
      BY <1>5, Records
    <2>2. /\ version' \in [Docs -> Statuses]
          /\ ingest' \in [Docs -> {"none", "running", "succeeded", "failed"}]
          /\ \A e \in Docs \ {d} : /\ version'[e] = version[e] /\ ingest'[e] = ingest[e]
                                   /\ e \in files' <=> e \in files
                                   /\ e \in lostFile' <=> e \in lostFile
          /\ \/ version'[d] = "none" /\ ingest'[d] = "none"
             \/ d \in lostFile' /\ version'[d] # "none"
      <3>1. CASE UNCHANGED <<version, ingest, lostFile>>
        BY <1>1, <1>5, <3>1 DEF CorpusType, RowsInv
      <3>2. CASE InsertDocument(d) /\ lostFile' = lostFile \cup {d}
        BY <1>1, <1>3, <1>5, <3>2
      <3> QED
        BY <1>5, <3>1, <3>2
    <2>3. UploadsInv'
      <3> SUFFICES ASSUME NEW q \in Preparers, Uploads(q)' PROVE UploadOf(q)'
        BY DEF UploadsInv, UploadOf
      <3>1. q # p /\ prep'[q] = prep[q] /\ Uploads(q)
        BY <2>1 DEF Aside, Uploads
      <3>2. prep[q].doc \in Docs \ {d}
        BY <1>1, <3>1 DEF UploadsInv, UploadOf
      <3>3. \A r \in Preparers : Uploads(r)' => prep'[r] = prep[r] /\ Uploads(r)
        BY <2>1 DEF Aside, Uploads
      <3> QED
        BY <2>1, <2>2, <3>1, <3>2, <3>3 DEF UploadsInv, UploadOf, SameLinks
    <2>4. LinksInv'
      BY <1>1, <2>1, <2>2 DEF LinksInv, SameLinks, CorpusType, Source
    <2>5. VersionsHaveFiles' /\ RowsInv'
      BY <2>2 DEF VersionsHaveFiles, RowsInv
    <2> QED
      BY <1>2, <2>1, <2>2, <2>3, <2>4, <2>5 DEF CorpusType
  <1> QED
    BY <1>4, <1>5 DEF UploadCommit

LEMMA LinkSourceStep ==
    ASSUME CorpusInv, NEW p \in Preparers, LinkSource(p)
    PROVE  CorpusInv'
  <1> USE DEF CorpusInv
  <1>1. UNCHANGED <<version, ingest, lostFile, files, active, everActive>>
    BY DEF LinkSource, docVars
  <1>2. CASE RecordPrepareFailure(p)
    <2>1. Keeps
      BY <1>1, <1>2, Records DEF Keeps, CorpusType, RowsInv
    <2> QED
      BY <1>2, <2>1, Records, KeepsInv
  <1>3. CASE ~RecordPrepareFailure(p)
    <2> PICK d, s : d = prep[p].doc /\ s = prep[p].at
      OBVIOUS
    <2>1. /\ d \in Docs /\ s \in Sources /\ version[d] # "none"
          /\ \A t \in Sources : source[t].doc # d
          /\ \A q \in Preparers : Uploads(q) /\ prep[q].doc = d => q = p
      BY DEF LinkSource, UploadsInv, UploadOf, Uploads, CorpusType, Preparing
    <2>2. /\ source' = [source EXCEPT ![s] = [doc |-> d, status |-> "preparing", failed |-> FALSE]]
          /\ NextSource(p)
      BY <1>3 DEF LinkSource
    <2>3. /\ source' \in [Sources -> Source] /\ source'[s].doc = d
          /\ \A t \in Sources \ {s} : source'[t] = source[t]
      BY <2>1, <2>2 DEF CorpusType, Source
    <2>4. prep' \in [Preparers -> Preparing] /\ Aside(p)
      BY <2>2, GoesOn
    <2>5. \A r \in Preparers : Uploads(r)' => r # p /\ prep'[r] = prep[r] /\ Uploads(r)
      BY <2>4 DEF Aside, Uploads
    <2>6. UploadsInv'
      BY <1>1, <2>1, <2>3, <2>5 DEF UploadsInv, UploadOf
    <2>7. LinksInv'
      BY <1>1, <2>1, <2>3 DEF LinksInv, CorpusType, Source
    <2> QED
      BY <1>1, <2>3, <2>4, <2>6, <2>7 DEF CorpusType, RowsInv, VersionsHaveFiles
  <1> QED
    BY <1>2, <1>3

LEMMA CorpusStepInv ==
    ASSUME CorpusInv, CorpusStep PROVE CorpusInv'
  BY DocumentStep, RequestStep, UploadStoreStep, UploadCommitStep, LinkSourceStep DEF CorpusStep

-----------------------------------------------------------------------------
(* The slots of an attempt: its cases one after the other, and for each the  *)
(* modes in their order.                                                     *)

Snapshot == [case : Cases, text : Nat, expected : SUBSET Docs]
Work == [pc : {"idle", "start", "load", "create", "case", "fail", "finish", "succeeded", "failed"},
         att : Nat, cases : Seq(Snapshot), at : Nat, ok : Nat]

Width == Len(TargetModes)
Total(x) == Len(x.cases) * Width
Slot(x, n) == <<x.cases[1 + (n \div Width)].case, TargetModes[1 + (n % Width)]>>
Ordered(x) == \A m, n \in 1..Len(x.cases) : m < n => x.cases[m].case < x.cases[n].case

LEMMA RunTargets ==
    /\ TargetModes \in Seq(Modes) /\ Width \in 1..4
    /\ \A k, l \in 1..Width : TargetModes[k] = TargetModes[l] => k = l
    /\ \A k, l \in 1..Width :
         k < l /\ TargetModes[l] = "cold" => TargetModes[k] \notin {"cold", "warm"}
  <1> DEFINE d == Selected("default")
             a == d \o Selected("disabled")
             b == a \o Selected("cold")
  <1>0. /\ d \in Seq({"default"} \cap Modes) /\ Len(d) \in 0..1
        /\ Len(d) = 0 => "default" \notin Modes
    <2>1. CASE "default" \in Modes
      BY <2>1 DEF Selected
    <2>2. CASE "default" \notin Modes
      BY <2>2 DEF Selected
    <2> QED
      BY <2>1, <2>2
  <1> HIDE DEF d
  <1>1. /\ a \in Seq({"default", "disabled"} \cap Modes) /\ Len(a) \in 0..2
        /\ \A k, l \in 1..Len(a) : a[k] = a[l] => k = l
        /\ Len(a) = 0 => "default" \notin Modes /\ "disabled" \notin Modes
    <2>1. CASE "disabled" \in Modes
      <3>1. a = d \o <<"disabled">>
        BY <2>1 DEF Selected
      <3>2. /\ Len(a) = Len(d) + 1 /\ a[Len(a)] = "disabled"
            /\ \A k \in 1..Len(d) : a[k] = d[k] /\ d[k] = "default"
        BY <1>0, <3>1
      <3> HIDE DEF a
      <3>3. a \in Seq({"default", "disabled"} \cap Modes)
        <4>1. d \in Seq({"default", "disabled"} \cap Modes)
          BY <1>0, <3>2
        <4>2. "disabled" \in {"default", "disabled"} \cap Modes
          BY <2>1
        <4> QED
          BY <3>1, <4>1, <4>2
      <3> QED
        BY <1>0, <3>2, <3>3
    <2>2. CASE "disabled" \notin Modes
      BY <1>0, <2>2 DEF Selected
    <2> QED
      BY <2>1, <2>2
  <1> HIDE DEF a
  <1>2. /\ b \in Seq({"default", "disabled", "cold"} \cap Modes) /\ Len(b) \in 0..3
        /\ \A k, l \in 1..Len(b) : b[k] = b[l] => k = l
        /\ Len(b) = 0 => "default" \notin Modes /\ "disabled" \notin Modes /\ "cold" \notin Modes
        /\ \A k, l \in 1..Len(b) : k < l /\ b[l] = "cold" => b[k] \notin {"cold", "warm"}
    <2>1. CASE "cold" \in Modes
      BY <1>1, <2>1 DEF Selected
    <2>2. CASE "cold" \notin Modes
      BY <1>1, <2>2 DEF Selected
    <2> QED
      BY <2>1, <2>2
  <1>3. TargetModes = b \o Selected("warm")
    BY DEF TargetModes, a, d
  <1> HIDE DEF b
  <1>4. CASE "warm" \in Modes
    BY <1>2, <1>3, <1>4 DEF Selected, Width
  <1>5. CASE "warm" \notin Modes
    <2>1. Len(b) # 0
      BY <1>2, <1>5, RunAssumption DEF CacheModes
    <2>2. TargetModes = b
      BY <1>2, <1>3, <1>5 DEF Selected
    <2> QED
      BY <1>2, <2>1, <2>2 DEF Width
  <1> QED
    BY <1>4, <1>5

LEMMA Positions ==
    ASSUME NEW W \in 1..4
    PROVE  /\ \A n \in Nat : n \div W \in Nat /\ n % W \in 0..(W - 1) /\ n = W * (n \div W) + (n % W)
           /\ \A n, k \in Nat : n < k * W => n \div W < k
  <1>1. CASE W = 1
    BY <1>1
  <1>2. CASE W = 2
    BY <1>2
  <1>3. CASE W = 3
    BY <1>3
  <1>4. CASE W = 4
    BY <1>4
  <1> QED
    BY <1>1, <1>2, <1>3, <1>4

\* Slots differ, and a cold one comes before any that could warm its cache.
LEMMA Slots ==
    ASSUME NEW x \in Work, Ordered(x)
    PROVE  /\ Total(x) \in Nat
           /\ \A n \in Nat : n < Total(x) =>
                /\ 1 + (n \div Width) \in 1..Len(x.cases)
                /\ Slot(x, n)[1] \in Cases /\ Slot(x, n)[2] \in Modes
           /\ \A m, n \in Nat : m < Total(x) /\ n < Total(x) /\ Slot(x, m) = Slot(x, n) => m = n
           /\ \A m, n \in Nat :
                m < n /\ n < Total(x) /\ Slot(x, m)[1] = Slot(x, n)[1] /\ Slot(x, n)[2] = "cold"
                  => Slot(x, m)[2] \notin {"cold", "warm"}
  <1> PICK W, len : W = Width /\ len = Len(x.cases)
    OBVIOUS
  <1>1. W \in 1..4 /\ len \in Nat /\ Total(x) = len * W /\ Total(x) \in Nat
    <2>1. W \in 1..4
      BY RunTargets
    <2>2. len \in Nat
      BY DEF Work
    <2>3. len * W \in Nat
      BY <2>1, <2>2
    <2> QED
      BY <2>1, <2>2, <2>3 DEF Total
  <1>2. \A n \in Nat : n < Total(x) =>
          /\ n \div W \in Nat /\ 1 + (n \div W) \in 1..len
          /\ n % W \in Nat /\ 1 + (n % W) \in 1..W
    BY <1>1, Positions
  <1>3. \A k \in 1..len : x.cases[k] \in Snapshot
    BY DEF Work
  <1>4. \A k, l \in 1..len : x.cases[k].case = x.cases[l].case => k = l
    <2>1. \A k \in 1..len : x.cases[k].case \in Nat
      BY <1>3, RunAssumption DEF Snapshot
    <2> QED
      BY <1>1, <2>1 DEF Ordered
  <1>5. \A n \in Nat : n < Total(x) =>
          \E k \in 1..len, r \in 1..W :
             /\ k - 1 = n \div W /\ r - 1 = n % W
             /\ Slot(x, n)[1] = x.cases[k].case /\ Slot(x, n)[2] = TargetModes[r]
             /\ Slot(x, n) = <<x.cases[k].case, TargetModes[r]>>
    <2> SUFFICES ASSUME NEW n \in Nat, n < Total(x)
                 PROVE  \E k \in 1..len, r \in 1..W :
                           /\ k - 1 = n \div W /\ r - 1 = n % W
                           /\ Slot(x, n)[1] = x.cases[k].case /\ Slot(x, n)[2] = TargetModes[r]
                           /\ Slot(x, n) = <<x.cases[k].case, TargetModes[r]>>
      OBVIOUS
    <2> PICK p, q : p = n \div W /\ q = n % W
      OBVIOUS
    <2>1. p \in Nat /\ 1 + p \in 1..len /\ q \in Nat /\ 1 + q \in 1..W
      BY <1>2
    <2>2. (1 + p) - 1 = p /\ (1 + q) - 1 = q
      BY <2>1
    <2>3. Slot(x, n) = <<x.cases[1 + p].case, TargetModes[1 + q]>>
      BY DEF Slot
    <2>4. Slot(x, n)[1] = x.cases[1 + p].case /\ Slot(x, n)[2] = TargetModes[1 + q]
      BY <2>3
    <2> QED
      BY <2>1, <2>2, <2>3, <2>4
  <1>6. \A n \in Nat : n < Total(x) => Slot(x, n)[1] \in Cases /\ Slot(x, n)[2] \in Modes
    <2>1. \A r \in 1..W : TargetModes[r] \in Modes
      BY RunTargets DEF Width
    <2> QED
      BY <1>3, <1>5, <2>1 DEF Snapshot
  <1>7. ASSUME NEW m \in Nat, NEW n \in Nat, m < Total(x), n < Total(x), Slot(x, m) = Slot(x, n)
        PROVE  m = n
    <2>1. PICK k \in 1..len, r \in 1..W :
            k - 1 = m \div W /\ r - 1 = m % W /\ Slot(x, m) = <<x.cases[k].case, TargetModes[r]>>
      BY <1>5, <1>7
    <2>2. PICK l \in 1..len, t \in 1..W :
            l - 1 = n \div W /\ t - 1 = n % W /\ Slot(x, n) = <<x.cases[l].case, TargetModes[t]>>
      BY <1>5, <1>7
    <2>0. x.cases[k].case = x.cases[l].case /\ TargetModes[r] = TargetModes[t]
      <3>1. <<x.cases[k].case, TargetModes[r]>> = <<x.cases[l].case, TargetModes[t]>>
        BY <1>7, <2>1, <2>2, Zenon
      <3> QED
        BY <3>1
    <2>3. k = l
      BY <1>4, <2>0
    <2>4. r = t
      BY <2>0, RunTargets
    <2>5. m \div W = n \div W /\ m % W = n % W
      BY <2>1, <2>2, <2>3, <2>4
    <2> QED
      BY <1>1, <2>5, Positions
  <1>8. ASSUME NEW m \in Nat, NEW n \in Nat, m < n, n < Total(x),
               Slot(x, m)[1] = Slot(x, n)[1], Slot(x, n)[2] = "cold"
        PROVE  Slot(x, m)[2] \notin {"cold", "warm"}
    <2>0. m < Total(x)
      BY <1>1, <1>8
    <2>1. PICK k \in 1..len, r \in 1..W :
            /\ k - 1 = m \div W /\ r - 1 = m % W
            /\ Slot(x, m)[1] = x.cases[k].case /\ Slot(x, m)[2] = TargetModes[r]
      BY <1>5, <2>0
    <2>2. PICK l \in 1..len, t \in 1..W :
            /\ l - 1 = n \div W /\ t - 1 = n % W
            /\ Slot(x, n)[1] = x.cases[l].case /\ Slot(x, n)[2] = TargetModes[t]
      BY <1>5, <1>8
    <2>3. k = l
      BY <1>4, <1>8, <2>1, <2>2
    <2>4. m % W < n % W
      BY <1>1, <1>8, <2>1, <2>2, <2>3, Positions
    <2>5. r < t
      BY <2>1, <2>2, <2>4
    <2> QED
      BY <1>8, <2>1, <2>2, <2>5, RunTargets
  <1> QED
    BY <1>1, <1>2, <1>6, <1>7, <1>8

-----------------------------------------------------------------------------
(* The run: the inductive invariant.                                         *)

Outcome == (UNION {OutcomesOf[c] : c \in Cases}) \cup {"none", "retrieval_error"}
Item == [att : Nat, case : Cases, mode : Modes, status : {"running", "succeeded", "failed"},
         outcome : Outcome, judged : BOOLEAN, review : {"none", "pass", "fail"},
         hit : BOOLEAN, of : Snapshot]
RunType ==
    /\ text \in [Cases -> Nat] /\ expected \in [Cases -> SUBSET Docs] /\ listed \subseteq Cases
    /\ run \in [status : {"none", "queued", "running", "succeeded", "failed"},
                docs : SUBSET Docs, count : Nat]
    /\ creating \subseteq Docs
    /\ attempts \in Nat /\ proc \in [Workers -> Work]
    /\ items \subseteq Item /\ IsFiniteSet(items)
    /\ overlapped \in BOOLEAN

Busy(w) == proc[w].pc # "idle"
Engaged(w) == proc[w].pc \in {"start", "load", "create", "case", "finish"}

\* An attempt is of one worker and goes through its slots in order.
PlanOf(w) ==
    /\ Ordered(proc[w])
    /\ proc[w].pc \in {"start", "load"} => proc[w].at = 0 /\ proc[w].ok = 0
    /\ proc[w].pc \in {"create", "case"} => proc[w].at < Total(proc[w])
    /\ proc[w].pc = "finish" => proc[w].at = Total(proc[w])
    /\ Busy(w) => proc[w].att \in 1..attempts
    /\ Busy(w) => \A u \in Workers : Busy(u) /\ proc[u].att = proc[w].att => u = w

\* The items of an attempt are of slots it has been at.
Untouched(i) == i.status = "running" /\ ~i.judged /\ i.review = "none" /\ ~i.hit
IsAt(w, n, i) == n < Total(proc[w]) /\ Slot(proc[w], n) = <<i.case, i.mode>>
PlaceOf(w) ==
    Engaged(w) =>
        \A i \in items : i.att = proc[w].att =>
            \E n \in Nat : /\ IsAt(w, n, i)
                           /\ \/ n < proc[w].at
                              \/ n = proc[w].at /\ proc[w].pc = "case" /\ Untouched(i)

\* So are the entries of its namespaces.
CacheOf(w) ==
    Engaged(w) =>
        \A key \in cache : key[1][1] = proc[w].att =>
            \E n \in Nat : /\ n < proc[w].at /\ n < Total(proc[w])
                           /\ Slot(proc[w], n)[1] = key[1][2]
                           /\ Slot(proc[w], n)[2] \in {"cold", "warm"}

ItemFacts ==
    /\ \A i \in items : /\ i.att \in 1..attempts
                        /\ i.judged => i.outcome \in Applicable
                        /\ i.review # "none" => i.judged
                        /\ i.mode = "cold" => ~i.hit
    /\ \A i, j \in items : i.att = j.att /\ i.case = j.case /\ i.mode = j.mode => i = j
CacheFacts == \A key \in cache : key[1][1] \in 0..attempts

AttemptsInv ==
    /\ RunType /\ ItemFacts /\ CacheFacts
    /\ \A w \in Workers : PlanOf(w) /\ PlaceOf(w) /\ CacheOf(w)

\* What an attempt that nobody disturbs has done.
Filled(w) ==
    /\ \A i \in items : i.att = proc[w].att
    /\ \A n \in Nat : n < proc[w].at => \E i \in items : IsAt(w, n, i)
    /\ \A i \in items : i.status = "running" => proc[w].pc = "case" /\ IsAt(w, proc[w].at, i)
    /\ proc[w].pc = "case" => \E i \in items : IsAt(w, proc[w].at, i)
    /\ proc[w].ok > 0 => \E i \in items : i.status = "succeeded"
AloneOf(w) ==
    /\ Busy(w) => job = "running" /\ holder = w /\ \A u \in Workers : Busy(u) => u = w
    /\ proc[w].pc \in {"load", "create", "case", "fail", "finish"} => run.status = "running"
    /\ proc[w].pc = "succeeded" => run.status = "succeeded"
    /\ proc[w].pc = "load" => items = {}
    /\ proc[w].pc \in {"create", "case", "finish"} => Filled(w)
JobInv ==
    /\ run.status = "none" <=> job = "none"
    /\ \A w \in Workers : Busy(w) => job # "none"
AloneInv == ~overlapped => \A w \in Workers : AloneOf(w)

\* Of the failures a request read no two agree in key and attempt, and the cases
\* it is about to commit are new.
Promotion(P, T, S, M) == [pc : P, todo : T, seen : S, mine : M]
PromotionShape ==
    promo \in [Promoters -> Promotion({promo[q].pc : q \in Promoters},
                                     {promo[q].todo : q \in Promoters},
                                     {promo[q].seen : q \in Promoters},
                                     {promo[q].mine : q \in Promoters})]
CandidatesOf(q) ==
    \A t \in promo[q].todo :
        /\ t.att \in Nat
        /\ \A u \in promo[q].todo : t.key = u.key /\ t.att = u.att => t = u
MineOf(q) ==
    \A n \in promo[q].mine :
        /\ n.copied = n.of /\ n.by = q
        /\ \A o \in Promoters : \A m \in promo[o].mine : m.key = n.key => m = n
        /\ \A m \in promoted : m.key # n.key
PromotionsInv ==
    /\ PromotionShape /\ PromotedOnceAsEvaluated
    /\ \A q \in Promoters : CandidatesOf(q) /\ MineOf(q)

AdmissionInv ==
    /\ creating \subseteq everActive
    /\ creating # {} => Cardinality(creating) = Cardinality(Sources)
    /\ AdmittedWereActive

-----------------------------------------------------------------------------
(* Attempts, workers and their items.                                        *)

LEMMA AttemptsInit ==
    ASSUME CorpusInv, CorpusInit \/ PreparedInit, RunInit PROVE AttemptsInv
  <1>1. expected \in [Cases -> SUBSET Docs]
    BY CorpusAssumption DEF CorpusInit, PreparedInit
  <1>2. Unplanned \in Work
    BY DEF Unplanned, Work
  <1>3. RunType
    BY <1>1, <1>2, FS_EmptySet DEF RunInit, RunType
  <1>4. \A w \in Workers : PlanOf(w) /\ PlaceOf(w) /\ CacheOf(w)
    BY DEF RunInit, Unplanned, PlanOf, PlaceOf, CacheOf, Busy, Engaged, Ordered
  <1> QED
    BY <1>3, <1>4 DEF AttemptsInv, ItemFacts, CacheFacts, RunInit

LEMMA AttemptsFrame ==
    ASSUME AttemptsInv, RunType', UNCHANGED <<attempts, items, cache, proc>>
    PROVE  AttemptsInv'
  BY DEF AttemptsInv, ItemFacts, CacheFacts, PlanOf, PlaceOf, CacheOf, IsAt, Busy, Engaged,
         Total, Slot, Ordered, Untouched

\* A step of one worker touches rows and keys of its own attempt only.
LEMMA OthersKeep ==
    ASSUME AttemptsInv, NEW w \in Workers,
           \A u \in Workers \ {w} : proc'[u] = proc[u],
           attempts' \in {attempts, attempts + 1},
           Busy(w)' => \/ Busy(w) /\ proc'[w].att = proc[w].att
                       \/ proc'[w].att = attempts + 1,
           \A i \in items' : i \in items \/ (Busy(w) /\ i.att = proc[w].att),
           \A key \in cache' : \/ key \in cache \/ key[1][1] = 0
                               \/ Busy(w) /\ key[1][1] = proc[w].att
    PROVE  /\ \A u \in Workers \ {w} : PlanOf(u)' /\ PlaceOf(u)' /\ CacheOf(u)'
           /\ Busy(w)' => \A u \in Workers : Busy(u)' /\ proc'[u].att = proc'[w].att => u = w
  <1>0. attempts \in Nat
    BY DEF AttemptsInv, RunType
  <1>1. \A u \in Workers \ {w} : Busy(u)' <=> Busy(u)
    BY DEF Busy
  <1>2. ASSUME NEW u \in Workers \ {w}, Busy(u)
        PROVE  /\ proc[u].att \in 1..attempts
               /\ Busy(w) => proc[w].att # proc[u].att
               /\ Busy(w)' => proc'[w].att # proc[u].att
    <2>1. proc[u].att \in 1..attempts
      BY <1>2 DEF AttemptsInv, PlanOf
    <2>2. Busy(w) => proc[w].att # proc[u].att
      BY <1>2 DEF AttemptsInv, PlanOf
    <2> QED
      BY <1>0, <2>1, <2>2
  <1>3. Busy(w)' => \A u \in Workers : Busy(u)' /\ proc'[u].att = proc'[w].att => u = w
    BY <1>1, <1>2
  <1>4. ASSUME NEW u \in Workers \ {w} PROVE PlanOf(u)'
    <2>1. Busy(u) => \A v \in Workers : Busy(v)' /\ proc'[v].att = proc[u].att => v = u
      BY <1>1, <1>2 DEF AttemptsInv, PlanOf
    <2>2. PlanOf(u)
      BY DEF AttemptsInv
    <2> QED
      BY <1>0, <1>1, <2>1, <2>2 DEF PlanOf, Ordered, Total
  <1>5. ASSUME NEW u \in Workers \ {w} PROVE PlaceOf(u)' /\ CacheOf(u)'
    <2>1. CASE Engaged(u)
      <3>1. Busy(u)
        BY <2>1 DEF Engaged, Busy
      <3>2. /\ \A i \in items' : i.att = proc[u].att => i \in items
            /\ \A key \in cache' : key[1][1] = proc[u].att => key \in cache
        BY <1>2, <3>1
      <3>3. PlaceOf(u) /\ CacheOf(u)
        BY DEF AttemptsInv
      <3> QED
        BY <2>1, <3>2, <3>3 DEF PlaceOf, CacheOf, Engaged, IsAt, Slot, Total, Untouched
    <2>2. CASE ~Engaged(u)
      BY <2>2 DEF PlaceOf, CacheOf, Engaged
    <2> QED
      BY <2>1, <2>2
  <1> QED
    BY <1>3, <1>4, <1>5

\* Items are changed in what does not identify them.
Reshapes(f) ==
    /\ f \in [items -> Item]
    /\ items' = {f[i] : i \in items}
    /\ \A i \in items : f[i].att = i.att /\ f[i].case = i.case /\ f[i].mode = i.mode
Identities == {<<i.case, i.mode>> : i \in items}

LEMMA Reshaped ==
    ASSUME RunType, ItemFacts, NEW f, Reshapes(f)
    PROVE  /\ items' \subseteq Item /\ IsFiniteSet(items')
           /\ Cardinality(items') = Cardinality(items)
           /\ \A i, j \in items' : i.att = j.att /\ i.case = j.case /\ i.mode = j.mode => i = j
           /\ Identities' = Identities
  <1>1. \A j \in items' : \E i \in items : j = f[i]
    BY DEF Reshapes
  <1>2. \A i, j \in items : f[i] = f[j] => i = j
    BY DEF Reshapes, ItemFacts
  <1>3. f \in Bijection(items, items')
    <2>1. f \in [items -> items']
      BY DEF Reshapes
    <2> QED
      BY <1>1, <1>2, <2>1 DEF Bijection, Injection, Surjection, IsInjective
  <1>4. IsFiniteSet(items') /\ Cardinality(items') = Cardinality(items)
    <2>1. ExistsBijection(items, items') /\ IsFiniteSet(items)
      BY <1>3 DEF ExistsBijection, RunType
    <2> QED
      BY <2>1, FS_Bijection
  <1>5. items' \subseteq Item
    BY <1>1 DEF Reshapes
  <1>6. \A i, j \in items' : i.att = j.att /\ i.case = j.case /\ i.mode = j.mode => i = j
    BY <1>1 DEF Reshapes, ItemFacts
  <1>7. Identities' = Identities
    <2>1. \A p \in Identities : p \in Identities'
      BY DEF Identities, Reshapes
    <2>2. \A p \in Identities' : p \in Identities
      BY <1>1 DEF Identities, Reshapes
    <2> QED
      BY <2>1, <2>2
  <1> QED
    BY <1>4, <1>5, <1>6, <1>7

\* finish_item
Finished(f, w, status, outcome, judged, hit) ==
    \A i \in items : IF i \in ItemOf(w)
                     THEN /\ f[i].status = status /\ f[i].outcome = outcome
                          /\ f[i].judged = judged /\ f[i].hit = hit /\ f[i].review = i.review
                     ELSE f[i] = i

LEMMA Finishes ==
    ASSUME RunType, NEW w, NEW status \in {"succeeded", "failed"}, NEW outcome \in Outcome,
           NEW judged \in BOOLEAN, NEW hit \in BOOLEAN,
           FinishItem(w, status, outcome, judged, hit)
    PROVE  \E f : Reshapes(f) /\ Finished(f, w, status, outcome, judged, hit)
  <1> DEFINE edit(i) == [i EXCEPT !.status = status, !.outcome = outcome, !.judged = judged,
                                  !.hit = hit]
             f == [i \in items |-> IF i \in ItemOf(w) THEN edit(i) ELSE i]
  <1>1. \A i \in items : /\ edit(i) \in Item
                         /\ edit(i).att = i.att /\ edit(i).case = i.case /\ edit(i).mode = i.mode
                         /\ edit(i).status = status /\ edit(i).outcome = outcome
                         /\ edit(i).judged = judged /\ edit(i).hit = hit
                         /\ edit(i).review = i.review
    <2>1. \A i \in items : i \in Item
      BY DEF RunType
    <2> QED
      BY <2>1 DEF Item
  <1>2. ItemOf(w) \subseteq items
    BY DEF ItemOf
  <1>3. items' = (items \ ItemOf(w)) \cup {edit(i) : i \in ItemOf(w)}
    BY DEF FinishItem
  <1> HIDE DEF edit
  <1>4. items' = {f[i] : i \in items}
    BY <1>2, <1>3
  <1>5. f \in [items -> Item]
    BY <1>1 DEF RunType
  <1>6. Finished(f, w, status, outcome, judged, hit)
    BY <1>1, <1>2 DEF Finished
  <1>7. \A i \in items : f[i].att = i.att /\ f[i].case = i.case /\ f[i].mode = i.mode
    BY <1>1
  <1> QED
    BY <1>4, <1>5, <1>6, <1>7 DEF Reshapes

LEMMA Reviews ==
    ASSUME RunType, NEW i \in items, Review(i)
    PROVE  /\ i.judged
           /\ \E f : /\ Reshapes(f)
                     /\ \A j \in items : /\ f[j].status = j.status /\ f[j].outcome = j.outcome
                                         /\ f[j].judged = j.judged /\ f[j].hit = j.hit
                                         /\ f[j].of = j.of
                                         /\ j # i => f[j] = j
                                         /\ [f[j] EXCEPT !.review = "none"] = [j EXCEPT !.review = "none"]
  <1> PICK verdict \in {"pass", "fail"} : items' = (items \ {i}) \cup {[i EXCEPT !.review = verdict]}
    BY DEF Review
  <1> DEFINE k == [i EXCEPT !.review = verdict]
             f == [j \in items |-> IF j = i THEN k ELSE j]
  <1>1. /\ k \in Item
        /\ k.att = i.att /\ k.case = i.case /\ k.mode = i.mode /\ k.status = i.status
        /\ k.outcome = i.outcome /\ k.judged = i.judged /\ k.hit = i.hit /\ k.of = i.of
        /\ [k EXCEPT !.review = "none"] = [i EXCEPT !.review = "none"]
    BY DEF RunType, Item
  <1>2. items' = (items \ {i}) \cup {k}
    OBVIOUS
  <1> HIDE DEF k
  <1>3. items' = {f[j] : j \in items}
    BY <1>2
  <1>4. f \in [items -> Item]
    BY <1>1 DEF RunType
  <1>5. Reshapes(f)
    BY <1>1, <1>3, <1>4 DEF Reshapes
  <1>6. i.judged
    BY DEF Review
  <1>7. \A j \in items : /\ f[j].status = j.status /\ f[j].outcome = j.outcome
                         /\ f[j].judged = j.judged /\ f[j].hit = j.hit
                         /\ f[j].of = j.of
                         /\ j # i => f[j] = j
                         /\ [f[j] EXCEPT !.review = "none"] = [j EXCEPT !.review = "none"]
    BY <1>1
  <1> HIDE DEF f
  <1> QED
    BY <1>5, <1>6, <1>7

\* An attempt at its first slot has left nothing yet.
LEMMA NothingYet ==
    ASSUME AttemptsInv, NEW w \in Workers, proc[w].pc \in {"start", "load"}
    PROVE  /\ \A i \in items : i.att # proc[w].att
           /\ \A key \in cache : key[1][1] # proc[w].att
  <1>1. proc[w].at = 0 /\ Engaged(w) /\ proc[w].pc # "case"
    BY DEF AttemptsInv, PlanOf, Engaged
  <1> QED
    BY <1>1 DEF AttemptsInv, PlaceOf, CacheOf

\* Steps that add neither items nor keys.
LEMMA QuietStep ==
    ASSUME AttemptsInv, RunType', NEW w \in Workers,
           \A u \in Workers \ {w} : proc'[u] = proc[u],
           attempts' \in {attempts, attempts + 1}, items' \subseteq items, cache' = cache,
           Busy(w)' => \/ Busy(w) /\ proc'[w].att = proc[w].att
                       \/ proc'[w].att = attempts + 1 /\ attempts' = attempts + 1,
           Ordered(proc'[w]),
           proc'[w].pc \in {"start", "load"} => proc'[w].at = 0 /\ proc'[w].ok = 0,
           proc'[w].pc \in {"create", "case"} => proc'[w].at < Total(proc'[w]),
           proc'[w].pc # "finish",
           Engaged(w)' => /\ \A i \in items' : i.att # proc'[w].att
                          /\ \A key \in cache : key[1][1] # proc'[w].att
    PROVE  AttemptsInv'
  <1>1. attempts \in Nat
    BY DEF AttemptsInv, RunType
  <1>2. /\ \A u \in Workers \ {w} : PlanOf(u)' /\ PlaceOf(u)' /\ CacheOf(u)'
        /\ Busy(w)' => \A u \in Workers : Busy(u)' /\ proc'[u].att = proc'[w].att => u = w
    <2>1. Busy(w)' => (Busy(w) /\ proc'[w].att = proc[w].att) \/ proc'[w].att = attempts + 1
      OBVIOUS
    <2>2. /\ \A i \in items' : i \in items \/ (Busy(w) /\ i.att = proc[w].att)
          /\ \A key \in cache' : \/ key \in cache \/ key[1][1] = 0
                                 \/ Busy(w) /\ key[1][1] = proc[w].att
      OBVIOUS
    <2> QED
      BY <2>1, <2>2, OthersKeep, Zenon
  <1>3. Busy(w)' => proc'[w].att \in 1..attempts'
    BY <1>1 DEF AttemptsInv, PlanOf
  <1>4. PlanOf(w)'
    BY <1>2, <1>3 DEF PlanOf, Ordered, Total
  <1>5. PlaceOf(w)' /\ CacheOf(w)'
    BY DEF PlaceOf, CacheOf
  <1>6. ItemFacts' /\ CacheFacts'
    BY <1>1 DEF AttemptsInv, ItemFacts, CacheFacts
  <1> QED
    BY <1>2, <1>4, <1>5, <1>6 DEF AttemptsInv

LEMMA AcquireAttempts ==
    ASSUME AttemptsInv, NEW w \in Workers, Acquire(w) PROVE AttemptsInv'
  <1> DEFINE y == [Unplanned EXCEPT !.pc = "start", !.att = attempts + 1]
  <1>1. attempts \in Nat
    BY DEF AttemptsInv, RunType
  <1>2. /\ y \in Work /\ y.pc = "start" /\ y.att = attempts + 1 /\ y.at = 0 /\ y.ok = 0
        /\ Len(y.cases) = 0
    <2>1. /\ Unplanned \in Work /\ Unplanned.at = 0 /\ Unplanned.ok = 0
          /\ Len(Unplanned.cases) = 0
      BY DEF Work, Unplanned
    <2> PICK n \in Nat : n = attempts + 1
      BY <1>1
    <2>2. y = [Unplanned EXCEPT !.pc = "start", !.att = n]
      OBVIOUS
    <2> HIDE DEF y
    <2> QED
      BY <2>1, <2>2 DEF Work
  <1>3. /\ proc' = [proc EXCEPT ![w] = y] /\ attempts' = attempts + 1
        /\ UNCHANGED <<items, cache, run, text, listed, creating, expected>>
        /\ overlapped' = (overlapped \/ \E u \in Workers : proc[u].pc # "idle")
    BY DEF Acquire, sourceVars
  <1> HIDE DEF y
  <1>4. proc' \in [Workers -> Work] /\ proc'[w] = y /\ \A u \in Workers \ {w} : proc'[u] = proc[u]
    BY <1>2, <1>3 DEF AttemptsInv, RunType
  <1>5. RunType'
    BY <1>1, <1>3, <1>4 DEF AttemptsInv, RunType
  <1>6. /\ \A i \in items : i.att # attempts + 1
        /\ \A key \in cache : key[1][1] # attempts + 1
    BY <1>1 DEF AttemptsInv, ItemFacts, CacheFacts
  <1>7. Ordered(y)
    BY <1>2 DEF Ordered
  <1> QED
    BY <1>1, <1>2, <1>3, <1>4, <1>5, <1>6, <1>7, QuietStep DEF Busy

LEMMA LeaveAttempts ==
    ASSUME AttemptsInv, NEW w \in Workers, Report(w) \/ Crash(w) PROVE AttemptsInv'
  <1>1. Unplanned \in Work /\ Unplanned.pc = "idle" /\ Len(Unplanned.cases) = 0
    BY DEF Unplanned, Work
  <1>2. /\ proc' = [proc EXCEPT ![w] = Unplanned]
        /\ UNCHANGED <<attempts, items, cache, run, text, listed, creating, expected, overlapped>>
    BY DEF Report, Crash, corpusVars, sourceVars
  <1>3. proc' \in [Workers -> Work] /\ proc'[w] = Unplanned
        /\ \A u \in Workers \ {w} : proc'[u] = proc[u]
    BY <1>1, <1>2 DEF AttemptsInv, RunType
  <1>4. RunType'
    BY <1>2, <1>3 DEF AttemptsInv, RunType
  <1>5. Ordered(Unplanned)
    BY <1>1 DEF Ordered
  <1> QED
    BY <1>1, <1>2, <1>3, <1>4, <1>5, QuietStep DEF Busy, Engaged

\* The control of a worker moves.
LEMMA Moves ==
    ASSUME RunType, NEW w \in Workers, At(w, "fail") \/ At(w, "failed") \/ At(w, "succeeded")
                                         \/ At(w, "load") \/ At(w, "case")
    PROVE  /\ proc' \in [Workers -> Work]
           /\ \A u \in Workers \ {w} : proc'[u] = proc[u]
           /\ proc'[w].att = proc[w].att /\ proc'[w].at = proc[w].at /\ proc'[w].ok = proc[w].ok
           /\ proc'[w].cases = proc[w].cases
           /\ \A pc \in {"fail", "failed", "succeeded", "load", "case"} :
                At(w, pc) => proc'[w].pc = pc
  BY DEF RunType, At, Work

LEMMA MoveAttempts ==
    ASSUME AttemptsInv, NEW w \in Workers, Busy(w), UNCHANGED OutsideRun,
           \/ RunStart(w) /\ proc[w].pc = "start"
           \/ listed = {} /\ LoadCases(w)
           \/ FailRun(w) \/ (FinishRun(w) /\ proc[w].pc = "finish") \/ Escape(w)
    PROVE  AttemptsInv'
  <1>1. /\ At(w, "failed") \/ At(w, "succeeded") \/ At(w, "load")
        /\ At(w, "load") => proc[w].pc = "start"
        /\ items' \subseteq items /\ cache' = cache
    <2>1. CASE RunStart(w) /\ proc[w].pc = "start"
      BY <2>1 DEF RunStart
    <2>2. CASE listed = {} /\ LoadCases(w)
      BY <2>2 DEF LoadCases, At, AttemptsInv, RunType, Work
    <2>3. CASE FailRun(w)
      BY <2>3 DEF FailRun, At, AttemptsInv, RunType, Work
    <2>4. CASE FinishRun(w) /\ proc[w].pc = "finish"
      <3>1. At(w, "failed") \/ At(w, "succeeded")
        BY <2>4 DEF FinishRun
      <3>2. proc'[w].pc # "load" /\ (At(w, "load") => proc'[w].pc = "load")
        BY <3>1, Moves DEF AttemptsInv
      <3> QED
        BY <2>4, <3>1, <3>2 DEF FinishRun
    <2>5. CASE Escape(w)
      BY <2>5 DEF Escape, At, AttemptsInv, RunType, Work
    <2> QED
      BY <2>1, <2>2, <2>3, <2>4, <2>5
  <1>2. /\ proc' \in [Workers -> Work]
        /\ \A u \in Workers \ {w} : proc'[u] = proc[u]
        /\ proc'[w].att = proc[w].att /\ proc'[w].at = proc[w].at /\ proc'[w].ok = proc[w].ok
        /\ proc'[w].cases = proc[w].cases
        /\ proc'[w].pc \in {"failed", "succeeded", "load"}
        /\ proc'[w].pc = "load" => proc[w].pc = "start"
    BY <1>1, Moves DEF AttemptsInv
  <1>3. UNCHANGED <<attempts, text, listed, creating, expected, overlapped>>
    BY DEF OutsideRun, sourceVars
  <1>4. run' \in [status : {"none", "queued", "running", "succeeded", "failed"},
                  docs : SUBSET Docs, count : Nat]
    <2>0. run \in [status : {"none", "queued", "running", "succeeded", "failed"},
                   docs : SUBSET Docs, count : Nat] /\ proc[w] \in Work
      BY DEF AttemptsInv, RunType
    <2>1. Len(proc[w].cases) * Len(TargetModes) \in Nat
      BY <2>0, Slots DEF AttemptsInv, PlanOf, Total, Width
    <2> QED
      BY <2>0, <2>1 DEF RunStart, LoadCases, FailRun, FinishRun, Escape, RunStatus
  <1>5. RunType'
    <2>1. IsFiniteSet(items')
      BY <1>1, FS_Subset DEF AttemptsInv, RunType
    <2> QED
      BY <1>1, <1>2, <1>3, <1>4, <2>1 DEF AttemptsInv, RunType
  <1>6. Ordered(proc'[w]) /\ (proc'[w].pc = "load" => proc'[w].at = 0 /\ proc'[w].ok = 0)
    BY <1>2 DEF AttemptsInv, PlanOf, Ordered
  <1>7. Engaged(w)' => /\ \A i \in items' : i.att # proc'[w].att
                       /\ \A key \in cache : key[1][1] # proc'[w].att
    BY <1>1, <1>2, NothingYet DEF Engaged
  <1> QED
    BY <1>1, <1>2, <1>3, <1>5, <1>6, <1>7, QuietStep

LEMMA LoadAttempts ==
    ASSUME AttemptsInv, NEW w \in Workers, UNCHANGED OutsideRun, proc[w].pc = "load",
           LoadCases(w), listed # {}
    PROVE  AttemptsInv'
  <1>1. PICK s \in [1..Cardinality(listed) -> listed] :
          /\ ById(s)
          /\ proc' = [proc EXCEPT ![w].pc = "create",
                                  ![w].cases = [n \in DOMAIN s |-> Loaded(s[n])]]
    BY DEF LoadCases
  <1> DEFINE loaded == [n \in DOMAIN s |-> Loaded(s[n])]
  <1>2. Cardinality(listed) \in Nat /\ Cardinality(listed) # 0
    <2>1. listed \subseteq Cases /\ IsFiniteSet(Cases)
      BY RunAssumption DEF AttemptsInv, RunType
    <2>2. IsFiniteSet(listed)
      BY <2>1, FS_Subset
    <2> QED
      BY <2>2, FS_CardinalityType, FS_EmptySet
  <1> PICK len \in Nat \ {0} : len = Cardinality(listed)
    BY <1>2
  <1>3. \A n \in 1..len : Loaded(s[n]) \in Snapshot /\ Loaded(s[n]).case = s[n] /\ s[n] \in Nat
    BY RunAssumption DEF Loaded, Snapshot, AttemptsInv, RunType
  <1>4. /\ loaded \in Seq(Snapshot) /\ Len(loaded) = len
        /\ \A n \in 1..len : loaded[n].case = s[n]
    BY <1>3
  <1> HIDE DEF loaded
  <1>5. /\ proc' \in [Workers -> Work] /\ \A u \in Workers \ {w} : proc'[u] = proc[u]
        /\ proc'[w].att = proc[w].att /\ proc'[w].at = proc[w].at /\ proc'[w].ok = proc[w].ok
        /\ proc'[w].cases = loaded /\ proc'[w].pc = "create"
    BY <1>1, <1>4 DEF AttemptsInv, RunType, Work, loaded
  <1>6. Ordered(proc'[w])
    BY <1>1, <1>4, <1>5 DEF Ordered, ById
  <1>7. proc'[w].at < Total(proc'[w])
    <2>1. proc[w].at = 0
      BY DEF AttemptsInv, PlanOf
    <2>2. Width \in 1..4
      BY RunTargets
    <2>3. \A W \in 1..4 : 0 < len * W
      OBVIOUS
    <2> QED
      BY <1>4, <1>5, <2>1, <2>2, <2>3 DEF Total
  <1>8. UNCHANGED <<attempts, text, listed, creating, expected, overlapped, items, cache, run>>
    BY DEF OutsideRun, sourceVars, LoadCases
  <1>9. RunType'
    BY <1>5, <1>8 DEF AttemptsInv, RunType
  <1>10. /\ \A i \in items : i.att # proc'[w].att
         /\ \A key \in cache : key[1][1] # proc'[w].att
    BY <1>5, NothingYet
  <1> QED
    BY <1>5, <1>6, <1>7, <1>8, <1>9, <1>10, QuietStep DEF Busy

\* The slot a worker is at.
LEMMA Here ==
    ASSUME AttemptsInv, NEW w \in Workers, proc[w].pc \in {"create", "case"}
    PROVE  /\ Slot(proc[w], proc[w].at) = <<CaseOf(w).case, ModeOf(w)>>
           /\ CaseOf(w) \in Snapshot /\ CaseOf(w).case \in Cases /\ ModeOf(w) \in Modes
           /\ proc[w].att \in Nat \ {0} /\ proc[w].att \in 1..attempts
           /\ proc[w].at \in Nat /\ proc[w].at < Total(proc[w])
           /\ proc[w] \in Work /\ Ordered(proc[w])
  <1>1. proc[w] \in Work /\ Ordered(proc[w]) /\ proc[w].at < Total(proc[w]) /\ Busy(w)
    BY DEF AttemptsInv, RunType, PlanOf, Busy
  <1>2. proc[w].at \in Nat /\ proc[w].att \in 1..attempts /\ attempts \in Nat
    BY <1>1 DEF Work, AttemptsInv, PlanOf, RunType
  <1>3. 1 + (proc[w].at \div Width) \in 1..Len(proc[w].cases)
    BY <1>1, <1>2, Slots
  <1>4. CaseOf(w) \in Snapshot
    BY <1>1, <1>3 DEF CaseOf, Work, Width
  <1>5. Slot(proc[w], proc[w].at) = <<CaseOf(w).case, ModeOf(w)>>
    BY DEF Slot, CaseOf, ModeOf, Width
  <1>6. ModeOf(w) \in Modes
    BY <1>1, <1>2, <1>5, Slots
  <1> QED
    BY <1>1, <1>2, <1>4, <1>5, <1>6 DEF Snapshot

LEMMA CreateAttempts ==
    ASSUME AttemptsInv, NEW w \in Workers, UNCHANGED OutsideRun, proc[w].pc = "create",
           CreateItem(w)
    PROVE  /\ AttemptsInv'
           /\ \E i : /\ items' = items \cup {i} /\ i \notin items /\ i.att = proc[w].att
                     /\ i.status = "running" /\ i.outcome = "none"
                     /\ Slot(proc[w], proc[w].at) = <<i.case, i.mode>>
  <1> DEFINE i == [att |-> proc[w].att, case |-> CaseOf(w).case, mode |-> ModeOf(w),
                   status |-> "running", outcome |-> "none", judged |-> FALSE,
                   review |-> "none", hit |-> FALSE, of |-> CaseOf(w)]
  <1>1. items' = items \cup {i} /\ UNCHANGED <<run, cache>> /\ At(w, "case")
    BY DEF CreateItem
  <1>2. /\ i \in Item /\ i.att = proc[w].att /\ Untouched(i) /\ i.att \in 1..attempts
        /\ i.status = "running" /\ i.outcome = "none"
        /\ Slot(proc[w], proc[w].at) = <<i.case, i.mode>> /\ ~i.judged /\ i.review = "none" /\ ~i.hit
    <2>1. /\ CaseOf(w) \in Snapshot /\ CaseOf(w).case \in Cases /\ ModeOf(w) \in Modes
          /\ proc[w].att \in Nat /\ proc[w].att \in 1..attempts
          /\ Slot(proc[w], proc[w].at) = <<CaseOf(w).case, ModeOf(w)>>
      BY Here
    <2>2. i \in Item
      BY <2>1 DEF Item, Outcome
    <2> QED
      BY <2>1, <2>2 DEF Untouched
  <1> HIDE DEF i
  <1>3. /\ proc' \in [Workers -> Work]
        /\ \A u \in Workers \ {w} : proc'[u] = proc[u]
        /\ proc'[w].att = proc[w].att /\ proc'[w].at = proc[w].at /\ proc'[w].ok = proc[w].ok
        /\ proc'[w].cases = proc[w].cases /\ proc'[w].pc = "case"
    BY <1>1, Moves DEF AttemptsInv
  <1>4. UNCHANGED <<attempts, text, listed, creating, expected, overlapped>>
    BY DEF OutsideRun, sourceVars
  <1>5. RunType'
    <2>1. IsFiniteSet(items')
      BY <1>1, FS_AddElement DEF AttemptsInv, RunType
    <2> QED
      BY <1>1, <1>2, <1>3, <1>4, <2>1 DEF AttemptsInv, RunType
  <1>6. \A j \in items : j.att = proc[w].att => <<j.case, j.mode>> # <<i.case, i.mode>>
    <2> SUFFICES ASSUME NEW j \in items, j.att = proc[w].att PROVE <<j.case, j.mode>> # <<i.case, i.mode>>
      OBVIOUS
    <2>1. PICK n \in Nat : IsAt(w, n, j) /\ n < proc[w].at
      BY DEF AttemptsInv, PlaceOf, Engaged
    <2> QED
      BY <1>2, <2>1, Here, Slots DEF IsAt
  <1>7. ItemFacts' /\ CacheFacts'
    BY <1>1, <1>2, <1>4, <1>6 DEF AttemptsInv, ItemFacts, CacheFacts
  <1>8. /\ \A u \in Workers \ {w} : PlanOf(u)' /\ PlaceOf(u)' /\ CacheOf(u)'
        /\ Busy(w)' => \A u \in Workers : Busy(u)' /\ proc'[u].att = proc'[w].att => u = w
    <2>0. Busy(w) /\ proc'[w].att = proc[w].att /\ attempts' = attempts
      BY <1>3, <1>4 DEF Busy
    <2>1. /\ \A j \in items' : j \in items \/ (Busy(w) /\ j.att = proc[w].att)
          /\ \A key \in cache' : \/ key \in cache \/ key[1][1] = 0
                                 \/ Busy(w) /\ key[1][1] = proc[w].att
      BY <1>1, <1>2, <2>0
    <2>2. /\ Busy(w)' => (Busy(w) /\ proc'[w].att = proc[w].att) \/ proc'[w].att = attempts + 1
          /\ attempts' \in {attempts, attempts + 1}
      BY <2>0
    <2> QED
      BY <1>3, <2>1, <2>2, OthersKeep, Zenon
  <1>9. PlanOf(w)'
    BY <1>3, <1>4, <1>8, Here DEF PlanOf, Ordered, Total, Busy
  <1>10. \A n : Slot(proc[w], n)' = Slot(proc[w], n) /\ Total(proc[w])' = Total(proc[w])
    BY <1>3 DEF Slot, Total
  <1>11. PlaceOf(w)'
    <2> SUFFICES ASSUME NEW j \in items', j.att = proc[w].att
                 PROVE  \E n \in Nat : /\ IsAt(w, n, j)'
                                       /\ n < proc[w].at \/ (n = proc[w].at /\ Untouched(j))
      BY <1>3 DEF PlaceOf
    <2>1. CASE j = i
      BY <1>2, <1>10, <2>1, Here DEF IsAt
    <2>2. CASE j \in items
      <3>1. PICK n \in Nat : IsAt(w, n, j) /\ n < proc[w].at
        BY <2>2 DEF AttemptsInv, PlaceOf, Engaged
      <3>2. IsAt(w, n, j)'
        BY <1>10, <3>1 DEF IsAt
      <3> QED
        BY <3>1, <3>2
    <2> QED
      BY <1>1, <2>1, <2>2
  <1>12. CacheOf(w)'
    BY <1>1, <1>3, <1>10 DEF AttemptsInv, CacheOf, Engaged
  <1>13. i \notin items
    BY <1>2, <1>6
  <1> QED
    BY <1>1, <1>2, <1>5, <1>7, <1>8, <1>9, <1>11, <1>12, <1>13 DEF AttemptsInv

LEMMA StepsOn ==
    ASSUME AttemptsInv, NEW w \in Workers, proc[w].pc = "case", NEW k \in {0, 1}, StepOn(w, k)
    PROVE  /\ proc' \in [Workers -> Work]
           /\ \A u \in Workers \ {w} : proc'[u] = proc[u]
           /\ proc'[w].att = proc[w].att /\ proc'[w].at = proc[w].at + 1
           /\ proc'[w].ok = proc[w].ok + k /\ proc'[w].cases = proc[w].cases
           /\ \/ proc'[w].pc = "create" /\ proc[w].at + 1 < Total(proc[w])
              \/ proc'[w].pc = "finish" /\ proc[w].at + 1 = Total(proc[w])
  <1>1. /\ proc[w] \in Work /\ proc \in [Workers -> Work]
        /\ proc[w].at \in Nat /\ proc[w].at < Total(proc[w]) /\ Total(proc[w]) \in Nat
    BY Here, Slots DEF AttemptsInv, RunType
  <1> PICK pc : pc = IF proc[w].at + 1 = Len(proc[w].cases) * Len(TargetModes)
                     THEN "finish" ELSE "create"
    OBVIOUS
  <1> PICK at \in Nat, ok \in Nat : at = proc[w].at + 1 /\ ok = proc[w].ok + k
    BY <1>1 DEF Work
  <1>2. proc' = [proc EXCEPT ![w] = [proc[w] EXCEPT !.at = at, !.ok = ok, !.pc = pc]]
    <2>1. proc' = [proc EXCEPT ![w].at = @ + 1, ![w].ok = @ + k, ![w].pc = pc]
      BY DEF StepOn
    <2> QED
      BY <1>1, <2>1
  <1>3. \/ pc = "create" /\ proc[w].at + 1 < Total(proc[w])
        \/ pc = "finish" /\ proc[w].at + 1 = Total(proc[w])
    BY <1>1 DEF Total, Width
  <1> QED
    BY <1>1, <1>2, <1>3 DEF Work

\* What the pipeline does to the row of the slot and to the cache.
LEMMA RunCaseKinds ==
    ASSUME AttemptsInv, NEW w \in Workers, proc[w].pc = "case", RunCase(w)
    PROVE  /\ cache \subseteq cache' /\ cache' \subseteq cache \cup Cached(w) /\ run' = run
           /\ \/ At(w, "fail") /\ items' = items
              \/ \E status \in {"succeeded", "failed"}, outcome \in Outcome,
                    judged \in BOOLEAN, hit \in BOOLEAN :
                   /\ FinishItem(w, status, outcome, judged, hit)
                   /\ StepOn(w, IF status = "succeeded" THEN 1 ELSE 0)
                   /\ judged => outcome \in Applicable
                   /\ hit => Cached(w) \cap cache # {}
  <1>1. CASE \E outcome \in OutcomesOf[CaseOf(w).case] :
               \E judged \in Judgments(outcome) :
                 LET status == IF outcome \in Applicable THEN "succeeded" ELSE "failed"
                     hit    == Cached(w) \cap cache # {}
                     kept == IF outcome = "retrieval_error" THEN {} ELSE Cached(w)
                 IN  /\ cache' = cache \cup kept
                     /\ IF ItemOf(w) = {} THEN At(w, "fail") /\ UNCHANGED items
                        ELSE /\ FinishItem(w, status, outcome, judged, hit)
                             /\ StepOn(w, IF status = "succeeded" THEN 1 ELSE 0)
                     /\ UNCHANGED <<run, faults>>
    <2> PICK outcome \in OutcomesOf[CaseOf(w).case] :
          \E judged \in Judgments(outcome) :
            LET status == IF outcome \in Applicable THEN "succeeded" ELSE "failed"
                hit    == Cached(w) \cap cache # {}
                kept == IF outcome = "retrieval_error" THEN {} ELSE Cached(w)
            IN  /\ cache' = cache \cup kept
                /\ IF ItemOf(w) = {} THEN At(w, "fail") /\ UNCHANGED items
                   ELSE /\ FinishItem(w, status, outcome, judged, hit)
                        /\ StepOn(w, IF status = "succeeded" THEN 1 ELSE 0)
                /\ UNCHANGED <<run, faults>>
      BY <1>1
    <2> PICK judged \in Judgments(outcome) :
            LET status == IF outcome \in Applicable THEN "succeeded" ELSE "failed"
                hit    == Cached(w) \cap cache # {}
                kept == IF outcome = "retrieval_error" THEN {} ELSE Cached(w)
            IN  /\ cache' = cache \cup kept
                /\ IF ItemOf(w) = {} THEN At(w, "fail") /\ UNCHANGED items
                   ELSE /\ FinishItem(w, status, outcome, judged, hit)
                        /\ StepOn(w, IF status = "succeeded" THEN 1 ELSE 0)
                /\ UNCHANGED <<run, faults>>
      OBVIOUS
    <2> PICK status, hit, kept :
          /\ status = IF outcome \in Applicable THEN "succeeded" ELSE "failed"
          /\ hit = (Cached(w) \cap cache # {})
          /\ kept = IF outcome = "retrieval_error" THEN {} ELSE Cached(w)
      OBVIOUS
    <2>0. /\ cache' = cache \cup kept /\ run' = run
          /\ IF ItemOf(w) = {} THEN At(w, "fail") /\ items' = items
             ELSE /\ FinishItem(w, status, outcome, judged, hit)
                  /\ StepOn(w, IF status = "succeeded" THEN 1 ELSE 0)
      OBVIOUS
    <2>1. /\ status \in {"succeeded", "failed"} /\ hit \in BOOLEAN /\ kept \subseteq Cached(w)
          /\ judged \in BOOLEAN /\ (judged => outcome \in Applicable)
      BY DEF Judgments
    <2>2. outcome \in Outcome
      BY Here DEF Outcome
    <2> QED
      BY <2>0, <2>1, <2>2
  <1>2. CASE StoreCaseFailure(w) /\ UNCHANGED <<run, cache>>
    <2>1. "retrieval_error" \in Outcome
      BY DEF Outcome
    <2>2. /\ FinishItem(w, "failed", "retrieval_error", FALSE, FALSE)
          /\ StepOn(w, IF "failed" = "succeeded" THEN 1 ELSE 0)
      BY <1>2 DEF StoreCaseFailure
    <2> QED
      BY <1>2, <2>1, <2>2
  <1>3. CASE At(w, "fail") /\ UNCHANGED <<run, items, cache>>
    BY <1>3
  <1> QED
    BY <1>1, <1>2, <1>3 DEF RunCase

\* The entry a slot uses, and that a cold slot has none.
LEMMA Entries ==
    ASSUME AttemptsInv, NEW w \in Workers, proc[w].pc = "case"
    PROVE  /\ \A key \in Cached(w) :
                \/ key[1][1] = 0
                \/ /\ key[1][1] = proc[w].att /\ key[1][2] = CaseOf(w).case
                   /\ ModeOf(w) \in {"cold", "warm"}
           /\ ModeOf(w) = "cold" => Cached(w) \cap cache = {}
  <1>1. Cached(w) \subseteq {CacheKey(w)}
    BY DEF Cached
  <1>2. /\ ModeOf(w) \notin {"cold", "warm"} => CacheKey(w)[1][1] = 0
        /\ ModeOf(w) \in {"cold", "warm"} =>
             CacheKey(w)[1][1] = proc[w].att /\ CacheKey(w)[1][2] = CaseOf(w).case
    BY DEF CacheKey, Namespace
  <1>3. ASSUME ModeOf(w) = "cold", CacheKey(w) \in cache PROVE FALSE
    <2>1. CacheKey(w)[1][1] = proc[w].att /\ CacheKey(w)[1][2] = CaseOf(w).case
      BY <1>2, <1>3
    <2>2. PICK n \in Nat : /\ n < proc[w].at /\ n < Total(proc[w])
                           /\ Slot(proc[w], n)[1] = CaseOf(w).case
                           /\ Slot(proc[w], n)[2] \in {"cold", "warm"}
      BY <1>3, <2>1 DEF AttemptsInv, CacheOf, Engaged
    <2>3. /\ Slot(proc[w], proc[w].at)[1] = CaseOf(w).case
          /\ Slot(proc[w], proc[w].at)[2] = "cold"
      BY <1>3, Here
    <2> QED
      BY <2>2, <2>3, Here, Slots
  <1> QED
    BY <1>1, <1>2, <1>3

\* The row of the slot is as it was created.
LEMMA RowsOfSlot ==
    ASSUME AttemptsInv, NEW w \in Workers, proc[w].pc = "case"
    PROVE  \A i \in ItemOf(w) : Untouched(i) /\ IsAt(w, proc[w].at, i) /\ i.att = proc[w].att
  <1> SUFFICES ASSUME NEW i \in ItemOf(w)
               PROVE  Untouched(i) /\ IsAt(w, proc[w].at, i) /\ i.att = proc[w].att
    OBVIOUS
  <1>1. i \in items /\ i.att = proc[w].att /\ i.case = CaseOf(w).case /\ i.mode = ModeOf(w)
    BY DEF ItemOf
  <1>2. PICK n \in Nat : IsAt(w, n, i) /\ (n < proc[w].at \/ Untouched(i))
    BY <1>1 DEF AttemptsInv, PlaceOf, Engaged
  <1>3. Slot(proc[w], proc[w].at) = <<i.case, i.mode>> /\ proc[w].at < Total(proc[w])
    BY <1>1, Here
  <1>4. n = proc[w].at
    BY <1>2, <1>3, Here, Slots DEF IsAt
  <1> QED
    BY <1>1, <1>2, <1>3, <1>4, Here DEF IsAt

\* A step on the row of its slot.
LEMMA FinishAttempts ==
    ASSUME AttemptsInv, NEW w \in Workers, UNCHANGED OutsideRun, proc[w].pc = "case",
           run' = run, cache' \subseteq cache \cup Cached(w),
           NEW status \in {"succeeded", "failed"}, NEW outcome \in Outcome,
           NEW judged \in BOOLEAN, NEW hit \in BOOLEAN, NEW f,
           Reshapes(f), Finished(f, w, status, outcome, judged, hit),
           StepOn(w, IF status = "succeeded" THEN 1 ELSE 0),
           judged => outcome \in Applicable, hit => Cached(w) \cap cache # {}
    PROVE  AttemptsInv'
  <1> PICK k \in {0, 1} : k = IF status = "succeeded" THEN 1 ELSE 0
    OBVIOUS
  <1>1. /\ proc' \in [Workers -> Work]
        /\ \A u \in Workers \ {w} : proc'[u] = proc[u]
        /\ proc'[w].att = proc[w].att /\ proc'[w].at = proc[w].at + 1
        /\ proc'[w].cases = proc[w].cases
        /\ \/ proc'[w].pc = "create" /\ proc[w].at + 1 < Total(proc[w])
           \/ proc'[w].pc = "finish" /\ proc[w].at + 1 = Total(proc[w])
    BY StepsOn
  <1>2. UNCHANGED <<attempts, text, listed, creating, expected, overlapped>>
    BY DEF OutsideRun, sourceVars
  <1>3. /\ items' \subseteq Item /\ IsFiniteSet(items')
        /\ \A i, j \in items' : i.att = j.att /\ i.case = j.case /\ i.mode = j.mode => i = j
    BY Reshaped DEF AttemptsInv
  <1>4. RunType'
    BY <1>1, <1>2, <1>3 DEF AttemptsInv, RunType
  <1>5. \A j \in items' : \E i \in items :
          /\ j = f[i] /\ j.att = i.att /\ j.case = i.case /\ j.mode = i.mode
          /\ i \notin ItemOf(w) => j = i
          /\ i \in ItemOf(w) =>
               /\ j.outcome = outcome /\ j.judged = judged /\ j.hit = hit /\ j.review = "none"
               /\ j.mode = ModeOf(w) /\ j.att = proc[w].att
    <2> SUFFICES ASSUME NEW i \in items
                 PROVE  /\ f[i].att = i.att /\ f[i].case = i.case /\ f[i].mode = i.mode
                        /\ i \notin ItemOf(w) => f[i] = i
                        /\ i \in ItemOf(w) =>
                             /\ f[i].outcome = outcome /\ f[i].judged = judged /\ f[i].hit = hit
                             /\ f[i].review = "none"
                             /\ f[i].mode = ModeOf(w) /\ f[i].att = proc[w].att
      BY DEF Reshapes
    <2>1. f[i].att = i.att /\ f[i].case = i.case /\ f[i].mode = i.mode
      BY DEF Reshapes
    <2>2. i \in ItemOf(w) => i.review = "none" /\ i.mode = ModeOf(w) /\ i.att = proc[w].att
      BY RowsOfSlot DEF ItemOf, Untouched
    <2> QED
      BY <2>1, <2>2 DEF Finished
  <1>6. ItemFacts'
    <2>1. ASSUME NEW j \in items'
          PROVE  /\ j.att \in 1..attempts /\ (j.judged => j.outcome \in Applicable)
                 /\ (j.review # "none" => j.judged) /\ (j.mode = "cold" => ~j.hit)
      <3>1. PICK i \in items :
              /\ j = f[i] /\ j.att = i.att /\ j.case = i.case /\ j.mode = i.mode
              /\ i \notin ItemOf(w) => j = i
              /\ i \in ItemOf(w) =>
                   /\ j.outcome = outcome /\ j.judged = judged /\ j.hit = hit /\ j.review = "none"
                   /\ j.mode = ModeOf(w) /\ j.att = proc[w].att
        BY <1>5
      <3>2. CASE i \notin ItemOf(w)
        BY <3>1, <3>2 DEF AttemptsInv, ItemFacts
      <3>3. CASE i \in ItemOf(w)
        BY <3>1, <3>3, Entries, Here
      <3> QED
        BY <3>2, <3>3
    <2> QED
      BY <1>2, <1>3, <2>1 DEF ItemFacts
  <1>7. \A key \in cache' :
          \/ key \in cache
          \/ key[1][1] = 0
          \/ /\ key[1][1] = proc[w].att /\ key[1][2] = CaseOf(w).case
             /\ ModeOf(w) \in {"cold", "warm"}
    BY Entries
  <1>8. CacheFacts'
    BY <1>2, <1>7, Here DEF AttemptsInv, CacheFacts, RunType
  <1>9. /\ \A u \in Workers \ {w} : PlanOf(u)' /\ PlaceOf(u)' /\ CacheOf(u)'
        /\ Busy(w)' => \A u \in Workers : Busy(u)' /\ proc'[u].att = proc'[w].att => u = w
    <2>0. Busy(w) /\ proc'[w].att = proc[w].att /\ attempts' = attempts
      BY <1>1, <1>2 DEF Busy
    <2>1. \A j \in items' : j \in items \/ (Busy(w) /\ j.att = proc[w].att)
      BY <1>5, <2>0
    <2>2. \A key \in cache' : \/ key \in cache \/ key[1][1] = 0
                              \/ Busy(w) /\ key[1][1] = proc[w].att
      BY <1>7, <2>0
    <2>3. /\ Busy(w)' => (Busy(w) /\ proc'[w].att = proc[w].att) \/ proc'[w].att = attempts + 1
          /\ attempts' \in {attempts, attempts + 1}
      BY <2>0
    <2> QED
      BY <1>1, <2>1, <2>2, <2>3, OthersKeep, Zenon
  <1>10. \A n : Slot(proc[w], n)' = Slot(proc[w], n) /\ Total(proc[w])' = Total(proc[w])
    BY <1>1 DEF Slot, Total
  <1>11. PlanOf(w)'
    BY <1>1, <1>2, <1>9, <1>10, Here DEF PlanOf, Ordered, Busy
  <1>12. PlaceOf(w)'
    <2> SUFFICES ASSUME NEW j \in items', j.att = proc[w].att
                 PROVE  \E n \in Nat : IsAt(w, n, j)' /\ n < proc[w].at + 1
      BY <1>1 DEF PlaceOf
    <2>1. PICK i \in items : i.att = proc[w].att /\ i.case = j.case /\ i.mode = j.mode
      BY <1>5
    <2>2. PICK n \in Nat : IsAt(w, n, i) /\ (n < proc[w].at \/ n = proc[w].at)
      BY <2>1 DEF AttemptsInv, PlaceOf, Engaged
    <2>3. IsAt(w, n, j)'
      BY <1>10, <2>1, <2>2 DEF IsAt
    <2> QED
      BY <2>2, <2>3, Here
  <1>13. CacheOf(w)'
    <2> SUFFICES ASSUME NEW key \in cache', key[1][1] = proc[w].att
                 PROVE  \E n \in Nat : /\ n < proc[w].at + 1 /\ n < Total(proc[w])
                                       /\ Slot(proc[w], n)[1] = key[1][2]
                                       /\ Slot(proc[w], n)[2] \in {"cold", "warm"}
      BY <1>1, <1>10 DEF CacheOf
    <2>1. CASE key \in cache
      <3>1. PICK n \in Nat : /\ n < proc[w].at /\ n < Total(proc[w])
                             /\ Slot(proc[w], n)[1] = key[1][2]
                             /\ Slot(proc[w], n)[2] \in {"cold", "warm"}
        BY <2>1 DEF AttemptsInv, CacheOf, Engaged
      <3> QED
        BY <3>1, Here
    <2>2. CASE key \notin cache
      <3>1. key[1][2] = CaseOf(w).case /\ ModeOf(w) \in {"cold", "warm"}
        BY <1>7, <2>2, Here
      <3>2. Slot(proc[w], proc[w].at) = <<CaseOf(w).case, ModeOf(w)>>
        BY Here
      <3>3. /\ Slot(proc[w], proc[w].at)[1] = key[1][2]
            /\ Slot(proc[w], proc[w].at)[2] \in {"cold", "warm"}
        BY <3>1, <3>2
      <3> QED
        BY <3>3, Here
    <2> QED
      BY <2>1, <2>2
  <1> QED
    BY <1>4, <1>6, <1>8, <1>9, <1>11, <1>12, <1>13 DEF AttemptsInv

LEMMA RunCaseAttempts ==
    ASSUME AttemptsInv, NEW w \in Workers, UNCHANGED OutsideRun, proc[w].pc = "case", RunCase(w)
    PROVE  AttemptsInv'
  <1>1. /\ cache' \subseteq cache \cup Cached(w) /\ run' = run
    BY RunCaseKinds
  <1>2. CASE At(w, "fail") /\ items' = items
    <2>1. /\ proc' \in [Workers -> Work]
          /\ \A u \in Workers \ {w} : proc'[u] = proc[u]
          /\ proc'[w].att = proc[w].att /\ proc'[w].at = proc[w].at /\ proc'[w].ok = proc[w].ok
          /\ proc'[w].cases = proc[w].cases /\ proc'[w].pc = "fail"
      BY <1>2, Moves DEF AttemptsInv
    <2>2. UNCHANGED <<attempts, text, listed, creating, expected, overlapped>>
      BY DEF OutsideRun, sourceVars
    <2>3. RunType'
      BY <1>1, <1>2, <2>1, <2>2 DEF AttemptsInv, RunType
    <2>4. \A key \in cache' : \/ key \in cache \/ key[1][1] = 0
                              \/ Busy(w) /\ key[1][1] = proc[w].att
      BY <1>1, Entries DEF Busy
    <2>5. ItemFacts' /\ CacheFacts'
      BY <1>2, <2>2, <2>4, Here DEF AttemptsInv, ItemFacts, CacheFacts, RunType
    <2>6. /\ \A u \in Workers \ {w} : PlanOf(u)' /\ PlaceOf(u)' /\ CacheOf(u)'
          /\ Busy(w)' => \A u \in Workers : Busy(u)' /\ proc'[u].att = proc'[w].att => u = w
      <3>1. Busy(w) /\ attempts' \in {attempts, attempts + 1}
        BY <2>2 DEF Busy
      <3>2. \A j \in items' : j \in items \/ (Busy(w) /\ j.att = proc[w].att)
        BY <1>2
      <3>3. Busy(w)' => (Busy(w) /\ proc'[w].att = proc[w].att) \/ proc'[w].att = attempts + 1
        BY <2>1, <3>1
      <3> QED
        BY <2>1, <2>4, <3>1, <3>2, <3>3, OthersKeep, Zenon
    <2>7. PlanOf(w)' /\ PlaceOf(w)' /\ CacheOf(w)'
      BY <2>1, <2>2, <2>6, Here DEF PlanOf, PlaceOf, CacheOf, Ordered, Engaged
    <2> QED
      BY <2>3, <2>5, <2>6, <2>7 DEF AttemptsInv
  <1>3. CASE \E status \in {"succeeded", "failed"}, outcome \in Outcome,
                judged \in BOOLEAN, hit \in BOOLEAN :
               /\ FinishItem(w, status, outcome, judged, hit)
               /\ StepOn(w, IF status = "succeeded" THEN 1 ELSE 0)
               /\ judged => outcome \in Applicable
               /\ hit => Cached(w) \cap cache # {}
    <2>1. PICK status \in {"succeeded", "failed"}, outcome \in Outcome,
               judged \in BOOLEAN, hit \in BOOLEAN :
               /\ FinishItem(w, status, outcome, judged, hit)
               /\ StepOn(w, IF status = "succeeded" THEN 1 ELSE 0)
               /\ judged => outcome \in Applicable
               /\ hit => Cached(w) \cap cache # {}
      BY <1>3
    <2>2. PICK f : Reshapes(f) /\ Finished(f, w, status, outcome, judged, hit)
      BY <2>1, Finishes DEF AttemptsInv
    <2> QED
      BY <1>1, <2>1, <2>2, FinishAttempts
  <1> QED
    BY <1>2, <1>3, RunCaseKinds

LEMMA RunJobAttempts ==
    ASSUME AttemptsInv, NEW w \in Workers, RunJob(w) PROVE AttemptsInv'
  <1>0. UNCHANGED OutsideRun
    BY DEF RunJob
  <1>1. CASE proc[w].pc = "load" /\ LoadCases(w)
    BY <1>0, <1>1, LoadAttempts, MoveAttempts DEF Busy
  <1>2. CASE proc[w].pc = "create" /\ CreateItem(w)
    BY <1>0, <1>2, CreateAttempts
  <1>3. CASE proc[w].pc = "case" /\ RunCase(w)
    BY <1>0, <1>3, RunCaseAttempts
  <1>4. CASE \/ proc[w].pc = "start" /\ RunStart(w)
             \/ proc[w].pc = "fail" /\ FailRun(w)
             \/ proc[w].pc = "finish" /\ FinishRun(w)
             \/ Escape(w)
    <2>1. Busy(w)
      BY <1>4 DEF Busy, Escape
    <2> QED
      BY <1>0, <1>4, <2>1, MoveAttempts
  <1> QED
    BY <1>1, <1>2, <1>3, <1>4 DEF RunJob

\* A review changes a judged row, whose slot its attempt has left.
LEMMA ReviewAttempts ==
    ASSUME AttemptsInv, NEW i \in items, Review(i) PROVE AttemptsInv'
  <1>1. i.judged
    BY DEF Review
  <1>2. PICK f : /\ Reshapes(f)
                 /\ \A j \in items : /\ f[j].status = j.status /\ f[j].outcome = j.outcome
                                     /\ f[j].judged = j.judged /\ f[j].hit = j.hit
                                     /\ f[j].of = j.of
                                     /\ j # i => f[j] = j
                                     /\ [f[j] EXCEPT !.review = "none"] = [j EXCEPT !.review = "none"]
    <2>1. RunType
      BY DEF AttemptsInv
    <2> QED
      BY <2>1, Reviews, Zenon
  <1>3. UNCHANGED <<attempts, proc, cache, run, text, listed, creating, expected, overlapped>>
    BY DEF Review, sourceVars
  <1>4. /\ items' \subseteq Item /\ IsFiniteSet(items')
        /\ \A j, k \in items' : j.att = k.att /\ j.case = k.case /\ j.mode = k.mode => j = k
    BY <1>2, Reshaped DEF AttemptsInv
  <1>5. RunType'
    BY <1>3, <1>4 DEF AttemptsInv, RunType
  <1>6. \A k \in items' : \E j \in items :
          /\ k.att = j.att /\ k.case = j.case /\ k.mode = j.mode
          /\ k.outcome = j.outcome /\ k.judged = j.judged /\ k.hit = j.hit
          /\ ~j.judged => k = j
    <2> SUFFICES ASSUME NEW j \in items
                 PROVE  /\ f[j].att = j.att /\ f[j].case = j.case /\ f[j].mode = j.mode
                        /\ f[j].outcome = j.outcome /\ f[j].judged = j.judged /\ f[j].hit = j.hit
                        /\ ~j.judged => f[j] = j
      BY <1>2 DEF Reshapes
    <2> QED
      BY <1>1, <1>2 DEF Reshapes
  <1>7. ItemFacts'
    BY <1>3, <1>4, <1>6 DEF AttemptsInv, ItemFacts
  <1>8. CacheFacts' /\ \A w \in Workers : PlanOf(w)' /\ CacheOf(w)'
    BY <1>3 DEF AttemptsInv, CacheFacts, PlanOf, CacheOf, Ordered, Total, Slot, Busy, Engaged
  <1>9. ASSUME NEW w \in Workers, Engaged(w), NEW k \in items', k.att = proc[w].att
        PROVE  \E n \in Nat : /\ IsAt(w, n, k)
                              /\ \/ n < proc[w].at
                                 \/ n = proc[w].at /\ proc[w].pc = "case" /\ Untouched(k)
    <2>1. PICK j \in items : /\ k.att = j.att /\ k.case = j.case /\ k.mode = j.mode
                             /\ ~j.judged => k = j
      BY <1>6
    <2>2. PICK n \in Nat : /\ IsAt(w, n, j)
                           /\ \/ n < proc[w].at
                              \/ n = proc[w].at /\ proc[w].pc = "case" /\ Untouched(j)
      BY <1>9, <2>1 DEF AttemptsInv, PlaceOf
    <2>3. IsAt(w, n, k)
      BY <2>1, <2>2 DEF IsAt
    <2> QED
      BY <2>1, <2>2, <2>3 DEF Untouched
  <1>10. \A w \in Workers : PlaceOf(w)'
    BY <1>3, <1>9 DEF PlaceOf, Engaged, IsAt, Untouched, Total, Slot
  <1> QED
    BY <1>5, <1>7, <1>8, <1>10 DEF AttemptsInv

\* The documents a case expects are those of ready sources.
LEMMA ReadinessExpects ==
    ASSUME CorpusType, expected \in [Cases -> SUBSET Docs], NEW ready, Readiness(ready)
    PROVE  expected' \in [Cases -> SUBSET Docs]
  <1>1. \A s \in Sources : SourceReady(s) => source[s].doc \in Docs
    BY DEF SourceReady, Indexed, CorpusType, Source
  <1>2. \A c \in Cases : {source[s].doc : s \in {t \in Evidence[c] : SourceReady(t)}} \subseteq Docs
    BY <1>1, CorpusAssumption
  <1> QED
    BY <1>2 DEF Readiness

LEMMA ReadyOutcome ==
    ASSUME NEW ready \in Outcomes, ready PROVE \A s \in Sources : SourceReady(s)
  BY DEF Outcomes, CorpusReady

\* Everything but the attempts.
LEMMA OtherAttempts ==
    ASSUME CorpusInv, AttemptsInv,
           \/ CorpusStep /\ UNCHANGED runVars
           \/ \E c \in Cases : EditCase(c)
           \/ CheckCorpus \/ CreateRun \/ RetryJob
           \/ \E q \in Promoters : Outside(q)
           \/ UNCHANGED vars
    PROVE  AttemptsInv'
  <1>0. CorpusType /\ expected \in [Cases -> SUBSET Docs] /\ creating \subseteq Docs
    BY DEF CorpusInv, AttemptsInv, RunType
  <1>1. UNCHANGED <<attempts, items, cache, proc, overlapped>>
    BY DEF EditCase, CheckCorpus, CreateRun, RetryJob, Outside, runVars, vars
  <1>2. expected' \in [Cases -> SUBSET Docs]
    <2>1. CASE CorpusStep
      <3>1. CASE \E p \in Preparers : PrepareReadiness(p)
        BY <1>0, <3>1, ReadinessExpects DEF PrepareReadiness
      <3>2. CASE ~\E p \in Preparers : PrepareReadiness(p)
        BY <1>0, <2>1, <3>2
           DEF CorpusStep, Ingest, LoseIngest, RetryIngest, ApproveByUser, ArchiveDocument,
               PrepareStart, PrepareApprove, PrepareCheck, UploadStore, UploadCommit, LinkSource,
               PrepareCrash, sourceVars
      <3> QED
        BY <3>1, <3>2
    <2>2. CASE CheckCorpus
      BY <1>0, <2>2, ReadinessExpects DEF CheckCorpus
    <2>3. CASE UNCHANGED expected
      BY <1>0, <2>3
    <2> QED
      BY <2>1, <2>2, <2>3 DEF EditCase, CreateRun, RetryJob, Outside, vars, corpusVars, sourceVars
  <1>3. creating' \subseteq Docs
    <2>1. CASE CheckCorpus
      <3>1. PICK ready \in Outcomes : creating' = IF ready THEN {source[s].doc : s \in Sources} ELSE {}
        BY <2>1 DEF CheckCorpus
      <3>2. ready => \A s \in Sources : source[s].doc \in Docs
        BY <1>0, <3>1, ReadyOutcome DEF SourceReady, Indexed, CorpusType, Source
      <3> QED
        BY <3>1, <3>2
    <2>2. CASE CreateRun
      BY <2>2 DEF CreateRun
    <2> QED
      BY <1>0, <2>1, <2>2 DEF EditCase, RetryJob, Outside, runVars, vars
  <1>4. /\ text' \in [Cases -> Nat] /\ listed' \subseteq Cases
        /\ run' \in [status : {"none", "queued", "running", "succeeded", "failed"},
                     docs : SUBSET Docs, count : Nat]
    <2>0. /\ text \in [Cases -> Nat] /\ listed \subseteq Cases
          /\ run \in [status : {"none", "queued", "running", "succeeded", "failed"},
                      docs : SUBSET Docs, count : Nat]
      BY DEF AttemptsInv, RunType
    <2>1. CASE \E c \in Cases : EditCase(c)
      <3> PICK c \in Cases : EditCase(c)
        BY <2>1
      <3>1. text' \in [Cases -> Nat]
        BY <2>0 DEF EditCase
      <3> QED
        BY <2>0, <3>1 DEF EditCase
    <2>2. CASE CreateRun
      <3>1. run' = [run EXCEPT !.status = "queued", !.docs = creating] /\ UNCHANGED <<text, listed>>
        BY <2>2 DEF CreateRun
      <3> QED
        BY <1>0, <2>0, <3>1
    <2>3. CASE UNCHANGED <<text, listed, run>>
      BY <2>0, <2>3
    <2> QED
      BY <2>1, <2>2, <2>3 DEF CheckCorpus, RetryJob, Outside, runVars, vars
  <1>5. RunType'
    BY <1>1, <1>2, <1>3, <1>4 DEF AttemptsInv, RunType
  <1> QED
    BY <1>1, <1>5, AttemptsFrame

LEMMA CorpusNext ==
    ASSUME CorpusInv, [Next]_vars PROVE CorpusInv'
  <1>1. CASE CorpusStep
    BY <1>1, CorpusStepInv
  <1>2. CASE CheckCorpus
    <2>1. UNCHANGED <<docVars, prep>>
      BY <1>2 DEF CheckCorpus
    <2>2. source' \in [Sources -> Source] /\ SameLinks
      BY <1>2, ReadinessKeeps DEF CheckCorpus, CorpusInv
    <2>3. Keeps
      BY <2>1, <2>2 DEF Keeps, CorpusInv, CorpusType, RowsInv, docVars
    <2> QED
      BY <2>1, <2>2, <2>3, KeepsInv
  <1>3. CASE UNCHANGED <<docVars, sourceVars, prep>>
    <2>1. Keeps /\ SameLinks /\ prep' = prep
      BY <1>3 DEF Keeps, SameLinks, CorpusInv, CorpusType, RowsInv, docVars, sourceVars
    <2> QED
      BY <2>1, KeepsInv
  <1> QED
    BY <1>1, <1>2, <1>3
       DEF Next, vars, corpusVars, EditCase, CreateRun, RetryJob, Acquire, Crash, WorkerStep, Report,
           RunJob, OutsideRun, Review, ReadCandidates, ReadSources, Promote, CommitPromotions, Outside

LEMMA AttemptsNext ==
    ASSUME CorpusInv, AttemptsInv, [Next]_vars PROVE AttemptsInv'
  <1>1. CASE \E w \in Workers : Acquire(w) \/ Crash(w) \/ WorkerStep(w)
    BY <1>1, AcquireAttempts, LeaveAttempts, RunJobAttempts DEF WorkerStep
  <1>2. CASE \E i \in items : Review(i)
    BY <1>2, ReviewAttempts
  <1>3. CASE \/ CorpusStep /\ UNCHANGED runVars
             \/ \E c \in Cases : EditCase(c)
             \/ CheckCorpus \/ CreateRun \/ RetryJob
             \/ \E q \in Promoters : Outside(q)
             \/ UNCHANGED vars
    BY <1>3, OtherAttempts
  <1> QED
    BY <1>1, <1>2, <1>3 DEF Next, ReadCandidates, ReadSources, Promote, CommitPromotions

-----------------------------------------------------------------------------
(* Quality.                                                                  *)

\* Reviews are of judged items, judged items are applicable, and both are as
\* many as the applicable ones: then they are all of them.
LEMMA QualityCounts ==
    ASSUME RunType, ItemFacts PROVE PassedMeansReviewed
  <1> DEFINE A == {i \in items : i.outcome \in Applicable}
             J == {i \in items : i.judged}
             R == {i \in items : i.review # "none"}
  <1>1. SUFFICES ASSUME QualityStatus = "passed"
                 PROVE  \A i \in items : i.outcome \in Applicable => i.judged /\ i.review = "pass"
    BY DEF PassedMeansReviewed
  <1>2. R \subseteq J /\ J \subseteq A /\ IsFiniteSet(A) /\ IsFiniteSet(J) /\ IsFiniteSet(R)
    <2>1. R \subseteq J /\ J \subseteq A
      BY DEF ItemFacts
    <2>2. A \subseteq items /\ J \subseteq items /\ R \subseteq items /\ IsFiniteSet(items)
      BY DEF RunType
    <2> QED
      BY <2>1, <2>2, FS_Subset
  <1>3. /\ ~(Cardinality(J) < Cardinality(A)) /\ ~(Cardinality(R) < Cardinality(A))
        /\ \A i \in R : i.review = "pass"
    <2>1. \/ run.status \in {"none", "queued", "running"}
          \/ run.status \in {"succeeded", "failed"}
      BY DEF RunType
    <2>2. CASE run.status \in {"none", "queued", "running"}
      BY <1>1, <2>2 DEF QualityStatus
    <2>3. CASE run.status \in {"succeeded", "failed"}
      BY <1>1, <2>3 DEF QualityStatus
    <2> QED
      BY <2>1, <2>2, <2>3
  <1>4. Cardinality(A) \in Nat /\ Cardinality(J) \in Nat /\ Cardinality(R) \in Nat
    BY <1>2, FS_CardinalityType
  <1>5. Cardinality(J) <= Cardinality(A) /\ Cardinality(R) <= Cardinality(A)
    BY <1>2, FS_Subset
  <1>6. J = A /\ R = A
    <2>1. Cardinality(J) = Cardinality(A) /\ Cardinality(R) = Cardinality(A)
      BY <1>3, <1>4, <1>5
    <2>2. R \subseteq A
      BY <1>2
    <2> HIDE DEF A, J, R
    <2> QED
      BY <1>2, <2>1, <2>2, FS_Subset
  <1> QED
    BY <1>3, <1>6 DEF RunType, Item

-----------------------------------------------------------------------------
(* Admission.                                                                *)

\* A worker is busy for a job, and a job is of a run.
LEMMA RunJobKeeps ==
    ASSUME RunType, JobInv, NEW w \in Workers, RunJob(w)
    PROVE  /\ run'.docs = run.docs /\ run.status # "none" /\ run'.status # "none"
           /\ \A u \in Workers \ {w} : proc'[u] = proc[u]
           /\ UNCHANGED <<job, holder, creating, everActive, overlapped>>
  <1>0. UNCHANGED OutsideRun
    BY DEF RunJob
  <1>1. proc[w].pc # "idle"
    BY DEF RunJob, Escape
  <1>2. run.status # "none"
    BY <1>1 DEF JobInv, Busy
  <1>3. \/ run' = run
        \/ \E status \in {"running", "succeeded", "failed"} :
             \/ RunStatus(status)
             \/ run' = [run EXCEPT !.status = status,
                                   !.count = Len(proc[w].cases) * Len(TargetModes)]
    BY DEF RunJob, RunStart, LoadCases, CreateItem, RunCase, StoreCaseFailure, FailRun, FinishRun,
           Escape
  <1>4. run'.docs = run.docs /\ run'.status # "none"
    BY <1>2, <1>3 DEF RunStatus, RunType
  <1>5. \A u \in Workers \ {w} : proc'[u] = proc[u]
    BY DEF RunType, RunJob, RunStart, LoadCases, CreateItem, RunCase, StoreCaseFailure, FailRun, FinishRun,
           Escape, At, StepOn
  <1> QED
    BY <1>0, <1>2, <1>4, <1>5 DEF OutsideRun, docVars

LEMMA JobNext ==
    ASSUME RunType, JobInv, [Next]_vars PROVE JobInv'
  <1>1. CASE \E w \in Workers : RunJob(w)
    BY <1>1, RunJobKeeps DEF JobInv, Busy
  <1>2. CASE \E w \in Workers : Acquire(w)
    BY <1>2 DEF JobInv, Busy, Acquire
  <1>3. CASE \E w \in Workers : Report(w) \/ Crash(w)
    <2> PICK w \in Workers : Report(w) \/ Crash(w)
      BY <1>3
    <2>1. /\ run' = run /\ Busy(w) /\ job' # "none" /\ job # "none"
          /\ proc' = [proc EXCEPT ![w] = Unplanned]
      BY DEF JobInv, Busy, Report, Crash
    <2>2. \A u \in Workers : Busy(u)' => Busy(u)
      BY <2>1 DEF Busy, RunType, Unplanned
    <2> QED
      BY <2>1, <2>2 DEF JobInv
  <1>4. CASE CreateRun
    BY <1>4 DEF CreateRun, JobInv, Busy, RunType
  <1>5. CASE RetryJob
    BY <1>5 DEF RetryJob, JobInv, Busy
  <1>6. CASE UNCHANGED <<run, job, proc>>
    BY <1>6 DEF JobInv, Busy
  <1> QED
    BY <1>1, <1>2, <1>3, <1>4, <1>5, <1>6
       DEF Next, WorkerStep, EditCase, CheckCorpus, Review, ReadCandidates, ReadSources, Promote,
           CommitPromotions, Outside, runVars, vars

LEMMA EverActiveGrows ==
    ASSUME [Next]_vars PROVE everActive \subseteq everActive'
  <1>1. CASE CorpusStep
    BY <1>1 DEF CorpusStep, Ingest, LoseIngest, RetryIngest, ApproveByUser, ArchiveDocument, Activate,
               PrepareStart, PrepareApprove, PrepareCheck, UploadStore, UploadCommit, LinkSource,
               PrepareCrash, PrepareReadiness, docVars
  <1>2. CASE everActive' = everActive
    BY <1>2
  <1> QED
    BY <1>1, <1>2
       DEF Next, vars, corpusVars, docVars, EditCase, CheckCorpus, CreateRun, RetryJob, Acquire, Crash,
           WorkerStep, Report, RunJob, OutsideRun, Review, ReadCandidates, ReadSources, Promote,
           CommitPromotions, Outside

\* The documents of ready sources are as many as the sources.
LEMMA OneDocumentEach ==
    ASSUME CorpusInv, \A s \in Sources : SourceReady(s)
    PROVE  /\ {source[s].doc : s \in Sources} \subseteq everActive
           /\ Cardinality({source[s].doc : s \in Sources}) = Cardinality(Sources)
  <1> DEFINE D == {source[s].doc : s \in Sources}
             f == [s \in Sources |-> source[s].doc]
  <1>1. \A s \in Sources : source[s].doc # 0 /\ source[s].doc \in active
    BY DEF SourceReady, Indexed
  <1>2. \A s, t \in Sources : f[s] = f[t] => s = t
    BY <1>1 DEF CorpusInv, LinksInv
  <1>3. f \in [Sources -> D] /\ \A d \in D : \E s \in Sources : f[s] = d
    OBVIOUS
  <1> HIDE DEF f, D
  <1>4. f \in Bijection(Sources, D)
    BY <1>2, <1>3 DEF Bijection, Injection, Surjection, IsInjective
  <1>5. Cardinality(D) = Cardinality(Sources)
    <2>1. ExistsBijection(Sources, D)
      BY <1>4 DEF ExistsBijection
    <2> QED
      BY <2>1, SourceNumbers, FS_Bijection
  <1>6. D \subseteq everActive
    BY <1>1 DEF D, CorpusInv
  <1> QED
    BY <1>5, <1>6 DEF D

LEMMA AdmissionNext ==
    ASSUME CorpusInv, RunType, JobInv, AdmissionInv, [Next]_vars PROVE AdmissionInv'
  <1>0. everActive \subseteq everActive'
    BY EverActiveGrows
  <1>1. CASE CheckCorpus
    <2>1. PICK ready \in Outcomes : creating' = IF ready THEN {source[s].doc : s \in Sources} ELSE {}
      BY <1>1 DEF CheckCorpus
    <2>2. run' = run /\ everActive' = everActive
      BY <1>1 DEF CheckCorpus, docVars
    <2>3. /\ creating' \subseteq everActive
          /\ creating' # {} => Cardinality(creating') = Cardinality(Sources)
      BY <2>1, ReadyOutcome, OneDocumentEach
    <2> QED
      BY <2>2, <2>3 DEF AdmissionInv, AdmittedWereActive
  <1>2. CASE CreateRun
    <2>1. run'.docs = creating /\ creating # {} /\ creating' = {}
      BY <1>2 DEF CreateRun, RunType
    <2> QED
      BY <1>0, <2>1 DEF AdmissionInv, AdmittedWereActive
  <1>3. CASE \E w \in Workers : RunJob(w)
    BY <1>0, <1>3, RunJobKeeps DEF AdmissionInv, AdmittedWereActive
  <1>4. CASE UNCHANGED <<run, creating>>
    BY <1>0, <1>4 DEF AdmissionInv, AdmittedWereActive
  <1> QED
    BY <1>1, <1>2, <1>3, <1>4
       DEF Next, WorkerStep, EditCase, RetryJob, Acquire, Crash, Report, Review, ReadCandidates,
           ReadSources, Promote, CommitPromotions, Outside, runVars, vars

-----------------------------------------------------------------------------
(* An attempt that nobody overlaps.                                          *)

LEMMA RunJobAlone ==
    ASSUME RunType, AloneInv, ~overlapped, NEW w \in Workers, RunJob(w)
    PROVE  /\ AloneOf(w) /\ job = "running" /\ holder = w /\ UNCHANGED OutsideRun
           /\ \A u \in Workers \ {w} : proc'[u] = proc[u] /\ proc[u].pc = "idle"
  <1>1. AloneOf(w) /\ UNCHANGED OutsideRun
    BY DEF RunJob, AloneInv
  <1>2. proc[w].pc # "idle"
    BY DEF RunJob, Escape
  <1>3. \A u \in Workers \ {w} : proc'[u] = proc[u]
    BY DEF RunType, RunJob, RunStart, LoadCases, CreateItem, RunCase, StoreCaseFailure, FailRun,
           FinishRun, Escape, At, StepOn
  <1> QED
    BY <1>1, <1>2, <1>3 DEF AloneOf, Busy

\* What AloneOf says of a worker whose control moved to pc.
LEMMA AloneAfter ==
    ASSUME NEW w \in Workers, job' = "running", holder' = w,
           \A u \in Workers \ {w} : proc'[u].pc = "idle",
           proc'[w].pc \in {"load", "create", "case", "fail", "finish"} => run'.status = "running",
           proc'[w].pc = "succeeded" => run'.status = "succeeded",
           proc'[w].pc = "load" => items' = {},
           proc'[w].pc \in {"create", "case", "finish"} => Filled(w)'
    PROVE  \A u \in Workers : AloneOf(u)'
  <1>1. \A u \in Workers : u # w => AloneOf(u)'
    BY DEF AloneOf, Busy
  <1>2. AloneOf(w)'
    BY DEF AloneOf, Busy
  <1> QED
    BY <1>1, <1>2

LEMMA AloneLoads ==
    ASSUME AttemptsInv, NEW w \in Workers, AloneOf(w), proc[w].pc = "load", LoadCases(w)
    PROVE  \/ proc'[w].pc = "failed"
           \/ proc'[w].pc = "create" /\ Filled(w)' /\ run' = run
  <1>1. proc[w] \in Work /\ proc \in [Workers -> Work] /\ proc[w].at = 0 /\ proc[w].ok = 0
    BY DEF AttemptsInv, RunType, PlanOf
  <1>2. CASE listed = {}
    BY <1>1, <1>2 DEF LoadCases, At, Work
  <1>3. CASE listed # {}
    <2>1. PICK x : proc' = [proc EXCEPT ![w].pc = "create", ![w].cases = x]
      BY <1>3 DEF LoadCases
    <2>2. items' = {} /\ run' = run
      BY <1>3 DEF LoadCases, AloneOf
    <2>3. proc'[w].pc = "create" /\ proc'[w].at = 0 /\ proc'[w].ok = 0
      BY <1>1, <2>1 DEF Work
    <2>4. Filled(w)'
      BY <2>2, <2>3 DEF Filled
    <2> QED
      BY <2>2, <2>3, <2>4
  <1> QED
    BY <1>2, <1>3

LEMMA AloneCreates ==
    ASSUME AttemptsInv, NEW w \in Workers, AloneOf(w), UNCHANGED OutsideRun,
           proc[w].pc = "create", CreateItem(w)
    PROVE  proc'[w].pc = "case" /\ Filled(w)' /\ run' = run
  <1>1. /\ proc'[w].att = proc[w].att /\ proc'[w].at = proc[w].at /\ proc'[w].ok = proc[w].ok
        /\ proc'[w].cases = proc[w].cases /\ proc'[w].pc = "case" /\ run' = run
    BY Moves DEF AttemptsInv, CreateItem
  <1>2. PICK i : /\ items' = items \cup {i} /\ i.att = proc[w].att
                 /\ Slot(proc[w], proc[w].at) = <<i.case, i.mode>>
    BY CreateAttempts
  <1>3. Filled(w)
    BY DEF AloneOf
  <1>4. \A n : Slot(proc[w], n)' = Slot(proc[w], n) /\ Total(proc[w])' = Total(proc[w])
    BY <1>1 DEF Slot, Total
  <1>5. IsAt(w, proc[w].at, i)'
    BY <1>1, <1>2, <1>4, Here DEF IsAt
  <1>6. \A n, j : IsAt(w, n, j) => IsAt(w, n, j)'
    BY <1>4 DEF IsAt
  <1>7. Filled(w)'
    <2>1. \A j \in items' : j.att = proc'[w].att
      BY <1>1, <1>2, <1>3 DEF Filled
    <2>2. \A n \in Nat : n < proc[w].at => \E j \in items' : IsAt(w, n, j)'
      BY <1>2, <1>3, <1>6 DEF Filled
    <2>3. \A j \in items' : j.status = "running" => IsAt(w, proc[w].at, j)'
      BY <1>2, <1>3, <1>5 DEF Filled
    <2>4. proc[w].ok > 0 => \E j \in items' : j.status = "succeeded"
      BY <1>2, <1>3 DEF Filled
    <2> QED
      BY <1>1, <1>2, <1>5, <2>1, <2>2, <2>3, <2>4 DEF Filled, IsAt
  <1> QED
    BY <1>1, <1>7

LEMMA AloneFinishes ==
    ASSUME AttemptsInv, NEW w \in Workers, AloneOf(w), proc[w].pc = "case",
           NEW status \in {"succeeded", "failed"}, NEW outcome, NEW judged, NEW hit, NEW f,
           Reshapes(f), Finished(f, w, status, outcome, judged, hit),
           StepOn(w, IF status = "succeeded" THEN 1 ELSE 0)
    PROVE  proc'[w].pc \in {"create", "finish"} /\ Filled(w)'
  <1> PICK k \in {0, 1} : k = IF status = "succeeded" THEN 1 ELSE 0
    OBVIOUS
  <1>1. /\ proc'[w].att = proc[w].att /\ proc'[w].at = proc[w].at + 1
        /\ proc'[w].ok = proc[w].ok + k /\ proc'[w].cases = proc[w].cases
        /\ proc'[w].pc \in {"create", "finish"}
    BY StepsOn
  <1>2. Filled(w)
    BY DEF AloneOf
  <1>3. \A n : Slot(proc[w], n)' = Slot(proc[w], n) /\ Total(proc[w])' = Total(proc[w])
    BY <1>1 DEF Slot, Total
  <1>4. \A n : \A i \in items : IsAt(w, n, i) => f[i] \in items' /\ IsAt(w, n, f[i])'
    BY <1>3 DEF IsAt, Reshapes
  <1>5. \A i \in items : IsAt(w, proc[w].at, i) => i \in ItemOf(w)
    BY <1>2, Here DEF Filled, IsAt, ItemOf
  <1>6. PICK h \in items : IsAt(w, proc[w].at, h)
    BY <1>2 DEF Filled
  <1>7. \A j \in items' : j.att = proc[w].att
    BY <1>2 DEF Filled, Reshapes
  <1>8. \A n \in Nat : n < proc[w].at + 1 => \E j \in items' : IsAt(w, n, j)'
    <2> SUFFICES ASSUME NEW n \in Nat, n < proc[w].at + 1 PROVE \E j \in items' : IsAt(w, n, j)'
      OBVIOUS
    <2>1. n < proc[w].at \/ n = proc[w].at
      BY Here
    <2>2. PICK i \in items : IsAt(w, n, i)
      BY <1>2, <1>6, <2>1 DEF Filled
    <2> QED
      BY <1>4, <2>2
  <1>9. \A j \in items' : j.status # "running"
    <2> SUFFICES ASSUME NEW i \in items PROVE f[i].status # "running"
      BY DEF Reshapes
    <2>1. CASE i \in ItemOf(w)
      BY <2>1 DEF Finished
    <2>2. CASE i \notin ItemOf(w)
      BY <1>2, <1>5, <2>2 DEF Finished, Filled
    <2> QED
      BY <2>1, <2>2
  <1>10. ASSUME proc[w].ok + k > 0 PROVE \E j \in items' : j.status = "succeeded"
    <2>1. CASE k = 1
      <3>1. f[h].status = "succeeded" /\ f[h] \in items'
        BY <1>5, <1>6, <2>1 DEF Finished, Reshapes
      <3> QED
        BY <3>1
    <2>2. CASE k = 0
      <3>1. proc[w].ok > 0
        BY <1>10, <2>2, Here DEF Work
      <3>2. PICK i \in items : i.status = "succeeded"
        BY <1>2, <3>1 DEF Filled
      <3>3. i \notin ItemOf(w)
        BY <3>2, RowsOfSlot DEF Untouched
      <3>4. f[i] = i /\ f[i] \in items'
        BY <3>3 DEF Finished, Reshapes
      <3> QED
        BY <3>2, <3>4
    <2> QED
      BY <2>1, <2>2
  <1>11. Filled(w)'
    BY <1>1, <1>7, <1>8, <1>9, <1>10 DEF Filled
  <1> QED
    BY <1>1, <1>11

LEMMA AloneRunJob ==
    ASSUME AttemptsInv, AloneInv, ~overlapped, NEW w \in Workers, RunJob(w)
    PROVE  \A u \in Workers : AloneOf(u)'
  <1>1. /\ AloneOf(w) /\ job = "running" /\ holder = w /\ UNCHANGED OutsideRun
        /\ \A u \in Workers \ {w} : proc'[u] = proc[u] /\ proc[u].pc = "idle"
    BY RunJobAlone DEF AttemptsInv
  <1>2. /\ job' = "running" /\ holder' = w
        /\ \A u \in Workers \ {w} : proc'[u].pc = "idle"
    BY <1>1 DEF OutsideRun
  <1>3. proc \in [Workers -> Work] /\ run \in [status : {"none", "queued", "running", "succeeded", "failed"},
                                              docs : SUBSET Docs, count : Nat]
    BY DEF AttemptsInv, RunType
  <1>4. proc[w].pc \in {"load", "create", "case", "fail", "finish"} => run.status = "running"
    BY <1>1 DEF AloneOf
  <1>5. /\ proc'[w].pc \in {"load", "create", "case", "fail", "finish"} => run'.status = "running"
        /\ proc'[w].pc = "succeeded" => run'.status = "succeeded"
        /\ proc'[w].pc = "load" => items' = {}
        /\ proc'[w].pc \in {"create", "case", "finish"} => Filled(w)'
    <2>1. CASE proc[w].pc = "start" /\ RunStart(w)
      BY <1>3, <2>1 DEF RunStart, At, RunStatus, Work
    <2>2. CASE proc[w].pc = "load" /\ LoadCases(w)
      BY <1>1, <1>4, <2>2, AloneLoads
    <2>3. CASE proc[w].pc = "create" /\ CreateItem(w)
      BY <1>1, <1>4, <2>3, AloneCreates
    <2>4. CASE proc[w].pc = "case" /\ RunCase(w)
      <3>1. CASE At(w, "fail") /\ items' = items
        <4>1. proc'[w].pc = "fail"
          BY <1>3, <3>1 DEF At, Work
        <4> QED
          BY <1>4, <2>4, <4>1, RunCaseKinds
      <3>2. CASE \E status \in {"succeeded", "failed"}, outcome \in Outcome,
                    judged \in BOOLEAN, hit \in BOOLEAN :
                   /\ FinishItem(w, status, outcome, judged, hit)
                   /\ StepOn(w, IF status = "succeeded" THEN 1 ELSE 0)
        <4>1. PICK status \in {"succeeded", "failed"}, outcome \in Outcome,
                   judged \in BOOLEAN, hit \in BOOLEAN :
                     /\ FinishItem(w, status, outcome, judged, hit)
                     /\ StepOn(w, IF status = "succeeded" THEN 1 ELSE 0)
          BY <3>2
        <4>2. PICK f : Reshapes(f) /\ Finished(f, w, status, outcome, judged, hit)
          BY <4>1, Finishes DEF AttemptsInv
        <4>3. proc'[w].pc \in {"create", "finish"} /\ Filled(w)'
          BY <1>1, <2>4, <4>1, <4>2, AloneFinishes
        <4>4. run' = run
          BY <2>4, RunCaseKinds
        <4> QED
          BY <1>4, <2>4, <4>3, <4>4
      <3> QED
        BY <2>4, <3>1, <3>2, RunCaseKinds
    <2>5. CASE proc[w].pc = "fail" /\ FailRun(w)
      BY <1>3, <2>5 DEF FailRun, At, Work
    <2>6. CASE proc[w].pc = "finish" /\ FinishRun(w)
      BY <1>3, <2>6 DEF FinishRun, At, Work
    <2>7. CASE Escape(w)
      BY <1>3, <2>7 DEF Escape, At, Work
    <2> QED
      BY <2>1, <2>2, <2>3, <2>4, <2>5, <2>6, <2>7 DEF RunJob
  <1> QED
    BY <1>2, <1>5, AloneAfter

LEMMA AllIdle ==
    ASSUME \A u \in Workers : proc'[u].pc = "idle" PROVE \A u \in Workers : AloneOf(u)'
  BY DEF AloneOf, Busy

\* A review leaves every row its identity and status.
LEMMA ReviewKeeps ==
    ASSUME RunType, NEW i \in items, Review(i)
    PROVE  /\ \A k \in items' : \E j \in items : /\ k.att = j.att /\ k.case = j.case
                                                /\ k.mode = j.mode /\ k.status = j.status
           /\ \A j \in items : \E k \in items' : /\ k.att = j.att /\ k.case = j.case
                                                /\ k.mode = j.mode /\ k.status = j.status
  <1>1. PICK f : /\ Reshapes(f)
                 /\ \A j \in items : /\ f[j].status = j.status /\ f[j].outcome = j.outcome
                                     /\ f[j].judged = j.judged /\ f[j].hit = j.hit
                                     /\ f[j].of = j.of
                                     /\ j # i => f[j] = j
                                     /\ [f[j] EXCEPT !.review = "none"] = [j EXCEPT !.review = "none"]
    BY Reviews, Zenon
  <1>2. \A j \in items : /\ f[j].att = j.att /\ f[j].case = j.case
                         /\ f[j].mode = j.mode /\ f[j].status = j.status
    BY <1>1 DEF Reshapes
  <1>3. items' = {f[j] : j \in items}
    BY <1>1 DEF Reshapes
  <1> QED
    BY <1>2, <1>3

LEMMA AloneNext ==
    ASSUME AttemptsInv, JobInv, AloneInv, [Next]_vars PROVE AloneInv'
  <1> SUFFICES ASSUME ~overlapped' PROVE \A u \in Workers : AloneOf(u)'
    BY DEF AloneInv
  <1>0. proc \in [Workers -> Work]
    BY DEF AttemptsInv, RunType
  <1>1. CASE \E w \in Workers : RunJob(w)
    <2> PICK w \in Workers : RunJob(w)
      BY <1>1
    <2>1. ~overlapped
      BY DEF RunJob, OutsideRun
    <2> QED
      BY <2>1, AloneRunJob
  <1>2. CASE \E w \in Workers : Acquire(w)
    <2> PICK w \in Workers : Acquire(w)
      BY <1>2
    <2>1. /\ proc' = [proc EXCEPT ![w] = [Unplanned EXCEPT !.pc = "start", !.att = attempts + 1]]
          /\ \A u \in Workers : proc[u].pc = "idle"
          /\ job' = "running" /\ holder' = w
      BY DEF Acquire
    <2>2. proc'[w].pc = "start" /\ \A u \in Workers \ {w} : proc'[u].pc = "idle"
      BY <1>0, <2>1 DEF Unplanned
    <2> QED
      BY <2>1, <2>2, AloneAfter
  <1>3. CASE \E w \in Workers : Report(w) \/ Crash(w)
    <2> PICK w \in Workers : Report(w) \/ Crash(w)
      BY <1>3
    <2>1. proc' = [proc EXCEPT ![w] = Unplanned] /\ ~overlapped /\ Busy(w)
      BY DEF Report, Crash, Busy
    <2>2. \A u \in Workers \ {w} : ~Busy(u)
      BY <2>1 DEF AloneInv, AloneOf
    <2>3. \A u \in Workers : proc'[u].pc = "idle"
      BY <1>0, <2>1, <2>2 DEF Busy, Unplanned
    <2> QED
      BY <2>3, AllIdle
  <1>4. CASE CreateRun \/ RetryJob
    <2>1. ~overlapped /\ proc' = proc /\ job # "running"
      BY <1>4 DEF CreateRun, RetryJob, JobInv
    <2>2. \A u \in Workers : ~Busy(u)
      BY <2>1 DEF AloneInv, AloneOf
    <2> QED
      BY <2>1, <2>2, AllIdle DEF Busy
  <1>5. CASE \E i \in items : Review(i)
    <2> PICK i \in items : Review(i)
      BY <1>5
    <2>2. ~overlapped /\ UNCHANGED <<proc, job, holder, run>>
      BY DEF Review
    <2>3. /\ \A k \in items' : \E j \in items : /\ k.att = j.att /\ k.case = j.case
                                               /\ k.mode = j.mode /\ k.status = j.status
          /\ \A j \in items : \E k \in items' : /\ k.att = j.att /\ k.case = j.case
                                               /\ k.mode = j.mode /\ k.status = j.status
      BY ReviewKeeps DEF AttemptsInv
    <2>4. ASSUME NEW u \in Workers, Filled(u) PROVE Filled(u)'
      <3>1. \A n, j, k : j.case = k.case /\ j.mode = k.mode => (IsAt(u, n, j) <=> IsAt(u, n, k))
        BY DEF IsAt
      <3>2. \A n, j : IsAt(u, n, j)' <=> IsAt(u, n, j)
        BY <2>2 DEF IsAt, Slot, Total
      <3> QED
        BY <2>2, <2>3, <2>4, <3>1, <3>2 DEF Filled
    <2>5. items = {} => items' = {}
      BY <2>3
    <2> QED
      BY <2>2, <2>4, <2>5 DEF AloneInv, AloneOf, Busy
  <1>6. CASE UNCHANGED <<proc, job, holder, run, items, overlapped>>
    BY <1>6 DEF AloneInv, AloneOf, Busy, Filled, IsAt, Slot, Total
  <1> QED
    BY <1>1, <1>2, <1>3, <1>4, <1>5, <1>6
       DEF Next, WorkerStep, EditCase, CheckCorpus, ReadCandidates, ReadSources, Promote,
           CommitPromotions, Outside, runVars, vars

-----------------------------------------------------------------------------
(* The results of a run that succeeded.                                      *)

\* The items of a finished attempt number its slots.
LEMMA FinishCompletes ==
    ASSUME AttemptsInv, NEW w \in Workers, AloneOf(w), proc[w].pc = "finish", proc[w].ok # 0
    PROVE  /\ Cardinality(Identities) = Total(proc[w]) /\ Cardinality(items) = Total(proc[w])
           /\ \A i \in items : i.status # "running"
           /\ \E i \in items : i.status = "succeeded"
  <1>1. /\ Filled(w) /\ proc[w] \in Work /\ Ordered(proc[w])
        /\ proc[w].at = Total(proc[w]) /\ Total(proc[w]) \in Nat /\ proc[w].ok \in Nat
    BY Slots DEF AloneOf, AttemptsInv, PlanOf, RunType, Work
  <1> PICK total \in Nat : total = Total(proc[w])
    BY <1>1
  <1> DEFINE place(p) == CHOOSE n \in Nat : n < total /\ Slot(proc[w], n) = p
             numberOf(p) == place(p) + 1
             ofItem == [i \in items |-> numberOf(<<i.case, i.mode>>)]
             ofPair == [p \in Identities |-> numberOf(p)]
  <1>2. \A p \in Identities : \E n \in Nat : n < total /\ Slot(proc[w], n) = p
    <2> SUFFICES ASSUME NEW i \in items
                 PROVE  \E n \in Nat : n < total /\ Slot(proc[w], n) = <<i.case, i.mode>>
      BY DEF Identities
    <2>1. i.att = proc[w].att
      BY <1>1 DEF Filled
    <2> QED
      BY <2>1 DEF AttemptsInv, PlaceOf, Engaged, IsAt
  <1>3. \A p \in Identities : place(p) \in Nat /\ place(p) < total /\ Slot(proc[w], place(p)) = p
    BY <1>2
  <1>4. \A n \in Nat : n < total => Slot(proc[w], n) \in Identities
    BY <1>1 DEF Filled, IsAt, Identities
  <1>5. \A n \in Nat : n < total => place(Slot(proc[w], n)) = n
    <2> SUFFICES ASSUME NEW n \in Nat, n < total PROVE place(Slot(proc[w], n)) = n
      OBVIOUS
    <2> PICK p : p = Slot(proc[w], n)
      OBVIOUS
    <2>1. p \in Identities
      BY <1>4
    <2>2. place(p) \in Nat /\ place(p) < total /\ Slot(proc[w], place(p)) = p
      BY <1>3, <2>1
    <2> HIDE DEF place
    <2>3. place(p) = n
      BY <1>1, <2>2, Slots
    <2> QED
      BY <2>3
  <1> HIDE DEF place
  <1>6. \A p \in Identities : numberOf(p) \in 1..total
    BY <1>3
  <1>7. \A k \in 1..total : \E p \in Identities : numberOf(p) = k
    <2> SUFFICES ASSUME NEW k \in 1..total PROVE \E p \in Identities : numberOf(p) = k
      OBVIOUS
    <2>1. PICK n \in Nat : n = k - 1
      OBVIOUS
    <2>2. n < total /\ n + 1 = k
      BY <2>1
    <2>3. Slot(proc[w], n) \in Identities /\ place(Slot(proc[w], n)) = n
      BY <1>4, <1>5, <2>2
    <2> QED
      BY <2>2, <2>3
  <1>8. \A p, q \in Identities : numberOf(p) = numberOf(q) => p = q
    BY <1>3
  <1> HIDE DEF numberOf
  <1>9. Cardinality(Identities) = total
    <2>1. ofPair \in [Identities -> Nat] /\ {ofPair[p] : p \in Identities} = 1..total
      BY <1>6, <1>7
    <2>2. \A p, q \in Identities : ofPair[p] = ofPair[q] => p = q
      BY <1>8
    <2> HIDE DEF ofPair
    <2> QED
      BY <2>1, <2>2, Numbered
  <1>10. Cardinality(items) = total
    <2>1. \A i \in items : <<i.case, i.mode>> \in Identities
      BY DEF Identities
    <2>2. \A p \in Identities : \E i \in items : p = <<i.case, i.mode>>
      BY DEF Identities
    <2>3. \A i \in items : ofItem[i] \in 1..total
      BY <1>6, <2>1
    <2>4. \A k \in 1..total : \E i \in items : ofItem[i] = k
      BY <1>7, <2>2
    <2>5. \A i, j \in items : ofItem[i] = ofItem[j] => i = j
      <3> SUFFICES ASSUME NEW i \in items, NEW j \in items, ofItem[i] = ofItem[j] PROVE i = j
        OBVIOUS
      <3>1. <<i.case, i.mode>> = <<j.case, j.mode>>
        BY <1>8, <2>1
      <3>2. i.case = j.case /\ i.mode = j.mode
        BY <3>1
      <3>3. i.att = j.att
        BY <1>1 DEF Filled
      <3> QED
        BY <3>2, <3>3 DEF AttemptsInv, ItemFacts
    <2>6. ofItem \in [items -> Nat]
      BY <2>3
    <2> HIDE DEF ofItem
    <2>7. {ofItem[i] : i \in items} = 1..total
      BY <2>3, <2>4
    <2> QED
      BY <2>5, <2>6, <2>7, Numbered
  <1>11. \A i \in items : i.status # "running"
    BY <1>1 DEF Filled
  <1>12. \E i \in items : i.status = "succeeded"
    BY <1>1 DEF Filled
  <1> QED
    BY <1>9, <1>10, <1>11, <1>12

\* An attempt at a run that succeeded leaves it alone.
LEMMA DoneStays ==
    ASSUME AttemptsInv, AloneInv, ~overlapped, run.status = "succeeded",
           NEW w \in Workers, RunJob(w)
    PROVE  items' = items /\ run' = run
  <1>1. AloneOf(w)
    BY DEF AloneInv
  <1>2. proc[w].pc \notin {"load", "create", "case", "fail", "finish"}
    BY <1>1 DEF AloneOf
  <1> QED
    BY <1>2 DEF RunJob, RunStart, Escape

LEMMA CompleteNext ==
    ASSUME AttemptsInv, JobInv, AloneInv, CompleteResults, [Next]_vars PROVE CompleteResults'
  <1> SUFFICES ASSUME ~overlapped' PROVE CompleteResults'
    BY DEF CompleteResults
  <1>0. run \in [status : {"none", "queued", "running", "succeeded", "failed"},
                 docs : SUBSET Docs, count : Nat] /\ proc \in [Workers -> Work]
    BY DEF AttemptsInv, RunType
  <1>1. CASE \E w \in Workers : RunJob(w)
    <2> PICK w \in Workers : RunJob(w)
      BY <1>1
    <2>1. ~overlapped /\ job' = job /\ job = "running" /\ AloneOf(w)
      BY RunJobAlone DEF RunJob, OutsideRun, AttemptsInv
    <2>2. CASE run.status = "succeeded"
      BY <2>1, <2>2, DoneStays DEF CompleteResults
    <2>3. CASE run.status # "succeeded" /\ run'.status = "succeeded"
      <3>1. proc[w].pc = "finish" /\ FinishRun(w)
        BY <1>0, <2>3 DEF RunJob, RunStart, LoadCases, CreateItem, RunCase, StoreCaseFailure, FailRun,
                     Escape, RunStatus
      <3>2. proc[w].ok # 0 /\ run'.count = Total(proc[w]) /\ items' = items
        BY <1>0, <2>3, <3>1 DEF FinishRun, Total, Width
      <3> QED
        BY <2>1, <2>3, <3>1, <3>2, FinishCompletes DEF CompleteResults, Identities
    <2>4. CASE run'.status # "succeeded"
      BY <2>1, <2>4 DEF CompleteResults
    <2> QED
      BY <2>2, <2>3, <2>4
  <1>2. CASE \E w \in Workers : Report(w)
    <2> PICK w \in Workers : Report(w)
      BY <1>2
    <2>1. ~overlapped /\ run' = run /\ items' = items
      BY DEF Report
    <2>2. job' = "succeeded" => run.status = "succeeded"
      BY <2>1 DEF Report, AloneInv, AloneOf, CompleteResults
    <2> QED
      BY <2>1, <2>2 DEF CompleteResults
  <1>3. CASE \E w \in Workers : Acquire(w)
    BY <1>3 DEF Acquire, CompleteResults
  <1>4. CASE CreateRun
    BY <1>0, <1>4 DEF CreateRun, CompleteResults
  <1>5. CASE RetryJob
    BY <1>5 DEF RetryJob, CompleteResults
  <1>6. CASE \E i \in items : Review(i)
    <2> PICK i \in items : Review(i)
      BY <1>6
    <2>0. RunType /\ ItemFacts
      BY DEF AttemptsInv
    <2>1. PICK f : /\ Reshapes(f)
                   /\ \A j \in items : /\ f[j].status = j.status /\ f[j].outcome = j.outcome
                                       /\ f[j].judged = j.judged /\ f[j].hit = j.hit
                                       /\ f[j].of = j.of
                                       /\ j # i => f[j] = j
                                       /\ [f[j] EXCEPT !.review = "none"] = [j EXCEPT !.review = "none"]
      BY <2>0, Reviews, Zenon
    <2>2. ~overlapped /\ UNCHANGED <<job, run>>
      BY DEF Review
    <2>3. Cardinality(items') = Cardinality(items) /\ Identities' = Identities
      BY <2>0, <2>1, Reshaped
    <2>4. /\ (\A j \in items : j.status # "running") => \A j \in items' : j.status # "running"
          /\ (\E j \in items : j.status = "succeeded") => \E j \in items' : j.status = "succeeded"
      BY <2>0, ReviewKeeps
    <2> QED
      BY <2>2, <2>3, <2>4 DEF CompleteResults, Identities
  <1>7. CASE UNCHANGED <<job, run, items, overlapped>>
    BY <1>7 DEF CompleteResults
  <1> QED
    BY <1>1, <1>2, <1>3, <1>4, <1>5, <1>6, <1>7
       DEF Next, WorkerStep, EditCase, CheckCorpus, Crash, ReadCandidates, ReadSources, Promote,
           CommitPromotions, Outside, runVars, vars

\* Reviews change nothing but the reviews.
LEMMA ResultsStep ==
    ASSUME AttemptsInv, AloneInv, [Next]_vars, run.status = "succeeded", ~overlapped
    PROVE  {[i EXCEPT !.review = "none"] : i \in items'} = {[i EXCEPT !.review = "none"] : i \in items}
  <1>1. CASE \E w \in Workers : RunJob(w)
    BY <1>1, DoneStays
  <1>2. CASE \E i \in items : Review(i)
    <2> PICK i \in items : Review(i)
      BY <1>2
    <2>0. RunType
      BY DEF AttemptsInv
    <2>1. PICK f : /\ Reshapes(f)
                   /\ \A j \in items : /\ f[j].status = j.status /\ f[j].outcome = j.outcome
                                       /\ f[j].judged = j.judged /\ f[j].hit = j.hit
                                       /\ f[j].of = j.of
                                       /\ j # i => f[j] = j
                                       /\ [f[j] EXCEPT !.review = "none"] = [j EXCEPT !.review = "none"]
      BY <2>0, Reviews, Zenon
    <2> DEFINE bare(j) == [j EXCEPT !.review = "none"]
    <2>2. items' = {f[j] : j \in items} /\ \A j \in items : bare(f[j]) = bare(j)
      BY <2>1 DEF Reshapes
    <2> HIDE DEF bare
    <2>3. {bare(j) : j \in items'} = {bare(j) : j \in items}
      BY <2>2
    <2> QED
      BY <2>3 DEF bare
  <1>3. CASE items' = items
    BY <1>3
  <1> QED
    BY <1>1, <1>2, <1>3
       DEF Next, WorkerStep, EditCase, CheckCorpus, CreateRun, RetryJob, Acquire, Report, Crash,
           ReadCandidates, ReadSources, Promote, CommitPromotions, Outside, runVars, vars

-----------------------------------------------------------------------------
(* Promotions.                                                               *)

LEMMA PromotionsInit == ASSUME RunInit PROVE PromotionsInv
  <1>1. /\ promoted = {} /\ promo = [q \in Promoters |-> NotPromoting]
        /\ NotPromoting.todo = {} /\ NotPromoting.mine = {}
    BY DEF RunInit, NotPromoting
  <1>2. PromotionShape
    BY <1>1 DEF PromotionShape, Promotion, NotPromoting
  <1> QED
    BY <1>1, <1>2 DEF PromotionsInv, CandidatesOf, MineOf, PromotedOnceAsEvaluated

LEMMA ShapeAfter ==
    ASSUME NEW P, NEW T, NEW S, NEW M, promo' \in [Promoters -> Promotion(P, T, S, M)]
    PROVE  PromotionShape'
  BY DEF PromotionShape, Promotion

LEMMA ReadCandidatesStep ==
    ASSUME RunType, ItemFacts, PromotionsInv, NEW q \in Promoters, ReadCandidates(q)
    PROVE  PromotionsInv'
  <1> DEFINE candidate(i) == [key |-> PromotionKey(i), of |-> i.of, att |-> i.att]
             read == {candidate(i) : i \in {j \in items : j.status = "failed"}}
  <1>1. promo' = [promo EXCEPT ![q].pc = "sources", ![q].todo = read] /\ promoted' = promoted
    BY DEF ReadCandidates
  <1>2. \A i, j \in items : PromotionKey(i) = PromotionKey(j) => i.case = j.case /\ i.mode = j.mode
    BY DEF PromotionKey
  <1>3. \A t \in read : t.att \in Nat /\ \A u \in read : t.key = u.key /\ t.att = u.att => t = u
    <2> SUFFICES ASSUME NEW i \in items, NEW j \in items
                 PROVE  /\ candidate(i).att \in Nat
                        /\ (candidate(i).key = candidate(j).key /\ candidate(i).att = candidate(j).att
                              => candidate(i) = candidate(j))
      OBVIOUS
    <2>1. i.att \in Nat
      BY DEF RunType, Item
    <2>2. PromotionKey(i) = PromotionKey(j) /\ i.att = j.att => i = j
      BY <1>2 DEF ItemFacts
    <2> QED
      BY <2>1, <2>2
  <1> HIDE DEF read
  <1>4. /\ promo'[q].todo = read /\ promo'[q].mine = promo[q].mine
        /\ \A o \in Promoters \ {q} : promo'[o] = promo[o]
        /\ PromotionShape'
    <2>1. PICK P, T, S, M : promo \in [Promoters -> Promotion(P, T, S, M)]
      BY DEF PromotionsInv, PromotionShape
    <2>2. promo' \in [Promoters -> Promotion(P \cup {"sources"}, T \cup {read}, S, M)]
      BY <1>1, <2>1 DEF Promotion
    <2>3. PromotionShape'
      BY <2>2, ShapeAfter
    <2> QED
      BY <1>1, <2>1, <2>3 DEF Promotion
  <1>5. \A o \in Promoters : promo'[o].mine = promo[o].mine
    BY <1>4
  <1>6. \A o \in Promoters : CandidatesOf(o)'
    BY <1>3, <1>4 DEF PromotionsInv, CandidatesOf
  <1>7. \A o \in Promoters : MineOf(o)'
    BY <1>1, <1>5 DEF PromotionsInv, MineOf
  <1> QED
    BY <1>1, <1>4, <1>6, <1>7 DEF PromotionsInv, PromotedOnceAsEvaluated

LEMMA ReadSourcesStep ==
    ASSUME PromotionsInv, NEW q \in Promoters, ReadSources(q)
    PROVE  PromotionsInv'
  <1>1. PICK x : promo' = [promo EXCEPT ![q].pc = "insert", ![q].seen = x] /\ promoted' = promoted
    BY DEF ReadSources
  <1>2. /\ promo'[q].todo = promo[q].todo /\ promo'[q].mine = promo[q].mine
        /\ \A o \in Promoters \ {q} : promo'[o] = promo[o]
        /\ PromotionShape'
    <2>1. PICK P, T, S, M : promo \in [Promoters -> Promotion(P, T, S, M)]
      BY DEF PromotionsInv, PromotionShape
    <2>2. promo' \in [Promoters -> Promotion(P \cup {"insert"}, T, S \cup {x}, M)]
      BY <1>1, <2>1 DEF Promotion
    <2>3. PromotionShape'
      BY <2>2, ShapeAfter
    <2> QED
      BY <1>1, <2>1, <2>3 DEF Promotion
  <1>3. \A o \in Promoters : promo'[o].mine = promo[o].mine /\ promo'[o].todo = promo[o].todo
    BY <1>2
  <1>4. ASSUME NEW o \in Promoters PROVE CandidatesOf(o)'
    <2>1. CandidatesOf(o) /\ promo'[o].todo = promo[o].todo
      BY <1>3 DEF PromotionsInv
    <2> QED
      BY <2>1 DEF CandidatesOf
  <1>5. ASSUME NEW o \in Promoters PROVE MineOf(o)'
    <2>1. /\ MineOf(o) /\ promoted' = promoted
          /\ \A r \in Promoters : promo'[r].mine = promo[r].mine
      BY <1>1, <1>3 DEF PromotionsInv
    <2> QED
      BY <2>1 DEF MineOf
  <1> QED
    BY <1>1, <1>2, <1>4, <1>5 DEF PromotionsInv, PromotedOnceAsEvaluated

LEMMA PromoteStep ==
    ASSUME PromotionsInv, NEW q \in Promoters, Promote(q)
    PROVE  PromotionsInv'
  <1> DEFINE made(t) == [key |-> t.key, copied |-> promo[q].seen[t.of.case], of |-> t.of, by |-> q]
  <1>1. PICK new : /\ new = {t \in Promotable(q) : ~Taken(t) /\ FirstOfKey(Promotable(q), t)}
                   /\ \A o \in Promoters \ {q} :
                        \A n \in promo[o].mine : \A t \in new : n.key # t.key
                   /\ promo' = [promo EXCEPT ![q] =
                                  [NotPromoting EXCEPT !.pc = "commit",
                                                       !.mine = {made(t) : t \in new}]]
                   /\ promoted' = promoted
    BY DEF Promote
  <1>2. new \subseteq promo[q].todo /\ \A t \in new : promo[q].seen[t.of.case] = t.of
    BY <1>1 DEF Promotable, SourceCaseChanged
  <1>3. \A t, u \in new : t.key = u.key => t = u
    <2> SUFFICES ASSUME NEW t \in new, NEW u \in new, t.key = u.key PROVE t = u
      OBVIOUS
    <2>1. t.att \in Nat /\ u.att \in Nat
      BY <1>2 DEF PromotionsInv, CandidatesOf
    <2>2. t.att <= u.att /\ u.att <= t.att
      BY <1>1 DEF FirstOfKey
    <2>3. t.att = u.att
      BY <2>1, <2>2
    <2> QED
      BY <1>2, <2>3 DEF PromotionsInv, CandidatesOf
  <1>4. \A t \in new : \A m \in promoted : m.key # t.key
    BY <1>1 DEF Taken
  <1>5. PICK mine : mine = {made(t) : t \in new}
    OBVIOUS
  <1>6. \A n \in mine : \E t \in new : n.key = t.key /\ n.copied = t.of /\ n.of = t.of /\ n.by = q /\ n = made(t)
    BY <1>2, <1>5
  <1> HIDE DEF made
  <1>7. /\ promo'[q].mine = mine /\ promo'[q].todo = {}
        /\ \A o \in Promoters \ {q} : promo'[o] = promo[o]
        /\ PromotionShape'
    <2>1. PICK P, T, S, M : promo \in [Promoters -> Promotion(P, T, S, M)]
      BY DEF PromotionsInv, PromotionShape
    <2>2. promo' \in [Promoters -> Promotion(P \cup {"commit"}, T \cup {{}}, S \cup {<<>>}, M \cup {mine})]
      BY <1>1, <1>5, <2>1 DEF Promotion, NotPromoting
    <2>3. PromotionShape'
      BY <2>2, ShapeAfter
    <2> QED
      BY <1>1, <1>5, <2>1, <2>3 DEF Promotion, NotPromoting
  <1>9. \A n, m \in mine : n.key = m.key => n = m
    BY <1>3, <1>6
  <1>10. \A n \in mine : \A o \in Promoters \ {q} : \A m \in promo[o].mine : m.key # n.key
    BY <1>1, <1>6
  <1>11. \A n \in mine : \A m \in promoted : m.key # n.key
    BY <1>4, <1>6
  <1>12. MineOf(q)'
    BY <1>1, <1>6, <1>7, <1>9, <1>10, <1>11 DEF MineOf
  <1>13. \A o \in Promoters \ {q} : MineOf(o)'
    BY <1>1, <1>7, <1>10 DEF PromotionsInv, MineOf
  <1>14. \A o \in Promoters : CandidatesOf(o)'
    BY <1>7 DEF PromotionsInv, CandidatesOf
  <1> QED
    BY <1>1, <1>7, <1>12, <1>13, <1>14 DEF PromotionsInv, PromotedOnceAsEvaluated

LEMMA CommitPromotionsStep ==
    ASSUME PromotionsInv, NEW q \in Promoters, CommitPromotions(q)
    PROVE  PromotionsInv'
  <1>1. /\ promoted' = promoted \cup promo[q].mine
        /\ promo' = [promo EXCEPT ![q] = [NotPromoting EXCEPT !.pc = "done"]]
    BY DEF CommitPromotions
  <1>2. /\ promo'[q].mine = {} /\ promo'[q].todo = {}
        /\ \A o \in Promoters \ {q} : promo'[o] = promo[o]
        /\ PromotionShape'
    <2>1. PICK P, T, S, M : promo \in [Promoters -> Promotion(P, T, S, M)]
      BY DEF PromotionsInv, PromotionShape
    <2>2. promo' \in [Promoters -> Promotion(P \cup {"done"}, T \cup {{}}, S \cup {<<>>}, M \cup {{}})]
      BY <1>1, <2>1 DEF Promotion, NotPromoting
    <2>3. PromotionShape'
      BY <2>2, ShapeAfter
    <2> QED
      BY <1>1, <2>1, <2>3 DEF Promotion, NotPromoting
  <1>4. \A o \in Promoters : CandidatesOf(o)'
    BY <1>2 DEF PromotionsInv, CandidatesOf
  <1>5. ASSUME NEW o \in Promoters \ {q}, NEW n \in promo[o].mine, NEW m \in promo[q].mine
        PROVE  m.key # n.key
    BY DEF PromotionsInv, MineOf
  <1>6. \A o \in Promoters : MineOf(o)'
    BY <1>1, <1>2, <1>5 DEF PromotionsInv, MineOf
  <1>7. PromotedOnceAsEvaluated'
    BY <1>1 DEF PromotionsInv, MineOf, PromotedOnceAsEvaluated
  <1> QED
    BY <1>2, <1>4, <1>6, <1>7 DEF PromotionsInv

LEMMA PromotionsNext ==
    ASSUME RunType, ItemFacts, PromotionsInv, [Next]_vars PROVE PromotionsInv'
  <1>1. CASE UNCHANGED <<promo, promoted>>
    BY <1>1 DEF PromotionsInv, PromotionShape, CandidatesOf, MineOf, PromotedOnceAsEvaluated
  <1>2. CASE \E q \in Promoters : \/ ReadCandidates(q) \/ ReadSources(q)
                                  \/ Promote(q) \/ CommitPromotions(q)
    BY <1>2, ReadCandidatesStep, ReadSourcesStep, PromoteStep, CommitPromotionsStep
  <1> QED
    BY <1>1, <1>2
       DEF Next, vars, runVars, EditCase, CheckCorpus, CreateRun, RetryJob, Acquire, Crash, WorkerStep,
           Report, RunJob, OutsideRun, Review

-----------------------------------------------------------------------------
(* The theorems.                                                             *)

RunInv ==
    /\ CorpusInv /\ AttemptsInv /\ JobInv /\ AdmissionInv
    /\ AloneInv /\ CompleteResults /\ PromotionsInv

\* The inductive invariant of the run and its corpus: what the handlers of the
\* preparation, the attempts, the reviews and the promotions rely on.
THEOREM RunInvariant == Spec => []RunInv
  <1>1. Init => RunInv
    <2> SUFFICES ASSUME Init PROVE RunInv
      OBVIOUS
    <2>1. RunInit /\ (CorpusInit \/ PreparedInit)
      BY DEF Init
    <2>2. CorpusInv /\ AttemptsInv
      BY <2>1, CorpusInvInit, AttemptsInit
    <2>3. JobInv /\ AdmissionInv /\ AloneInv /\ CompleteResults
      BY <2>1 DEF RunInit, JobInv, AdmissionInv, AdmittedWereActive, AloneInv, AloneOf, Busy, Unplanned,
                  CompleteResults
    <2> QED
      BY <2>1, <2>2, <2>3, PromotionsInit DEF RunInv
  <1>2. RunInv /\ [Next]_vars => RunInv'
    <2> SUFFICES ASSUME RunInv, [Next]_vars PROVE RunInv'
      OBVIOUS
    <2>1. RunType /\ ItemFacts
      BY DEF RunInv, AttemptsInv
    <2> QED
      BY <2>1, CorpusNext, AttemptsNext, JobNext, AdmissionNext, AloneNext, CompleteNext,
         PromotionsNext DEF RunInv
  <1> QED
    BY <1>1, <1>2, PTL DEF Spec

\* Every version row keeps its file, whatever uploads, failures and crashes
\* happen (upload_document writes the file before it commits the rows).
THEOREM FilesOfVersions == Spec => []VersionsHaveFiles
  <1>1. RunInv => VersionsHaveFiles
    BY DEF RunInv, CorpusInv
  <1> QED
    BY <1>1, RunInvariant, PTL

\* A run is only admitted over documents that had been active, one for every
\* source (create_run trusts the readiness it computed a transaction before).
THEOREM RunsOfActive == Spec => []AdmittedWereActive
  <1>1. RunInv => AdmittedWereActive
    BY DEF RunInv, AdmissionInv
  <1> QED
    BY <1>1, RunInvariant, PTL

\* No cold measurement reads an entry (the namespaces of _cache_settings).
THEOREM ColdStaysCold == Spec => []ColdIsCold
  <1>1. RunInv => ColdIsCold
    BY DEF RunInv, AttemptsInv, ItemFacts, ColdIsCold
  <1> QED
    BY <1>1, RunInvariant, PTL

\* Counting judgments and reviews suffices to see that every answer was passed
\* (_evaluation_quality_status).
THEOREM PassedIsReviewed == Spec => []PassedMeansReviewed
  <1>1. RunInv => PassedMeansReviewed
    BY QualityCounts DEF RunInv, AttemptsInv
  <1> QED
    BY <1>1, RunInvariant, PTL

\* Concurrent promotions of one failure make one case, as it was evaluated
\* (promote_failures and its unique index).
THEOREM FailuresPromotedOnce == Spec => []PromotedOnceAsEvaluated
  <1>1. RunInv => PromotedOnceAsEvaluated
    BY DEF RunInv, PromotionsInv
  <1> QED
    BY <1>1, RunInvariant, PTL

\* Without overlapping attempts a run that succeeded has a finished item for
\* each case and mode (run_job).
THEOREM ResultsComplete == Spec => []CompleteResults
  <1>1. RunInv => CompleteResults
    BY DEF RunInv
  <1> QED
    BY <1>1, RunInvariant, PTL

\* And it keeps them, but for their reviews (the early return of run_job).
THEOREM ResultsStay == Spec => ResultsKept
  <1>1. RunInv /\ [Next]_vars =>
          [run.status = "succeeded" /\ ~overlapped =>
             {[i EXCEPT !.review = "none"] : i \in items'}
               = {[i EXCEPT !.review = "none"] : i \in items}]_vars
    BY ResultsStep DEF RunInv
  <1> QED
    BY <1>1, RunInvariant, PTL DEF Spec, ResultsKept

-----------------------------------------------------------------------------
(* Two runs held against each other: every item has a key of its own.      *)

\* The rows of a run are a list.
Listed(rows) == \E n \in Nat : DOMAIN rows = 1..n

Plain(rows, duplicated, n) ==
    IF Known(rows[n]) \in duplicated THEN <<Known(rows[n]), rows[n].label>>
                                      ELSE <<Known(rows[n])>>
Reused(rows, duplicated, n) ==
    \E k \in 1..(n - 1) : Plain(rows, duplicated, k) = Plain(rows, duplicated, n)
Marked(side, rows, duplicated, n) ==
    IF Known(rows[n]) \in duplicated THEN <<Known(rows[n]), rows[n].label, side, n>>
                                      ELSE <<Known(rows[n]), side, n>>

LEMMA MatchKeysAre ==
    ASSUME NEW side, NEW rows, NEW duplicated
    PROVE  /\ DOMAIN MatchKeys(side, rows, duplicated) = DOMAIN rows
           /\ \A n \in DOMAIN rows : MatchKeys(side, rows, duplicated)[n] =
                IF Reused(rows, duplicated, n) THEN Marked(side, rows, duplicated, n)
                                               ELSE Plain(rows, duplicated, n)
  <1>1. /\ DOMAIN MatchKeys(side, rows, duplicated) = DOMAIN rows
        /\ \A n \in DOMAIN rows : MatchKeys(side, rows, duplicated)[n] =
             IF Reused(rows, duplicated, n) THEN Plain(rows, duplicated, n) \o <<side, n>>
                                            ELSE Plain(rows, duplicated, n)
    BY DEF MatchKeys, Reused, Plain
  <1>2. \A n \in DOMAIN rows :
           Plain(rows, duplicated, n) \o <<side, n>> = Marked(side, rows, duplicated, n)
    <2>1. ASSUME NEW x, NEW y, NEW n
          PROVE  /\ <<x>> \o <<side, n>> = <<x, side, n>>
                 /\ <<x, y>> \o <<side, n>> = <<x, y, side, n>>
      <3> DEFINE S == {x, y, side, n}
                 one == <<x>>
                 two == <<x, y>>
                 mark == <<side, n>>
                 three == <<x, side, n>>
                 four == <<x, y, side, n>>
      <3>1. /\ one \in Seq(S) /\ two \in Seq(S) /\ mark \in Seq(S)
            /\ three \in Seq(S) /\ four \in Seq(S)
        OBVIOUS
      <3>2. Len(one) = 1 /\ Len(two) = 2 /\ Len(mark) = 2 /\ Len(three) = 3 /\ Len(four) = 4
        OBVIOUS
      <3>3. /\ one[1] = x /\ two[1] = x /\ two[2] = y /\ mark[1] = side /\ mark[2] = n
            /\ three[1] = x /\ three[2] = side /\ three[3] = n
            /\ four[1] = x /\ four[2] = y /\ four[3] = side /\ four[4] = n
        OBVIOUS
      <3> HIDE DEF one, two, mark, three, four, S
      <3>4. one \o mark = three
        <4>0. PICK cat : cat = one \o mark
          OBVIOUS
        <4>1. /\ cat \in Seq(S) /\ Len(cat) = Len(one) + Len(mark)
              /\ \A i \in 1..Len(one) + Len(mark) : cat[i] =
                    IF i <= Len(one) THEN one[i] ELSE mark[i - Len(one)]
          BY <3>1, <4>0, ConcatProperties
        <4>2. cat[1] = three[1] /\ cat[2] = three[2] /\ cat[3] = three[3]
          BY <4>1, <3>2, <3>3
        <4>3. \A i \in 1..3 : i = 1 \/ i = 2 \/ i = 3
          OBVIOUS
        <4>4. Len(cat) = Len(three) /\ \A i \in 1..Len(cat) : cat[i] = three[i]
          BY <3>2, <4>1, <4>2, <4>3
        <4>5. cat = three
          BY <3>1, <4>1, <4>4, SeqEqual
        <4> QED  BY <4>0, <4>5
      <3>5. two \o mark = four
        <4>0. PICK cat : cat = two \o mark
          OBVIOUS
        <4>1. /\ cat \in Seq(S) /\ Len(cat) = Len(two) + Len(mark)
              /\ \A i \in 1..Len(two) + Len(mark) : cat[i] =
                    IF i <= Len(two) THEN two[i] ELSE mark[i - Len(two)]
          BY <3>1, <4>0, ConcatProperties
        <4>2. cat[1] = four[1] /\ cat[2] = four[2] /\ cat[3] = four[3] /\ cat[4] = four[4]
          BY <4>1, <3>2, <3>3
        <4>3. \A i \in 1..4 : i = 1 \/ i = 2 \/ i = 3 \/ i = 4
          OBVIOUS
        <4>4. Len(cat) = Len(four) /\ \A i \in 1..Len(cat) : cat[i] = four[i]
          BY <3>2, <4>1, <4>2, <4>3
        <4>5. cat = four
          BY <3>1, <4>1, <4>4, SeqEqual
        <4> QED  BY <4>0, <4>5
      <3> QED  BY <3>4, <3>5 DEF one, two, mark, three, four
    <2> QED  BY <2>1 DEF Plain, Marked
  <1> QED
    BY <1>1, <1>2

\* Keys differ in length or in what marks them.
LEMMA KeysDiffer ==
    ASSUME NEW w, NEW x, NEW y, NEW z, NEW a, NEW b, NEW c, NEW d
    PROVE  /\ <<w>> = <<a>> <=> w = a
           /\ <<w, x>> = <<a, b>> <=> w = a /\ x = b
           /\ <<w, x, y>> = <<a, b, c>> <=> w = a /\ x = b /\ y = c
           /\ <<w, x, y, z>> = <<a, b, c, d>> <=> w = a /\ x = b /\ y = c /\ z = d
           /\ <<w>> # <<a, b>> /\ <<w>> # <<a, b, c>> /\ <<w>> # <<a, b, c, d>>
           /\ <<w, x>> # <<a, b, c>> /\ <<w, x>> # <<a, b, c, d>>
           /\ <<w, x, y>> # <<a, b, c, d>>
  <1>1. /\ Len(<<w>>) = 1 /\ Len(<<a>>) = 1
        /\ Len(<<w, x>>) = 2 /\ Len(<<a, b>>) = 2
        /\ Len(<<w, x, y>>) = 3 /\ Len(<<a, b, c>>) = 3
        /\ Len(<<w, x, y, z>>) = 4 /\ Len(<<a, b, c, d>>) = 4
    OBVIOUS
  <1>2. /\ <<w>> # <<a, b>> /\ <<w>> # <<a, b, c>> /\ <<w>> # <<a, b, c, d>>
        /\ <<w, x>> # <<a, b, c>> /\ <<w, x>> # <<a, b, c, d>>
        /\ <<w, x, y>> # <<a, b, c, d>>
    BY <1>1
  <1>3. /\ <<w>> = <<a>> <=> w = a
        /\ <<w, x>> = <<a, b>> <=> w = a /\ x = b
        /\ <<w, x, y>> = <<a, b, c>> <=> w = a /\ x = b /\ y = c
        /\ <<w, x, y, z>> = <<a, b, c, d>> <=> w = a /\ x = b /\ y = c /\ z = d
    OBVIOUS
  <1> QED
    BY <1>2, <1>3

\* _case_sources_by_match_key: no item of the run takes the key of another.
LEMMA OneKeyEach ==
    ASSUME NEW side, NEW rows, Listed(rows), NEW duplicated,
           NEW k \in DOMAIN rows, NEW n \in DOMAIN rows,
           MatchKeys(side, rows, duplicated)[k] = MatchKeys(side, rows, duplicated)[n]
    PROVE  k = n
  <1> DEFINE plain(j) == Plain(rows, duplicated, j)
             marked(j) == Marked(side, rows, duplicated, j)
             taken(j) == Reused(rows, duplicated, j)
  <1>1. PICK len \in Nat : DOMAIN rows = 1..len
    BY DEF Listed
  <1>2. /\ (IF taken(k) THEN marked(k) ELSE plain(k)) = (IF taken(n) THEN marked(n) ELSE plain(n))
    BY MatchKeysAre
  <1>3. CASE ~taken(k) /\ ~taken(n)
    <2>1. plain(k) = plain(n)
      BY <1>2, <1>3
    <2>2. ~(k < n) /\ ~(n < k)
      BY <2>1, <1>3, <1>1 DEF Reused
    <2> QED  BY <2>2, <1>1
  <1>4. CASE taken(k) /\ taken(n)
    <2>1. marked(k) = marked(n)
      BY <1>2, <1>4
    <2> QED  BY <2>1, KeysDiffer DEF Marked
  <1>5. marked(k) # plain(n) /\ plain(k) # marked(n)
    BY KeysDiffer DEF Marked, Plain
  <1> QED
    BY <1>2, <1>3, <1>4, <1>5

\* Items of two runs have the same key if it is of both the plain one.
LEMMA SharedKeys ==
    ASSUME NEW a, NEW b, a # b, NEW base, NEW candidate, NEW duplicated,
           NEW k \in DOMAIN base, NEW n \in DOMAIN candidate,
           MatchKeys(a, base, duplicated)[k] = MatchKeys(b, candidate, duplicated)[n]
    PROVE  Plain(base, duplicated, k) = Plain(candidate, duplicated, n)
  <1>1. (IF Reused(base, duplicated, k) THEN Marked(a, base, duplicated, k)
                                       ELSE Plain(base, duplicated, k))
          = (IF Reused(candidate, duplicated, n) THEN Marked(b, candidate, duplicated, n)
                                                ELSE Plain(candidate, duplicated, n))
    BY MatchKeysAre
  <1>2. Marked(a, base, duplicated, k) # Marked(b, candidate, duplicated, n)
    BY KeysDiffer DEF Marked
  <1>3. /\ Marked(a, base, duplicated, k) # Plain(candidate, duplicated, n)
        /\ Plain(base, duplicated, k) # Marked(b, candidate, duplicated, n)
    BY KeysDiffer DEF Marked, Plain
  <1> QED
    BY <1>1, <1>2, <1>3

-----------------------------------------------------------------------------
(* The comparison: one entry for each key.                                 *)

RowAt(keys, key) == IF key \in Range(keys) THEN CHOOSE n \in DOMAIN keys : keys[n] = key ELSE 0
Entry(base, keysA, candidate, keysB, key) ==
    [base |-> RowAt(keysA, key), candidate |-> RowAt(keysB, key),
     transition |-> Transition(base, candidate, RowAt(keysA, key), RowAt(keysB, key)),
     deltas |-> IF RowAt(keysA, key) = 0 \/ RowAt(keysB, key) = 0 THEN <<>>
                ELSE CaseDeltas(base[RowAt(keysA, key)], candidate[RowAt(keysB, key)])]
BothDuplicated(base, candidate) == Duplicated(base) \cup Duplicated(candidate)

LEMMA CasesAre ==
    ASSUME NEW a, NEW b, NEW base, NEW candidate, NEW keysA, NEW keysB,
           keysA = MatchKeys(a, base, BothDuplicated(base, candidate)),
           keysB = MatchKeys(b, candidate, BothDuplicated(base, candidate))
    PROVE  CompareCases(a, base, b, candidate)
             = {Entry(base, keysA, candidate, keysB, key) : key \in Range(keysA) \cup Range(keysB)}
  BY DEF CompareCases, Entry, RowAt, BothDuplicated

LEMMA AtPlace ==
    ASSUME NEW side, NEW rows, Listed(rows), NEW duplicated, NEW keys,
           keys = MatchKeys(side, rows, duplicated)
    PROVE  /\ \A n \in DOMAIN rows : keys[n] \in Range(keys) /\ RowAt(keys, keys[n]) = n
           /\ \A key : RowAt(keys, key) \in DOMAIN rows \cup {0}
           /\ \A key : RowAt(keys, key) # 0 => keys[RowAt(keys, key)] = key
           /\ \A key \in Range(keys) : RowAt(keys, key) # 0
  <1>1. DOMAIN keys = DOMAIN rows /\ 0 \notin DOMAIN rows
    BY MatchKeysAre DEF Listed
  <1>2. \A key \in Range(keys) : RowAt(keys, key) \in DOMAIN rows /\ keys[RowAt(keys, key)] = key
    BY <1>1 DEF Range, RowAt
  <1>3. \A n \in DOMAIN rows : keys[n] \in Range(keys)
    BY <1>1 DEF Range
  <1>4. \A n \in DOMAIN rows : RowAt(keys, keys[n]) = n
    BY <1>2, <1>3, OneKeyEach
  <1>5. \A key : key \notin Range(keys) => RowAt(keys, key) = 0
    BY DEF RowAt
  <1> QED
    BY <1>1, <1>2, <1>3, <1>4, <1>5

OfBase(entries, n) == {x \in entries : x.base = n}
OfCandidate(entries, n) == {x \in entries : x.candidate = n}
OneForEach(entries, base, candidate) ==
    /\ \A n \in DOMAIN base : \E y : OfBase(entries, n) = {y}
    /\ \A n \in DOMAIN candidate : \E y : OfCandidate(entries, n) = {y}

\* The item of a side with a given key is in one entry, that of its key.
LEMMA OneEntryOf ==
    ASSUME NEW a, NEW b, NEW base, NEW candidate, Listed(base), Listed(candidate)
    PROVE  OneForEach(CompareCases(a, base, b, candidate), base, candidate)
  <1> DEFINE both == BothDuplicated(base, candidate)
             cases == CompareCases(a, base, b, candidate)
  <1>0. PICK keysA, keysB : keysA = MatchKeys(a, base, both) /\ keysB = MatchKeys(b, candidate, both)
    OBVIOUS
  <1> DEFINE entry(key) == Entry(base, keysA, candidate, keysB, key)
  <1>1. cases = {entry(key) : key \in Range(keysA) \cup Range(keysB)}
    BY <1>0, CasesAre
  <1>2. \A key : entry(key).base = RowAt(keysA, key) /\ entry(key).candidate = RowAt(keysB, key)
    BY DEF Entry
  <1>3. 0 \notin DOMAIN base /\ 0 \notin DOMAIN candidate
    BY DEF Listed
  <1> HIDE DEF cases, entry
  <1>4. \A n \in DOMAIN base : {x \in cases : x.base = n} = {entry(keysA[n])}
    <2> TAKE n \in DOMAIN base
    <2>1. keysA[n] \in Range(keysA) /\ RowAt(keysA, keysA[n]) = n
      BY <1>0, AtPlace
    <2>2. \A key : RowAt(keysA, key) = n => key = keysA[n]
      BY <1>0, <1>3, AtPlace
    <2> QED  BY <1>1, <1>2, <2>1, <2>2
  <1>5. \A n \in DOMAIN candidate : {x \in cases : x.candidate = n} = {entry(keysB[n])}
    <2> TAKE n \in DOMAIN candidate
    <2>1. keysB[n] \in Range(keysB) /\ RowAt(keysB, keysB[n]) = n
      BY <1>0, AtPlace
    <2>2. \A key : RowAt(keysB, key) = n => key = keysB[n]
      BY <1>0, <1>3, AtPlace
    <2> QED  BY <1>1, <1>2, <2>1, <2>2
  <1> QED
    BY <1>4, <1>5 DEF cases, OneForEach, OfBase, OfCandidate

LEMMA OneEntryEach ==
    ASSUME NEW a, NEW b, NEW base, NEW candidate, Listed(base), Listed(candidate)
    PROVE  /\ \A n \in DOMAIN base :
                 Cardinality({x \in CompareCases(a, base, b, candidate) : x.base = n}) = 1
           /\ \A n \in DOMAIN candidate :
                 Cardinality({x \in CompareCases(a, base, b, candidate) : x.candidate = n}) = 1
  <1> DEFINE cases == CompareCases(a, base, b, candidate)
  <1>1. OneForEach(cases, base, candidate)
    BY OneEntryOf
  <1> HIDE DEF cases
  <1>2. \A n \in DOMAIN base : Cardinality({x \in cases : x.base = n}) = 1
    BY <1>1, FS_Singleton DEF OneForEach, OfBase
  <1>3. \A n \in DOMAIN candidate : Cardinality({x \in cases : x.candidate = n}) = 1
    BY <1>1, FS_Singleton DEF OneForEach, OfCandidate
  <1> QED
    BY <1>2, <1>3 DEF cases

\* Items held against each other have the same plain key.
LEMMA HeldTogether ==
    ASSUME NEW a, NEW b, a # b, NEW base, NEW candidate, Listed(base), Listed(candidate),
           NEW x \in CompareCases(a, base, b, candidate), x.base # 0, x.candidate # 0
    PROVE  /\ x.base \in DOMAIN base /\ x.candidate \in DOMAIN candidate
           /\ Plain(base, BothDuplicated(base, candidate), x.base)
                = Plain(candidate, BothDuplicated(base, candidate), x.candidate)
  <1> DEFINE both == BothDuplicated(base, candidate)
  <1>0. PICK keysA, keysB : keysA = MatchKeys(a, base, both) /\ keysB = MatchKeys(b, candidate, both)
    OBVIOUS
  <1>1. PICK key : x = Entry(base, keysA, candidate, keysB, key)
    BY <1>0, CasesAre
  <1>2. x.base = RowAt(keysA, key) /\ x.candidate = RowAt(keysB, key)
    BY <1>1 DEF Entry
  <1>3. /\ x.base \in DOMAIN base /\ keysA[x.base] = key
        /\ x.candidate \in DOMAIN candidate /\ keysB[x.candidate] = key
    BY <1>0, <1>2, AtPlace
  <1> QED
    BY <1>0, <1>3, SharedKeys

LEMMA PlainTells ==
    ASSUME NEW base, NEW candidate, NEW duplicated, NEW k, NEW n
    PROVE  Plain(base, duplicated, k) = Plain(candidate, duplicated, n)
             <=> /\ Known(base[k]) = Known(candidate[n])
                 /\ Known(base[k]) \in duplicated => base[k].label = candidate[n].label
  BY KeysDiffer DEF Plain

\* An item of a run that no other item of the run has the identity and the label of.
Only(rows, n) ==
    \A k \in DOMAIN rows :
        Known(rows[k]) = Known(rows[n]) /\ rows[k].label = rows[n].label => k = n

LEMMA OnlyOnesKeyIsPlain ==
    ASSUME NEW side, NEW rows, Listed(rows), NEW duplicated, Duplicated(rows) \subseteq duplicated,
           NEW n \in DOMAIN rows, Only(rows, n)
    PROVE  MatchKeys(side, rows, duplicated)[n] = Plain(rows, duplicated, n)
  <1> SUFFICES ASSUME NEW k \in 1..(n - 1), Plain(rows, duplicated, k) = Plain(rows, duplicated, n)
               PROVE  FALSE
    BY MatchKeysAre DEF Reused
  <1>1. k \in DOMAIN rows /\ k # n
    BY DEF Listed
  <1>2. /\ Known(rows[k]) = Known(rows[n])
        /\ Known(rows[k]) \in duplicated => rows[k].label = rows[n].label
    BY PlainTells
  <1>3. Known(rows[k]) \in Duplicated(rows)
    BY <1>1, <1>2 DEF Duplicated
  <1> QED
    BY <1>1, <1>2, <1>3 DEF Only

LEMMA OnlyOnesMeet ==
    ASSUME NEW a, NEW b, NEW base, NEW candidate, Listed(base), Listed(candidate),
           NEW k \in DOMAIN base, NEW n \in DOMAIN candidate,
           Known(base[k]) = Known(candidate[n]), base[k].label = candidate[n].label,
           Only(base, k), Only(candidate, n)
    PROVE  \E x \in CompareCases(a, base, b, candidate) : x.base = k /\ x.candidate = n
  <1> DEFINE both == BothDuplicated(base, candidate)
  <1>0. PICK keysA, keysB : keysA = MatchKeys(a, base, both) /\ keysB = MatchKeys(b, candidate, both)
    OBVIOUS
  <1>1. Duplicated(base) \subseteq both /\ Duplicated(candidate) \subseteq both
    BY DEF BothDuplicated
  <1>2. keysA[k] = Plain(base, both, k) /\ keysB[n] = Plain(candidate, both, n)
    BY <1>0, <1>1, OnlyOnesKeyIsPlain
  <1>3. keysA[k] = keysB[n]
    BY <1>2, PlainTells
  <1>4. /\ keysA[k] \in Range(keysA)
        /\ RowAt(keysA, keysA[k]) = k /\ RowAt(keysB, keysA[k]) = n
    <2>1. keysA[k] \in Range(keysA) /\ RowAt(keysA, keysA[k]) = k
      BY <1>0, AtPlace
    <2>2. RowAt(keysB, keysB[n]) = n
      BY <1>0, AtPlace
    <2> QED  BY <1>3, <2>1, <2>2
  <1>5. Entry(base, keysA, candidate, keysB, keysA[k]) \in CompareCases(a, base, b, candidate)
    BY <1>0, <1>4, CasesAre
  <1> QED
    BY <1>4, <1>5 DEF Entry

\* What is stored of a run is a list: items are only added, at its end.
StoredInv == study # NoStudy => \A side \in Sides : Listed(stored[side]) /\ DOMAIN stored = Sides

LEMMA StoredInvInit == ReportInit => StoredInv
  BY DEF ReportInit, StoredInv, Listed

LEMMA StoredInvStep == StoredInv /\ [ReportNext]_reportVars => StoredInv'
  <1> SUFFICES ASSUME StoredInv, [ReportNext]_reportVars, study' # NoStudy PROVE StoredInv'
    BY DEF StoredInv
  <1>1. CASE UNCHANGED reportVars
    BY <1>1 DEF reportVars, StoredInv
  <1>2. CASE ReportNext
    <2>0. PICK side \in Sides : \E row : Store(side, row)
      BY <1>2 DEF ReportNext, Evaluate, EvaluateRaises, LeaveRunning
    <2>1. PICK row : Store(side, row)
      BY <2>0
    <2>2. study' = study /\ stored' = [stored EXCEPT ![side] = Append(stored[side], row)]
      BY <2>1 DEF Store
    <2>3. Listed(Append(stored[side], row))
      BY <2>2, <1>2 DEF StoredInv, Listed
    <2> QED  BY <2>2, <2>3 DEF StoredInv
  <1> QED
    BY <1>1, <1>2

\* The comparison of two runs has every item once, and holds against each other
\* items of one identity and, where a run has several of it, of one label
\* (_case_sources_by_match_key, _compare_run_cases).
THEOREM CasesMatch == ReportSpec => []SameCasesCompared
  <1>1. StoredInv => SameCasesCompared
    <2> SUFFICES ASSUME StoredInv, study # NoStudy PROVE SameCasesCompared
      BY DEF SameCasesCompared
    <2> DEFINE cases == CompareCases("base", stored["base"], "candidate", stored["candidate"])
    <2>0. Listed(stored["base"]) /\ Listed(stored["candidate"])
      BY DEF StoredInv, Sides
    <2>1. /\ \A n \in DOMAIN stored["base"] : Cardinality({x \in cases : x.base = n}) = 1
          /\ \A n \in DOMAIN stored["candidate"] : Cardinality({x \in cases : x.candidate = n}) = 1
      BY <2>0, OneEntryEach
    <2>2. \A x \in cases : x.base # 0 /\ x.candidate # 0 =>
             /\ Known(stored["base"][x.base]) = Known(stored["candidate"][x.candidate])
             /\ Known(stored["base"][x.base])
                  \in Duplicated(stored["base"]) \cup Duplicated(stored["candidate"]) =>
                   stored["base"][x.base].label = stored["candidate"][x.candidate].label
      <3> TAKE x \in cases
      <3> HAVE x.base # 0 /\ x.candidate # 0
      <3>1. Plain(stored["base"], BothDuplicated(stored["base"], stored["candidate"]), x.base)
              = Plain(stored["candidate"], BothDuplicated(stored["base"], stored["candidate"]),
                      x.candidate)
        BY <2>0, HeldTogether
      <3> QED  BY <3>1, PlainTells DEF BothDuplicated
    <2>3. \A k \in DOMAIN stored["base"], n \in DOMAIN stored["candidate"] :
             /\ Known(stored["base"][k]) = Known(stored["candidate"][n])
             /\ stored["base"][k].label = stored["candidate"][n].label
             /\ Only(stored["base"], k) /\ Only(stored["candidate"], n)
             => \E x \in cases : x.base = k /\ x.candidate = n
      BY <2>0, OnlyOnesMeet
    <2> HIDE DEF cases
    <2> QED  BY <2>1, <2>2, <2>3 DEF SameCasesCompared, Only, cases
  <1> QED
    BY <1>1, StoredInvInit, StoredInvStep, PTL DEF ReportSpec

-----------------------------------------------------------------------------
(* What is measured is a number.                                           *)

LEMMA Fractions ==
    ASSUME NEW n \in Int, NEW d \in Nat
    PROVE  /\ d # 0 => Rounded(n, d) \in Int
           /\ Share(n, d) \in Int
           /\ d # 0 => HalfEven(n, d) \in Int
  <1>1. \A x \in Int, y \in Nat : y # 0 => x \div y \in Int /\ x % y \in Int
    OBVIOUS
  <1>2. d # 0 => Rounded(n, d) \in Int
    <2>1. 2000 * n + d \in Int /\ 2 * d \in Nat /\ (d # 0 => 2 * d # 0)
      OBVIOUS
    <2> QED  BY <1>1, <2>1 DEF Rounded
  <1>3. Share(n, d) \in Int
    BY <1>2 DEF Share
  <1>4. d # 0 => HalfEven(n, d) \in Int
    BY <1>1 DEF HalfEven
  <1> QED
    BY <1>2, <1>3, <1>4

LEMMA Means ==
    ASSUME NEW values, IsFiniteSet(DOMAIN values), DOMAIN values # {},
           \A x \in DOMAIN values : values[x] \in Int
    PROVE  Mean(values) \in Int
  <1>1. Cardinality(DOMAIN values) \in Nat /\ Cardinality(DOMAIN values) # 0
    BY FS_CardinalityType, FS_EmptySet
  <1>2. SumFunction(values) \in Int
    BY SumIsNumber
  <1> QED
    BY <1>1, <1>2, Fractions DEF Mean

\* The index of _percentile is one of the list.
LEMMA Ranks ==
    ASSUME NEW n \in Nat, n # 0
    PROVE  1 + HalfEven((n - 1) * 95, 100) \in 1..n
  <1> DEFINE q == ((n - 1) * 95) \div 100
             r == ((n - 1) * 95) % 100
  <1>1. q \in Nat /\ r \in 0..99 /\ (n - 1) * 95 = 100 * q + r
    OBVIOUS
  <1>2. HalfEven((n - 1) * 95, 100) = IF 2 * r > 100 \/ (2 * r = 100 /\ q % 2 = 1) THEN q + 1 ELSE q
    BY DEF HalfEven
  <1> HIDE DEF q, r
  <1>3. q <= n - 1 /\ (q = n - 1 => r = 0)
    BY <1>1
  <1> QED
    BY <1>1, <1>2, <1>3

LEMMA Percentiles ==
    ASSUME NEW values, IsFiniteSet(DOMAIN values), DOMAIN values # {},
           \A x \in DOMAIN values : values[x] \in Int
    PROVE  P95(values) \in Int
  <1> DEFINE size == Cardinality(DOMAIN values)
             rank == 1 + HalfEven((size - 1) * 95, 100)
             Good == {v \in Range(values) : Cardinality({n \in DOMAIN values : values[n] <= v}) >= rank}
  <1>1. size \in Nat /\ size # 0
    BY FS_CardinalityType, FS_EmptySet
  <1>2. rank \in 1..size
    BY <1>1, Ranks
  <1>3. Range(values) \subseteq Int /\ Range(values) # {} /\ IsFiniteSet(Range(values))
    <2>1. Range(values) \subseteq Int /\ Range(values) # {}
      BY DEF Range
    <2> DEFINE f == [x \in DOMAIN values |-> values[x]]
    <2>2. f \in Surjection(DOMAIN values, Range(values))
      BY DEF Surjection, Range
    <2> QED  BY <2>1, <2>2, FS_Surjection
  <1>4. PICK top \in Range(values) : \A v \in Range(values) : v <= top
    BY <1>3, FiniteGreatest
  <1>5. {n \in DOMAIN values : values[n] <= top} = DOMAIN values
    BY <1>4 DEF Range
  <1>6. top \in Good
    <2> HIDE DEF rank, size
    <2> QED  BY <1>1, <1>2, <1>4, <1>5 DEF size
  <1>7. Good \subseteq Range(values)
    OBVIOUS
  <1>8. P95(values) = Min(Good)
    BY DEF P95
  <1> HIDE DEF Good
  <1>9. Min(Good) \in Good
    BY <1>3, <1>6, <1>7, FS_Subset, FiniteMin
  <1> QED
    BY <1>3, <1>7, <1>8, <1>9

LEMMA Aggregates ==
    ASSUME NEW m, NEW values, IsFiniteSet(DOMAIN values), DOMAIN values # {},
           \A x \in DOMAIN values : values[x] \in Int
    PROVE  Aggregate(m, values) \in Int
  BY Means, Percentiles DEF Aggregate

Measures(metrics) == \A m \in DOMAIN metrics : metrics[m] \in Int

LEMMA ReplacedMeasures ==
    ASSUME NEW metrics, Measures(metrics), NEW new, Measures(new)
    PROVE  Measures(Replaced(metrics, new))
  BY DEF Measures, Replaced

\* What the assumptions of EvaluationReport say of a case and of a result.
FiniteCase(e) ==
    /\ IsFiniteSet(e.chunks) /\ IsFiniteSet(e.docs) /\ IsFiniteSet(e.keywords)
    /\ IsFiniteSet(e.answer) /\ IsFiniteSet(e.slots)
    /\ IsFiniteSet(e.entities) /\ IsFiniteSet(e.relations)
FiniteResult(r) ==
    /\ r.selected \in Nat
    /\ r.confidence \in Int /\ r.latency \in Int /\ r.tokens \in Int /\ r.claims \in Int
    /\ r.decision # <<>> => r.decision.sufficiency \in Int /\ r.decision.calls \in Int
    /\ r.cites \in Seq(DOMAIN ChunkWords) /\ r.items \in Seq(DOMAIN ChunkWords)
    /\ IsFiniteSet(r.paths)

LEMMA Parts ==
    ASSUME NEW S, IsFiniteSet(S), NEW T, T \subseteq S
    PROVE  IsFiniteSet(T) /\ Cardinality(T) \in Nat
  BY FS_Subset, FS_CardinalityType

LEMMA SignalNumbers ==
    ASSUME NEW e, FiniteCase(e), NEW r
    PROVE  /\ TargetCount(e) \in Nat
           /\ MatchedTargets(e, r) \in Nat
           /\ Hits(EvidenceWords(r), e.keywords) + AnswerHit(e, EvidenceWords(r)) \in Nat
  <1>1. \A words : Hits(words, e.keywords) \in Nat /\ Hits(words, e.answer) \in Nat
    <2> TAKE words
    <2>1. IsFiniteSet(e.keywords) /\ IsFiniteSet(e.answer)
      BY DEF FiniteCase
    <2>2. words \cap e.keywords \subseteq e.keywords /\ words \cap e.answer \subseteq e.answer
      OBVIOUS
    <2> QED  BY <2>1, <2>2, Parts DEF Hits
  <1>2. \A words : AnswerHit(e, words) \in Nat
    BY <1>1 DEF AnswerHit
  <1>3. /\ Cardinality(e.chunks) \in Nat /\ Cardinality(e.docs) \in Nat
        /\ Cardinality(e.keywords) \in Nat /\ Cardinality(e.answer) \in Nat
    BY FS_CardinalityType DEF FiniteCase
  <1>4. \A S : Cardinality(e.chunks \cap S) \in Nat /\ Cardinality(e.docs \cap S) \in Nat
    <2> TAKE S
    <2>1. IsFiniteSet(e.chunks) /\ IsFiniteSet(e.docs)
      BY DEF FiniteCase
    <2>2. e.chunks \cap S \subseteq e.chunks /\ e.docs \cap S \subseteq e.docs
      OBVIOUS
    <2> QED  BY <2>1, <2>2, Parts
  <1>5. TargetCount(e) \in Nat
    BY <1>3 DEF TargetCount
  <1>6. MatchedTargets(e, r) \in Nat
    BY <1>1, <1>2, <1>4 DEF MatchedTargets
  <1> QED
    BY <1>1, <1>2, <1>5, <1>6

LEMMA RankNumbers ==
    ASSUME NEW e, FiniteCase(e), NEW r, FiniteResult(r)
    PROVE  ReciprocalRank(e, r) \in Int /\ CitationCorrectness(e, r) \in Int
  <1>1. Len(r.items) \in Nat /\ DOMAIN r.items = 1..Len(r.items)
    BY DEF FiniteResult
  <1>2. Len(r.cites) \in Nat /\ DOMAIN r.cites = 1..Len(r.cites)
    BY DEF FiniteResult
  <1>3. RelevantRanks(e, r) \subseteq 1..Len(r.items)
    BY <1>1 DEF RelevantRanks
  <1>4. RelevantRanks(e, r) # {} => Rounded(1, Min(RelevantRanks(e, r))) \in Int
    <2> HAVE RelevantRanks(e, r) # {}
    <2>1. Min(RelevantRanks(e, r)) \in RelevantRanks(e, r)
      BY <1>1, <1>3, MinLeast
    <2>2. Min(RelevantRanks(e, r)) \in Nat /\ Min(RelevantRanks(e, r)) # 0
      BY <1>1, <1>3, <2>1
    <2> QED  BY <2>2, Fractions
  <1>5. ReciprocalRank(e, r) \in Int
    BY <1>4, SignalNumbers DEF ReciprocalRank, NotApplicable
  <1>6. Cardinality({n \in DOMAIN r.cites : GoodCitation(e, r, r.cites[n])}) \in Nat
    <2>1. IsFiniteSet(1..Len(r.cites))
      BY <1>2, FS_Interval
    <2>2. {n \in DOMAIN r.cites : GoodCitation(e, r, r.cites[n])} \subseteq 1..Len(r.cites)
      BY <1>2
    <2> QED  BY <2>1, <2>2, Parts
  <1>7. CitationCorrectness(e, r) \in Int
    <2> DEFINE good == Cardinality({n \in DOMAIN r.cites : GoodCitation(e, r, r.cites[n])})
    <2>1. Share(good, Len(r.cites)) \in Int
      <3> HIDE DEF good
      <3>1. good \in Int
        BY <1>6 DEF good
      <3> QED  BY <1>2, <3>1, Fractions
    <2> QED  BY <2>1 DEF CitationCorrectness, NotApplicable
  <1> QED
    BY <1>5, <1>7

LEMMA AnswerNumbers ==
    ASSUME NEW e, FiniteCase(e), NEW r, FiniteResult(r) PROVE Measures(AnswerMetrics(e, r))
  <1>1. /\ Cardinality(r.words \cap e.keywords) \in Nat
        /\ Cardinality(r.words \cap e.slots) \in Nat
    <2>1. IsFiniteSet(e.keywords) /\ IsFiniteSet(e.slots)
      BY DEF FiniteCase
    <2>2. r.words \cap e.keywords \subseteq e.keywords /\ r.words \cap e.slots \subseteq e.slots
      OBVIOUS
    <2> QED  BY <2>1, <2>2, Parts
  <1>2. Cardinality(e.keywords) \in Nat /\ Cardinality(e.slots) \in Nat
    BY FS_CardinalityType DEF FiniteCase
  <1>3. /\ Share(Hits(r.words, e.keywords), Cardinality(e.keywords)) \in Int
        /\ Share(Hits(r.words, e.slots), Cardinality(e.slots)) \in Int
    BY <1>1, <1>2, Fractions DEF Hits
  <1>4. CitationCorrectness(e, r) \in Int
    BY RankNumbers
  <1>5. \A b : Flag(b) \in Int
    BY DEF Flag
  <1>6. r.confidence \in Int
    BY DEF FiniteResult
  <1> QED
    BY <1>3, <1>4, <1>5, <1>6 DEF Measures, AnswerMetrics, NotApplicable

LEMMA CalculatedNumbers ==
    ASSUME NEW e, FiniteCase(e), NEW r, FiniteResult(r) PROVE Measures(CalculatedMetrics(e, r))
  <1> DEFINE found ==
        [recall_at_k |-> Recall(e, r), mrr |-> ReciprocalRank(e, r),
         context_precision |-> ContextPrecision(e, r),
         no_context_rate |-> Flag(r.selected = 0), p95_latency |-> r.latency,
         strategy_selection_accuracy |-> NotApplicable]
  <1>1. Recall(e, r) \in Int
    BY SignalNumbers, Fractions DEF Recall, NotApplicable
  <1>2. ContextPrecision(e, r) \in Int
    <2> DEFINE hits == Hits(EvidenceWords(r), e.keywords) + AnswerHit(e, EvidenceWords(r))
    <2>1. hits \in Int /\ r.selected \in Nat
      BY SignalNumbers DEF FiniteResult
    <2>2. Share(hits, r.selected) \in Int
      <3> HIDE DEF hits
      <3> QED  BY <2>1, Fractions
    <2> QED  BY <2>2 DEF ContextPrecision
  <1>3. Flag(r.selected = 0) \in Int /\ r.latency \in Int /\ NotApplicable \in Int
    BY DEF Flag, FiniteResult, NotApplicable
  <1>4. Measures(found)
    BY <1>1, <1>2, <1>3, RankNumbers DEF Measures
  <1> QED
    BY <1>4, AnswerNumbers, ReplacedMeasures DEF CalculatedMetrics

LEMMA RetrievalNumbers ==
    ASSUME NEW e, FiniteCase(e), NEW target, NEW r, FiniteResult(r), NEW baseline \in Int
    PROVE  /\ Measures(AgenticMetrics(e, target, r))
           /\ Measures(SkipReplacements(r))
           /\ Measures(GraphMetrics(e, target, r))
           /\ Measures(TraceMetrics(target, r))
           /\ Measures(CacheMetrics(target, r, baseline))
           /\ Measures(ClaimMetric(r))
  <1>0. \A b : Flag(b) \in Int
    BY DEF Flag
  <1>00. NotApplicable \in Int
    BY DEF NotApplicable
  <1>1. Measures(AgenticMetrics(e, target, r))
    BY <1>0, <1>00 DEF AgenticMetrics, Measures, FiniteResult
  <1>2. Measures(SkipReplacements(r))
    BY <1>00 DEF SkipReplacements, Measures
  <1>3. Measures(GraphMetrics(e, target, r))
    <2> DEFINE paths == ShownPaths(r)
               hints == e.entities \cup e.relations
    <2>1. IsFiniteSet(paths) /\ Cardinality(paths) \in Nat
      <3>1. IsFiniteSet(r.paths) /\ paths \subseteq r.paths
        BY DEF FiniteResult, ShownPaths
      <3> QED  BY <3>1, Parts
    <2>2. IsFiniteSet(hints)
      BY FS_Union DEF FiniteCase
    <2>3. \A S : Share(Cardinality(hints \cap S), Cardinality(hints)) \in Int
      <3> HIDE DEF hints
      <3> TAKE S
      <3>1. Cardinality(hints \cap S) \in Nat
        BY <2>2, Parts, hints \cap S \subseteq hints
      <3>2. Cardinality(hints) \in Nat
        BY <2>2, FS_CardinalityType
      <3> QED  BY <3>1, <3>2, Fractions
    <2>4. GraphCitationCoverage(r, paths) \in Int
      <3> HIDE DEF paths
      <3>1. Cardinality({p \in paths : CitablePath(r, p)}) \in Nat
        BY <2>1, Parts, {x \in paths : CitablePath(r, x)} \subseteq paths
      <3> QED  BY <2>1, <3>1, Fractions DEF GraphCitationCoverage
    <2>5. 1000 * Cardinality(paths) \in Int
      BY <2>1
    <2> DEFINE observed == UNION {p.entities \cup p.relations : p \in paths}
               depth == Max({0} \cup {p.depth : p \in paths})
               shares == IF hints = {} THEN NotApplicable
                         ELSE Share(Cardinality(hints \cap observed), Cardinality(hints))
               coverage == GraphCitationCoverage(r, paths)
               hops == IF e.hops = 0 THEN NotApplicable
                       ELSE Flag(depth >= e.hops /\ r.selected > 0)
               size == 1000 * Cardinality(paths)
               metrics == [graph_path_relevance |-> shares, graph_citation_coverage |-> coverage,
                           multi_hop_answerability |-> hops,
                           entity_relation_quality_summary |-> size]
    <2>6. shares \in Int /\ hops \in Int
      <3>1. shares \in Int
        <4> HIDE DEF hints, observed
        <4> QED  BY <2>3, <1>00
      <3>2. hops \in Int
        <4> HIDE DEF depth
        <4> QED  BY <1>0, <1>00
      <3> QED  BY <3>1, <3>2
    <2>7. GraphMetrics(e, target, r) =
             IF target.strategy # "graph" \/ r.unavailable
             THEN [m \in GraphMetricNames |-> NotApplicable] ELSE metrics
      BY DEF GraphMetrics
    <2>8. Measures(metrics)
      <3> HIDE DEF paths, hints, shares, hops
      <3> QED  BY <2>4, <2>5, <2>6 DEF Measures
    <2>9. Measures([m \in GraphMetricNames |-> NotApplicable])
      BY <1>00 DEF Measures
    <2> HIDE DEF metrics
    <2> QED  BY <2>7, <2>8, <2>9
  <1>4. Measures(TraceMetrics(target, r))
    BY <1>0, <1>00 DEF TraceMetrics, Measures
  <1>5. Measures(CacheMetrics(target, r, baseline))
    <2>1. Max({0, baseline - r.latency}) \in Int
      <3>1. r.latency \in Int
        BY DEF FiniteResult
      <3>2. {0, baseline - r.latency} \subseteq Int /\ {0, baseline - r.latency} # {}
        BY <3>1
      <3>3. IsFiniteSet({0, baseline - r.latency})
        <4> DEFINE saved == {baseline - r.latency}
        <4>1. IsFiniteSet(saved)
          BY FS_Singleton
        <4>2. {0, baseline - r.latency} = saved \cup {0}
          OBVIOUS
        <4> HIDE DEF saved
        <4> QED  BY <4>1, <4>2, FS_AddElement
      <3> QED  BY <3>2, <3>3, FiniteMax
    <2> QED  BY <2>1, <1>0, <1>00 DEF CacheMetrics, Measures
  <1>6. Measures(ClaimMetric(r))
    BY DEF ClaimMetric, Measures, FiniteResult
  <1> QED
    BY <1>1, <1>2, <1>3, <1>4, <1>5, <1>6

LEMMA MeasuredNumbers ==
    ASSUME NEW e, FiniteCase(e), NEW target, NEW r, FiniteResult(r), NEW baseline \in Int
    PROVE  Measures(Measured(e, target, r, baseline))
  BY CalculatedNumbers, RetrievalNumbers, ReplacedMeasures DEF Measured

LEMMA ReplacedAre ==
    ASSUME NEW metrics, NEW new, NEW m
    PROVE  /\ m \in DOMAIN Replaced(metrics, new) <=> m \in DOMAIN metrics \/ m \in DOMAIN new
           /\ m \in DOMAIN new => Replaced(metrics, new)[m] = new[m]
           /\ m \in DOMAIN metrics /\ m \notin DOMAIN new => Replaced(metrics, new)[m] = metrics[m]
  BY DEF Replaced

\* Every case has a rate of empty contexts.
LEMMA MeasuredOfAll ==
    ASSUME NEW e, NEW target, NEW r, NEW baseline
    PROVE  /\ "no_context_rate" \in DOMAIN FailureMetrics(e)
           /\ "no_context_rate" \in DOMAIN Measured(e, target, r, baseline)
  <1>1. \A x : "no_context_rate" \in DOMAIN CalculatedMetrics(e, x)
    <2> TAKE x
    <2> DEFINE found ==
          [recall_at_k |-> Recall(e, x), mrr |-> ReciprocalRank(e, x),
           context_precision |-> ContextPrecision(e, x),
           no_context_rate |-> Flag(x.selected = 0), p95_latency |-> x.latency,
           strategy_selection_accuracy |-> NotApplicable]
    <2>1. "no_context_rate" \in DOMAIN found
      OBVIOUS
    <2>2. CalculatedMetrics(e, x) = Replaced(AnswerMetrics(e, x), found)
      BY DEF CalculatedMetrics
    <2> HIDE DEF found
    <2> QED  BY <2>1, <2>2, ReplacedAre
  <1> DEFINE one == Replaced(CalculatedMetrics(e, r), AgenticMetrics(e, target, r))
             two == Replaced(one, SkipReplacements(r))
             three == Replaced(two, Replaced(Replaced(GraphMetrics(e, target, r),
                                                      TraceMetrics(target, r)),
                                             CacheMetrics(target, r, baseline)))
  <1>2. "no_context_rate" \in DOMAIN one
    BY <1>1, ReplacedAre
  <1>3. "no_context_rate" \in DOMAIN two
    <2> HIDE DEF one
    <2> QED  BY <1>2, ReplacedAre
  <1>4. "no_context_rate" \in DOMAIN three
    <2> HIDE DEF two
    <2> QED  BY <1>3, ReplacedAre
  <1>5. Measured(e, target, r, baseline) = Replaced(three, ClaimMetric(r))
    BY DEF Measured
  <1> HIDE DEF three
  <1> QED
    BY <1>1, <1>4, <1>5, ReplacedAre DEF FailureMetrics

\* The qualities that a skipped item says nothing about.
Quality == (SkipBase \ {"claim_faithfulness"}) \cup GraphMetricNames \cup {"fallback_rate"}

\* _provider_skip_base_metric_replacements and the metrics replaced after it.
LEMMA MeasuredOfSkipped ==
    ASSUME NEW e, NEW target, target.strategy = "graph", NEW r, r.unavailable, NEW baseline
    PROVE  LET metrics == Measured(e, target, r, baseline)
           IN /\ \A m \in DOMAIN metrics \cap (Quality \cup {"strategy_selection_accuracy"}) :
                    metrics[m] = NotApplicable
              /\ "budget_exhausted_rate" \notin DOMAIN metrics
              /\ TellingMetrics \subseteq DOMAIN metrics
  <1> DEFINE calculated == CalculatedMetrics(e, r)
             agentic == AgenticMetrics(e, target, r)
             skip == SkipReplacements(r)
             graph == GraphMetrics(e, target, r)
             trace == TraceMetrics(target, r)
             saved == CacheMetrics(target, r, baseline)
             claim == ClaimMetric(r)
             decided == Replaced(calculated, agentic)
             answered == Replaced(decided, skip)
             traced == Replaced(graph, trace)
             searched == Replaced(traced, saved)
             metrics == Replaced(Replaced(answered, searched), claim)
  <1>1. DOMAIN agentic = {}
    BY DEF AgenticMetrics, Agentic, ToolStrategies
  <1>2. DOMAIN skip = SkipBase /\ \A m \in SkipBase : skip[m] = NotApplicable
    BY DEF SkipReplacements
  <1>3. DOMAIN graph = GraphMetricNames /\ \A m \in GraphMetricNames : graph[m] = NotApplicable
    BY DEF GraphMetrics
  <1>4. DOMAIN trace = {"fallback_rate"} /\ trace["fallback_rate"] = NotApplicable
    BY DEF TraceMetrics, Agentic, ToolStrategies
  <1>5. DOMAIN saved = {"cache_hit_rate", "cache_saved_latency"}
    BY DEF CacheMetrics
  <1>6. DOMAIN claim \subseteq {"claim_faithfulness"}
    BY DEF ClaimMetric
  <1>7. /\ "budget_exhausted_rate" \notin DOMAIN calculated
        /\ calculated["strategy_selection_accuracy"] = NotApplicable
    <2> DEFINE found ==
          [recall_at_k |-> Recall(e, r), mrr |-> ReciprocalRank(e, r),
           context_precision |-> ContextPrecision(e, r),
           no_context_rate |-> Flag(r.selected = 0), p95_latency |-> r.latency,
           strategy_selection_accuracy |-> NotApplicable]
    <2>1. /\ "budget_exhausted_rate" \notin DOMAIN found
          /\ "strategy_selection_accuracy" \in DOMAIN found
          /\ found["strategy_selection_accuracy"] = NotApplicable
      OBVIOUS
    <2>2. "budget_exhausted_rate" \notin DOMAIN AnswerMetrics(e, r)
      BY DEF AnswerMetrics
    <2>3. calculated = Replaced(AnswerMetrics(e, r), found)
      BY DEF CalculatedMetrics
    <2> HIDE DEF found, calculated
    <2> QED  BY <2>1, <2>2, <2>3, ReplacedAre
  <1>8. metrics = Measured(e, target, r, baseline)
    BY DEF Measured
  <1> HIDE DEF calculated, agentic, skip, graph, trace, saved, claim
  <1>9. /\ DOMAIN answered = DOMAIN calculated \cup SkipBase
        /\ \A m \in SkipBase : answered[m] = NotApplicable
        /\ \A m \in DOMAIN calculated \ SkipBase : answered[m] = calculated[m]
    <2>1. \A m : /\ m \in DOMAIN decided <=> m \in DOMAIN calculated
                 /\ m \in DOMAIN calculated => decided[m] = calculated[m]
      BY <1>1, ReplacedAre
    <2> HIDE DEF decided
    <2>2. \A m : m \in DOMAIN answered <=> m \in DOMAIN calculated \/ m \in SkipBase
      BY <1>2, <2>1, ReplacedAre
    <2>3. \A m \in SkipBase : answered[m] = NotApplicable
      BY <1>2, ReplacedAre
    <2>4. \A m \in DOMAIN calculated \ SkipBase : answered[m] = calculated[m]
      BY <1>2, <2>1, ReplacedAre
    <2>5. DOMAIN answered = DOMAIN calculated \cup SkipBase
      <3> HIDE DEF answered
      <3> QED  BY <2>2
    <2> QED  BY <2>3, <2>4, <2>5
  <1>10. /\ DOMAIN searched = GraphMetricNames \cup {"fallback_rate", "cache_hit_rate",
                                                       "cache_saved_latency"}
         /\ \A m \in GraphMetricNames \cup {"fallback_rate"} : searched[m] = NotApplicable
    <2>1. \A m : /\ m \in DOMAIN traced <=> m \in GraphMetricNames \/ m = "fallback_rate"
                 /\ m \in GraphMetricNames \cup {"fallback_rate"} => traced[m] = NotApplicable
      BY <1>3, <1>4, ReplacedAre
    <2> HIDE DEF traced
    <2>2. \A m : m \in DOMAIN searched
                   <=> m \in GraphMetricNames \cup {"fallback_rate", "cache_hit_rate",
                                                   "cache_saved_latency"}
      BY <1>5, <2>1, ReplacedAre
    <2>3. \A m \in GraphMetricNames \cup {"fallback_rate"} : m \notin DOMAIN saved
      BY <1>5 DEF GraphMetricNames
    <2> QED  BY <2>1, <2>2, <2>3, ReplacedAre
  <1> HIDE DEF answered, searched
  <1>11. ASSUME NEW m \in DOMAIN metrics, m # "claim_faithfulness"
         PROVE  /\ m \in DOMAIN answered \cup DOMAIN searched
                /\ metrics[m] = IF m \in DOMAIN searched THEN searched[m] ELSE answered[m]
    <2> DEFINE both == Replaced(answered, searched)
    <2>1. /\ m \in DOMAIN both <=> m \in DOMAIN answered \/ m \in DOMAIN searched
          /\ m \in DOMAIN both => both[m] = IF m \in DOMAIN searched THEN searched[m]
                                                                 ELSE answered[m]
      BY ReplacedAre
    <2>2. m \notin DOMAIN claim
      BY <1>6, <1>11
    <2> HIDE DEF both
    <2> QED  BY <1>11, <2>1, <2>2, ReplacedAre
  <1>14. DOMAIN answered \cup DOMAIN searched \subseteq DOMAIN metrics
    BY DEF Replaced
  <1> HIDE DEF metrics
  <1>15. TellingMetrics \subseteq DOMAIN metrics
    BY <1>9, <1>10, <1>14 DEF TellingMetrics
  <1>12. "budget_exhausted_rate" \notin DOMAIN metrics
    BY <1>7, <1>9, <1>10, <1>11 DEF SkipBase, AnswerDependent, GraphMetricNames
  <1>13. ASSUME NEW m \in DOMAIN metrics, m \in Quality \cup {"strategy_selection_accuracy"}
         PROVE  metrics[m] = NotApplicable
    <2>1. m # "claim_faithfulness"
      BY <1>13 DEF Quality, GraphMetricNames
    <2>2. CASE m \in GraphMetricNames \cup {"fallback_rate"}
      BY <2>1, <2>2, <1>10, <1>11
    <2>3. CASE m \in SkipBase
      <3>1. m \notin DOMAIN searched
        BY <2>3, <1>10 DEF SkipBase, AnswerDependent, GraphMetricNames
      <3> QED  BY <2>1, <2>3, <3>1, <1>9, <1>11
    <2>4. CASE m = "strategy_selection_accuracy"
      <3>1. m \notin DOMAIN searched /\ m \notin SkipBase
        BY <2>4, <1>10 DEF SkipBase, AnswerDependent, GraphMetricNames
      <3> QED  BY <2>1, <2>4, <3>1, <1>7, <1>9, <1>11
    <2> QED  BY <1>13, <2>2, <2>3, <2>4 DEF Quality
  <1> QED
    BY <1>8, <1>12, <1>13, <1>15

-----------------------------------------------------------------------------
(* The rows of two runs.                                                   *)

SkippedRow(asked, row) ==
    /\ row.skipped /\ row.status = "succeeded" /\ row.error = "none"
    /\ row.target.strategy = "graph" /\ asked \cap TellingMetrics \subseteq DOMAIN row.metrics
    /\ \A m \in DOMAIN row.metrics \cap (Quality \cup {"strategy_selection_accuracy"}) :
          row.metrics[m] = NotApplicable
    /\ "budget_exhausted_rate" \notin DOMAIN row.metrics

\* A row of a run that asked for certain metrics.
GoodRow(asked, row) ==
    /\ row.status \in {"succeeded", "failed", "running"}
    /\ row.tokens \in Int /\ row.took \in Int /\ Measures(row.metrics)
    /\ \E strategy, mode : row.target = TargetOf(strategy, mode) /\ mode \in Range(ModeOrder)
    /\ row.status = "running" => row.outcome = "none" /\ DOMAIN row.metrics = {}
    /\ row.status # "running" =>
          /\ row.label = row.target.label
          /\ "no_context_rate" \in asked => "no_context_rate" \in DOMAIN row.metrics
    /\ row.skipped => SkippedRow(asked, row)

\* The rows of a run are a list; the one that was left running is the last.
GoodRows(asked, rows) ==
    /\ rows \in Seq(Range(rows))
    /\ \A n \in DOMAIN rows : GoodRow(asked, rows[n])
    /\ \A k, n \in DOMAIN rows : rows[k].status = "running" => n <= k

StudyRows ==
    study # NoStudy =>
        /\ study \in Studies /\ DOMAIN stored = Sides
        /\ \A side \in Sides : GoodRows(study[side].metrics, stored[side])

LEMMA StudyRowsInit == ReportInit => StudyRows
  <1> SUFFICES ASSUME ReportInit, NEW side \in Sides
               PROVE  study \in Studies /\ DOMAIN stored = Sides /\ GoodRows(study[side].metrics, stored[side])
    BY DEF StudyRows, Sides
  <1>1. study \in Studies /\ DOMAIN stored = Sides /\ stored[side] = <<>>
    BY DEF ReportInit
  <1>2. <<>> \in Seq(Range(<<>>))
    OBVIOUS
  <1> QED
    BY <1>1, <1>2 DEF GoodRows

LEMMA Added ==
    ASSUME NEW asked, NEW rows, GoodRows(asked, rows), NEW row, GoodRow(asked, row),
           \A n \in DOMAIN rows : rows[n].status # "running"
    PROVE  GoodRows(asked, Append(rows, row))
  <1> DEFINE T == Range(rows) \cup {row}
             more == Append(rows, row)
  <1>1. rows \in Seq(T) /\ row \in T
    BY SeqMonotonic DEF GoodRows
  <1>2. PICK new : new = more
    OBVIOUS
  <1>3. /\ new \in Seq(T) /\ Len(new) = Len(rows) + 1 /\ Len(rows) \in Nat
        /\ DOMAIN rows = 1..Len(rows) /\ DOMAIN new = 1..(Len(rows) + 1)
        /\ \A n \in 1..Len(rows) : new[n] = rows[n]
        /\ new[Len(rows) + 1] = row
    <2> HIDE DEF T
    <2> QED  BY <1>1, <1>2
  <1>4. new \in Seq(Range(new))
    <2>1. new \in [1..Len(new) -> Range(new)]
      BY <1>3 DEF Range
    <2> QED  BY <1>3, <2>1
  <1>5. \A n \in DOMAIN new : GoodRow(asked, new[n]) /\ (n <= Len(rows) => new[n].status # "running")
    BY <1>3 DEF GoodRows
  <1>6. \A k, n \in DOMAIN new : new[k].status = "running" => n <= k
    BY <1>3, <1>5
  <1> QED
    BY <1>2, <1>4, <1>5, <1>6 DEF GoodRows

\* _selected_strategy_targets: every target is of a strategy of the run.
LEMMA SelectedAre ==
    ASSUME NEW strategies \in Seq(STRING), NEW modes
    PROVE  /\ SelectedTargets(strategies, modes) \in
                Seq({TargetOf(strategies[n], mode) : n \in DOMAIN strategies, mode \in Range(ModeOrder)})
  <1> DEFINE target(k) == TargetOf(strategies[1 + (k \div 4)], ModeOrder[1 + (k % 4)])
             asked(k) == target(k).cache \in ModesOf(target(k), modes)
             seen(k) == \E j \in 0..(k - 1) : asked(j) /\ target(j) = target(k)
             places == 0..(4 * Len(strategies) - 1)
             taken == {k \in places : asked(k) /\ ~seen(k)}
             chosen == InOrder(taken)
             All == {TargetOf(strategies[n], mode) : n \in DOMAIN strategies, mode \in Range(ModeOrder)}
  <1>1. SelectedTargets(strategies, modes) = [n \in DOMAIN chosen |-> target(chosen[n])]
    BY DEF SelectedTargets
  <1>2. taken \subseteq places /\ places \subseteq Int /\ IsFiniteSet(places)
    <2>1. Len(strategies) \in Nat /\ 4 * Len(strategies) - 1 \in Int
      OBVIOUS
    <2> HIDE DEF target, seen
    <2> QED  BY <2>1, FS_Interval
  <1>3. IsFiniteSet(taken) /\ Cardinality(taken) \in Nat /\ taken \subseteq Int
    <2> HIDE DEF taken, places
    <2> QED  BY <1>2, Parts
  <1>4. \A k \in places : target(k) \in All
    <2> TAKE k \in places
    <2>1. Len(strategies) \in Nat /\ DOMAIN strategies = 1..Len(strategies)
      OBVIOUS
    <2>2. 1 + (k \div 4) \in DOMAIN strategies /\ 1 + (k % 4) \in 1..4
      BY <2>1
    <2>3. ModeOrder[1 + (k % 4)] \in Range(ModeOrder)
      BY <2>2 DEF Range, ModeOrder
    <2> QED  BY <2>2, <2>3
  <1>5. DOMAIN chosen = 1..Cardinality(taken)
    BY DEF InOrder
  <1>6. \A n \in DOMAIN chosen : chosen[n] \in taken
    <2> HIDE DEF taken, chosen
    <2> QED  BY <1>3, <1>5, PlaceInOrder DEF chosen
  <1>7. \A n \in 1..Cardinality(taken) : target(chosen[n]) \in All
    <2> HIDE DEF All, chosen, target
    <2> QED  BY <1>2, <1>4, <1>5, <1>6
  <1> HIDE DEF chosen, taken, All, target
  <1> QED
    BY <1>1, <1>3, <1>5, <1>7 DEF All

\* The case and the target of the next item are of the run.
LEMMA NextIsOfTheRun ==
    ASSUME study \in Studies, NEW side \in Sides, stored[side] \in Seq(Range(stored[side])),
           Ahead(side) < Planned(side)
    PROVE  /\ CaseAhead(side) \in DOMAIN Expected
           /\ TargetAhead(side).strategy \in DOMAIN Results
           /\ \E strategy, mode : /\ TargetAhead(side) = TargetOf(strategy, mode)
                                  /\ mode \in Range(ModeOrder)
  <1> DEFINE cases == study[side].cases
             strategies == study[side].strategies
             targets == Targets(side)
             C == Len(cases)
             L == Len(targets)
             A == Ahead(side)
             All == {TargetOf(strategies[n], mode) : n \in DOMAIN strategies, mode \in Range(ModeOrder)}
  <1>1. /\ cases \in Seq(DOMAIN Expected) /\ strategies \in Seq(STRING)
        /\ \A n \in DOMAIN strategies : BaseTarget(strategies[n]).strategy \in DOMAIN Results
    BY StudiesAssumption
  <1>2. targets \in Seq(All)
    BY <1>1, SelectedAre DEF Targets
  <1> HIDE DEF cases, targets, All
  <1>3. A \in Nat /\ A < C * L
    BY DEF Ahead, Planned, cases, targets
  <1>4. C \in Nat /\ L \in Nat
    BY <1>1, <1>2
  <1> HIDE DEF A, C, L
  <1>5. L # 0
    BY <1>3, <1>4
  <1> DEFINE q == A \div L
             r == A % L
  <1>6. q \in Nat /\ r \in 0..(L - 1) /\ A = L * q + r
    BY <1>3, <1>4, <1>5
  <1> HIDE DEF q, r
  <1>7. q < C
    <2> SUFFICES ASSUME C <= q PROVE FALSE
      BY <1>4, <1>6
    <2>1. \A x, y, z \in Nat : x <= y => z * x <= z * y
      OBVIOUS
    <2>2. L * C <= L * q
      BY <2>1, <1>4, <1>6
    <2>3. C * L = L * C /\ L * C \in Nat /\ L * q \in Nat
      BY <1>4, <1>6
    <2> QED  BY <1>3, <1>6, <2>2, <2>3
  <1>8. 1 + q \in 1..C /\ 1 + r \in 1..L
    BY <1>4, <1>6, <1>7
  <1>9. cases[1 + q] \in DOMAIN Expected /\ targets[1 + r] \in All
    BY <1>1, <1>2, <1>8 DEF C, L
  <1>10. CaseAhead(side) = cases[1 + q] /\ TargetAhead(side) = targets[1 + r]
    BY DEF CaseAhead, TargetAhead, cases, targets, q, r, A, L
  <1>11. PICK n \in DOMAIN strategies, mode \in Range(ModeOrder) :
           TargetAhead(side) = TargetOf(strategies[n], mode)
    BY <1>9, <1>10 DEF All
  <1>12. TargetAhead(side).strategy = BaseTarget(strategies[n]).strategy
    BY <1>11 DEF TargetOf
  <1> QED
    BY <1>1, <1>9, <1>10, <1>11, <1>12

\* The cold call an item is measured against took a number of milliseconds.
LEMMA BaselineNumber ==
    ASSUME NEW side, NEW asked, GoodRows(asked, stored[side]) PROVE Baseline(side) \in Int
  <1> DEFINE cold == {n \in DOMAIN stored[side] :
                        /\ stored[side][n].case = CaseAhead(side)
                        /\ stored[side][n].label = <<TargetAhead(side).label[1], "cold">>
                        /\ stored[side][n].took # NotApplicable}
  <1>1. DOMAIN stored[side] \subseteq Nat
    BY DEF GoodRows
  <1>2. cold # {} => Min(cold) \in DOMAIN stored[side]
    <2>1. cold \subseteq Nat /\ cold \subseteq DOMAIN stored[side]
      BY <1>1
    <2> HIDE DEF cold
    <2> QED  BY <2>1, MinLeast
  <1>3. \A n \in DOMAIN stored[side] : stored[side][n].took \in Int
    BY DEF GoodRows, GoodRow
  <1>4. Baseline(side) = IF cold = {} THEN NotApplicable ELSE stored[side][Min(cold)].took
    BY DEF Baseline
  <1> HIDE DEF cold
  <1> QED
    BY <1>2, <1>3, <1>4 DEF NotApplicable

\* A row of _store_case_result with the metrics the run asked for.
LEMMA StoredRow ==
    ASSUME NEW side, NEW status \in {"succeeded", "failed", "running"}, NEW r, FiniteResult(r),
           NEW metrics, Measures(metrics),
           \E strategy, mode : /\ TargetAhead(side) = TargetOf(strategy, mode)
                               /\ mode \in Range(ModeOrder),
           status # "running" => "no_context_rate" \in DOMAIN metrics,
           status = "running" => r.outcome = "none" /\ DOMAIN metrics = {},
           r.unavailable =>
             /\ status = "succeeded" /\ TargetAhead(side).strategy = "graph"
             /\ TellingMetrics \subseteq DOMAIN metrics
             /\ \A m \in DOMAIN metrics \cap (Quality \cup {"strategy_selection_accuracy"}) :
                   metrics[m] = NotApplicable
             /\ "budget_exhausted_rate" \notin DOMAIN metrics
    PROVE  GoodRow(study[side].metrics, ItemRow(side, status, r, metrics))
  <1> DEFINE row == ItemRow(side, status, r, metrics)
  <1>1. /\ row.status = status /\ row.target = TargetAhead(side) /\ row.outcome = r.outcome
        /\ row.label = TargetAhead(side).label /\ row.skipped = r.unavailable
        /\ row.took = r.latency
        /\ row.tokens = IF status = "succeeded" THEN r.tokens ELSE NotApplicable
        /\ row.error = IF status = "failed" THEN r.error ELSE "none"
        /\ DOMAIN row.metrics = DOMAIN metrics \cap study[side].metrics
        /\ \A m \in DOMAIN row.metrics : row.metrics[m] = metrics[m]
    BY DEF ItemRow
  <1> HIDE DEF row
  <1>2. row.tokens \in Int /\ row.took \in Int /\ Measures(row.metrics)
    BY <1>1 DEF FiniteResult, Measures, NotApplicable
  <1>3. row.skipped => SkippedRow(study[side].metrics, row)
    BY <1>1 DEF SkippedRow
  <1> QED
    BY <1>1, <1>2, <1>3 DEF GoodRow, row

\* What the service gives is what the assumptions say.
LEMMA ResultsAreFinite ==
    ASSUME NEW s \in DOMAIN Results, NEW r \in Results[s]
    PROVE  FiniteResult(r) /\ (r.unavailable => s = "graph")
  BY ResultsAssumption DEF FiniteResult

LEMMA CasesAreFinite == \A c \in DOMAIN Expected : FiniteCase(Expected[c])
  BY ExpectedAssumption DEF FiniteCase

LEMMA NothingIsFinite == FiniteResult(Nothing) /\ ~Nothing.unavailable
  <1>1. <<>> \in Seq(DOMAIN ChunkWords)
    OBVIOUS
  <1> QED
    BY <1>1, FS_EmptySet DEF FiniteResult, Nothing, NotApplicable

LEMMA StudyRowsStep == StudyRows /\ [ReportNext]_reportVars => StudyRows'
  <1> SUFFICES ASSUME StudyRows, [ReportNext]_reportVars, study' # NoStudy PROVE StudyRows'
    BY DEF StudyRows
  <1>1. CASE UNCHANGED reportVars
    BY <1>1 DEF reportVars, StudyRows
  <1>2. CASE ReportNext
    <2>1. PICK side \in Sides : Evaluate(side) \/ EvaluateRaises(side) \/ LeaveRunning(side)
      BY <1>2 DEF ReportNext
    <2>2. Going(side)
      BY <2>1 DEF Evaluate, EvaluateRaises, LeaveRunning
    <2>3. /\ study # NoStudy /\ study \in Studies /\ DOMAIN stored = Sides
          /\ GoodRows(study[side].metrics, stored[side])
          /\ Ahead(side) < Planned(side)
          /\ \A n \in DOMAIN stored[side] : stored[side][n].status # "running"
      BY <2>2 DEF Going, StudyRows
    <2>4. /\ CaseAhead(side) \in DOMAIN Expected
          /\ TargetAhead(side).strategy \in DOMAIN Results
          /\ \E strategy, mode : /\ TargetAhead(side) = TargetOf(strategy, mode)
                                 /\ mode \in Range(ModeOrder)
      BY <2>3, NextIsOfTheRun DEF GoodRows
    <2> DEFINE e == Expected[CaseAhead(side)]
               target == TargetAhead(side)
               asked == study[side].metrics
    <2>5. FiniteCase(e) /\ Baseline(side) \in Int
      BY <2>3, <2>4, CasesAreFinite, BaselineNumber
    <2>6. \E row : Store(side, row) /\ GoodRow(asked, row)
      <3>1. CASE Evaluate(side)
        <4>1. PICK r \in Results[target.strategy] :
                Store(side, ItemRow(side, IF r.status = "succeeded" \/ r.unavailable
                                          THEN "succeeded" ELSE "failed", r,
                                    Measured(e, target, r, Baseline(side))))
          BY <3>1 DEF Evaluate
        <4>2. FiniteResult(r) /\ (r.unavailable => target.strategy = "graph")
          BY <2>4, ResultsAreFinite
        <4> DEFINE metrics == Measured(e, target, r, Baseline(side))
                   status == IF r.status = "succeeded" \/ r.unavailable
                             THEN "succeeded" ELSE "failed"
        <4>3. Measures(metrics)
          BY <2>5, <4>2, MeasuredNumbers
        <4>4. "no_context_rate" \in DOMAIN metrics
          BY MeasuredOfAll
        <4>5. r.unavailable =>
                /\ \A m \in DOMAIN metrics \cap (Quality \cup {"strategy_selection_accuracy"}) :
                      metrics[m] = NotApplicable
                /\ "budget_exhausted_rate" \notin DOMAIN metrics
                /\ TellingMetrics \subseteq DOMAIN metrics
          BY <4>2, MeasuredOfSkipped
        <4>6. /\ status \in {"succeeded", "failed", "running"} /\ status # "running"
              /\ r.unavailable => status = "succeeded" /\ target.strategy = "graph"
          BY <4>2
        <4>7. GoodRow(asked, ItemRow(side, status, r, metrics))
          <5> HIDE DEF metrics, status, target
          <5> QED  BY <2>4, <4>2, <4>3, <4>4, <4>5, <4>6, StoredRow DEF target
        <4> QED  BY <4>1, <4>7
      <3>2. CASE EvaluateRaises(side)
        <4>1. Store(side, ItemRow(side, "failed", Nothing, FailureMetrics(e)))
          BY <3>2 DEF EvaluateRaises
        <4>2. Measures(FailureMetrics(e)) /\ "no_context_rate" \in DOMAIN FailureMetrics(e)
          BY <2>5, NothingIsFinite, CalculatedNumbers, MeasuredOfAll DEF FailureMetrics
        <4>3. GoodRow(asked, ItemRow(side, "failed", Nothing, FailureMetrics(e)))
          BY <2>4, <4>2, NothingIsFinite, StoredRow
        <4> QED  BY <4>1, <4>3
      <3>3. CASE LeaveRunning(side)
        <4> DEFINE plain == ItemRow(side, "running", Nothing, <<>>)
                   row == [plain EXCEPT !.label = <<TargetAhead(side).strategy, "default">>,
                                        !.outcome = "none", !.error = "none"]
        <4>1. Store(side, row)
          BY <3>3 DEF LeaveRunning
        <4>2. /\ row.status = "running" /\ row.outcome = "none" /\ DOMAIN row.metrics = {}
              /\ row.target = TargetAhead(side) /\ ~row.skipped
              /\ row.tokens = NotApplicable /\ row.took = NotApplicable
          BY NothingIsFinite DEF ItemRow, Nothing
        <4>3. GoodRow(asked, row)
          <5> HIDE DEF row
          <5> QED  BY <2>4, <4>2 DEF GoodRow, Measures, NotApplicable
        <4> QED  BY <4>1, <4>3
      <3> QED  BY <2>1, <3>1, <3>2, <3>3
    <2>7. PICK row : Store(side, row) /\ GoodRow(asked, row)
      BY <2>6
    <2>8. study' = study /\ stored' = [stored EXCEPT ![side] = Append(stored[side], row)]
      BY <2>7 DEF Store
    <2>9. GoodRows(asked, Append(stored[side], row))
      BY <2>3, <2>7, Added
    <2> QED  BY <2>3, <2>8, <2>9 DEF StudyRows
  <1> QED
    BY <1>1, <1>2

LEMMA StudyRowsAre == ReportSpec => []StudyRows
  BY StudyRowsInit, StudyRowsStep, PTL DEF ReportSpec

-----------------------------------------------------------------------------
(* A comparison the other way round.                                       *)

Turned(x) == [direction |-> Opposite[x.direction], delta |-> -x.delta]

LEMMA ComparedTurned ==
    ASSUME NEW a \in Int, NEW b \in Int, NEW lower \in BOOLEAN
    PROVE  Compared(b, a, lower) = Turned(Compared(a, b, lower))
  <1>1. Opposite["not_applicable"] = "not_applicable" /\ Opposite["unchanged"] = "unchanged"
        /\ Opposite["improved"] = "regressed" /\ Opposite["regressed"] = "improved"
    BY DEF Opposite
  <1>2. a - b = -(b - a) /\ -0 = 0
    <2>1. \A x \in Int : -x = 0 - x
      OBVIOUS
    <2>2. b - a \in Int /\ a - b = 0 - (b - a)
      OBVIOUS
    <2>3. -(b - a) = 0 - (b - a)
      BY <2>1, <2>2
    <2>4. -0 = 0
      <3>1. 0 \in Int /\ 0 - 0 = 0
        OBVIOUS
      <3> QED  BY <2>1, <3>1, Zenon
    <2> QED  BY <2>2, <2>3, <2>4
  <1>3. Direction(a - b, lower) = Opposite[Direction(b - a, lower)]
    <2>1. CASE b - a = 0
      BY <2>1, <1>1, <1>2 DEF Direction
    <2>2. CASE b - a > 0
      <3>1. a - b # 0 /\ ~(a - b > 0) /\ b - a # 0
        BY <2>2
      <3> QED  BY <2>2, <3>1, <1>1 DEF Direction
    <2>3. CASE b - a < 0
      <3>1. a - b # 0 /\ a - b > 0 /\ b - a # 0 /\ ~(b - a > 0)
        BY <2>3
      <3> QED  BY <3>1, <1>1 DEF Direction
    <2> QED  BY <2>1, <2>2, <2>3
  <1> QED
    BY <1>1, <1>2, <1>3 DEF Compared, Turned

\* _metric_summary: averages of numbers are numbers.
LEMMA SummaryNumbers ==
    ASSUME NEW asked, NEW rows, GoodRows(asked, rows) PROVE Measures(MetricSummary(rows))
  <1> SUFFICES ASSUME NEW m, NEW n \in DOMAIN rows, Counts(rows[n], m)
               PROVE  Aggregate(m, ValuesOf(rows, m)) \in Int
    BY DEF MetricSummary, Measures
  <1>1. IsFiniteSet(DOMAIN rows)
    <2>1. Len(rows) \in Nat /\ DOMAIN rows = 1..Len(rows)
      BY DEF GoodRows
    <2> QED  BY <2>1, FS_Interval
  <1>2. DOMAIN ValuesOf(rows, m) = {k \in DOMAIN rows : Counts(rows[k], m)}
    BY DEF ValuesOf
  <1>3. \A k \in DOMAIN ValuesOf(rows, m) : ValuesOf(rows, m)[k] \in Int
    BY DEF ValuesOf, Counts, GoodRows, GoodRow, Measures
  <1>4. IsFiniteSet(DOMAIN ValuesOf(rows, m)) /\ DOMAIN ValuesOf(rows, m) # {}
    BY <1>1, <1>2, FS_Subset
  <1> QED
    BY <1>3, <1>4, Aggregates

LEMMA TokensNumber ==
    ASSUME NEW asked, NEW rows, GoodRows(asked, rows) PROVE TotalTokens(rows) \in Int
  <1> DEFINE known == {n \in DOMAIN rows : rows[n].status = "succeeded" /\ rows[n].tokens # NotApplicable}
             f == [n \in known |-> rows[n].tokens]
  <1>1. IsFiniteSet(DOMAIN rows)
    <2>1. Len(rows) \in Nat /\ DOMAIN rows = 1..Len(rows)
      BY DEF GoodRows
    <2> QED  BY <2>1, FS_Interval
  <1>2. IsFiniteSet(DOMAIN f) /\ \A n \in DOMAIN f : f[n] \in Int
    BY <1>1, FS_Subset DEF GoodRows, GoodRow
  <1>3. SumFunction(f) \in Int
    <2> HIDE DEF f
    <2> QED  BY <1>2, SumIsNumber
  <1> QED
    BY <1>3 DEF TotalTokens, NotApplicable

\* CompareMetrics: the directions of the metrics turn round.
LEMMA MetricsTurned ==
    ASSUME NEW asked, NEW base, GoodRows(asked, base),
           NEW wanted, NEW candidate, GoodRows(wanted, candidate)
    PROVE  CompareMetrics(candidate, base)
             = [m \in DOMAIN CompareMetrics(base, candidate) |->
                  Turned(CompareMetrics(base, candidate)[m])]
  <1> DEFINE a == MetricSummary(base)
             b == MetricSummary(candidate)
             value(summary, m) == IF m \in DOMAIN summary THEN summary[m] ELSE NotApplicable
             forth == [m \in DOMAIN a \cup DOMAIN b |->
                         Compared(value(a, m), value(b, m), m \in LowerIsBetter)]
             back == [m \in DOMAIN b \cup DOMAIN a |->
                         Compared(value(b, m), value(a, m), m \in LowerIsBetter)]
  <1>1. forth = CompareMetrics(base, candidate) /\ back = CompareMetrics(candidate, base)
    BY DEF CompareMetrics
  <1>2. Measures(a) /\ Measures(b)
    BY SummaryNumbers
  <1>3. \A m : value(a, m) \in Int /\ value(b, m) \in Int
    <2> HIDE DEF a, b
    <2> QED  BY <1>2 DEF Measures, NotApplicable
  <1>4. \A m : Compared(value(b, m), value(a, m), m \in LowerIsBetter)
                 = Turned(Compared(value(a, m), value(b, m), m \in LowerIsBetter))
    <2> HIDE DEF value
    <2>1. \A m : (m \in LowerIsBetter) \in BOOLEAN
      OBVIOUS
    <2> QED  BY <1>3, <2>1, ComparedTurned
  <1>5. back = [m \in DOMAIN forth |-> Turned(forth[m])]
    <2> HIDE DEF a, b, value
    <2> QED  BY <1>4
  <1> HIDE DEF forth, back
  <1> QED
    BY <1>1, <1>5

LEMMA TokensTurned ==
    ASSUME NEW asked, NEW base, GoodRows(asked, base),
           NEW wanted, NEW candidate, GoodRows(wanted, candidate)
    PROVE  CompareTokens(candidate, base) = Turned(CompareTokens(base, candidate))
  <1>1. TotalTokens(base) \in Int /\ TotalTokens(candidate) \in Int /\ NotApplicable \in Int
    BY TokensNumber DEF NotApplicable
  <1>2. /\ Compared(TotalTokens(candidate), TotalTokens(base), TRUE)
             = Turned(Compared(TotalTokens(base), TotalTokens(candidate), TRUE))
        /\ Compared(NotApplicable, NotApplicable, TRUE)
             = Turned(Compared(NotApplicable, NotApplicable, TRUE))
    BY <1>1, ComparedTurned
  <1> QED
    BY <1>2 DEF CompareTokens

LEMMA DeltasTurned ==
    ASSUME NEW a, Measures(a.metrics), NEW b, Measures(b.metrics)
    PROVE  CaseDeltas(b, a) = [m \in DOMAIN CaseDeltas(a, b) |-> -CaseDeltas(a, b)[m]]
  <1> DEFINE value(i, m) == IF m \in DOMAIN i.metrics THEN i.metrics[m] ELSE NotApplicable
             forth == [m \in DOMAIN a.metrics \cup DOMAIN b.metrics |->
                         Compared(value(a, m), value(b, m), FALSE).delta]
             back == [m \in DOMAIN b.metrics \cup DOMAIN a.metrics |->
                         Compared(value(b, m), value(a, m), FALSE).delta]
  <1>1. forth = CaseDeltas(a, b) /\ back = CaseDeltas(b, a)
    BY DEF CaseDeltas
  <1>2. \A m : value(a, m) \in Int /\ value(b, m) \in Int
    BY DEF Measures, NotApplicable
  <1>3. \A m : Compared(value(b, m), value(a, m), FALSE).delta
                 = -Compared(value(a, m), value(b, m), FALSE).delta
    <2> HIDE DEF value
    <2>1. \A m : Compared(value(b, m), value(a, m), FALSE)
                   = Turned(Compared(value(a, m), value(b, m), FALSE))
      BY <1>2, ComparedTurned
    <2>2. \A x : Turned(x).delta = -x.delta
      BY DEF Turned
    <2> QED  BY <2>1, <2>2
  <1>4. back = [m \in DOMAIN forth |-> -forth[m]]
    <2> HIDE DEF value
    <2> QED  BY <1>3
  <1> HIDE DEF forth, back
  <1> QED
    BY <1>1, <1>4

LEMMA TransitionTurned ==
    ASSUME NEW base, NEW candidate, NEW b, NEW c, b # 0 \/ c # 0
    PROVE  Transition(candidate, base, c, b) = Opposite[Transition(base, candidate, b, c)]
  <1>1. /\ Opposite["unchanged"] = "unchanged" /\ Opposite["added"] = "removed"
        /\ Opposite["removed"] = "added"
        /\ Opposite["improved"] = "regressed" /\ Opposite["regressed"] = "improved"
    BY DEF Opposite
  <1>2. CASE b = 0
    BY <1>1, <1>2 DEF Transition
  <1>3. CASE b # 0 /\ c = 0
    BY <1>1, <1>3 DEF Transition
  <1>4. CASE b # 0 /\ c # 0
    <2>1. CASE base[b].status = "succeeded" /\ candidate[c].status # "succeeded"
      BY <1>1, <1>4, <2>1 DEF Transition
    <2>2. CASE base[b].status # "succeeded" /\ candidate[c].status = "succeeded"
      BY <1>1, <1>4, <2>2 DEF Transition
    <2>3. CASE base[b].status = "succeeded" /\ candidate[c].status = "succeeded"
      BY <1>1, <1>4, <2>3 DEF Transition
    <2>4. CASE base[b].status # "succeeded" /\ candidate[c].status # "succeeded"
      BY <1>1, <1>4, <2>4 DEF Transition
    <2> QED  BY <2>1, <2>2, <2>3, <2>4
  <1> QED
    BY <1>2, <1>3, <1>4

Mirrored(x) ==
    [base |-> x.candidate, candidate |-> x.base, transition |-> Opposite[x.transition],
     deltas |-> [m \in DOMAIN x.deltas |-> -x.deltas[m]]]

\* The entry of a key on both sides, the other way round.
LEMMA EntryMirrored ==
    ASSUME NEW asked, NEW base, GoodRows(asked, base),
           NEW wanted, NEW candidate, GoodRows(wanted, candidate),
           NEW keysA, NEW keysB, NEW key,
           RowAt(keysA, key) \in DOMAIN base \cup {0}, RowAt(keysB, key) \in DOMAIN candidate \cup {0},
           RowAt(keysA, key) # 0 \/ RowAt(keysB, key) # 0
    PROVE  Entry(candidate, keysB, base, keysA, key)
             = Mirrored(Entry(base, keysA, candidate, keysB, key))
  <1> DEFINE b == RowAt(keysA, key)
             c == RowAt(keysB, key)
             forth == IF b = 0 \/ c = 0 THEN <<>> ELSE CaseDeltas(base[b], candidate[c])
             back == IF c = 0 \/ b = 0 THEN <<>> ELSE CaseDeltas(candidate[c], base[b])
  <1>1. Transition(candidate, base, c, b) = Opposite[Transition(base, candidate, b, c)]
    BY TransitionTurned
  <1>2. back = [m \in DOMAIN forth |-> -forth[m]]
    <2>1. CASE b = 0 \/ c = 0
      <3>1. forth = <<>> /\ back = <<>>
        BY <2>1
      <3>2. <<>> = [m \in DOMAIN <<>> |-> -(<<>>[m])]
        OBVIOUS
      <3> QED  BY <3>1, <3>2
    <2>2. CASE ~(b = 0 \/ c = 0)
      <3>1. Measures(base[b].metrics) /\ Measures(candidate[c].metrics)
        BY <2>2 DEF GoodRows, GoodRow
      <3>2. forth = CaseDeltas(base[b], candidate[c]) /\ back = CaseDeltas(candidate[c], base[b])
        BY <2>2
      <3> QED  BY <3>1, <3>2, DeltasTurned
    <2> QED  BY <2>1, <2>2
  <1>3. /\ Entry(base, keysA, candidate, keysB, key)
             = [base |-> b, candidate |-> c, transition |-> Transition(base, candidate, b, c),
                deltas |-> forth]
        /\ Entry(candidate, keysB, base, keysA, key)
             = [base |-> c, candidate |-> b, transition |-> Transition(candidate, base, c, b),
                deltas |-> back]
    BY DEF Entry
  <1> HIDE DEF b, c, forth, back
  <1> QED
    BY <1>1, <1>2, <1>3 DEF Mirrored

LEMMA CasesMirrored ==
    ASSUME NEW asked, NEW base, GoodRows(asked, base),
           NEW wanted, NEW candidate, GoodRows(wanted, candidate), NEW a, NEW b
    PROVE  CompareCases(b, candidate, a, base)
             = {Mirrored(x) : x \in CompareCases(a, base, b, candidate)}
  <1> DEFINE both == BothDuplicated(base, candidate)
  <1>0. PICK keysA, keysB : keysA = MatchKeys(a, base, both) /\ keysB = MatchKeys(b, candidate, both)
    OBVIOUS
  <1>1. BothDuplicated(candidate, base) = both
    BY DEF BothDuplicated
  <1>2. Listed(base) /\ Listed(candidate)
    <2>1. /\ Len(base) \in Nat /\ DOMAIN base = 1..Len(base)
          /\ Len(candidate) \in Nat /\ DOMAIN candidate = 1..Len(candidate)
      BY DEF GoodRows
    <2> QED  BY <2>1 DEF Listed
  <1> DEFINE keys == Range(keysA) \cup Range(keysB)
             forth(key) == Entry(base, keysA, candidate, keysB, key)
             back(key) == Entry(candidate, keysB, base, keysA, key)
  <1>3. CompareCases(a, base, b, candidate) = {forth(key) : key \in keys}
    BY <1>0, CasesAre
  <1>4. CompareCases(b, candidate, a, base) = {back(key) : key \in keys}
    <2>1. CompareCases(b, candidate, a, base)
             = {back(key) : key \in Range(keysB) \cup Range(keysA)}
      <3> HIDE DEF both, back
      <3> QED  BY <1>0, <1>1, CasesAre DEF back
    <2> QED  BY <2>1
  <1>5. \A key \in keys : back(key) = Mirrored(forth(key))
    <2> TAKE key \in keys
    <2>1. /\ RowAt(keysA, key) \in DOMAIN base \cup {0}
          /\ key \in Range(keysA) => RowAt(keysA, key) # 0
      BY <1>0, <1>2, AtPlace
    <2>2. /\ RowAt(keysB, key) \in DOMAIN candidate \cup {0}
          /\ key \in Range(keysB) => RowAt(keysB, key) # 0
      BY <1>0, <1>2, AtPlace
    <2> QED  BY <2>1, <2>2, EntryMirrored
  <1> HIDE DEF forth, back, keys
  <1> QED
    BY <1>3, <1>4, <1>5

\* compare_runs: the same comparison whichever run is the baseline, with its signs
\* and its words turned round.
THEOREM BothWaysRead == ReportSpec => []ReadBothWays
  <1>1. StudyRows => ReadBothWays
    <2> SUFFICES ASSUME StudyRows, study # NoStudy PROVE ReadBothWays
      BY DEF ReadBothWays
    <2> DEFINE base == stored["base"]
               candidate == stored["candidate"]
               forth == Comparison("base", "candidate")
               back == Comparison("candidate", "base")
    <2>1. GoodRows(study["base"].metrics, base) /\ GoodRows(study["candidate"].metrics, candidate)
      BY DEF StudyRows, Sides
    <2>2. /\ forth.metrics = CompareMetrics(base, candidate)
          /\ forth.tokens = CompareTokens(base, candidate)
          /\ forth.cases = CompareCases("base", base, "candidate", candidate)
          /\ back.metrics = CompareMetrics(candidate, base)
          /\ back.tokens = CompareTokens(candidate, base)
          /\ back.cases = CompareCases("candidate", candidate, "base", base)
      BY DEF Comparison
    <2> HIDE DEF base, candidate, forth, back
    <2>3. back.metrics = [m \in DOMAIN forth.metrics |-> Turned(forth.metrics[m])]
      BY <2>1, <2>2, MetricsTurned
    <2>4. back.tokens = Turned(forth.tokens)
      BY <2>1, <2>2, TokensTurned
    <2>5. back.cases = {Mirrored(x) : x \in forth.cases}
      BY <2>1, <2>2, CasesMirrored
    <2> QED
      BY <2>3, <2>4, <2>5 DEF ReadBothWays, Turned, Mirrored, forth, back
  <1> QED
    BY <1>1, StudyRowsAre, PTL

-----------------------------------------------------------------------------
(* Items that were skipped.                                                *)

\* Some of the rows, at their places.
Part(rows, places) == [n \in places |-> rows[n]]
Averages(summary) == [m \in DOMAIN summary \cap Quality |-> summary[m]]

\* Rows that count for no quality make no difference to the averages of them.
LEMMA SameAverages ==
    ASSUME NEW rows, NEW places, places \subseteq DOMAIN rows,
           \A n \in DOMAIN rows \ places : \A m \in Quality : ~Counts(rows[n], m)
    PROVE  Averages(MetricSummary(rows)) = Averages(MetricSummary(Part(rows, places)))
  <1> DEFINE others == Part(rows, places)
             of(some) == {m \in UNION {DOMAIN some[n].metrics : n \in DOMAIN some} :
                            \E n \in DOMAIN some : Counts(some[n], m)}
  <1>1. DOMAIN others = places /\ \A n \in places : others[n] = rows[n]
    BY DEF Part
  <1> HIDE DEF others
  <1>2. \A m \in Quality : {k \in DOMAIN rows : Counts(rows[k], m)}
                             = {k \in DOMAIN others : Counts(others[k], m)}
    BY <1>1
  <1>3. \A m \in Quality : ValuesOf(rows, m) = ValuesOf(others, m)
    <2> TAKE m \in Quality
    <2> DEFINE K == {k \in DOMAIN rows : Counts(rows[k], m)}
    <2>1. K = {k \in DOMAIN others : Counts(others[k], m)}
      BY <1>2
    <2>2. ValuesOf(rows, m) = [n \in K |-> rows[n].metrics[m]]
      BY DEF ValuesOf
    <2>3. ValuesOf(others, m) = [n \in K |-> others[n].metrics[m]]
      BY <2>1 DEF ValuesOf
    <2>4. \A n \in K : rows[n].metrics[m] = others[n].metrics[m]
      BY <1>1, <2>1
    <2> HIDE DEF K
    <2> QED  BY <2>2, <2>3, <2>4
  <1>4. /\ MetricSummary(rows) = [m \in of(rows) |-> Aggregate(m, ValuesOf(rows, m))]
        /\ MetricSummary(others) = [m \in of(others) |-> Aggregate(m, ValuesOf(others, m))]
    BY DEF MetricSummary
  <1>5. \A some : \A m : m \in of(some) <=> \E n \in DOMAIN some : Counts(some[n], m)
    BY DEF Counts
  <1> HIDE DEF of
  <1>6. \A m \in Quality : m \in of(rows) <=> m \in of(others)
    BY <1>2, <1>5
  <1>7. of(rows) \cap Quality = of(others) \cap Quality
    BY <1>6
  <1>8. Averages(MetricSummary(rows))
          = [m \in of(rows) \cap Quality |-> Aggregate(m, ValuesOf(rows, m))]
    BY <1>4 DEF Averages
  <1>9. Averages(MetricSummary(others))
          = [m \in of(others) \cap Quality |-> Aggregate(m, ValuesOf(others, m))]
    BY <1>4 DEF Averages
  <1> QED
    BY <1>3, <1>7, <1>8, <1>9 DEF others

\* The rows of a target that did not fail.
Good(rows, label) == {n \in DOMAIN rows : rows[n].label = label /\ rows[n].status # "failed"}

LEMMA ComparisonIs ==
    ASSUME NEW rows, NEW label
    PROVE  LET good == Part(rows, Good(rows, label))
           IN /\ DOMAIN StrategyComparison(rows, label)
                   = UNION {DOMAIN good[n].metrics : n \in DOMAIN good}
              /\ \A m \in DOMAIN StrategyComparison(rows, label) :
                    LET count == Cardinality({n \in DOMAIN good : Counts(good[n], m)})
                    IN StrategyComparison(rows, label)[m] =
                         [average |-> IF count = 0 THEN NotApplicable ELSE Mean(ValuesOf(good, m)),
                          p95 |-> IF count = 0 THEN NotApplicable ELSE P95(ValuesOf(good, m)),
                          count |-> count,
                          notApplicable |->
                            Cardinality({n \in DOMAIN good :
                                           m \in DOMAIN good[n].metrics /\ ~Counts(good[n], m)})]
  <1> DEFINE good == Part(rows, Good(rows, label))
  <1>1. RestrictValues(rows, LAMBDA i : i.label = label /\ i.status # "failed") = good
    BY DEF RestrictValues, Restrict, Part, Good
  <1> HIDE DEF good
  <1> QED
    BY <1>1 DEF StrategyComparison, Number, good

\* _strategy_metrics_summary_json shows the averages of those rows.
LEMMA EntryIsSummary ==
    ASSUME NEW rows, IsFiniteSet(DOMAIN rows), NEW label
    PROVE  StrategyEntry(rows, label).metrics = MetricSummary(Part(rows, Good(rows, label)))
  <1> DEFINE good == Part(rows, Good(rows, label))
             compared == StrategyComparison(rows, label)
             valued == {m \in DOMAIN compared : compared[m].count > 0}
             names == {m \in UNION {DOMAIN good[n].metrics : n \in DOMAIN good} :
                         \E n \in DOMAIN good : Counts(good[n], m)}
  <1>1. StrategyEntry(rows, label).metrics =
          [m \in valued |-> IF m = "p95_latency" THEN compared[m].p95 ELSE compared[m].average]
    BY DEF StrategyEntry
  <1>2. MetricSummary(good) = [m \in names |-> Aggregate(m, ValuesOf(good, m))]
    BY DEF MetricSummary
  <1>3. DOMAIN good \subseteq DOMAIN rows
    BY DEF Part, Good
  <1>4. DOMAIN compared = UNION {DOMAIN good[n].metrics : n \in DOMAIN good}
    BY ComparisonIs
  <1> DEFINE count(m) == Cardinality({n \in DOMAIN good : Counts(good[n], m)})
             mean(m) == IF count(m) = 0 THEN NotApplicable ELSE Mean(ValuesOf(good, m))
             top(m) == IF count(m) = 0 THEN NotApplicable ELSE P95(ValuesOf(good, m))
             none(m) == Cardinality({n \in DOMAIN good :
                                       m \in DOMAIN good[n].metrics /\ ~Counts(good[n], m)})
  <1>a. \A m \in DOMAIN compared :
           compared[m] = [average |-> mean(m), p95 |-> top(m), count |-> count(m),
                          notApplicable |-> none(m)]
    BY ComparisonIs
  <1>b. \A m \in DOMAIN compared : /\ compared[m].count = count(m)
                                    /\ compared[m].average = mean(m) /\ compared[m].p95 = top(m)
    <2> HIDE DEF compared, count, mean, top, none
    <2> QED  BY <1>a
  <1> HIDE DEF good, compared
  <1>5. \A m \in DOMAIN compared :
          LET counted == {n \in DOMAIN good : Counts(good[n], m)}
          IN /\ counted # {} <=> compared[m].count > 0
             /\ counted # {} => /\ compared[m].average = Mean(ValuesOf(good, m))
                                /\ compared[m].p95 = P95(ValuesOf(good, m))
    <2> TAKE m \in DOMAIN compared
    <2> DEFINE counted == {n \in DOMAIN good : Counts(good[n], m)}
    <2>1. /\ compared[m].count = Cardinality(counted)
          /\ Cardinality(counted) # 0 => /\ compared[m].average = Mean(ValuesOf(good, m))
                                         /\ compared[m].p95 = P95(ValuesOf(good, m))
      BY <1>b
    <2>2. IsFiniteSet(counted)
      BY <1>3, FS_Subset
    <2>3. Cardinality(counted) \in Nat /\ (counted = {} <=> Cardinality(counted) = 0)
      <3> HIDE DEF counted
      <3> QED  BY <2>2, FS_CardinalityType, FS_EmptySet
    <2> HIDE DEF counted
    <2> QED  BY <2>1, <2>3 DEF counted
  <1>6. valued = names
    BY <1>4, <1>5
  <1>7. \A m \in valued : (IF m = "p95_latency" THEN compared[m].p95 ELSE compared[m].average)
                            = Aggregate(m, ValuesOf(good, m))
    BY <1>4, <1>5, <1>6 DEF Aggregate
  <1> HIDE DEF valued, names
  <1>8. StrategyEntry(rows, label).metrics = MetricSummary(good)
    BY <1>1, <1>2, <1>6, <1>7
  <1> QED
    BY <1>8 DEF good

LEMMA SkippedCountFor ==
    ASSUME NEW asked, NEW row, SkippedRow(asked, row)
    PROVE  /\ \A m \in Quality : ~Counts(row, m)
           /\ FailureReasons(row) \subseteq {"high_latency"}
           /\ asked \cap TellingMetrics # {} => SkipItem(row)
  <1>1. \A m \in Quality \cup {"strategy_selection_accuracy", "budget_exhausted_rate"} : ~Counts(row, m)
    BY DEF SkippedRow, Counts
  <1>2. /\ "recall_at_k" \in Quality /\ "mrr" \in Quality /\ "citation_coverage" \in Quality
        /\ "groundedness" \in Quality /\ "faithfulness" \in Quality
        /\ "graph_path_relevance" \in Quality /\ "graph_citation_coverage" \in Quality
        /\ "multi_hop_answerability" \in Quality /\ "no_context_rate" \in Quality
    BY DEF Quality, SkipBase, AnswerDependent, GraphMetricNames
  <1> DEFINE counted(m) == Counts(row, m)
  <1>3. /\ ~counted("recall_at_k") /\ ~counted("mrr") /\ ~counted("citation_coverage")
        /\ ~counted("groundedness") /\ ~counted("faithfulness")
        /\ ~counted("graph_path_relevance") /\ ~counted("graph_citation_coverage")
        /\ ~counted("multi_hop_answerability") /\ ~counted("no_context_rate")
        /\ ~counted("strategy_selection_accuracy") /\ ~counted("budget_exhausted_rate")
    BY <1>1, <1>2
  <1>4. FailureReasons(row) =
          {m \in {"recall_at_k", "mrr", "citation_coverage", "groundedness", "faithfulness"} :
             counted(m) /\ row.metrics[m] < 500}
          \cup {m \in {"graph_path_relevance", "graph_citation_coverage", "multi_hop_answerability"} :
                  counted(m) /\ row.metrics[m] < 1000}
          \cup {x \in {"no_context"} : \/ row.error = "no_context_found"
                                       \/ counted("no_context_rate") /\ row.metrics["no_context_rate"] = 1000}
          \cup {x \in {"strategy_selection"} : counted("strategy_selection_accuracy")
                                                /\ row.metrics["strategy_selection_accuracy"] = 0}
          \cup {x \in {"budget_exhausted"} : counted("budget_exhausted_rate")
                                              /\ row.metrics["budget_exhausted_rate"] = 1000}
          \cup {x \in {"high_latency"} : LatencyOf(row) > HighLatency}
          \cup {x \in {"retrieval_exception"} :
                  row.error \in {"retrieval_failed", "rerank_failed", "internal_error"}}
          \cup {x \in {"generation_exception"} : row.error = "generation_failed"}
          \cup {x \in {"citation_build_failed"} : row.error = "citation_build_failed"}
          \cup {x \in {"fallback_failed"} :
                  /\ row.status = "failed"
                  /\ counted("fallback_rate") /\ row.metrics["fallback_rate"] = 1000
                  /\ row.error # "none"}
    BY DEF FailureReasons
  <1>5. row.error = "none" /\ row.status = "succeeded"
    BY DEF SkippedRow
  <1> HIDE DEF counted
  <1>6. FailureReasons(row) \subseteq {"high_latency"}
    BY <1>3, <1>4, <1>5
  <1>7. ASSUME NEW m \in asked \cap TellingMetrics
        PROVE  SkipItem(row)
    <2>1. m \in SkipBase \cup GraphMetricNames \cup {"fallback_rate"} /\ m \notin AnswerDependent
      BY DEF TellingMetrics, GraphMetricNames, AnswerDependent
    <2>2. m # "claim_faithfulness"
      BY <2>1 DEF AnswerDependent
    <2>3. /\ m \in DOMAIN row.metrics /\ row.skipped /\ row.target.strategy = "graph"
      BY DEF SkippedRow
    <2> QED  BY <2>1, <2>2, <2>3 DEF SkipItem
  <1> QED
    BY <1>1, <1>6, <1>7

\* An item skipped because its store was out of reach changes no average of a
\* quality, in the run or under its target; a failure is made of it only for its
\* latency, in a run without a metric that tells of the skip (_failure_reasons,
\* _provider_skip_base_metric_replacements, _is_graph_provider_skip_item).
THEOREM SkippedIgnored == ReportSpec => []SkippedDoNotCount
  <1>1. StudyRows => SkippedDoNotCount
    <2> SUFFICES ASSUME StudyRows, study # NoStudy, NEW side \in Sides
                 PROVE  LET rows == stored[side]
                            others == RestrictValues(rows, LAMBDA i : ~i.skipped)
                        IN /\ Averages(MetricSummary(rows)) = Averages(MetricSummary(others))
                           /\ \A label \in LabelsOf(others) :
                                 Averages(StrategyEntry(rows, label).metrics)
                                   = Averages(StrategyEntry(others, label).metrics)
                           /\ \A f \in FailureCandidates(rows) : rows[f[1]].skipped =>
                                 f[2] = "high_latency" /\ study[side].metrics \cap TellingMetrics = {}
      BY DEF SkippedDoNotCount, Averages, Quality
    <2> DEFINE rows == stored[side]
               told == {n \in DOMAIN rows : ~rows[n].skipped}
               others == Part(rows, told)
    <2>1. RestrictValues(rows, LAMBDA i : ~i.skipped) = others
      BY DEF RestrictValues, Restrict, Part
    <2>2. GoodRows(study[side].metrics, rows)
      BY DEF StudyRows
    <2> HIDE DEF rows
    <2>3. IsFiniteSet(DOMAIN rows)
      <3>1. Len(rows) \in Nat /\ DOMAIN rows = 1..Len(rows)
        BY <2>2 DEF GoodRows
      <3> QED  BY <3>1, FS_Interval
    <2>4. \A n \in DOMAIN rows \ told : \A m \in Quality : ~Counts(rows[n], m)
      BY <2>2, SkippedCountFor DEF GoodRows, GoodRow
    <2>8. ASSUME NEW n \in DOMAIN rows \ told
          PROVE  /\ FailureReasons(rows[n]) \subseteq {"high_latency"}
                 /\ study[side].metrics \cap TellingMetrics # {} => SkipItem(rows[n])
      <3>1. SkippedRow(study[side].metrics, rows[n])
        BY <2>2 DEF GoodRows, GoodRow
      <3> QED  BY <3>1, SkippedCountFor
    <2>5. Averages(MetricSummary(rows)) = Averages(MetricSummary(others))
      BY <2>4, SameAverages
    <2>6. \A label : Averages(StrategyEntry(rows, label).metrics)
                       = Averages(StrategyEntry(others, label).metrics)
      <3> TAKE label
      <3> DEFINE all == Part(rows, Good(rows, label))
                 few == Part(others, Good(others, label))
                 places == Good(others, label)
      <3>1. DOMAIN others = told /\ \A n \in told : others[n] = rows[n]
        BY DEF Part
      <3>2. DOMAIN all = Good(rows, label) /\ \A n \in DOMAIN all : all[n] = rows[n]
        BY DEF Part
      <3>3. /\ places \subseteq DOMAIN all
            /\ \A n \in DOMAIN all \ places : n \in DOMAIN rows \ told
        BY <3>1, <3>2 DEF Good
      <3>4. few = Part(all, places)
        <4>1. \A n \in places : others[n] = all[n]
          BY <3>1, <3>2, <3>3 DEF Good
        <4> HIDE DEF others, all, places
        <4> QED  BY <4>1 DEF Part, places
      <3>5. \A n \in DOMAIN all \ places : \A m \in Quality : ~Counts(all[n], m)
        BY <3>2, <3>3, <2>4
      <3>6. Averages(MetricSummary(all)) = Averages(MetricSummary(few))
        <4> HIDE DEF all, places, few
        <4> QED  BY <3>3, <3>4, <3>5, SameAverages
      <3>7. IsFiniteSet(DOMAIN others)
        BY <2>3, <3>1, FS_Subset
      <3>8. /\ StrategyEntry(rows, label).metrics = MetricSummary(all)
            /\ StrategyEntry(others, label).metrics = MetricSummary(few)
        <4> HIDE DEF others
        <4> QED  BY <2>3, <3>7, EntryIsSummary
      <3> QED  BY <3>6, <3>8
    <2>7. \A f \in FailureCandidates(rows) : rows[f[1]].skipped =>
             f[2] = "high_latency" /\ study[side].metrics \cap TellingMetrics = {}
      <3> TAKE f \in FailureCandidates(rows)
      <3> HAVE rows[f[1]].skipped
      <3>1. PICK n \in DOMAIN rows : /\ ~SkipItem(rows[n])
                                     /\ \E reason \in FailureReasons(rows[n]) : f = <<n, reason>>
        BY DEF FailureCandidates
      <3>2. f[1] = n /\ f[2] \in FailureReasons(rows[n])
        BY <3>1
      <3>3. n \in DOMAIN rows \ told
        BY <3>2
      <3> QED  BY <3>1, <3>2, <3>3, <2>8
    <2> HIDE DEF others
    <2> QED
      BY <2>1, <2>5, <2>6, <2>7 DEF rows
  <1> QED
    BY <1>1, StudyRowsAre, PTL

-----------------------------------------------------------------------------
(* Counts.                                                                 *)

Ended(rows) == {n \in DOMAIN rows : rows[n].status # "running"}
EndedAs(rows, status, label) == {n \in DOMAIN rows : rows[n].label = label /\ rows[n].status = status}

LEMMA FinitelyMany ==
    ASSUME NEW asked, NEW rows, GoodRows(asked, rows)
    PROVE  IsFiniteSet(DOMAIN rows)
  <1>1. Len(rows) \in Nat /\ DOMAIN rows = 1..Len(rows)
    BY DEF GoodRows
  <1> QED
    BY <1>1, FS_Interval

LEMMA CountedApart ==
    ASSUME NEW S, IsFiniteSet(S), NEW T, IsFiniteSet(T), S \cap T = {}
    PROVE  /\ IsFiniteSet(S \cup T) /\ Cardinality(S) \in Nat /\ Cardinality(T) \in Nat
           /\ Cardinality(S \cup T) = Cardinality(S) + Cardinality(T)
  <1>1. /\ IsFiniteSet(S \cup T)
        /\ Cardinality(S \cup T) = Cardinality(S) + Cardinality(T) - Cardinality(S \cap T)
    BY FS_Union
  <1>2. Cardinality(S) \in Nat /\ Cardinality(T) \in Nat /\ Cardinality(S \cap T) = 0
    BY FS_CardinalityType, FS_EmptySet
  <1> QED
    BY <1>1, <1>2

\* The largest count that a metric of the target shows is that of its items that
\* succeeded, if one metric is of all of them.
LEMMA EntryCounts ==
    ASSUME NEW asked, "no_context_rate" \in asked, NEW rows, GoodRows(asked, rows), NEW label
    PROVE  /\ StrategyEntry(rows, label).succeeded = Cardinality(EndedAs(rows, "succeeded", label))
           /\ StrategyEntry(rows, label).failed = Cardinality(EndedAs(rows, "failed", label))
           /\ StrategyEntry(rows, label).cases
                = Cardinality({n \in Ended(rows) : rows[n].label = label})
  <1> DEFINE good == Part(rows, Good(rows, label))
             compared == StrategyComparison(rows, label)
             Succeeded == EndedAs(rows, "succeeded", label)
             having(m) == {n \in DOMAIN good : m \in DOMAIN good[n].metrics}
             counted(m) == {n \in DOMAIN good : Counts(good[n], m)}
             other(m) == {n \in DOMAIN good : m \in DOMAIN good[n].metrics /\ ~Counts(good[n], m)}
             shown(m) == compared[m].count + compared[m].notApplicable
             T == {0} \cup {shown(m) : m \in DOMAIN compared}
  <1>1. DOMAIN good = Good(rows, label) /\ \A n \in DOMAIN good : good[n] = rows[n]
    BY DEF Part
  <1>2. DOMAIN compared = UNION {DOMAIN good[n].metrics : n \in DOMAIN good}
    BY ComparisonIs
  <1>3. \A m \in DOMAIN compared : shown(m) = Cardinality(counted(m)) + Cardinality(other(m))
    <2> DEFINE count(m) == Cardinality(counted(m))
               mean(m) == IF count(m) = 0 THEN NotApplicable ELSE Mean(ValuesOf(good, m))
               top(m) == IF count(m) = 0 THEN NotApplicable ELSE P95(ValuesOf(good, m))
               none(m) == Cardinality(other(m))
    <2>1. \A m \in DOMAIN compared :
             compared[m] = [average |-> mean(m), p95 |-> top(m), count |-> count(m),
                            notApplicable |-> none(m)]
      BY ComparisonIs
    <2> HIDE DEF compared, count, mean, top, none
    <2>2. \A m \in DOMAIN compared : shown(m) = count(m) + none(m)
      BY <2>1
    <2> QED  BY <2>2 DEF count, none
  <1>4. IsFiniteSet(DOMAIN rows)
    BY FinitelyMany
  <1>5. IsFiniteSet(Succeeded) /\ Cardinality(Succeeded) \in Nat
    BY <1>4, Parts DEF EndedAs
  <1> HIDE DEF good, compared
  <1>6. \A m : having(m) \subseteq Succeeded
    BY <1>1 DEF GoodRows, GoodRow, Good, EndedAs
  <1>7. \A m \in DOMAIN compared : shown(m) = Cardinality(having(m))
    <2> TAKE m \in DOMAIN compared
    <2>1. counted(m) \cup other(m) = having(m) /\ counted(m) \cap other(m) = {}
      BY DEF Counts
    <2>2. IsFiniteSet(counted(m)) /\ IsFiniteSet(other(m))
      <3>1. counted(m) \subseteq Succeeded /\ other(m) \subseteq Succeeded
        BY <1>6, <2>1
      <3> HIDE DEF counted, other, Succeeded
      <3> QED  BY <1>5, <3>1, FS_Subset
    <2> HIDE DEF shown, counted, other, having
    <2> QED  BY <1>3, <2>1, <2>2, CountedApart
  <1> HIDE DEF shown
  <1>8. \A m \in DOMAIN compared : shown(m) \in 0..Cardinality(Succeeded)
    <2> TAKE m \in DOMAIN compared
    <2>1. Cardinality(having(m)) \in Nat /\ Cardinality(having(m)) <= Cardinality(Succeeded)
      <3> HIDE DEF having, Succeeded
      <3> QED  BY <1>5, <1>6, FS_Subset, FS_CardinalityType
    <2> QED  BY <1>5, <1>7, <2>1
  <1>9. T \subseteq 0..Cardinality(Succeeded) /\ T \subseteq Int /\ 0 \in T
    BY <1>5, <1>8
  <1>10. IsFiniteSet(T)
    <2> HIDE DEF T
    <2>1. IsFiniteSet(0..Cardinality(Succeeded))
      BY <1>5, FS_Interval
    <2> QED  BY <1>9, <2>1, FS_Subset
  <1>11. Max(T) \in T /\ \A t \in T : t <= Max(T)
    <2> HIDE DEF T
    <2> QED  BY <1>9, <1>10, FiniteMax
  <1>12. Cardinality(Succeeded) \in T
    <2>1. CASE Succeeded = {}
      <3>1. Cardinality(Succeeded) = 0
        BY <2>1, FS_EmptySet
      <3> QED  BY <3>1, <1>9
    <2>2. CASE Succeeded # {}
      <3>1. \A n \in Succeeded : n \in DOMAIN good /\ "no_context_rate" \in DOMAIN good[n].metrics
        BY <1>1 DEF GoodRows, GoodRow, Good, EndedAs
      <3>2. "no_context_rate" \in DOMAIN compared
        BY <1>2, <2>2, <3>1
      <3>3. having("no_context_rate") = Succeeded
        BY <1>6, <3>1
      <3>4. shown("no_context_rate") = Cardinality(Succeeded)
        BY <1>7, <3>2, <3>3
      <3> QED  BY <3>2, <3>4
    <2> QED  BY <2>1, <2>2
  <1>13. Max(T) = Cardinality(Succeeded)
    <2> HIDE DEF T, Succeeded
    <2>1. PICK top : top = Max(T)
      OBVIOUS
    <2>2. top \in 0..Cardinality(Succeeded) /\ Cardinality(Succeeded) <= top
      BY <1>9, <1>11, <1>12, <2>1
    <2> QED  BY <1>5, <2>1, <2>2
  <1>14. StrategyEntry(rows, label).succeeded = Max(T)
    BY DEF StrategyEntry, compared, shown
  <1>15. StrategyEntry(rows, label).failed = Cardinality(EndedAs(rows, "failed", label))
    BY DEF StrategyEntry, FailedCount, Number, EndedAs
  <1>16. StrategyEntry(rows, label).cases
           = StrategyEntry(rows, label).succeeded + StrategyEntry(rows, label).failed
    BY DEF StrategyEntry
  <1>17. Cardinality({n \in Ended(rows) : rows[n].label = label})
           = Cardinality(Succeeded) + Cardinality(EndedAs(rows, "failed", label))
    <2>1. {n \in Ended(rows) : rows[n].label = label} = Succeeded \cup EndedAs(rows, "failed", label)
      BY DEF Ended, EndedAs, GoodRows, GoodRow
    <2>2. Succeeded \cap EndedAs(rows, "failed", label) = {}
      BY DEF EndedAs
    <2>3. IsFiniteSet(EndedAs(rows, "failed", label))
      BY <1>4, FS_Subset DEF EndedAs
    <2> HIDE DEF Succeeded
    <2> QED  BY <1>5, <2>1, <2>2, <2>3, CountedApart
  <1> HIDE DEF T
  <1> QED
    BY <1>13, <1>14, <1>15, <1>16, <1>17

\* Every target with an item that has ended has an entry.
LEMMA ObservedAre ==
    ASSUME NEW asked, "no_context_rate" \in asked, NEW rows, GoodRows(asked, rows)
    PROVE  Observed(rows) = {rows[n].label : n \in Ended(rows)}
  <1>0. IsFiniteSet(DOMAIN rows)
    BY FinitelyMany
  <1>1. ASSUME NEW label
        PROVE  /\ FailedCount(rows, label) > 0 <=> EndedAs(rows, "failed", label) # {}
               /\ DOMAIN StrategyComparison(rows, label) # {}
                    <=> EndedAs(rows, "succeeded", label) # {}
    <2>1. FailedCount(rows, label) = Cardinality(EndedAs(rows, "failed", label))
      BY DEF FailedCount, Number, EndedAs
    <2>2. IsFiniteSet(EndedAs(rows, "failed", label))
      BY <1>0, FS_Subset DEF EndedAs
    <2>3. FailedCount(rows, label) > 0 <=> EndedAs(rows, "failed", label) # {}
      BY <2>1, <2>2, FS_CardinalityType, FS_EmptySet
    <2> DEFINE good == Part(rows, Good(rows, label))
    <2>4. DOMAIN good = Good(rows, label) /\ \A n \in DOMAIN good : good[n] = rows[n]
      BY DEF Part
    <2>5. DOMAIN StrategyComparison(rows, label) = UNION {DOMAIN good[n].metrics : n \in DOMAIN good}
      BY ComparisonIs
    <2> HIDE DEF good
    <2>6. \A n \in DOMAIN good : DOMAIN good[n].metrics # {} => n \in EndedAs(rows, "succeeded", label)
      BY <2>4 DEF GoodRows, GoodRow, Good, EndedAs
    <2>7. \A n \in EndedAs(rows, "succeeded", label) :
             n \in DOMAIN good /\ "no_context_rate" \in DOMAIN good[n].metrics
      BY <2>4 DEF GoodRows, GoodRow, Good, EndedAs
    <2> QED  BY <2>3, <2>5, <2>6, <2>7
  <1>2. ASSUME NEW label
        PROVE  (\E n \in Ended(rows) : rows[n].label = label)
                 <=> EndedAs(rows, "failed", label) # {} \/ EndedAs(rows, "succeeded", label) # {}
    BY DEF Ended, EndedAs, GoodRows, GoodRow
  <1>3. \A label : label \in Observed(rows) <=> \E n \in Ended(rows) : rows[n].label = label
    <2> TAKE label
    <2>1. label \in Observed(rows) <=>
            label \in LabelsOf(rows) /\ (\/ DOMAIN StrategyComparison(rows, label) # {}
                                         \/ FailedCount(rows, label) > 0)
      BY DEF Observed
    <2>2. (\E n \in Ended(rows) : rows[n].label = label) => label \in LabelsOf(rows)
      BY DEF Ended, LabelsOf
    <2> QED  BY <1>1, <1>2, <2>1, <2>2
  <1> QED
    BY <1>3

\* The label of a target tells its cache mode and its store.
LEMMA LabelTells ==
    ASSUME NEW s, NEW t, NEW k, NEW n, TargetOf(s, k).label = TargetOf(t, n).label
    PROVE  TargetOf(s, k).cache = TargetOf(t, n).cache /\ TargetOf(s, k).provider = TargetOf(t, n).provider
  <1> DEFINE provider(label) == IF label = "graph_neo4j" THEN "neo4j"
                                ELSE IF label = "graph_postgres" THEN "postgres" ELSE "none"
  <1>1. \A x : BaseTarget(x).provider = provider(BaseTarget(x).label)
    BY DEF BaseTarget
  <1>2. \A x, mode : /\ TargetOf(x, mode).label = <<BaseTarget(x).label, mode>>
                     /\ TargetOf(x, mode).cache = mode
                     /\ TargetOf(x, mode).provider = BaseTarget(x).provider
    BY DEF TargetOf
  <1> HIDE DEF provider
  <1>3. <<BaseTarget(s).label, k>> = <<BaseTarget(t).label, n>>
    BY <1>2
  <1>4. BaseTarget(s).label = BaseTarget(t).label /\ k = n
    BY <1>3, KeysDiffer
  <1> QED
    BY <1>1, <1>2, <1>4

\* The first item of a label has the cache mode and the store of all that ended.
LEMMA TargetsTold ==
    ASSUME NEW asked, NEW rows, GoodRows(asked, rows), NEW n \in Ended(rows)
    PROVE  /\ TargetLabelled(rows, rows[n].label).cache = rows[n].target.cache
           /\ TargetLabelled(rows, rows[n].label).provider = rows[n].target.provider
           /\ rows[n].target.cache \in Range(ModeOrder)
  <1> DEFINE label == rows[n].label
             places == {k \in DOMAIN rows : rows[k].label = label}
             first == Min(places)
  <1>1. DOMAIN Labelled(rows, label) = places
    BY DEF Labelled, RestrictValues, Restrict
  <1>2. TargetLabelled(rows, label) = rows[first].target
    BY <1>1 DEF TargetLabelled
  <1>3. places \subseteq Nat /\ n \in places
    BY DEF GoodRows, Ended
  <1>4. first \in places /\ first <= n
    <2> HIDE DEF places
    <2> QED  BY <1>3, MinLeast
  <1>5. first \in Ended(rows)
    <2>1. rows[first].status = "running" => n <= first
      BY <1>3, <1>4 DEF GoodRows
    <2>2. first \in Nat /\ n \in Nat /\ first \in DOMAIN rows
      BY <1>3, <1>4
    <2>3. rows[first].status = "running" => n = first
      <3> HIDE DEF first
      <3> QED  BY <1>4, <2>1, <2>2
    <2> QED  BY <2>2, <2>3 DEF Ended
  <1>6. rows[first].target.label = label /\ rows[n].target.label = label
    BY <1>4, <1>5 DEF GoodRows, GoodRow, Ended
  <1> HIDE DEF first
  <1>7. PICK s, k : rows[first].target = TargetOf(s, k)
    BY <1>5 DEF GoodRows, GoodRow, Ended
  <1>8. PICK t, mode : rows[n].target = TargetOf(t, mode) /\ mode \in Range(ModeOrder)
    BY DEF GoodRows, GoodRow, Ended
  <1>9. rows[n].target.cache = mode
    BY <1>8 DEF TargetOf
  <1> QED
    BY <1>2, <1>6, <1>7, <1>8, <1>9, LabelTells

\* Cases of labels counted together.
LEMMA RollUpCounts ==
    ASSUME NEW asked, "no_context_rate" \in asked, NEW rows, GoodRows(asked, rows),
           NEW labels, labels \subseteq LabelsOf(rows)
    PROVE  /\ RollUp(rows, labels).cases = Cardinality({n \in Ended(rows) : rows[n].label \in labels})
           /\ RollUp(rows, labels).failed
                = Cardinality({n \in DOMAIN rows : rows[n].status = "failed" /\ rows[n].label \in labels})
  <1>1. IsFiniteSet(DOMAIN rows)
    BY FinitelyMany
  <1>2. IsFiniteSet(labels)
    <2> DEFINE f == [n \in DOMAIN rows |-> rows[n].label]
    <2>1. f \in Surjection(DOMAIN rows, LabelsOf(rows))
      BY DEF Surjection, LabelsOf
    <2>2. IsFiniteSet(LabelsOf(rows))
      BY <1>1, <2>1, FS_Surjection
    <2> QED  BY <2>2, FS_Subset
  <1> DEFINE entries == [l \in labels |-> StrategyEntry(rows, l)]
             cases == [l \in labels |-> StrategyEntry(rows, l).cases]
             failed == [l \in labels |-> StrategyEntry(rows, l).failed]
             S == {n \in Ended(rows) : rows[n].label \in labels}
             F == {n \in DOMAIN rows : rows[n].status = "failed" /\ rows[n].label \in labels}
  <1>3. /\ RollUp(rows, labels).cases = SumFunction([l \in labels |-> entries[l].cases])
        /\ RollUp(rows, labels).failed = SumFunction([l \in labels |-> entries[l].failed])
    BY DEF RollUp
  <1>4. /\ [l \in labels |-> entries[l].cases] = cases
        /\ [l \in labels |-> entries[l].failed] = failed
    OBVIOUS
  <1>5. IsFiniteSet(S) /\ IsFiniteSet(F)
    BY <1>1, FS_Subset DEF Ended
  <1>6. SumFunction(cases) = Cardinality(S)
    <2> DEFINE class == [n \in S |-> rows[n].label]
    <2>1. class \in [S -> labels] /\ DOMAIN cases = labels
      OBVIOUS
    <2>2. \A l \in labels : cases[l] = Cardinality({n \in S : class[n] = l})
      <3> TAKE l \in labels
      <3>1. {n \in S : class[n] = l} = {n \in Ended(rows) : rows[n].label = l}
        OBVIOUS
      <3>2. cases[l] = StrategyEntry(rows, l).cases
        OBVIOUS
      <3> HIDE DEF class, cases, S
      <3> QED  BY <3>1, <3>2, EntryCounts
    <2> HIDE DEF class, cases, S
    <2> QED  BY <1>2, <1>5, <2>1, <2>2, SumOfClasses
  <1>7. SumFunction(failed) = Cardinality(F)
    <2> DEFINE class == [n \in F |-> rows[n].label]
    <2>1. class \in [F -> labels] /\ DOMAIN failed = labels
      OBVIOUS
    <2>2. \A l \in labels : failed[l] = Cardinality({n \in F : class[n] = l})
      <3> TAKE l \in labels
      <3>1. {n \in F : class[n] = l} = EndedAs(rows, "failed", l)
        BY DEF EndedAs
      <3>2. failed[l] = StrategyEntry(rows, l).failed
        OBVIOUS
      <3>3. StrategyEntry(rows, l).failed = Cardinality(EndedAs(rows, "failed", l))
        BY EntryCounts
      <3> HIDE DEF class, failed, F
      <3> QED  BY <3>1, <3>2, <3>3
    <2> HIDE DEF class, failed, F
    <2> QED  BY <1>2, <1>5, <2>1, <2>2, SumOfClasses
  <1> HIDE DEF entries, cases, failed
  <1> QED
    BY <1>3, <1>4, <1>6, <1>7

\* Comparisons by cache mode and by store count the items of their targets.
EndedOf(rows, labels) == {n \in Ended(rows) : rows[n].label \in labels}
FailedOf(rows, labels) == {n \in DOMAIN rows : rows[n].status = "failed" /\ rows[n].label \in labels}
EndedBy(rows, field, v) == {n \in Ended(rows) : rows[n].target[field] = v}
FailedBy(rows, field, v) == {n \in DOMAIN rows : rows[n].status = "failed" /\ rows[n].target[field] = v}

LEMMA RollUpOf ==
    ASSUME NEW asked, "no_context_rate" \in asked, NEW rows, GoodRows(asked, rows),
           NEW labels, labels \subseteq LabelsOf(rows)
    PROVE  /\ RollUp(rows, labels).cases = Cardinality(EndedOf(rows, labels))
           /\ RollUp(rows, labels).failed = Cardinality(FailedOf(rows, labels))
  BY RollUpCounts DEF EndedOf, FailedOf

\* A comparison by a field has an entry for each shown value that an item which
\* has ended has there, and the entry counts those items.
LEMMA GroupCounts ==
    ASSUME NEW asked, "no_context_rate" \in asked, NEW rows, GoodRows(asked, rows),
           NEW field \in {"cache", "provider"}, NEW shown
    PROVE  LET groups == RolledUpBy(rows, field, shown)
           IN /\ DOMAIN groups = {rows[n].target[field] : n \in Ended(rows)} \cap shown
              /\ \A v \in DOMAIN groups :
                    /\ groups[v].cases = Cardinality(EndedBy(rows, field, v))
                    /\ groups[v].failed = Cardinality(FailedBy(rows, field, v))
  <1> DEFINE observed == Observed(rows)
             of == [l \in observed |-> TargetLabelled(rows, l)[field]]
             having(v) == {l \in observed : of[l] = v}
             groups == RolledUpBy(rows, field, shown)
  <1>1. groups = [v \in Range(of) \cap shown |-> RollUp(rows, having(v))]
    BY DEF RolledUpBy
  <1>2. observed = {rows[n].label : n \in Ended(rows)}
    BY ObservedAre
  <1>3. \A n \in Ended(rows) : /\ rows[n].label \in observed
                               /\ of[rows[n].label] = rows[n].target[field]
    BY <1>2, TargetsTold
  <1>4. Range(of) = {rows[n].target[field] : n \in Ended(rows)}
    <2>1. Range(of) = {of[l] : l \in observed}
      BY DEF Range
    <2> HIDE DEF of, observed
    <2> QED  BY <1>2, <1>3, <2>1
  <1>5. ASSUME NEW v
        PROVE  /\ having(v) \subseteq LabelsOf(rows)
               /\ EndedOf(rows, having(v)) = EndedBy(rows, field, v)
               /\ FailedOf(rows, having(v)) = FailedBy(rows, field, v)
    <2>1. having(v) \subseteq LabelsOf(rows)
      BY DEF Observed
    <2>2. \A n \in Ended(rows) : rows[n].label \in having(v) <=> rows[n].target[field] = v
      <3> HIDE DEF of, observed
      <3> QED  BY <1>3
    <2>3. \A n \in DOMAIN rows : rows[n].status = "failed" => n \in Ended(rows)
      BY DEF Ended
    <2> HIDE DEF having
    <2> QED  BY <2>1, <2>2, <2>3 DEF EndedOf, EndedBy, FailedOf, FailedBy
  <1> HIDE DEF of, observed, having, groups
  <1>6. \A v : /\ RollUp(rows, having(v)).cases = Cardinality(EndedOf(rows, having(v)))
               /\ RollUp(rows, having(v)).failed = Cardinality(FailedOf(rows, having(v)))
    BY <1>5, RollUpOf
  <1> QED
    BY <1>1, <1>4, <1>5, <1>6 DEF groups

\* Every item has a cache mode that a run may ask for, and a store or none.
LEMMA FieldsOfRows ==
    ASSUME NEW asked, NEW rows, GoodRows(asked, rows), NEW n \in DOMAIN rows
    PROVE  /\ rows[n].target.cache \in Range(ModeOrder)
           /\ rows[n].target.provider \in {"postgres", "neo4j", "none"}
  <1>1. PICK strategy, mode : rows[n].target = TargetOf(strategy, mode) /\ mode \in Range(ModeOrder)
    BY DEF GoodRows, GoodRow
  <1>2. /\ TargetOf(strategy, mode).cache = mode
        /\ TargetOf(strategy, mode).provider = BaseTarget(strategy).provider
    BY DEF TargetOf
  <1>3. BaseTarget(strategy).provider \in {"postgres", "neo4j", "none"}
    BY DEF BaseTarget
  <1> QED
    BY <1>1, <1>2, <1>3

\* Only what has ended has an outcome.
LEMMA OutcomeCounts ==
    ASSUME NEW asked, NEW side, GoodRows(asked, stored[side])
    PROVE  LET summary == RunSummary(side)
           IN /\ summary.answered + summary.abstained + summary.lost
                   <= summary.succeeded + summary.failed
              /\ summary.succeeded + summary.failed = Cardinality(Ended(stored[side]))
              /\ summary.failed = Cardinality({n \in DOMAIN stored[side] : stored[side][n].status = "failed"})
  <1> DEFINE rows == stored[side]
             summary == RunSummary(side)
             S == {n \in DOMAIN rows : rows[n].status = "succeeded"}
             F == {n \in DOMAIN rows : rows[n].status = "failed"}
             A == {n \in DOMAIN rows : rows[n].outcome = "answered"}
             B == {n \in DOMAIN rows : rows[n].outcome = "abstained"}
             C == {n \in DOMAIN rows : rows[n].outcome \in {"no_context", "citation_error",
                                                           "generation_error", "retrieval_error"}}
  <1>1. /\ summary.succeeded = Cardinality(S) /\ summary.failed = Cardinality(F)
        /\ summary.answered = Cardinality(A) /\ summary.abstained = Cardinality(B)
        /\ summary.lost = Cardinality(C)
    BY DEF RunSummary, Number
  <1>2. /\ IsFiniteSet(S) /\ IsFiniteSet(F) /\ IsFiniteSet(A) /\ IsFiniteSet(B) /\ IsFiniteSet(C)
        /\ IsFiniteSet(Ended(rows))
    <2>1. IsFiniteSet(DOMAIN rows)
      BY FinitelyMany
    <2> HIDE DEF rows
    <2> QED  BY <2>1, FS_Subset DEF Ended
  <1>3. S \cup F = Ended(rows) /\ S \cap F = {}
    BY DEF Ended, GoodRows, GoodRow
  <1>4. A \cup B \cup C \subseteq Ended(rows) /\ A \cap B = {} /\ (A \cup B) \cap C = {}
    BY DEF Ended, GoodRows, GoodRow
  <1> HIDE DEF S, F, A, B, C, summary, rows
  <1>5. Cardinality(Ended(rows)) = Cardinality(S) + Cardinality(F)
    BY <1>2, <1>3, CountedApart
  <1>6. /\ IsFiniteSet(A \cup B) /\ Cardinality(A \cup B) = Cardinality(A) + Cardinality(B)
        /\ Cardinality(A) \in Nat /\ Cardinality(B) \in Nat
    BY <1>2, <1>4, CountedApart
  <1>7. /\ Cardinality((A \cup B) \cup C) = Cardinality(A \cup B) + Cardinality(C)
        /\ Cardinality(C) \in Nat
    BY <1>2, <1>4, <1>6, CountedApart
  <1>8. Cardinality((A \cup B) \cup C) <= Cardinality(Ended(rows))
    BY <1>2, <1>4, FS_Subset
  <1> QED
    BY <1>1, <1>5, <1>6, <1>7, <1>8 DEF summary, rows, F

\* Entries of the items of either side, and what their transition tells.
LEMMA EntriesAre ==
    ASSUME NEW a, NEW b, NEW base, NEW candidate, Listed(base), Listed(candidate),
           NEW x \in CompareCases(a, base, b, candidate)
    PROVE  /\ x.base \in DOMAIN base \cup {0} /\ x.candidate \in DOMAIN candidate \cup {0}
           /\ x.base # 0 \/ x.candidate # 0
           /\ x.transition = "added" <=> x.base = 0
           /\ x.transition = "removed" <=> x.candidate = 0
  <1>0. PICK keysA, keysB : /\ keysA = MatchKeys(a, base, BothDuplicated(base, candidate))
                            /\ keysB = MatchKeys(b, candidate, BothDuplicated(base, candidate))
    OBVIOUS
  <1>1. PICK key \in Range(keysA) \cup Range(keysB) : x = Entry(base, keysA, candidate, keysB, key)
    BY <1>0, CasesAre
  <1>2. /\ x.base = RowAt(keysA, key) /\ x.candidate = RowAt(keysB, key)
        /\ x.transition = Transition(base, candidate, RowAt(keysA, key), RowAt(keysB, key))
    BY <1>1 DEF Entry
  <1>3. /\ RowAt(keysA, key) \in DOMAIN base \cup {0}
        /\ key \in Range(keysA) => RowAt(keysA, key) # 0
    BY <1>0, AtPlace
  <1>4. /\ RowAt(keysB, key) \in DOMAIN candidate \cup {0}
        /\ key \in Range(keysB) => RowAt(keysB, key) # 0
    BY <1>0, AtPlace
  <1>5. x.base # 0 \/ x.candidate # 0
    BY <1>1, <1>2, <1>3, <1>4
  <1>6. /\ x.transition = "added" <=> x.base = 0
        /\ x.transition = "removed" <=> x.candidate = 0
    BY <1>2, <1>5 DEF Transition
  <1> QED
    BY <1>2, <1>3, <1>4, <1>5, <1>6

EntriesAddUp(entries, base, candidate) ==
    LET both == {x \in entries : x.base # 0 /\ x.candidate # 0}
    IN /\ Cardinality(both) + Cardinality({x \in entries : x.transition = "removed"}) = Len(base)
       /\ Cardinality(both) + Cardinality({x \in entries : x.transition = "added"}) = Len(candidate)

\* An entry has an item of one side or of both.
LEMMA EntriesCounted ==
    ASSUME NEW a, NEW b, NEW base, NEW candidate,
           base \in Seq(Range(base)), candidate \in Seq(Range(candidate))
    PROVE  EntriesAddUp(CompareCases(a, base, b, candidate), base, candidate)
  <1> DEFINE cases == CompareCases(a, base, b, candidate)
             Both == {x \in cases : x.base # 0 /\ x.candidate # 0}
             Base == {x \in cases : x.base # 0}
             Candidate == {x \in cases : x.candidate # 0}
             Removed == {x \in cases : x.transition = "removed"}
             Joined == {x \in cases : x.transition = "added"}
  <1>0. /\ Len(base) \in Nat /\ DOMAIN base = 1..Len(base)
        /\ Len(candidate) \in Nat /\ DOMAIN candidate = 1..Len(candidate)
    OBVIOUS
  <1>1. Listed(base) /\ Listed(candidate)
    BY <1>0 DEF Listed
  <1>2. \A x \in cases :
           /\ x.base \in DOMAIN base \cup {0} /\ x.candidate \in DOMAIN candidate \cup {0}
           /\ x.base # 0 \/ x.candidate # 0
           /\ x.transition = "added" <=> x.base = 0
           /\ x.transition = "removed" <=> x.candidate = 0
    BY <1>1, EntriesAre
  <1>3. OneForEach(cases, base, candidate)
    BY <1>1, OneEntryOf
  <1> HIDE DEF cases
  <1>4. IsFiniteSet(Base) /\ Cardinality(Base) = Len(base)
    <2> DEFINE number == [x \in Base |-> x.base]
    <2>0. \A x \in Base : x \in cases /\ x.base \in 1..Len(base)
      BY <1>0, <1>2
    <2>1. \A n \in 1..Len(base) : \E x \in Base : x.base = n
      <3> TAKE n \in 1..Len(base)
      <3>1. PICK y : OfBase(cases, n) = {y}
        BY <1>0, <1>3 DEF OneForEach
      <3>2. y \in cases /\ y.base = n /\ n # 0
        BY <1>0, <3>1 DEF OfBase
      <3> QED  BY <3>2
    <2>2. \A x, y \in Base : x.base = y.base => x = y
      <3> TAKE x, y \in Base
      <3> HAVE x.base = y.base
      <3>1. PICK z : OfBase(cases, x.base) = {z}
        BY <1>0, <1>3, <2>0 DEF OneForEach
      <3>2. x \in OfBase(cases, x.base) /\ y \in OfBase(cases, x.base)
        BY <2>0 DEF OfBase
      <3> QED  BY <3>1, <3>2
    <2> HIDE DEF Base
    <2>3. number \in [Base -> Nat] /\ \A x \in Base : number[x] = x.base
      BY <1>0, <2>0
    <2> HIDE DEF number
    <2>4. {number[x] : x \in Base} = 1..Len(base)
      BY <1>0, <2>0, <2>1, <2>3
    <2>5. \A x, y \in Base : number[x] = number[y] => x = y
      BY <2>2, <2>3
    <2> QED  BY <1>0, <2>3, <2>4, <2>5, Numbered
  <1>5. IsFiniteSet(Candidate) /\ Cardinality(Candidate) = Len(candidate)
    <2> DEFINE number == [x \in Candidate |-> x.candidate]
    <2>0. \A x \in Candidate : x \in cases /\ x.candidate \in 1..Len(candidate)
      BY <1>0, <1>2
    <2>1. \A n \in 1..Len(candidate) : \E x \in Candidate : x.candidate = n
      <3> TAKE n \in 1..Len(candidate)
      <3>1. PICK y : OfCandidate(cases, n) = {y}
        BY <1>0, <1>3 DEF OneForEach
      <3>2. y \in cases /\ y.candidate = n /\ n # 0
        BY <1>0, <3>1 DEF OfCandidate
      <3> QED  BY <3>2
    <2>2. \A x, y \in Candidate : x.candidate = y.candidate => x = y
      <3> TAKE x, y \in Candidate
      <3> HAVE x.candidate = y.candidate
      <3>1. PICK z : OfCandidate(cases, x.candidate) = {z}
        BY <1>0, <1>3, <2>0 DEF OneForEach
      <3>2. x \in OfCandidate(cases, x.candidate) /\ y \in OfCandidate(cases, x.candidate)
        BY <2>0 DEF OfCandidate
      <3> QED  BY <3>1, <3>2
    <2> HIDE DEF Candidate
    <2>3. number \in [Candidate -> Nat] /\ \A x \in Candidate : number[x] = x.candidate
      BY <1>0, <2>0
    <2> HIDE DEF number
    <2>4. {number[x] : x \in Candidate} = 1..Len(candidate)
      BY <1>0, <2>0, <2>1, <2>3
    <2>5. \A x, y \in Candidate : number[x] = number[y] => x = y
      BY <2>2, <2>3
    <2> QED  BY <1>0, <2>3, <2>4, <2>5, Numbered
  <1>6. /\ Both \cup Removed = Base /\ Both \cap Removed = {}
        /\ Both \cup Joined = Candidate /\ Both \cap Joined = {}
    BY <1>2
  <1> HIDE DEF Both, Base, Candidate, Removed, Joined
  <1>7. IsFiniteSet(Both) /\ IsFiniteSet(Removed) /\ IsFiniteSet(Joined)
    BY <1>4, <1>5, <1>6, FS_Subset
  <1>8. Cardinality(Base) = Cardinality(Both) + Cardinality(Removed)
    BY <1>6, <1>7, CountedApart
  <1>9. Cardinality(Candidate) = Cardinality(Both) + Cardinality(Joined)
    BY <1>6, <1>7, CountedApart
  <1> QED
    BY <1>4, <1>5, <1>8, <1>9 DEF cases, Both, Removed, Joined, EntriesAddUp

\* The groups of a comparison by a field have the items that ended, but those left out.
GroupsTold(rows, field, left, groups) ==
    /\ DOMAIN groups = {rows[n].target[field] : n \in Ended(rows)} \ {left}
    /\ \A g \in DOMAIN groups :
          /\ groups[g].cases = Cardinality(EndedBy(rows, field, g))
          /\ groups[g].failed = Cardinality(FailedBy(rows, field, g))

LEMMA ModesAndStores ==
    ASSUME NEW asked, "no_context_rate" \in asked, NEW rows, GoodRows(asked, rows)
    PROVE  /\ GroupsTold(rows, "cache", "default", CacheComparison(rows))
           /\ GroupsTold(rows, "provider", "none", ProviderComparison(rows))
  <1>1. \A n \in Ended(rows) : /\ rows[n].target["cache"] \in Range(ModeOrder)
                               /\ rows[n].target["provider"] \in {"postgres", "neo4j", "none"}
    BY FieldsOfRows DEF Ended
  <1>2. ASSUME NEW field \in {"cache", "provider"}, NEW shown, NEW left,
               \A n \in Ended(rows) : rows[n].target[field] \in shown <=> rows[n].target[field] # left
        PROVE  GroupsTold(rows, field, left, RolledUpBy(rows, field, shown))
    <2> DEFINE groups == RolledUpBy(rows, field, shown)
    <2>1. /\ DOMAIN groups = {rows[n].target[field] : n \in Ended(rows)} \cap shown
          /\ \A v \in DOMAIN groups :
                /\ groups[v].cases = Cardinality(EndedBy(rows, field, v))
                /\ groups[v].failed = Cardinality(FailedBy(rows, field, v))
      BY GroupCounts
    <2> HIDE DEF groups
    <2>2. DOMAIN groups = {rows[n].target[field] : n \in Ended(rows)} \ {left}
      BY <1>2, <2>1
    <2>3. GroupsTold(rows, field, left, groups)
      BY <2>1, <2>2 DEF GroupsTold
    <2> QED  BY <2>3 DEF groups
  <1>3. GroupsTold(rows, "cache", "default", CacheComparison(rows))
    BY <1>1, <1>2 DEF CacheComparison
  <1>4. GroupsTold(rows, "provider", "none", ProviderComparison(rows))
    BY <1>1, <1>2 DEF ProviderComparison
  <1> QED
    BY <1>3, <1>4

\* The items of a side that have ended, as its summary, its cache modes and its
\* stores count them.
SideAddsUp(asked, rows, summary) ==
    LET ended == {n \in DOMAIN rows : rows[n].status # "running"}
        failed == {n \in ended : rows[n].status = "failed"}
        reports == {[field |-> "cache", left |-> "default", groups |-> CacheComparison(rows)],
                    [field |-> "provider", left |-> "none", groups |-> ProviderComparison(rows)]}
    IN /\ summary.answered + summary.abstained + summary.lost <= summary.succeeded + summary.failed
       /\ summary.succeeded + summary.failed = Cardinality(ended)
       /\ "no_context_rate" \in asked =>
            \A report \in reports :
              LET of(n) == rows[n].target[report.field]
              IN /\ DOMAIN report.groups = {of(n) : n \in ended} \ {report.left}
                 /\ \A g \in DOMAIN report.groups :
                       /\ report.groups[g].cases = Cardinality({n \in ended : of(n) = g})
                       /\ report.groups[g].failed = Cardinality({n \in failed : of(n) = g})

LEMMA SideCounts ==
    ASSUME NEW asked, NEW side, GoodRows(asked, stored[side])
    PROVE  SideAddsUp(asked, stored[side], RunSummary(side))
  <1> DEFINE rows == stored[side]
             summary == RunSummary(side)
             ended == {n \in DOMAIN rows : rows[n].status # "running"}
             failed == {n \in ended : rows[n].status = "failed"}
  <1>1. /\ summary.answered + summary.abstained + summary.lost <= summary.succeeded + summary.failed
        /\ summary.succeeded + summary.failed = Cardinality(ended)
    BY OutcomeCounts DEF Ended
  <1>2. /\ Ended(rows) = ended
        /\ \A field, g :
              /\ EndedBy(rows, field, g) = {n \in ended : rows[n].target[field] = g}
              /\ FailedBy(rows, field, g) = {n \in failed : rows[n].target[field] = g}
    BY DEF Ended, EndedBy, FailedBy
  <1> HIDE DEF rows, ended, failed, summary
  <1>3. ASSUME "no_context_rate" \in asked,
               NEW report \in {[field |-> "cache", left |-> "default", groups |-> CacheComparison(rows)],
                               [field |-> "provider", left |-> "none", groups |-> ProviderComparison(rows)]}
        PROVE  GroupsTold(rows, report.field, report.left, report.groups)
    <2>1. /\ GroupsTold(rows, "cache", "default", CacheComparison(rows))
          /\ GroupsTold(rows, "provider", "none", ProviderComparison(rows))
      BY <1>3, ModesAndStores DEF rows
    <2> QED  BY <2>1
  <1>4. ASSUME "no_context_rate" \in asked,
               NEW report \in {[field |-> "cache", left |-> "default", groups |-> CacheComparison(rows)],
                               [field |-> "provider", left |-> "none", groups |-> ProviderComparison(rows)]}
        PROVE  LET of(n) == rows[n].target[report.field]
               IN /\ DOMAIN report.groups = {of(n) : n \in ended} \ {report.left}
                  /\ \A g \in DOMAIN report.groups :
                        /\ report.groups[g].cases = Cardinality({n \in ended : of(n) = g})
                        /\ report.groups[g].failed = Cardinality({n \in failed : of(n) = g})
    <2>1. GroupsTold(rows, report.field, report.left, report.groups)
      BY <1>3, <1>4
    <2>2. PICK field, left, groups : field = report.field /\ left = report.left /\ groups = report.groups
      OBVIOUS
    <2>3. /\ DOMAIN groups = {rows[n].target[field] : n \in ended} \ {left}
          /\ \A g \in DOMAIN groups :
                /\ groups[g].cases = Cardinality({n \in ended : rows[n].target[field] = g})
                /\ groups[g].failed = Cardinality({n \in failed : rows[n].target[field] = g})
      <3>1. GroupsTold(rows, field, left, groups)
        BY <2>1, <2>2
      <3>2. DOMAIN groups = {rows[n].target[field] : n \in ended} \ {left}
        BY <1>2, <3>1 DEF GroupsTold
      <3>3. ASSUME NEW g \in DOMAIN groups
            PROVE  /\ groups[g].cases = Cardinality({n \in ended : rows[n].target[field] = g})
                   /\ groups[g].failed = Cardinality({n \in failed : rows[n].target[field] = g})
        <4>1. /\ groups[g].cases = Cardinality(EndedBy(rows, field, g))
              /\ groups[g].failed = Cardinality(FailedBy(rows, field, g))
          BY <3>1 DEF GroupsTold
        <4>2. /\ EndedBy(rows, field, g) = {n \in ended : rows[n].target[field] = g}
              /\ FailedBy(rows, field, g) = {n \in failed : rows[n].target[field] = g}
          BY <1>2
        <4> QED  BY <4>1, <4>2
      <3> QED  BY <3>2, <3>3
    <2> QED  BY <2>2, <2>3
  <1> QED
    BY <1>1, <1>4 DEF SideAddsUp, rows, ended, failed, summary

LEMMA RowsAddUp == StudyRows => CountsAddUp
  <1> SUFFICES ASSUME StudyRows, study # NoStudy
               PROVE  CountsAddUp
    BY DEF CountsAddUp
  <1>1. \A side \in Sides : GoodRows(study[side].metrics, stored[side])
    BY DEF StudyRows
  <1>2. LET counts == Comparison("base", "candidate").counts
        IN /\ counts.common + counts.baseOnly = Ahead("base")
           /\ counts.common + counts.candidateOnly = Ahead("candidate")
    <2> DEFINE base == stored["base"]
               candidate == stored["candidate"]
    <2>1. base \in Seq(Range(base)) /\ candidate \in Seq(Range(candidate))
      BY <1>1 DEF GoodRows, Sides
    <2>2. PICK cases : cases = CompareCases("base", base, "candidate", candidate)
      OBVIOUS
    <2>3. EntriesAddUp(cases, base, candidate)
      BY <2>1, <2>2, EntriesCounted
    <2>4. /\ Comparison("base", "candidate").counts.common
               = Cardinality({x \in cases : x.base # 0 /\ x.candidate # 0})
          /\ Comparison("base", "candidate").counts.baseOnly
               = Cardinality({x \in cases : x.transition = "removed"})
          /\ Comparison("base", "candidate").counts.candidateOnly
               = Cardinality({x \in cases : x.transition = "added"})
      BY <2>2 DEF Comparison, ComparisonCounts
    <2> QED  BY <2>3, <2>4 DEF Ahead, EntriesAddUp
  <1>3. \A side \in Sides : SideAddsUp(study[side].metrics, stored[side], RunSummary(side))
    BY <1>1, SideCounts
  <1> QED
    BY <1>2, <1>3 DEF CountsAddUp, SideAddsUp

\* The counts of a run and of a comparison add up, whatever the runs, their rows
\* and the metrics they asked for (_strategy_metrics_summary_json, compare_runs).
THEOREM CountsAdd == ReportSpec => []CountsAddUp
  BY StudyRowsAre, RowsAddUp, PTL
=============================================================================
