------------------------ MODULE DocumentIngestProofs ------------------------
(***************************************************************************)
(* Proofs about DocumentIngest, for any number of attempts and chunks.     *)
(* A reported success is lasting with any combination of faults, attempts  *)
(* without a lease included.  What relates the chunk rows to the points    *)
(* needs that an attempt loses its lease only when it is gone.             *)
(***************************************************************************)
EXTENDS DocumentIngest, TLAPS

\* What the argument needs of the types.
Shape ==
    /\ pc \in [Attempts -> Labels]
    /\ result \in [Attempts -> {"none", "succeeded", "failed"}]
    /\ started \in 0..MaxAttempts
    /\ current \in Attempts \cup {0}

\* Only a running job has an owner, and attempts are numbered in order.
OwnerInv ==
    /\ current # 0 => job = "running" /\ current <= started
    /\ \A a \in Attempts : a > started => pc[a] = "unborn"

\* An owner that is about to report success leaves a ready version behind it,
\* and so does a job that has succeeded.
SuccessInv ==
    /\ \A a \in Attempts :
          (current = a /\ pc[a] = "result" /\ result[a] = "succeeded") => verStatus = "ready"
    /\ job = "succeeded" => verStatus = "ready"

IngestInv == Shape /\ OwnerInv /\ SuccessInv

-----------------------------------------------------------------------------
\* The uploaded version with its queued job satisfies the invariant.
LEMMA IngestInit == Init => IngestInv
  <1> SUFFICES ASSUME Init PROVE IngestInv
    OBVIOUS
  <1> USE IngestAssumption
  <1>1. Shape
    BY DEF Init, Shape, Labels, Attempts
  <1>2. OwnerInv
    BY DEF Init, OwnerInv, Attempts
  <1>3. SuccessInv
    BY DEF Init, SuccessInv
  <1> QED
    BY <1>1, <1>2, <1>3 DEF IngestInv

\* A step of attempt a that does not touch the job keeps the shape and the
\* numbering, provided a has been started and moves to a label.
LEMMA HandlerShape ==
    ASSUME Shape, OwnerInv, NEW a \in Attempts, pc[a] # "unborn",
           NEW l \in Labels, pc' = [pc EXCEPT ![a] = l],
           result' \in [Attempts -> {"none", "succeeded", "failed"}],
           UNCHANGED jobVars
    PROVE  Shape' /\ OwnerInv'
  <1>1. Shape'
    BY DEF Shape, jobVars
  <1>2. OwnerInv'
    BY DEF Shape, OwnerInv, jobVars
  <1> QED
    BY <1>1, <1>2

\* A step of attempt a that leaves the job and the version status alone and
\* does not report success keeps SuccessInv.
LEMMA QuietSuccess ==
    ASSUME Shape, SuccessInv, NEW a \in Attempts,
           NEW l \in Labels, pc' = [pc EXCEPT ![a] = l],
           \/ l # "result" /\ result' = result
           \/ result' = [result EXCEPT ![a] = "failed"],
           verStatus' = verStatus, UNCHANGED jobVars
    PROVE  SuccessInv'
  BY DEF Shape, SuccessInv, jobVars

\* A step of the owner that does not report success may change the status of
\* the version: no other attempt is the owner and the job has not succeeded.
LEMMA OwnerSuccess ==
    ASSUME Shape, OwnerInv, NEW a \in Attempts, IsOwner(a),
           NEW l \in Labels, pc' = [pc EXCEPT ![a] = l],
           \/ l # "result" /\ result' = result
           \/ result' = [result EXCEPT ![a] = "failed"],
           UNCHANGED jobVars
    PROVE  SuccessInv'
  <1>1. job' # "succeeded"
    BY DEF IsOwner, OwnerInv, jobVars, Attempts
  <1>2. \A b \in Attempts : current' = b => b = a
    BY DEF IsOwner, jobVars
  <1>3. ~(pc'[a] = "result" /\ result'[a] = "succeeded")
    BY DEF Shape
  <1> QED
    BY <1>1, <1>2, <1>3 DEF SuccessInv

\* An attempt that reports success has just seen or made the version ready.
LEMMA ReadySuccess ==
    ASSUME Shape, SuccessInv, NEW a \in Attempts, verStatus' = "ready", UNCHANGED jobVars
    PROVE  SuccessInv'
  BY DEF SuccessInv

-----------------------------------------------------------------------------
\* Prepare: a ready version is reported as such, every other outcome needs
\* the lease or leaves the version alone.
LEMMA PrepareStep ==
    ASSUME IngestInv, NEW a \in Attempts, Prepare(a) PROVE IngestInv'
  <1> USE DEF IngestInv
  <1>0. pc[a] = "prepare" /\ UNCHANGED jobVars
    BY DEF Prepare
  <1>1. CASE verStatus = "ready" /\ Report(a, "succeeded") /\ UNCHANGED <<domainVars, ids, keep>>
    <2>1. verStatus' = "ready" /\ pc' = [pc EXCEPT ![a] = "result"]
          /\ result' = [result EXCEPT ![a] = "succeeded"]
      BY <1>1 DEF domainVars, Report, Goto
    <2> QED
      BY <1>0, <2>1, HandlerShape, ReadySuccess DEF Shape, Labels
  <1>2. CASE Report(a, "failed") /\ (IsOwner(a) \/ UNCHANGED domainVars)
    <2>1. pc' = [pc EXCEPT ![a] = "result"] /\ result' = [result EXCEPT ![a] = "failed"]
      BY <1>2 DEF Report, Goto
    <2>2. Shape' /\ OwnerInv'
      BY <1>0, <2>1, HandlerShape DEF Shape, Labels
    <2>3. SuccessInv'
      BY <1>0, <1>2, <2>1, OwnerSuccess, QuietSuccess DEF Labels, domainVars
    <2> QED
      BY <2>2, <2>3
  <1>3. CASE IsOwner(a) /\ Goto(a, IF chunks = {} THEN "extract" ELSE "qclean") /\ UNCHANGED result
    <2>1. PICK l \in {"extract", "qclean"} : pc' = [pc EXCEPT ![a] = l]
      BY <1>3 DEF Goto
    <2> QED
      BY <1>0, <1>3, <2>1, HandlerShape, OwnerSuccess DEF Labels, Shape
  <1>4. CASE LeaseLost(a)
    BY <1>0, <1>4, HandlerShape, QuietSuccess DEF LeaseLost, Goto, Labels, domainVars, Shape
  <1> QED
    BY <1>1, <1>2, <1>3, <1>4 DEF Prepare

\* The steps that neither change the version's status nor report success.
LEMMA QuietStep ==
    ASSUME IngestInv, NEW a \in Attempts,
           \/ \E ok \in BOOLEAN : CleanupPoints(a, ok) \/ Unindex(a, ok) \/ FailClean(a, ok)
           \/ CleanupAssert(a) \/ CleanupRows(a) \/ ExtractAndChunk(a)
           \/ LoadChunks(a) \/ IndexChunks(a) \/ FailRead(a)
    PROVE  IngestInv'
  <1> USE DEF IngestInv
  <1>1. /\ pc[a] \notin {"unborn", "result"}
        /\ verStatus' = verStatus
        /\ UNCHANGED jobVars
        /\ \E l \in Labels : /\ pc' = [pc EXCEPT ![a] = l]
                             /\ \/ l # "result" /\ result' = result
                                \/ result' = [result EXCEPT ![a] = "failed"]
    BY DEF CleanupPoints, Unindex, FailClean, DeletePoints, CleanupAssert, CleanupRows,
           ExtractAndChunk, LoadChunks, IndexChunks, FailRead, LeaseLost, Report, Goto,
           Labels, domainVars
  <1>2. PICK l \in Labels : /\ pc' = [pc EXCEPT ![a] = l]
                            /\ \/ l # "result" /\ result' = result
                               \/ result' = [result EXCEPT ![a] = "failed"]
    BY <1>1
  <1>3. result' \in [Attempts -> {"none", "succeeded", "failed"}]
    BY <1>2 DEF Shape
  <1> QED
    BY <1>1, <1>2, <1>3, HandlerShape, QuietSuccess

\* StoreChunks and MarkFailed change the version only under the lease.
LEMMA GuardedStep ==
    ASSUME IngestInv, NEW a \in Attempts, StoreChunks(a) \/ MarkFailed(a)
    PROVE  IngestInv'
  <1> USE DEF IngestInv
  <1>1. /\ pc[a] \notin {"unborn", "result"}
        /\ IsOwner(a) \/ verStatus' = verStatus
        /\ UNCHANGED jobVars
        /\ \E l \in Labels : /\ pc' = [pc EXCEPT ![a] = l]
                             /\ \/ l # "result" /\ result' = result
                                \/ result' = [result EXCEPT ![a] = "failed"]
    BY DEF StoreChunks, MarkFailed, LeaseLost, Report, Goto, Labels, domainVars
  <1>2. PICK l \in Labels : /\ pc' = [pc EXCEPT ![a] = l]
                            /\ \/ l # "result" /\ result' = result
                               \/ result' = [result EXCEPT ![a] = "failed"]
    BY <1>1
  <1>3. result' \in [Attempts -> {"none", "succeeded", "failed"}]
    BY <1>2 DEF Shape
  <1> QED
    BY <1>1, <1>2, <1>3, HandlerShape, OwnerSuccess, QuietSuccess

\* MarkReady reports success only with the transaction that makes it true.
LEMMA ReadyStep ==
    ASSUME IngestInv, NEW a \in Attempts, MarkReady(a) PROVE IngestInv'
  <1> USE DEF IngestInv
  <1>0. pc[a] = "ready" /\ UNCHANGED jobVars
    BY DEF MarkReady
  <1>1. CASE verStatus' = "ready" /\ Report(a, "succeeded")
    <2>1. pc' = [pc EXCEPT ![a] = "result"] /\ result' = [result EXCEPT ![a] = "succeeded"]
      BY <1>1 DEF Report, Goto
    <2> QED
      BY <1>0, <1>1, <2>1, HandlerShape, ReadySuccess DEF Shape, Labels
  <1>2. CASE verStatus' = "ready" /\ Goto(a, "unindex") /\ UNCHANGED result
    BY <1>0, <1>2, HandlerShape, ReadySuccess DEF Goto, Labels, Shape
  <1>3. CASE Goto(a, "unindex") /\ UNCHANGED <<domainVars, ids, keep, result>>
    BY <1>0, <1>3, HandlerShape, QuietSuccess DEF Goto, Labels, Shape, domainVars
  <1>4. CASE LeaseLost(a)
    BY <1>0, <1>4, HandlerShape, QuietSuccess DEF LeaseLost, Goto, Labels, domainVars, Shape
  <1> QED
    BY <1>1, <1>2, <1>3, <1>4 DEF MarkReady

\* The terminal update hands the job's result over, or nothing at all.
LEMMA ResultStep ==
    ASSUME IngestInv, NEW a \in Attempts, StoreResult(a) PROVE IngestInv'
  <1> USE DEF IngestInv
  <1>0. /\ pc[a] = "result"
        /\ pc' = [pc EXCEPT ![a] = "gone"]
        /\ started' = started /\ result' = result /\ verStatus' = verStatus
    BY DEF StoreResult, domainVars
  <1>1. CASE IsOwner(a) /\ job' = result[a] /\ current' = 0
    <2>1. Shape'
      BY <1>0, <1>1 DEF Shape, Labels, Attempts
    <2>2. OwnerInv'
      BY <1>0, <1>1 DEF OwnerInv, Shape
    <2>3. SuccessInv'
      BY <1>0, <1>1 DEF SuccessInv, IsOwner, Attempts
    <2> QED
      BY <2>1, <2>2, <2>3
  <1>2. CASE ~IsOwner(a) /\ UNCHANGED <<job, current>>
    <2>1. Shape' /\ OwnerInv'
      BY <1>0, <1>2 DEF Shape, OwnerInv, Labels
    <2>2. SuccessInv'
      BY <1>0, <1>2 DEF SuccessInv, Shape
    <2> QED
      BY <2>1, <2>2
  <1> QED
    BY <1>1, <1>2 DEF StoreResult

\* Every step preserves the invariant.
LEMMA IngestStep == IngestInv /\ [Next]_vars => IngestInv'
  <1> SUFFICES ASSUME IngestInv, [Next]_vars PROVE IngestInv'
    OBVIOUS
  <1> USE IngestAssumption
  <1>1. ASSUME NEW a \in Attempts, StartAttempt(a) PROVE IngestInv'
    <2>0. /\ a = started + 1 /\ started' = a /\ current' = a /\ job' = "running"
          /\ pc' = [pc EXCEPT ![a] = "prepare"] /\ result' = result /\ verStatus' = verStatus
      BY <1>1 DEF StartAttempt, domainVars
    <2>1. Shape'
      BY <2>0 DEF IngestInv, Shape, Labels, Attempts
    <2>2. OwnerInv'
      BY <2>0 DEF IngestInv, Shape, OwnerInv, Attempts
    <2>3. SuccessInv'
      BY <2>0 DEF IngestInv, Shape, SuccessInv
    <2> QED
      BY <2>1, <2>2, <2>3 DEF IngestInv
  <1>2. ASSUME NEW a \in Attempts, HandlerStep(a) PROVE IngestInv'
    BY <1>2, PrepareStep, QuietStep, GuardedStep, ReadyStep, ResultStep DEF HandlerStep
  <1>3. ASSUME NEW a \in Attempts, Crash(a) PROVE IngestInv'
    <2>0. pc[a] # "unborn" /\ pc' = [pc EXCEPT ![a] = "gone"] /\ result' = result
          /\ verStatus' = verStatus /\ UNCHANGED jobVars
      BY <1>3 DEF Crash, domainVars
    <2> QED
      BY <2>0, HandlerShape, QuietSuccess DEF IngestInv, Labels, Shape
  <1>4. CASE RetryJob
    BY <1>4 DEF RetryJob, IngestInv, Shape, OwnerInv, SuccessInv, attemptVars
  <1>5. CASE ApproveVersion \/ ArchiveDocument
    BY <1>5 DEF ApproveVersion, ArchiveDocument, IngestInv, Shape, OwnerInv, SuccessInv,
                attemptVars, jobVars
  <1>6. CASE SweepScroll \/ SweepCheck \/ \E ok \in BOOLEAN : SweepDelete(ok)
    BY <1>6 DEF SweepScroll, SweepCheck, SweepDelete, IngestInv, Shape, OwnerInv, SuccessInv,
                attemptVars, jobVars, domainVars
  <1>7. CASE UNCHANGED vars
    BY <1>7 DEF vars, IngestInv, Shape, OwnerInv, SuccessInv, attemptVars, jobVars, domainVars
  <1> QED
    BY <1>1, <1>2, <1>3, <1>4, <1>5, <1>6, <1>7 DEF Next

\* A reported success is never undone: the version of a succeeded ingest job is
\* ready in every reachable state, with any number of attempts that lost their
\* lease and still run, and with any of the faults.
THEOREM SuccessIsLasting == Spec => []SucceededMeansReady
  <1>1. IngestInv => SucceededMeansReady
    BY DEF IngestInv, SuccessInv, SucceededMeansReady
  <1> QED
    BY <1>1, IngestInit, IngestStep, PTL DEF Spec

-----------------------------------------------------------------------------
(* Rows and points, when no attempt outlives its lease. *)

Alive(a) == pc[a] \notin {"unborn", "gone"}

\* Only the owner of the job is executing.
OneAlive == \A a \in Attempts : Alive(a) => current = a

\* Chunk ids come from a sequence: what is stored next is new to the rows and
\* to the sweep.
IdsNumbered ==
    /\ nextChunk \in Nat
    /\ \A n \in chunks \cup swept : n \in Nat /\ n < nextChunk

\* What attempt a knows about rows and points at each place of the handler.
PhaseOf(a) ==
    /\ pc[a] \in {"qclean", "index", "ready", "unindex", "failClean"} => ids[a] = chunks
    /\ pc[a] \in {"assert", "delete", "extract", "store"} => points = {}
    /\ pc[a] = "ready" => chunks # {} /\ chunks \subseteq points
    /\ pc[a] = "markFailed" => keep[a] \/ points = {}

PhaseInv == \A a \in Attempts : PhaseOf(a)

Kinds ==
    /\ ids \in [Attempts -> SUBSET Nat]
    /\ keep \in [Attempts -> BOOLEAN]

RowsInv ==
    /\ IngestInv
    /\ Kinds
    /\ OneAlive
    /\ IdsNumbered
    /\ DoomedStayOrphans
    /\ NoOrphanPoints
    /\ PhaseInv

\* A new version has neither rows nor points.
LEMMA RowsInit == Init => RowsInv
  <1> SUFFICES ASSUME Init PROVE RowsInv
    OBVIOUS
  <1>1. Kinds /\ OneAlive
    BY DEF Init, Kinds, OneAlive, Alive
  <1>2. IdsNumbered /\ DoomedStayOrphans /\ NoOrphanPoints
    BY DEF Init, IdsNumbered, DoomedStayOrphans, NoOrphanPoints
  <1>3. PhaseInv
    BY DEF Init, PhaseInv, PhaseOf
  <1> QED
    BY <1>1, <1>2, <1>3, IngestInit DEF RowsInv

\* Where only attempt a is alive and moves, the others know nothing that its
\* step could spoil.
LEMMA AlonePhase ==
    ASSUME RowsInv, NEW a \in Attempts, Alive(a), NEW l \in Labels,
           pc' = [pc EXCEPT ![a] = l], UNCHANGED jobVars, PhaseOf(a)'
    PROVE  OneAlive' /\ PhaseInv'
  <1>1. \A b \in Attempts \ {a} : ~Alive(b) /\ ~Alive(b)'
    BY DEF RowsInv, OneAlive, IngestInv, Shape, Alive
  <1>2. OneAlive'
    BY <1>1 DEF RowsInv, OneAlive, jobVars, Alive, IngestInv, Shape
  <1>3. \A b \in Attempts \ {a} : PhaseOf(b)'
    BY <1>1 DEF PhaseOf, Alive
  <1> QED
    BY <1>2, <1>3 DEF PhaseInv

\* A step that deletes points only may change the rows no further than the
\* points allow.
LEMMA SameRows ==
    ASSUME RowsInv, UNCHANGED <<chunks, nextChunk, sweepVars>>, points' \subseteq points
    PROVE  IdsNumbered' /\ DoomedStayOrphans' /\ NoOrphanPoints'
  BY DEF RowsInv, IdsNumbered, DoomedStayOrphans, NoOrphanPoints, sweepVars

\* The three calls that delete the points of the rows attempt a has read.
LEMMA DeleteStep ==
    ASSUME RowsInv, NEW a \in Attempts,
           \E ok \in BOOLEAN : CleanupPoints(a, ok) \/ Unindex(a, ok) \/ FailClean(a, ok)
    PROVE  RowsInv'
  <1>0. IngestInv'
    BY QuietStep DEF RowsInv
  <1>1. PICK ok \in BOOLEAN, l \in {"assert", "markFailed"} :
          /\ pc[a] \in {"qclean", "unindex", "failClean"}
          /\ DeletePoints(a, ok)
          /\ pc' = [pc EXCEPT ![a] = l]
          /\ l = "assert" => ok
    BY DEF CleanupPoints, Unindex, FailClean, Goto
  <1>2. /\ UNCHANGED <<chunks, nextChunk, sweepVars, jobVars, ids>>
        /\ keep' = [keep EXCEPT ![a] = ~ok]
        /\ points' \subseteq points
        /\ ok => points' = points \ ids[a]
    BY <1>1 DEF DeletePoints
  <1>3. ok => points' = {}
    BY <1>1, <1>2 DEF RowsInv, PhaseInv, PhaseOf, NoOrphanPoints
  <1>4. IdsNumbered' /\ DoomedStayOrphans' /\ NoOrphanPoints'
    BY <1>2, SameRows
  <1>5. Kinds'
    BY <1>2 DEF RowsInv, Kinds
  <1>6. PhaseOf(a)'
    BY <1>1, <1>2, <1>3 DEF RowsInv, Kinds, PhaseOf, IngestInv, Shape
  <1>7. OneAlive' /\ PhaseInv'
    BY <1>1, <1>2, <1>6, AlonePhase DEF Alive, Labels
  <1> QED
    BY <1>0, <1>4, <1>5, <1>7 DEF RowsInv

\* The steps of the handler that read rows and points, and write neither.
LEMMA ReadingStep ==
    ASSUME RowsInv, NEW a \in Attempts,
           CleanupAssert(a) \/ ExtractAndChunk(a) \/ LoadChunks(a) \/ FailRead(a)
    PROVE  RowsInv'
  <1>0. IngestInv'
    BY QuietStep DEF RowsInv
  <1>1. /\ Alive(a)
        /\ UNCHANGED <<domainVars, jobVars, sweepVars>>
        /\ \E l \in Labels : pc' = [pc EXCEPT ![a] = l]
        /\ ids' \in {ids, [ids EXCEPT ![a] = chunks]}
        /\ keep' \in {keep, [keep EXCEPT ![a] = FALSE]}
    BY DEF CleanupAssert, ExtractAndChunk, LoadChunks, FailRead, LeaseLost, Goto, Report, Labels,
           Alive
  <1>2. chunks \in SUBSET Nat
    BY DEF RowsInv, IdsNumbered
  <1>3. Kinds'
    BY <1>1, <1>2 DEF RowsInv, Kinds
  <1>4. IdsNumbered' /\ DoomedStayOrphans' /\ NoOrphanPoints'
    BY <1>1, SameRows DEF domainVars
  <1>5. PhaseOf(a)'
    <2> USE DEF RowsInv, PhaseInv, PhaseOf, Kinds, IngestInv, Shape, domainVars, Goto
    <2>1. CASE CleanupAssert(a)
      BY <2>1 DEF CleanupAssert, LeaseLost
    <2>2. CASE ExtractAndChunk(a)
      BY <2>2 DEF ExtractAndChunk
    <2>3. CASE LoadChunks(a)
      BY <2>3 DEF LoadChunks
    <2>4. CASE FailRead(a)
      BY <2>4 DEF FailRead, Report, NoOrphanPoints
    <2> QED
      BY <2>1, <2>2, <2>3, <2>4
  <1>6. OneAlive' /\ PhaseInv'
    BY <1>1, <1>5, AlonePhase
  <1> QED
    BY <1>0, <1>3, <1>4, <1>6 DEF RowsInv

\* Prepare reads the rows, under the locks of version and document.
LEMMA PrepareRows ==
    ASSUME RowsInv, NEW a \in Attempts, Prepare(a) PROVE RowsInv'
  <1>0. IngestInv'
    BY PrepareStep DEF RowsInv
  <1>1. /\ pc[a] = "prepare" /\ keep' = keep
        /\ UNCHANGED <<chunks, nextChunk, points, jobVars, sweepVars>>
        /\ \/ /\ ids' = ids
              /\ \E l \in {"result", "gone"} : pc' = [pc EXCEPT ![a] = l]
           \/ /\ ids' = [ids EXCEPT ![a] = chunks]
              /\ pc' = [pc EXCEPT ![a] = IF chunks = {} THEN "extract" ELSE "qclean"]
    BY DEF Prepare, Report, Goto, LeaseLost, domainVars
  <1>2. chunks \in SUBSET Nat
    BY DEF RowsInv, IdsNumbered
  <1>3. Kinds'
    BY <1>1, <1>2 DEF RowsInv, Kinds
  <1>4. IdsNumbered' /\ DoomedStayOrphans' /\ NoOrphanPoints'
    BY <1>1, SameRows
  <1>5. PhaseOf(a)'
    BY <1>1 DEF RowsInv, PhaseOf, Kinds, IngestInv, Shape, NoOrphanPoints
  <1>6. \E l \in Labels : pc' = [pc EXCEPT ![a] = l]
    BY <1>1 DEF Labels
  <1>7. OneAlive' /\ PhaseInv'
    BY <1>1, <1>5, <1>6, AlonePhase DEF Alive
  <1> QED
    BY <1>0, <1>3, <1>4, <1>7 DEF RowsInv

\* The rows go when their points have gone.
LEMMA CleanupRowsStep ==
    ASSUME RowsInv, NEW a \in Attempts, CleanupRows(a) PROVE RowsInv'
  <1>0. IngestInv'
    BY QuietStep DEF RowsInv
  <1>1. /\ pc[a] = "delete" /\ points = {} /\ points' = {}
        /\ chunks' \in {{}, chunks}
        /\ UNCHANGED <<nextChunk, ids, keep, jobVars, sweepVars>>
        /\ \E l \in {"extract", "markFailed"} : pc' = [pc EXCEPT ![a] = l]
    BY DEF CleanupRows, Goto, RowsInv, PhaseInv, PhaseOf
  <1>2. Kinds' /\ IdsNumbered' /\ DoomedStayOrphans' /\ NoOrphanPoints'
    BY <1>1 DEF RowsInv, Kinds, IdsNumbered, DoomedStayOrphans, NoOrphanPoints, sweepVars
  <1>3. PhaseOf(a)'
    BY <1>1 DEF RowsInv, PhaseOf, IngestInv, Shape
  <1>4. \E l \in Labels : pc' = [pc EXCEPT ![a] = l]
    BY <1>1 DEF Labels
  <1>5. OneAlive' /\ PhaseInv'
    BY <1>1, <1>3, <1>4, AlonePhase DEF Alive
  <1> QED
    BY <1>0, <1>2, <1>5 DEF RowsInv

\* New rows get ids that neither a point nor the sweep has.
LEMMA StoreRows ==
    ASSUME RowsInv, NEW a \in Attempts, StoreChunks(a) PROVE RowsInv'
  <1>0. IngestInv'
    BY GuardedStep DEF RowsInv
  <1>1. /\ pc[a] = "store" /\ points = {} /\ points' = {}
        /\ UNCHANGED <<ids, keep, jobVars, sweepVars>>
        /\ \E l \in {"failRead", "gone", "load"} : pc' = [pc EXCEPT ![a] = l]
        /\ \/ UNCHANGED <<chunks, nextChunk>>
           \/ /\ chunks' = nextChunk..(nextChunk + NumChunks - 1)
              /\ nextChunk' = nextChunk + NumChunks
    BY DEF StoreChunks, Goto, LeaseLost, domainVars, RowsInv, PhaseInv, PhaseOf
  <1>2. IdsNumbered' /\ DoomedStayOrphans'
    BY <1>1, IngestAssumption DEF RowsInv, IdsNumbered, DoomedStayOrphans, sweepVars
  <1>3. Kinds' /\ NoOrphanPoints'
    BY <1>1 DEF RowsInv, Kinds, NoOrphanPoints
  <1>4. PhaseOf(a)'
    BY <1>1 DEF RowsInv, PhaseOf, IngestInv, Shape
  <1>5. \E l \in Labels : pc' = [pc EXCEPT ![a] = l]
    BY <1>1 DEF Labels
  <1>6. OneAlive' /\ PhaseInv'
    BY <1>1, <1>4, <1>5, AlonePhase DEF Alive
  <1> QED
    BY <1>0, <1>2, <1>3, <1>6 DEF RowsInv

\* Points are only upserted for rows that are there.
LEMMA IndexStep ==
    ASSUME RowsInv, NEW a \in Attempts, IndexChunks(a) PROVE RowsInv'
  <1>0. IngestInv'
    BY QuietStep DEF RowsInv
  <1>1. /\ pc[a] = "index" /\ ids[a] = chunks
        /\ UNCHANGED <<chunks, nextChunk, ids, keep, jobVars, sweepVars>>
        /\ \/ chunks # {} /\ points' = points \cup chunks /\ pc' = [pc EXCEPT ![a] = "ready"]
           \/ /\ \E done \in SUBSET chunks : points' = points \cup done
              /\ pc' = [pc EXCEPT ![a] = "failRead"]
    BY DEF IndexChunks, Goto, RowsInv, PhaseInv, PhaseOf
  <1>2. Kinds' /\ IdsNumbered' /\ DoomedStayOrphans' /\ NoOrphanPoints'
    BY <1>1 DEF RowsInv, Kinds, IdsNumbered, DoomedStayOrphans, NoOrphanPoints, sweepVars
  <1>3. PhaseOf(a)'
    BY <1>1 DEF RowsInv, PhaseOf, IngestInv, Shape
  <1>4. \E l \in Labels : pc' = [pc EXCEPT ![a] = l]
    BY <1>1 DEF Labels
  <1>5. OneAlive' /\ PhaseInv'
    BY <1>1, <1>3, <1>4, AlonePhase DEF Alive
  <1> QED
    BY <1>0, <1>2, <1>5 DEF RowsInv

\* MarkReady writes the version only.
LEMMA ReadyRows ==
    ASSUME RowsInv, NEW a \in Attempts, MarkReady(a) PROVE RowsInv'
  <1>0. IngestInv'
    BY ReadyStep DEF RowsInv
  <1>1. /\ pc[a] = "ready"
        /\ UNCHANGED <<chunks, nextChunk, points, ids, keep, jobVars, sweepVars>>
        /\ \E l \in {"unindex", "gone", "result"} : pc' = [pc EXCEPT ![a] = l]
    BY DEF MarkReady, Goto, Report, LeaseLost, domainVars
  <1>2. Kinds' /\ IdsNumbered' /\ DoomedStayOrphans' /\ NoOrphanPoints'
    BY <1>1, SameRows DEF RowsInv, Kinds
  <1>3. PhaseOf(a)'
    BY <1>1 DEF RowsInv, PhaseInv, PhaseOf, IngestInv, Shape
  <1>4. \E l \in Labels : pc' = [pc EXCEPT ![a] = l]
    BY <1>1 DEF Labels
  <1>5. OneAlive' /\ PhaseInv'
    BY <1>1, <1>3, <1>4, AlonePhase DEF Alive
  <1> QED
    BY <1>0, <1>2, <1>5 DEF RowsInv

\* A failed version keeps the rows whose points may still be there.
LEMMA MarkFailedRows ==
    ASSUME RowsInv, NEW a \in Attempts, MarkFailed(a) PROVE RowsInv'
  <1>0. IngestInv'
    BY GuardedStep DEF RowsInv
  <1>1. /\ pc[a] = "markFailed"
        /\ keep[a] \/ points = {}
        /\ UNCHANGED <<nextChunk, points, ids, keep, jobVars, sweepVars>>
        /\ \E l \in {"gone", "result"} : pc' = [pc EXCEPT ![a] = l]
        /\ chunks' = chunks \/ (~keep[a] /\ chunks' = {})
    BY DEF MarkFailed, Goto, Report, LeaseLost, domainVars, RowsInv, PhaseInv, PhaseOf
  <1>2. Kinds' /\ IdsNumbered' /\ DoomedStayOrphans' /\ NoOrphanPoints'
    BY <1>1 DEF RowsInv, Kinds, IdsNumbered, DoomedStayOrphans, NoOrphanPoints, sweepVars
  <1>3. PhaseOf(a)'
    BY <1>1 DEF RowsInv, PhaseOf, IngestInv, Shape
  <1>4. \E l \in Labels : pc' = [pc EXCEPT ![a] = l]
    BY <1>1 DEF Labels
  <1>5. OneAlive' /\ PhaseInv'
    BY <1>1, <1>3, <1>4, AlonePhase DEF Alive
  <1> QED
    BY <1>0, <1>2, <1>5 DEF RowsInv

\* An attempt that ends leaves nobody alive.
LEMMA EndRows ==
    ASSUME RowsInv, NEW a \in Attempts, StoreResult(a) \/ Crash(a) PROVE RowsInv'
  <1>0. IngestInv'
    BY IngestStep DEF RowsInv, Next, HandlerStep
  <1>1. /\ Alive(a) /\ pc' = [pc EXCEPT ![a] = "gone"]
        /\ UNCHANGED <<chunks, nextChunk, points, ids, keep, sweepVars>>
    BY DEF StoreResult, Crash, domainVars, Alive
  <1>2. Kinds' /\ IdsNumbered' /\ DoomedStayOrphans' /\ NoOrphanPoints'
    BY <1>1, SameRows DEF RowsInv, Kinds
  <1>3. \A b \in Attempts : ~Alive(b)'
    BY <1>1 DEF RowsInv, OneAlive, Alive, IngestInv, Shape
  <1>4. OneAlive' /\ PhaseInv'
    BY <1>3 DEF OneAlive, PhaseInv, PhaseOf, Alive
  <1> QED
    BY <1>0, <1>2, <1>4 DEF RowsInv

\* An attempt starts when the one before it is gone: here a lease is lost only
\* by a process that died.
LEMMA StartRows ==
    ASSUME RowsInv, "zombie" \notin Faults, NEW a \in Attempts, StartAttempt(a) PROVE RowsInv'
  <1>0. IngestInv'
    BY IngestStep DEF RowsInv, Next
  <1>1. /\ a = started + 1 /\ current' = a
        /\ pc' = [pc EXCEPT ![a] = "prepare"]
        /\ job = "queued" \/ pc[current] = "gone"
        /\ UNCHANGED <<chunks, nextChunk, points, ids, keep, sweepVars>>
    BY DEF StartAttempt, domainVars
  <1>2. Kinds' /\ IdsNumbered' /\ DoomedStayOrphans' /\ NoOrphanPoints'
    BY <1>1, SameRows DEF RowsInv, Kinds
  <1>3. \A b \in Attempts : ~Alive(b)
    BY <1>1 DEF RowsInv, OneAlive, Alive, IngestInv, OwnerInv, Attempts
  <1>4. \A b \in Attempts \ {a} : ~Alive(b)'
    BY <1>1, <1>3 DEF RowsInv, IngestInv, Shape, Alive
  <1>5. pc'[a] = "prepare"
    BY <1>1 DEF RowsInv, IngestInv, Shape
  <1>6. OneAlive' /\ PhaseInv'
    BY <1>1, <1>4, <1>5 DEF OneAlive, PhaseInv, PhaseOf, Alive
  <1> QED
    BY <1>0, <1>2, <1>6 DEF RowsInv

\* Users' requests leave rows, points and attempts alone.
LEMMA RequestRows ==
    ASSUME RowsInv, RetryJob \/ ApproveVersion \/ ArchiveDocument \/ UNCHANGED vars
    PROVE  RowsInv'
  <1>0. IngestInv'
    BY IngestStep DEF RowsInv, Next
  <1>1. /\ UNCHANGED <<chunks, nextChunk, points, current, sweepVars>>
        /\ UNCHANGED attemptVars
    BY DEF RetryJob, ApproveVersion, ArchiveDocument, vars, domainVars, jobVars
  <1>2. Kinds' /\ IdsNumbered' /\ DoomedStayOrphans' /\ NoOrphanPoints'
    BY <1>1, SameRows DEF RowsInv, Kinds, attemptVars
  <1>3. OneAlive' /\ PhaseInv'
    BY <1>1 DEF RowsInv, OneAlive, Alive, PhaseInv, PhaseOf, attemptVars
  <1> QED
    BY <1>0, <1>2, <1>3 DEF RowsInv

\* The sweep finds no orphan to delete: what it has doomed has neither a row nor
\* a point any more.
LEMMA SweepRows ==
    ASSUME RowsInv, SweepScroll \/ SweepCheck \/ \E ok \in BOOLEAN : SweepDelete(ok)
    PROVE  RowsInv'
  <1>0. IngestInv'
    BY IngestStep DEF RowsInv, Next
  <1>1. UNCHANGED <<chunks, nextChunk, points, jobVars, attemptVars>>
    BY DEF SweepScroll, SweepCheck, SweepDelete, domainVars, RowsInv, DoomedStayOrphans,
           NoOrphanPoints
  <1>2. IdsNumbered' /\ DoomedStayOrphans'
    BY DEF SweepScroll, SweepCheck, SweepDelete, domainVars, RowsInv, IdsNumbered,
           DoomedStayOrphans, NoOrphanPoints
  <1>3. Kinds' /\ NoOrphanPoints' /\ OneAlive' /\ PhaseInv'
    BY <1>1 DEF RowsInv, Kinds, NoOrphanPoints, OneAlive, Alive, PhaseInv, PhaseOf, jobVars,
                attemptVars
  <1> QED
    BY <1>0, <1>2, <1>3 DEF RowsInv

\* Every step preserves it.
LEMMA RowsStep ==
    ASSUME "zombie" \notin Faults PROVE RowsInv /\ [Next]_vars => RowsInv'
  <1> SUFFICES ASSUME RowsInv, [Next]_vars PROVE RowsInv'
    OBVIOUS
  <1>1. ASSUME NEW a \in Attempts, HandlerStep(a) PROVE RowsInv'
    BY <1>1, PrepareRows, DeleteStep, ReadingStep, CleanupRowsStep, StoreRows, IndexStep,
       ReadyRows, MarkFailedRows, EndRows DEF HandlerStep
  <1> QED
    BY <1>1, StartRows, EndRows, RequestRows, SweepRows DEF Next

\* As long as an attempt loses its lease only by dying, no point of the vector
\* index outlives its chunk row, whatever calls fail, before or after taking
\* effect, wherever processes die and however the sweep runs beside them
\* (_cleanup_existing_artifacts, _fail_version).
THEOREM PointsHaveRows ==
    ASSUME "zombie" \notin Faults PROVE Spec => []NoOrphanPoints
  <1>1. RowsInv => NoOrphanPoints
    BY DEF RowsInv
  <1> QED
    BY <1>1, RowsInit, RowsStep, PTL DEF Spec

-----------------------------------------------------------------------------
(* A ready version, when moreover a commit that reports an error has failed. *)

\* Nobody works on a version that is ready.
ReadyEnds ==
    verStatus = "ready" =>
        \A a \in Attempts : pc[a] \in {"unborn", "gone", "prepare", "result"}

ReadyInv == RowsInv /\ ReadyEnds /\ ReadyMeansIndexed

\* A step that leaves or makes the version unready says nothing about ready ones.
LEMMA Unready ==
    ASSUME verStatus' # "ready" PROVE ReadyEnds' /\ ReadyMeansIndexed'
  BY DEF ReadyEnds, ReadyMeansIndexed

\* A step within the handler, or to its end, is made on an unready version.
LEMMA HandlerReady ==
    ASSUME ReadyInv, NEW a \in Attempts, HandlerStep(a),
           pc[a] \notin {"prepare", "ready", "result"}
    PROVE  ReadyEnds' /\ ReadyMeansIndexed'
  <1>1. verStatus # "ready"
    <2>1. pc[a] # "unborn" /\ pc[a] # "gone"
      BY DEF HandlerStep, Prepare, CleanupPoints, CleanupAssert, CleanupRows, ExtractAndChunk,
             StoreChunks, LoadChunks, IndexChunks, MarkReady, Unindex, FailRead, FailClean,
             MarkFailed, StoreResult
    <2> QED
      BY <2>1 DEF ReadyInv, ReadyEnds
  <1>2. verStatus' # "ready"
    BY <1>1 DEF HandlerStep, Prepare, CleanupPoints, CleanupAssert, CleanupRows, ExtractAndChunk,
           StoreChunks, LoadChunks, IndexChunks, MarkReady, Unindex, FailRead, FailClean,
           MarkFailed, StoreResult, DeletePoints, LeaseLost, domainVars
  <1> QED
    BY <1>2, Unready

\* Prepare leaves a ready version as it is, or marks that of an archived document.
LEMMA PrepareReady ==
    ASSUME ReadyInv, NEW a \in Attempts, Prepare(a) PROVE ReadyEnds' /\ ReadyMeansIndexed'
  <1>1. /\ chunks' = chunks /\ points' = points
        /\ verStatus' = "ready" => /\ verStatus = "ready"
                                   /\ \E l \in {"result", "gone"} : pc' = [pc EXCEPT ![a] = l]
    BY DEF Prepare, Report, Goto, LeaseLost, domainVars
  <1> QED
    BY <1>1 DEF ReadyInv, ReadyEnds, ReadyMeansIndexed, RowsInv, IngestInv, Shape

\* The version is made ready by an attempt that is done, after all of its rows
\* got their points.
LEMMA MarkReadyReady ==
    ASSUME ReadyInv, "commit" \notin Faults, NEW a \in Attempts, MarkReady(a)
    PROVE  ReadyEnds' /\ ReadyMeansIndexed'
  <1>1. pc[a] = "ready" /\ chunks # {} /\ chunks \subseteq points
    BY DEF MarkReady, ReadyInv, RowsInv, PhaseInv, PhaseOf
  <1>2. verStatus # "ready"
    BY <1>1 DEF ReadyInv, ReadyEnds
  <1>3. /\ chunks' = chunks /\ points' = points
        /\ verStatus' = "ready" => pc' = [pc EXCEPT ![a] = "result"]
    BY <1>2 DEF MarkReady, Report, Goto, LeaseLost, domainVars
  <1>4. \A b \in Attempts \ {a} : pc[b] \in {"unborn", "gone"}
    BY <1>1 DEF ReadyInv, RowsInv, OneAlive, Alive
  <1> QED
    BY <1>1, <1>3, <1>4 DEF ReadyEnds, ReadyMeansIndexed, ReadyInv, RowsInv, IngestInv, Shape

\* Every step of the specification keeps a ready version indexed.
LEMMA ReadyInvStep ==
    ASSUME "zombie" \notin Faults, "commit" \notin Faults
    PROVE  ReadyInv /\ [Next]_vars => ReadyInv'
  <1> SUFFICES ASSUME ReadyInv, [Next]_vars PROVE ReadyInv'
    OBVIOUS
  <1>0. RowsInv'
    BY RowsStep DEF ReadyInv
  <1>1. ASSUME NEW a \in Attempts, HandlerStep(a) PROVE ReadyEnds' /\ ReadyMeansIndexed'
    <2>1. CASE pc[a] = "prepare"
      BY <1>1, <2>1, PrepareReady DEF HandlerStep, CleanupPoints, CleanupAssert, CleanupRows,
         ExtractAndChunk, StoreChunks, LoadChunks, IndexChunks, MarkReady, Unindex, FailRead,
         FailClean, MarkFailed, StoreResult
    <2>2. CASE pc[a] = "ready"
      BY <1>1, <2>2, MarkReadyReady DEF HandlerStep, Prepare, CleanupPoints, CleanupAssert,
         CleanupRows, ExtractAndChunk, StoreChunks, LoadChunks, IndexChunks, Unindex, FailRead,
         FailClean, MarkFailed, StoreResult
    <2>3. CASE pc[a] = "result"
      <3>1. StoreResult(a)
        BY <1>1, <2>3 DEF HandlerStep, Prepare, CleanupPoints, CleanupAssert, CleanupRows,
           ExtractAndChunk, StoreChunks, LoadChunks, IndexChunks, MarkReady, Unindex, FailRead,
           FailClean, MarkFailed
      <3> QED
        BY <3>1 DEF StoreResult, domainVars, ReadyInv, ReadyEnds, ReadyMeansIndexed, RowsInv,
           IngestInv, Shape
    <2> QED
      BY <1>1, <2>1, <2>2, <2>3, HandlerReady
  <1>2. ASSUME NEW a \in Attempts, StartAttempt(a) \/ Crash(a)
        PROVE  ReadyEnds' /\ ReadyMeansIndexed'
    BY <1>2 DEF StartAttempt, Crash, domainVars, ReadyInv, ReadyEnds, ReadyMeansIndexed, RowsInv,
       IngestInv, Shape
  <1>3. CASE RetryJob \/ ApproveVersion \/ ArchiveDocument \/ UNCHANGED vars
    BY <1>0, <1>3 DEF RetryJob, ApproveVersion, ArchiveDocument, vars, domainVars, attemptVars,
       ReadyInv, ReadyEnds, ReadyMeansIndexed
  <1>4. CASE SweepScroll \/ SweepCheck \/ \E ok \in BOOLEAN : SweepDelete(ok)
    BY <1>0, <1>4 DEF SweepScroll, SweepCheck, SweepDelete, domainVars, attemptVars, ReadyInv, RowsInv,
       DoomedStayOrphans, ReadyEnds, ReadyMeansIndexed
  <1> QED
    BY <1>0, <1>1, <1>2, <1>3, <1>4 DEF Next, ReadyInv

\* A version is ready only with chunks, all of them in the vector index, as long
\* as leases are lost by dying only and a commit that reports an error was not
\* made: no failing call, failing transaction, crash, retry or sweep takes a
\* point of it away (_mark_version_ready, _process_batch of the sweep).
THEOREM ReadyIsIndexed ==
    ASSUME "zombie" \notin Faults, "commit" \notin Faults
    PROVE  Spec => []ReadyMeansIndexed
  <1>1. Init => ReadyInv
    BY RowsInit DEF ReadyInv, ReadyEnds, ReadyMeansIndexed, Init
  <1>2. ReadyInv => ReadyMeansIndexed
    BY DEF ReadyInv
  <1> QED
    BY <1>1, <1>2, ReadyInvStep, PTL DEF Spec
=============================================================================
