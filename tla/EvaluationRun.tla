---------------------------- MODULE EvaluationRun ----------------------------
(***************************************************************************)
(* One evaluation run over the isolated corpus of its dataset:             *)
(*   backend/app/services/evaluation_service.py                            *)
(*   backend/app/repositories/evaluation_repository.py                     *)
(*   backend/app/workers/handlers/evaluation_run_handler.py                *)
(*   backend/app/evaluation/rag_service.py       cache settings, outcomes  *)
(*                                                                         *)
(* A run is admitted when the corpus is ready, executed by a job case by   *)
(* case and mode by mode, reviewed by people and mined for failures that   *)
(* become cases of another dataset.  Execution commits after every step,   *)
(* and no step of it looks at the lease of the job: an attempt that lost   *)
(* its job goes on writing.  "overlapped" records that this may have been. *)
(*                                                                         *)
(* An item is identified by the attempt that created it, its case and its  *)
(* cache mode; rows of an item (results, judgment, review) are its fields. *)
(***************************************************************************)
EXTENDS EvaluationCorpus, Sequences

CONSTANTS
    Modes,        \* the cache modes of the run
    OutcomesOf,   \* OutcomesOf[c]: answer outcomes the pipeline may give
    Workers, NoWorker,
    Promoters,    \* concurrent requests to promote failures
    MaxAttempts   \* bound: acquisitions of the job

CacheModes == {"default", "disabled", "cold", "warm"}
ASSUME RunAssumption ==
    /\ Cases \subseteq Nat \ {0} /\ IsFiniteSet(Cases)   \* evaluation_case_id
    /\ Modes \subseteq CacheModes /\ Modes # {}
    /\ NoWorker \notin Workers

VARIABLES
    text,        \* text[c]: the content of the case, a number per edit
    listed,      \* cases not archived
    creating,    \* documents of the corpus a create request found ready
    run,         \* evaluation_runs: status, logical_document_ids, case_count of the summary
    job,         \* status of the latest job of the run
    holder,      \* the worker that holds its lease
    attempts,
    items,       \* evaluation_run_items
    cache,       \* keys of the retrieval cache that have an entry
    proc,        \* what each worker does
    promo,       \* what each promotion request does
    promoted,    \* cases created from failures
    overlapped

runVars == <<text, listed, creating, run, job, holder, attempts, items, cache, proc, promo,
             promoted, overlapped>>
vars == <<corpusVars, runVars>>

Applicable == {"answered", "abstained"}
Unplanned == [pc |-> "idle", att |-> 0, cases |-> <<>>, at |-> 0, ok |-> 0]
NotPromoting == [pc |-> "idle", todo |-> {}, seen |-> <<>>, mine |-> {}]

TypeOK ==
    /\ CorpusTypeOK
    /\ text \in [Cases -> 0..MaxChanges] /\ listed \subseteq Cases
    /\ creating \subseteq Docs
    /\ run.status \in {"none", "queued", "running", "succeeded", "failed"} /\ run.docs \subseteq Docs /\ run.count \in Nat
    /\ job \in {"none", "queued", "running", "succeeded", "failed"}
    /\ holder \in Workers \cup {NoWorker} /\ attempts \in 0..MaxAttempts
    /\ \A i \in items : /\ i.att \in 1..MaxAttempts /\ i.case \in Cases /\ i.mode \in Modes
                        /\ i.status \in {"running", "succeeded", "failed"}
                        /\ i.judged \in BOOLEAN /\ i.review \in {"none", "pass", "fail"}
    /\ \A w \in Workers :
         proc[w].pc \in {"idle", "start", "load", "create", "case", "fail", "finish",
                         "succeeded", "failed"}
    /\ \A q \in Promoters : promo[q].pc \in {"idle", "sources", "insert", "commit", "done"}

RunInit ==
    /\ text = [c \in Cases |-> 0] /\ listed = Cases
    /\ creating = {} /\ run = [status |-> "none", docs |-> {}, count |-> 0]
    /\ job = "none" /\ holder = NoWorker /\ attempts = 0
    /\ items = {} /\ cache = {}
    /\ proc = [w \in Workers |-> Unplanned]
    /\ promo = [q \in Promoters |-> NotPromoting]
    /\ promoted = {} /\ overlapped = FALSE

\* Bound: a behaviour either prepares the corpus and admits the run, or starts
\* from a corpus prepared before and executes it.
Init == (CorpusInit \/ PreparedInit) /\ RunInit
Executes == prepares = 0
Prepares == attempts = 0

-----------------------------------------------------------------------------
(* Cases and admission. *)

EditCase(c) ==
    /\ Change
    /\ \/ text' = [text EXCEPT ![c] = @ + 1] /\ UNCHANGED listed
       \/ c \in listed /\ listed' = listed \ {c} /\ UNCHANGED text
    /\ UNCHANGED <<docVars, sourceVars, prep, prepares, faults, creating, run, job, holder,
                   attempts, items, cache, proc, promo, promoted, overlapped>>

\* create_run up to the commit of get_corpus_readiness.
CheckCorpus ==
    /\ run.status = "none"
    /\ listed # {}
    /\ \E ready \in Outcomes :
         /\ Readiness(ready)
         /\ creating' = IF ready THEN {source[s].doc : s \in Sources} ELSE {}
    /\ UNCHANGED <<docVars, prep, prepares, changes, faults, text, listed, run, job, holder,
                   attempts, items, cache, proc, promo, promoted, overlapped>>

\* The rest of it inserts the run and its job, whatever happened in between.
CreateRun ==
    /\ run.status = "none" /\ creating # {}
    /\ run' = [run EXCEPT !.status = "queued", !.docs = creating]
    /\ job' = "queued"
    /\ creating' = {}
    /\ UNCHANGED <<corpusVars, text, listed, holder, attempts, items, cache, proc, promo,
                   promoted, overlapped>>

-----------------------------------------------------------------------------
(* The job of the run, as JobQueue shows it. *)

Acquire(w) ==
    /\ Executes /\ proc[w].pc = "idle" /\ attempts < MaxAttempts
    /\ \/ job = "queued" /\ UNCHANGED faults
       \/ job = "running" /\ holder = NoWorker /\ UNCHANGED faults
       \/ job = "running" /\ holder # NoWorker /\ Fault
    /\ job' = "running" /\ holder' = w
    /\ attempts' = attempts + 1
    /\ proc' = [proc EXCEPT ![w] = [Unplanned EXCEPT !.pc = "start", !.att = attempts + 1]]
    /\ overlapped' = (overlapped \/ \E u \in Workers : proc[u].pc # "idle")
    /\ UNCHANGED <<docVars, sourceVars, prep, prepares, changes, text, listed, creating, run,
                   items, cache, promo, promoted>>

Report(w) ==
    /\ proc[w].pc \in {"succeeded", "failed"}
    /\ IF holder = w THEN job' = proc[w].pc /\ holder' = NoWorker
       ELSE UNCHANGED <<job, holder>>
    /\ proc' = [proc EXCEPT ![w] = Unplanned]
    /\ UNCHANGED <<corpusVars, text, listed, creating, run, attempts, items, cache, promo,
                   promoted, overlapped>>

Crash(w) ==
    /\ proc[w].pc # "idle"
    /\ Fault
    /\ proc' = [proc EXCEPT ![w] = Unplanned]
    /\ holder' = IF holder = w THEN NoWorker ELSE holder
    /\ UNCHANGED <<docVars, sourceVars, prep, prepares, changes, text, listed, creating, run,
                   job, attempts, items, cache, promo, promoted, overlapped>>

RetryJob ==
    /\ job = "failed" /\ attempts < MaxAttempts
    /\ job' = "queued"
    /\ UNCHANGED <<corpusVars, text, listed, creating, run, holder, attempts, items, cache, proc,
                   promo, promoted, overlapped>>

-----------------------------------------------------------------------------
(* run_job *)

At(w, pc) == proc' = [proc EXCEPT ![w].pc = pc]
RunStatus(status) == run' = [run EXCEPT !.status = status]
OutsideRun == <<docVars, sourceVars, prep, prepares, changes, text, listed, creating, job,
                holder, attempts, promo, promoted, overlapped>>

\* Mutant: the rows of the attempt before are kept.
RunStartKeeping(w) ==
    /\ IF run.status = "succeeded" THEN At(w, "succeeded") /\ UNCHANGED run
       ELSE RunStatus("running") /\ At(w, "load")
    /\ UNCHANGED <<items, cache, faults>>
\* Mutant: a finished run is repeated.
RunStartAgain(w) ==
    /\ RunStatus("running") /\ items' = {} /\ At(w, "load")
    /\ UNCHANGED <<cache, faults>>

\* A finished run is not repeated; any other one starts from nothing.
RunStart(w) ==
    /\ IF run.status = "succeeded" THEN At(w, "succeeded") /\ UNCHANGED <<run, items>>
       ELSE RunStatus("running") /\ items' = {} /\ At(w, "load")
    /\ UNCHANGED <<cache, faults>>

\* list_cases: those not archived, by their ids.
ById(s) == \A m, n \in DOMAIN s : m < n => s[m] < s[n]
Loaded(c) == [case |-> c, text |-> text[c], expected |-> expected[c]]
LoadCases(w) ==
    /\ IF listed = {} THEN RunStatus("failed") /\ At(w, "failed")
       ELSE /\ \E s \in [1..Cardinality(listed) -> listed] :
                 /\ ById(s)
                 /\ proc' = [proc EXCEPT ![w].pc = "create",
                                         ![w].cases = [n \in DOMAIN s |-> Loaded(s[n])]]
            /\ UNCHANGED run
    /\ UNCHANGED <<items, cache, faults>>

\* _selected_cache_modes: sorted, so that a cold call precedes the warm one.
Selected(mode) == IF mode \in Modes THEN <<mode>> ELSE <<>>
TargetModes ==
    Selected("default") \o Selected("disabled") \o Selected("cold") \o Selected("warm")

CaseOf(w) == proc[w].cases[1 + (proc[w].at \div Len(TargetModes))]
ModeOf(w) == TargetModes[1 + (proc[w].at % Len(TargetModes))]
ItemOf(w) == {i \in items : i.att = proc[w].att /\ i.case = CaseOf(w).case /\ i.mode = ModeOf(w)}

CreateItem(w) ==
    /\ items' = items \cup {[att |-> proc[w].att, case |-> CaseOf(w).case, mode |-> ModeOf(w),
                             status |-> "running", outcome |-> "none", judged |-> FALSE,
                             review |-> "none", hit |-> FALSE, of |-> CaseOf(w)]}
    /\ At(w, "case")
    /\ UNCHANGED <<run, cache, faults>>

\* Mutant: attempts share their namespaces.
NamespaceOfRun(w) == <<1, CaseOf(w).case>>

\* Cold and warm share a namespace of the attempt and the case, and default
\* calls one of the corpus; the key of an entry also holds the active documents
\* it was computed from.
Namespace(w) ==
    IF ModeOf(w) \in {"cold", "warm"} THEN <<proc[w].att, CaseOf(w).case>> ELSE <<0, 0>>
CacheKey(w) == <<Namespace(w), active>>
Cached(w) == IF ModeOf(w) = "disabled" THEN {} ELSE {CacheKey(w)}

StepOn(w, ok) ==
    proc' = [proc EXCEPT ![w].at = @ + 1, ![w].ok = @ + ok,
                 ![w].pc = IF proc[w].at + 1 = Len(proc[w].cases) * Len(TargetModes)
                           THEN "finish" ELSE "create"]

\* finish_item for the row of this step, if another attempt has not deleted it.
FinishItem(w, status, outcome, judged, hit) ==
    items' = (items \ ItemOf(w)) \cup
             {[i EXCEPT !.status = status, !.outcome = outcome, !.judged = judged, !.hit = hit]
                : i \in ItemOf(w)}

\* The claim judge is asked about answers and abstentions and may fail.
Judgments(outcome) == IF outcome \in Applicable THEN BOOLEAN ELSE {FALSE}

\* _store_case_failure
StoreCaseFailure(w) ==
    /\ FinishItem(w, "failed", "retrieval_error", FALSE, FALSE)
    /\ StepOn(w, 0)

RunCase(w) ==
    \/ \E outcome \in OutcomesOf[CaseOf(w).case] :
         \E judged \in Judgments(outcome) :
           LET status == IF outcome \in Applicable THEN "succeeded" ELSE "failed"
               hit    == Cached(w) \cap cache # {}
               stored == IF outcome = "retrieval_error" THEN {} ELSE Cached(w)
           IN
           /\ cache' = cache \cup stored
           /\ IF ItemOf(w) = {} THEN At(w, "fail") /\ UNCHANGED items
              ELSE /\ FinishItem(w, status, outcome, judged, hit)
                   /\ StepOn(w, IF status = "succeeded" THEN 1 ELSE 0)
           /\ UNCHANGED <<run, faults>>
    \/ \* an exception in the pipeline
       Fault /\ StoreCaseFailure(w) /\ UNCHANGED <<run, cache>>
    \/ \* an exception while the result is stored
       Fault /\ At(w, "fail") /\ UNCHANGED <<run, items, cache>>

\* The outer handler of run_job.
FailRun(w) ==
    /\ RunStatus("failed")
    /\ At(w, "failed")
    /\ UNCHANGED <<items, cache, faults>>

FinishRun(w) ==
    /\ LET status == IF proc[w].ok = 0 THEN "failed" ELSE "succeeded" IN
         /\ run' = [run EXCEPT !.status = status,
                               !.count = Len(proc[w].cases) * Len(TargetModes)]
         /\ At(w, status)
    /\ UNCHANGED <<items, cache, faults>>

\* A failing transaction outside the loop ends the attempt and leaves the run.
Escape(w) ==
    /\ proc[w].pc \in {"start", "load", "fail", "finish"}
    /\ Fault
    /\ At(w, "failed")
    /\ UNCHANGED <<run, items, cache>>

RunJob(w) ==
    /\ \/ proc[w].pc = "start" /\ RunStart(w)
       \/ proc[w].pc = "load" /\ LoadCases(w)
       \/ proc[w].pc = "create" /\ CreateItem(w)
       \/ proc[w].pc = "case" /\ RunCase(w)
       \/ proc[w].pc = "fail" /\ FailRun(w)
       \/ proc[w].pc = "finish" /\ FinishRun(w)
       \/ Escape(w)
    /\ UNCHANGED OutsideRun

-----------------------------------------------------------------------------
(* Reviews and quality. *)

\* upsert_human_calibration: needs a successful judgment, not a finished run.
Review(i) ==
    /\ i.judged
    /\ Change
    /\ \E verdict \in {"pass", "fail"} :
         items' = (items \ {i}) \cup {[i EXCEPT !.review = verdict]}
    /\ UNCHANGED <<docVars, sourceVars, prep, prepares, faults, text, listed, creating, run, job, holder, attempts, cache, proc,
                   promo, promoted, overlapped>>

\* Mutant: missing reviews do not matter.
QualityUnreviewed ==
    LET applicable == Cardinality({i \in items : i.outcome \in Applicable})
        reviews    == {i \in items : i.review # "none"}
    IN  IF run.status \in {"none", "queued", "running"} THEN "pending"
        ELSE IF applicable = 0 \/ Cardinality({i \in items : i.judged}) < applicable
             THEN "partial"
        ELSE IF \A i \in reviews : i.review = "pass" THEN "passed" ELSE "failed"

\* _evaluation_quality_status counts judgments and reviews of the whole run.
QualityStatus ==
    LET applicable == Cardinality({i \in items : i.outcome \in Applicable})
        judged     == Cardinality({i \in items : i.judged})
        reviews    == {i \in items : i.review # "none"}
    IN  CASE run.status \in {"none", "queued", "running"} -> "pending"
          [] run.status \in {"succeeded", "failed"} /\ (applicable = 0 \/ judged < applicable) -> "partial"
          [] OTHER -> IF Cardinality(reviews) < applicable THEN "calibration_required"
                      ELSE IF \A i \in reviews : i.review = "pass" THEN "passed" ELSE "failed"

-----------------------------------------------------------------------------
(* promote_failures: one transaction that reads candidates, then their      *)
(* source cases, then inserts one case per candidate.  The unique index on   *)
(* dataset and case key makes an insert wait for an uncommitted equal key.   *)

Outside(q) == UNCHANGED <<corpusVars, text, listed, creating, run, job, holder, attempts, items,
                          cache, proc, overlapped>>

\* Bound: promotions start between attempts; a crash leaves what a run in
\* progress would show.
BetweenAttempts == \A w \in Workers : proc[w].pc = "idle"

\* The failure of highest severity of a failed item; requests ask for that
\* severity, which low metrics of a succeeded item do not have.
PrimaryFailure == [o \in {"retrieval_error", "generation_error", "citation_error", "no_context"} |->
    CASE o = "retrieval_error"  -> "retrieval_exception"
      [] o = "generation_error" -> "generation_exception"
      [] o = "citation_error"   -> "citation_build_failed"
      [] o = "no_context"       -> "no_context"]

PromotionKey(i) == <<i.case, i.mode, PrimaryFailure[i.outcome], i.of.text>>
ReadCandidates(q) ==
    /\ promo[q].pc = "idle" /\ run.status # "none" /\ BetweenAttempts
    /\ promo' = [promo EXCEPT ![q].pc = "sources",
           ![q].todo = {[key |-> PromotionKey(i), of |-> i.of, att |-> i.att]
                          : i \in {j \in items : j.status = "failed"}}]
    /\ UNCHANGED promoted /\ Outside(q)

ReadSources(q) ==
    /\ promo[q].pc = "sources"
    /\ promo' = [promo EXCEPT ![q].pc = "insert",
                     ![q].seen = [c \in {t.of.case : t \in promo[q].todo} |-> Loaded(c)]]
    /\ UNCHANGED promoted /\ Outside(q)

SourceCaseChanged(q, t) == promo[q].seen[t.of.case] # t.of

\* Of several failures with one key the oldest becomes the case.
FirstOfKey(todo, t) == \A u \in todo : u.key = t.key => t.att <= u.att
Promotable(q) == {t \in promo[q].todo : ~SourceCaseChanged(q, t)}
\* Mutant: neither lookup nor unique index.
TakenUnknown(t) == FALSE
Taken(t) == \E n \in promoted : n.key = t.key

Promote(q) ==
    /\ promo[q].pc = "insert"
    /\ LET new == {t \in Promotable(q) : ~Taken(t) /\ FirstOfKey(Promotable(q), t)} IN
         /\ \A o \in Promoters \ {q} : \A n \in promo[o].mine : \A t \in new : n.key # t.key
         /\ promo' = [promo EXCEPT ![q] = [NotPromoting EXCEPT !.pc = "commit",
                !.mine = {[key |-> t.key, copied |-> promo[q].seen[t.of.case],
                           of |-> t.of, by |-> q] : t \in new}]]
    /\ UNCHANGED promoted /\ Outside(q)

CommitPromotions(q) ==
    /\ promo[q].pc = "commit"
    /\ promoted' = promoted \cup promo[q].mine
    /\ promo' = [promo EXCEPT ![q] = [NotPromoting EXCEPT !.pc = "done"]]
    /\ Outside(q)

-----------------------------------------------------------------------------
WorkerStep(w) == Report(w) \/ RunJob(w)

Next ==
    \/ CorpusStep /\ (Prepares \/ UNCHANGED prepares) /\ UNCHANGED runVars
    \/ \E c \in Cases : EditCase(c)
    \/ CheckCorpus \/ CreateRun \/ RetryJob
    \/ \E w \in Workers : Acquire(w) \/ Crash(w) \/ WorkerStep(w)
    \/ \E i \in items : Review(i)
    \/ \E q \in Promoters : ReadCandidates(q) \/ ReadSources(q) \/ Promote(q) \/ CommitPromotions(q)

Spec == Init /\ [][Next]_vars

-----------------------------------------------------------------------------
\* A run that succeeded has one finished item for every case and mode that its
\* attempt loaded and counted, none of another attempt, and an answer among
\* them; and a job reported as succeeded leaves such a run.
CompleteResults ==
    ~overlapped =>
      /\ job = "succeeded" => run.status = "succeeded"
      /\ run.status = "succeeded" =>
           /\ Cardinality({<<i.case, i.mode>> : i \in items}) = run.count
           /\ Cardinality(items) = run.count
           /\ \A i \in items : i.status # "running"
           /\ \E i \in items : i.status = "succeeded"

\* Once a run has succeeded its items are kept: a retried or reclaimed job
\* starts no second execution (run_job returns early).
ResultsKept ==
    [][run.status = "succeeded" /\ ~overlapped =>
         {[i EXCEPT !.review = "none"] : i \in items'} = {[i EXCEPT !.review = "none"] : i \in items}]_vars

\* A cold measurement never reads what an earlier attempt or another case left
\* in the cache, so the baseline of a repeated run is as cold as the first.
ColdIsCold == \A i \in items : i.mode = "cold" => ~i.hit

\* A quality of "passed" rests on every answer and abstention of the run: each
\* was judged, and a person let it pass.
PassedMeansReviewed ==
    QualityStatus = "passed" =>
        \A i \in items : i.outcome \in Applicable => i.judged /\ i.review = "pass"

\* Two requests that promote the same failure create one case, and what is
\* promoted is the case as it was evaluated, whatever was edited since.
PromotedOnceAsEvaluated ==
    \A n \in promoted : n.copied = n.of /\ \A m \in promoted : m.key = n.key => m = n

\* The documents of a run had all been active, one for every source.
AdmittedWereActive ==
    run.status # "none" =>
        run.docs \subseteq everActive /\ Cardinality(run.docs) = Cardinality(Sources)
=============================================================================
