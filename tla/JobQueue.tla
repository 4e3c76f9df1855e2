------------------------------ MODULE JobQueue ------------------------------
(***************************************************************************)
(* The job table and the worker processes that drain it:                   *)
(*   backend/app/repositories/job_repository.py   the SQL on table jobs    *)
(*   backend/app/workers/worker_main.py           WorkerRunner, heartbeat  *)
(*   backend/app/workers/job_dispatcher.py        handler lookup           *)
(*   backend/app/services/job_service.py          retry of a failed job    *)
(*                                                                         *)
(* One action is one database transaction, except where the code can be    *)
(* interrupted between two statements whose order matters: acquire_jobs    *)
(* is a locking SELECT followed by the UPDATEs and the commit, and         *)
(* retry_job is check / count / insert.                                    *)
(*                                                                         *)
(* Time is abstracted to the state of a lease: "live" until some worker's  *)
(* clock says lease_expires_at < now, "expired" afterwards.  A lease may   *)
(* expire at any moment: clocks are not synchronised, processes pause.     *)
(*                                                                         *)
(* `attempt`, `doneBy` and the attempt number in a context are ghosts:     *)
(* they number the acquisitions of a job, which the code does not store.   *)
(***************************************************************************)
EXTENDS Naturals, Sequences, Functions

CONSTANTS
    MaxJobs,     \* bound: number of rows the job table may get
    Workers,     \* worker instance ids; a restarted process has a new one
    Clients,     \* concurrent requests to POST /jobs/{id}/retry
    JobTypes,    \* values of jobs.job_type
    Enabled,     \* Enabled[w]: the job types worker w asks for
    Handlers,    \* the job types the dispatcher has a handler for
    Priorities,  \* values of jobs.priority
    BatchSize,   \* WORKER_BATCH_SIZE
    MaxFaults,   \* bound: crashes, stops, stalls and heartbeat errors
    NoWorker     \* NULL in jobs.locked_by

Jobs == 1..MaxJobs

ASSUME QueueAssumption ==
    /\ MaxJobs \in Nat
    /\ BatchSize \in Nat \ {0}
    /\ MaxFaults \in Nat
    /\ Priorities \subseteq Nat
    /\ Enabled \in [Workers -> SUBSET JobTypes]
    /\ Handlers \subseteq JobTypes
    /\ NoWorker \notin Workers

VARIABLES
    \* The row of job j.
    status,      \* jobs.status, "absent" before the INSERT
    jobType,     \* jobs.job_type
    priority,    \* jobs.priority
    lockedBy,    \* jobs.locked_by
    lease,       \* jobs.lease_expires_at: "none" (NULL), "live" or "expired"
    startedAt,   \* jobs.started_at: the attempt that set it, 0 for NULL
    retryOf,     \* jobs.retry_of_job_id, 0 for NULL
    retryCount,  \* jobs.retry_count
    attempt,     \* ghost: how many times the job was acquired
    doneBy,      \* ghost: the attempt whose result is stored
    \* Worker w.
    wpc,         \* "new", "idle", "acquiring", "next", "run", "store", "dead"
    picked,      \* rows its open acquire transaction has locked, in order
    batch,       \* contexts still to process, the current one first
    beat,        \* heartbeat of the current context: "off", "on", "lost"
    stray,       \* jobs whose heartbeat thread outlived the join timeout
    outcome,     \* result to store for the current context
    faults,      \* faults so far
    \* Retry request c.
    cpc,         \* "idle", "checked", "counted"
    cjob,        \* the failed job whose row it holds FOR UPDATE
    ccount       \* the retry_count it computed

rowVars    == <<status, jobType, priority, lockedBy, lease, startedAt,
                retryOf, retryCount, attempt, doneBy>>
workerVars == <<wpc, picked, batch, beat, stray, outcome>>
clientVars == <<cpc, cjob, ccount>>
vars       == <<rowVars, workerVars, clientVars, faults>>

Active   == {"queued", "running"}
Terminal == {"succeeded", "failed", "canceled"}
Statuses == {"absent"} \cup Active \cup Terminal
Contexts == [job : Jobs, attempt : Nat]

TypeOK ==
    /\ status \in [Jobs -> Statuses]
    /\ jobType \in [Jobs -> JobTypes \cup {"none"}]
    /\ priority \in [Jobs -> Nat]
    /\ lockedBy \in [Jobs -> Workers \cup {NoWorker}]
    /\ lease \in [Jobs -> {"none", "live", "expired"}]
    /\ startedAt \in [Jobs -> Nat]
    /\ retryOf \in [Jobs -> Jobs \cup {0}]
    /\ retryCount \in [Jobs -> Nat]
    /\ attempt \in [Jobs -> Nat]
    /\ doneBy \in [Jobs -> Nat]
    /\ wpc \in [Workers -> {"new", "idle", "acquiring", "next", "run", "store", "dead"}]
    /\ picked \in [Workers -> Seq(Jobs)]
    /\ batch \in [Workers -> Seq(Contexts)]
    /\ beat \in [Workers -> {"off", "on", "lost"}]
    /\ stray \in [Workers -> SUBSET Jobs]
    /\ outcome \in [Workers -> {"none", "succeeded", "failed"}]
    /\ cpc \in [Clients -> {"idle", "checked", "counted"}]
    /\ cjob \in [Clients -> Jobs \cup {0}]
    /\ ccount \in [Clients -> Nat]
    /\ faults \in Nat

Init ==
    /\ status = [j \in Jobs |-> "absent"]
    /\ jobType = [j \in Jobs |-> "none"]
    /\ priority = [j \in Jobs |-> 0]
    /\ lockedBy = [j \in Jobs |-> NoWorker]
    /\ lease = [j \in Jobs |-> "none"]
    /\ startedAt = [j \in Jobs |-> 0]
    /\ retryOf = [j \in Jobs |-> 0]
    /\ retryCount = [j \in Jobs |-> 0]
    /\ attempt = [j \in Jobs |-> 0]
    /\ doneBy = [j \in Jobs |-> 0]
    /\ wpc = [w \in Workers |-> "new"]
    /\ picked = [w \in Workers |-> <<>>]
    /\ batch = [w \in Workers |-> <<>>]
    /\ beat = [w \in Workers |-> "off"]
    /\ stray = [w \in Workers |-> {}]
    /\ outcome = [w \in Workers |-> "none"]
    /\ cpc = [c \in Clients |-> "idle"]
    /\ cjob = [c \in Clients |-> 0]
    /\ ccount = [c \in Clients |-> 0]
    /\ faults = 0

-----------------------------------------------------------------------------
(* Rows. *)

\* The next value of the job_id sequence.
IsNextId(j) == status[j] = "absent" /\ \A i \in 1..(j - 1) : status[i] # "absent"

\* Mutant: acquire_jobs selects without FOR UPDATE.
RowLockedNever(j) == FALSE

\* Row locks of the acquire transactions that have not committed yet.  Any
\* other UPDATE of such a row waits; SKIP LOCKED passes over it.
RowLocked(j) == \E w \in Workers : wpc[w] = "acquiring" /\ j \in Range(picked[w])

\* Mutant: the ownership check forgets locked_by.
OwnsIfRunning(w, j) == status[j] = "running"

\* WHERE job_id = j AND status = 'running' AND locked_by = w
Owns(w, j) == status[j] = "running" /\ lockedBy[j] = w

\* An INSERT of a queued row that is not a retry.
CreateJob(j, t, p) ==
    /\ IsNextId(j)
    /\ status' = [status EXCEPT ![j] = "queued"]
    /\ jobType' = [jobType EXCEPT ![j] = t]
    /\ priority' = [priority EXCEPT ![j] = p]
    /\ UNCHANGED <<lockedBy, lease, startedAt, retryOf, retryCount, attempt,
                   doneBy, workerVars, clientVars, faults>>

\* Mutant: the lease of a canceled job is not cleared.
MarkCanceledKeepsLease(j) ==
    /\ status[j] \in Active
    /\ ~RowLocked(j)
    /\ status' = [status EXCEPT ![j] = "canceled"]
    /\ UNCHANGED <<jobType, priority, lockedBy, lease, startedAt, retryOf, retryCount,
                   attempt, doneBy, workerVars, clientVars, faults>>

MarkCanceled(j) ==
    /\ status[j] \in Active
    /\ ~RowLocked(j)
    /\ status' = [status EXCEPT ![j] = "canceled"]
    /\ lease' = [lease EXCEPT ![j] = "none"]
    /\ UNCHANGED <<jobType, priority, lockedBy, startedAt, retryOf, retryCount,
                   attempt, doneBy, workerVars, clientVars, faults>>

-----------------------------------------------------------------------------
(* Leases and acquisition. *)

\* Worker w is executing or storing job j, and its heartbeat is alive.
Attended(j) ==
    \E w \in Workers : /\ Owns(w, j)
                       /\ wpc[w] \in {"next", "run", "store"}
                       /\ Head(batch[w]).job = j
                       /\ beat[w] # "lost"

\* Time passes lease_expires_at.  The lease of a job whose heartbeat runs
\* expires only when something stalls: that is a fault.
LeaseExpires(j) ==
    /\ status[j] = "running"
    /\ lease[j] = "live"
    /\ IF Attended(j) THEN faults < MaxFaults /\ faults' = faults + 1
                      ELSE UNCHANGED faults
    /\ lease' = [lease EXCEPT ![j] = "expired"]
    /\ UNCHANGED <<status, jobType, priority, lockedBy, startedAt, retryOf,
                   retryCount, attempt, doneBy, workerVars, clientVars>>

\* Mutant: expired running jobs are not reclaimed.
AcquirableQueuedOnly(j) == status[j] = "queued"

Acquirable(j) ==
    \/ status[j] = "queued"
    \/ status[j] = "running" /\ lease[j] = "expired"

\* ORDER BY queued first, priority, created_at, job_id
Before(i, j) ==
    LET rank(k) == IF status[k] = "queued" THEN 0 ELSE 1
    IN  \/ rank(i) < rank(j)
        \/ rank(i) = rank(j) /\ priority[i] < priority[j]
        \/ rank(i) = rank(j) /\ priority[i] = priority[j] /\ i < j

\* The rows SELECT ... FOR UPDATE SKIP LOCKED considers for worker w.
Candidates(w) == {j \in Jobs : /\ Acquirable(j)
                               /\ jobType[j] \in Enabled[w]
                               /\ ~RowLocked(j)}

\* s is the result of that SELECT: the first BatchSize candidates in order.
IsSelection(w, s) ==
    /\ Range(s) \subseteq Candidates(w)
    /\ \A i, k \in DOMAIN s : i < k => Before(s[i], s[k])
    /\ \A j \in Candidates(w) \ Range(s) :
          Len(s) = BatchSize /\ \A i \in DOMAIN s : Before(s[i], j)

Selections == UNION {[1..n -> Jobs] : n \in 1..BatchSize}

\* run_once begins: the locking SELECT finds at least one row.
AcquireSelect(w) ==
    /\ wpc[w] = "idle"
    /\ \E s \in Selections :
          /\ IsSelection(w, s)
          /\ picked' = [picked EXCEPT ![w] = s]
    /\ wpc' = [wpc EXCEPT ![w] = "acquiring"]
    /\ UNCHANGED <<rowVars, batch, beat, stray, outcome, clientVars, faults>>

\* The UPDATEs of the selected rows, the contexts and the commit.
AcquireCommit(w) ==
    LET S == Range(picked[w])
    IN  /\ wpc[w] = "acquiring"
        /\ status' = [j \in Jobs |-> IF j \in S THEN "running" ELSE status[j]]
        /\ lockedBy' = [j \in Jobs |-> IF j \in S THEN w ELSE lockedBy[j]]
        /\ lease' = [j \in Jobs |-> IF j \in S THEN "live" ELSE lease[j]]
        /\ attempt' = [j \in Jobs |-> IF j \in S THEN attempt[j] + 1 ELSE attempt[j]]
        /\ startedAt' = [j \in Jobs |-> IF j \in S /\ startedAt[j] = 0
                                        THEN attempt[j] + 1 ELSE startedAt[j]]
        /\ batch' = [batch EXCEPT ![w] =
                        [i \in 1..Len(picked[w]) |->
                            [job |-> picked[w][i], attempt |-> attempt[picked[w][i]] + 1]]]
        /\ picked' = [picked EXCEPT ![w] = <<>>]
        /\ wpc' = [wpc EXCEPT ![w] = "next"]
        /\ UNCHANGED <<jobType, priority, retryOf, retryCount, doneBy,
                       beat, stray, outcome, clientVars, faults>>

-----------------------------------------------------------------------------
(* Execution of the current context. *)

Current(w) == Head(batch[w]).job

\* The context at the head is done with: on to the next, or back to polling.
Advance(w) ==
    /\ batch' = [batch EXCEPT ![w] = Tail(@)]
    /\ wpc' = [wpc EXCEPT ![w] = IF Len(batch[w]) = 1 THEN "idle" ELSE "next"]

\* _run_context enters the heartbeat and calls the dispatcher.
StartContext(w) ==
    /\ wpc[w] = "next"
    /\ wpc' = [wpc EXCEPT ![w] = "run"]
    /\ beat' = [beat EXCEPT ![w] = "on"]
    /\ UNCHANGED <<rowVars, picked, batch, stray, outcome, clientVars, faults>>

\* A renewal does not look at the clock: an expired lease becomes live again
\* as long as nobody else has taken the job.
RenewLease(j) == lease' = [lease EXCEPT ![j] = "live"]

HeartbeatTick(w) ==
    /\ wpc[w] = "run"
    /\ beat[w] = "on"
    /\ ~RowLocked(Current(w))
    /\ \/ Owns(w, Current(w)) /\ RenewLease(Current(w)) /\ UNCHANGED beat
       \/ /\ ~Owns(w, Current(w))
          /\ beat' = [beat EXCEPT ![w] = "lost"]
          /\ UNCHANGED lease
    /\ UNCHANGED <<status, jobType, priority, lockedBy, startedAt, retryOf, retryCount,
                   attempt, doneBy, wpc, picked, batch, stray, outcome, clientVars, faults>>

\* Any other exception of the renewal also ends the heartbeat.
HeartbeatError(w) ==
    /\ wpc[w] = "run"
    /\ beat[w] = "on"
    /\ faults < MaxFaults
    /\ faults' = faults + 1
    /\ beat' = [beat EXCEPT ![w] = "lost"]
    /\ UNCHANGED <<rowVars, wpc, picked, batch, stray, outcome, clientVars>>

\* The heartbeat thread survives the join timeout and is inside its last
\* renewal, or it has ended.
LeaveHeartbeat(w) ==
    /\ beat' = [beat EXCEPT ![w] = "off"]
    /\ \/ UNCHANGED stray
       \/ /\ beat[w] = "on"
          /\ stray' = [stray EXCEPT ![w] = @ \cup {Current(w)}]

StrayRenewal(w, j) ==
    /\ j \in stray[w]
    /\ ~RowLocked(j)
    /\ stray' = [stray EXCEPT ![w] = @ \ {j}]
    /\ IF Owns(w, j) THEN RenewLease(j) ELSE UNCHANGED lease
    /\ UNCHANGED <<status, jobType, priority, lockedBy, startedAt, retryOf, retryCount,
                   attempt, doneBy, wpc, picked, batch, beat, outcome, clientVars, faults>>

\* The dispatcher returns result r: what the handler says, "failed" for an
\* exception or for a job type without a handler.  The result is dropped when
\* the heartbeat has lost the lease.
HandlerReturns(w, r) ==
    /\ wpc[w] = "run"
    /\ jobType[Current(w)] \in Handlers \/ r = "failed"
    /\ LeaveHeartbeat(w)
    /\ \/ beat[w] = "lost" /\ Advance(w) /\ UNCHANGED outcome
       \/ /\ beat[w] = "on"
          /\ outcome' = [outcome EXCEPT ![w] = r]
          /\ wpc' = [wpc EXCEPT ![w] = "store"]
          /\ UNCHANGED batch
    /\ UNCHANGED <<rowVars, picked, clientVars, faults>>

\* The handler's own assert_ownership found that the lease is lost.
HandlerLeaseLost(w) ==
    /\ wpc[w] = "run"
    /\ jobType[Current(w)] \in Handlers
    /\ ~Owns(w, Current(w))
    /\ LeaveHeartbeat(w)
    /\ Advance(w)
    /\ UNCHANGED <<rowVars, picked, outcome, clientVars, faults>>

\* renew_lease and mark_succeeded / mark_failed in one transaction.
StoreTerminalResult(w) ==
    LET j == Current(w)
    IN  /\ wpc[w] = "store"
        /\ ~RowLocked(j)
        /\ Owns(w, j)
        /\ status' = [status EXCEPT ![j] = outcome[w]]
        /\ lease' = [lease EXCEPT ![j] = "none"]
        /\ doneBy' = [doneBy EXCEPT ![j] = Head(batch[w]).attempt]
        /\ outcome' = [outcome EXCEPT ![w] = "none"]
        /\ Advance(w)
        /\ UNCHANGED <<jobType, priority, lockedBy, startedAt, retryOf, retryCount,
                       attempt, picked, beat, stray, clientVars, faults>>

\* The same transaction raises LeaseLostError and is rolled back.
SkipTerminalResult(w) ==
    /\ wpc[w] = "store"
    /\ ~RowLocked(Current(w))
    /\ ~Owns(w, Current(w))
    /\ outcome' = [outcome EXCEPT ![w] = "none"]
    /\ Advance(w)
    /\ UNCHANGED <<rowVars, picked, beat, stray, clientVars, faults>>

-----------------------------------------------------------------------------
(* Worker processes. *)

StartWorker(w) ==
    /\ wpc[w] = "new"
    /\ wpc' = [wpc EXCEPT ![w] = "idle"]
    /\ UNCHANGED <<rowVars, picked, batch, beat, stray, outcome, clientVars, faults>>

\* SIGTERM between two iterations of run_loop, a crash anywhere, or an
\* exception of acquire_jobs or of the terminal update, which run_loop lets
\* escape: the process ends, an open transaction rolls back and releases its
\* row locks, the rows it has taken stay as they are.
EndWorker(w) ==
    /\ wpc[w] \notin {"new", "dead"}
    /\ faults < MaxFaults
    /\ faults' = faults + 1
    /\ wpc' = [wpc EXCEPT ![w] = "dead"]
    /\ picked' = [picked EXCEPT ![w] = <<>>]
    /\ batch' = [batch EXCEPT ![w] = <<>>]
    /\ beat' = [beat EXCEPT ![w] = "off"]
    /\ stray' = [stray EXCEPT ![w] = {}]
    /\ outcome' = [outcome EXCEPT ![w] = "none"]
    /\ UNCHANGED <<rowVars, clientVars>>

-----------------------------------------------------------------------------
(* Retry of a failed job. *)

\* Mutant: a retry of a retry points at the retry.
OriginalSourceSelf(j) == j

OriginalSource(j) == IF retryOf[j] = 0 THEN j ELSE retryOf[j]

\* Mutant: the index and the query forget status 'running'.
ActiveRetriesQueuedOnly(r) == {j \in Jobs : retryOf[j] = r /\ status[j] = "queued"}

ActiveRetries(r) == {j \in Jobs : retryOf[j] = r /\ status[j] \in Active}

\* SELECT ... FOR UPDATE of the failed row, then find_active_retry.
RetryCheck(c, j) ==
    /\ cpc[c] = "idle"
    /\ \A d \in Clients : cjob[d] # j
    /\ status[j] = "failed"
    /\ ActiveRetries(OriginalSource(j)) = {}
    /\ cpc' = [cpc EXCEPT ![c] = "checked"]
    /\ cjob' = [cjob EXCEPT ![c] = j]
    /\ UNCHANGED <<rowVars, workerVars, ccount, faults>>

\* next_retry_count: max(retry_count) of the lineage, plus one.
IsNextRetryCount(r, n) ==
    LET counts == {retryCount[j] : j \in {i \in Jobs : retryOf[i] = r}} \cup {0}
    IN  (n - 1) \in counts /\ \A m \in counts : m < n

RetryCountRead(c) ==
    /\ cpc[c] = "checked"
    /\ \E n \in 1..(MaxJobs + 1) :
          /\ IsNextRetryCount(OriginalSource(cjob[c]), n)
          /\ ccount' = [ccount EXCEPT ![c] = n]
    /\ cpc' = [cpc EXCEPT ![c] = "counted"]
    /\ UNCHANGED <<rowVars, workerVars, cjob, faults>>

EndRetry(c) ==
    /\ cpc' = [cpc EXCEPT ![c] = "idle"]
    /\ cjob' = [cjob EXCEPT ![c] = 0]
    /\ ccount' = [ccount EXCEPT ![c] = 0]

\* The unique index ux_jobs_active_retry_per_source admits the new row.
RetryInsert(c, j) ==
    LET r == OriginalSource(cjob[c])
    IN  /\ cpc[c] = "counted"
        /\ IsNextId(j)
        /\ ActiveRetries(r) = {}
        /\ status' = [status EXCEPT ![j] = "queued"]
        /\ jobType' = [jobType EXCEPT ![j] = jobType[cjob[c]]]
        /\ priority' = [priority EXCEPT ![j] = priority[cjob[c]]]
        /\ retryOf' = [retryOf EXCEPT ![j] = r]
        /\ retryCount' = [retryCount EXCEPT ![j] = ccount[c]]
        /\ EndRetry(c)
        /\ UNCHANGED <<lockedBy, lease, startedAt, attempt, doneBy, workerVars, faults>>

\* IntegrityError on the unique index: 409 JobActiveRetryExists.
RetryRefused(c) ==
    /\ cpc[c] = "counted"
    /\ ActiveRetries(OriginalSource(cjob[c])) # {}
    /\ EndRetry(c)
    /\ UNCHANGED <<rowVars, workerVars, faults>>

-----------------------------------------------------------------------------
WorkerStep(w) ==
    \/ StartWorker(w)
    \/ AcquireSelect(w)
    \/ AcquireCommit(w)
    \/ StartContext(w)
    \/ \E r \in {"succeeded", "failed"} : HandlerReturns(w, r)
    \/ HandlerLeaseLost(w)
    \/ StoreTerminalResult(w)
    \/ SkipTerminalResult(w)

Next ==
    \/ \E j \in Jobs, t \in JobTypes, p \in Priorities : CreateJob(j, t, p)
    \/ \E j \in Jobs : MarkCanceled(j)
    \/ \E j \in Jobs : LeaseExpires(j)
    \/ \E w \in Workers : WorkerStep(w)
    \/ \E w \in Workers : HeartbeatTick(w)
    \/ \E w \in Workers : HeartbeatError(w)
    \/ \E w \in Workers, j \in Jobs : StrayRenewal(w, j)
    \/ \E w \in Workers : EndWorker(w)
    \/ \E c \in Clients, j \in Jobs : RetryCheck(c, j)
    \/ \E c \in Clients : RetryCountRead(c)
    \/ \E c \in Clients, j \in Jobs : RetryInsert(c, j)
    \/ \E c \in Clients : RetryRefused(c)

Spec == Init /\ [][Next]_vars

\* A started worker keeps polling and its handlers return; a lease nobody
\* renews runs out.  Nothing is assumed of heartbeats, faults or requests.
Fairness ==
    /\ \A w \in Workers : WF_vars(WorkerStep(w))
    /\ \A j \in Jobs : WF_vars(LeaseExpires(j) /\ ~Attended(j))

FairSpec == Spec /\ Fairness

-----------------------------------------------------------------------------
(* Properties. *)

\* A worker that holds an open acquire transaction has locked rows that stay
\* acquirable until it commits, and no two transactions lock the same row:
\* the blind UPDATEs of acquire_jobs never revive a finished job.
AcquiringRowsStable ==
    \A w \in Workers : wpc[w] = "acquiring" =>
        \A j \in Range(picked[w]) :
            /\ Acquirable(j)
            /\ \A v \in Workers \ {w} : wpc[v] = "acquiring" => j \notin Range(picked[v])

\* locked_by alone is a sufficient fencing token although it names a process
\* and not an acquisition: whenever a worker passes the ownership check for a
\* context it holds, that context comes from the latest acquisition of the job.
OwnershipMeansLatestAttempt ==
    \A w \in Workers : \A i \in DOMAIN batch[w] :
        Owns(w, batch[w][i].job) => batch[w][i].attempt = attempt[batch[w][i].job]

\* The stored result of a finished job is that of its latest attempt, however
\* many workers were still executing it (_store_terminal_result).
CompletedByLatestAttempt ==
    \A j \in Jobs : status[j] \in {"succeeded", "failed"} => doneBy[j] = attempt[j]

\* At most one job of a retry lineage is queued or running, although two retry
\* requests for two jobs of the lineage do not lock a common row (retry_job).
OneActiveRetry ==
    \A i, j \in Jobs :
        (/\ retryOf[i] # 0
         /\ retryOf[i] = retryOf[j]
         /\ status[i] \in Active
         /\ status[j] \in Active) => i = j

\* A retry points at the first job of its lineage, which is older, has failed
\* and is not a retry itself (original_source_job_id).
RetryLineage ==
    \A j \in Jobs : retryOf[j] # 0 =>
        /\ retryOf[j] < j
        /\ status[retryOf[j]] = "failed"
        /\ retryOf[retryOf[j]] = 0

\* The CHECK constraints of table jobs hold after every transaction, so none of
\* the statements above can fail on one (ck_jobs_queued_times,
\* ck_jobs_running_required_fields, ck_jobs_success_failed_started).
RowConstraints ==
    \A j \in Jobs :
        /\ status[j] \in {"absent", "queued"} => startedAt[j] = 0 /\ lockedBy[j] = NoWorker
        /\ status[j] = "running" =>
              lockedBy[j] # NoWorker /\ lease[j] # "none" /\ startedAt[j] # 0
        /\ status[j] \in {"succeeded", "failed"} => startedAt[j] # 0
        /\ status[j] \in Terminal => lease[j] = "none"

\* A finished job is never touched again: not by a worker that lost its lease,
\* a late heartbeat, a reclaim or a cancel.
FinishedIsFinal ==
    [][\A j \in Jobs : status[j] \in Terminal =>
          /\ status'[j] = status[j]
          /\ attempt'[j] = attempt[j]
          /\ lockedBy'[j] = lockedBy[j]
          /\ lease'[j] = lease[j]
          /\ doneBy'[j] = doneBy[j]]_vars

\* A worker keeps a job until the lease runs out: locked_by changes hands only
\* on an expired lease, whatever heartbeats are in flight (acquire_jobs).
TakenOnlyAfterExpiry ==
    [][\A j \in Jobs : (status[j] = "running" /\ lockedBy'[j] # lockedBy[j])
          => lease[j] = "expired"]_vars

Lifecycle == INSTANCE JobLifecycle WITH phase <- status, origin <- retryOf

\* The queue with its leases, crashes and races implements the lifecycle the
\* rest of the system relies on.
ImplementsLifecycle == Lifecycle!Spec

\* Every job of a type that all workers serve is finished in the end, after
\* any number of crashes and lost leases below MaxFaults.
EveryJobFinishes ==
    \A j \in Jobs :
        (status[j] \in Active /\ \A w \in Workers : jobType[j] \in Enabled[w])
            ~> status[j] \in Terminal
=============================================================================
