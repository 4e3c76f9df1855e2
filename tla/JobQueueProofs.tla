--------------------------- MODULE JobQueueProofs ---------------------------
(***************************************************************************)
(* Proofs about JobQueue, for any number of jobs, workers and retry        *)
(* requests, any batch size and any number of faults.                      *)
(***************************************************************************)
EXTENDS JobQueue, SequenceTheorems, TLAPS

-----------------------------------------------------------------------------
(* Type correctness. *)

\* A function on 1..n is a sequence of length n.
LEMMA FunctionIsSeq ==
    ASSUME NEW S, NEW n \in Nat, NEW f \in [1..n -> S]
    PROVE  f \in Seq(S) /\ Len(f) = n
  <1>1. f \in Seq(S)
    BY SeqDef
  <1> QED
    BY <1>1, LenProperties

\* Taking the first context off the batch leaves a batch of contexts.
LEMMA AdvanceType ==
    ASSUME TypeOK, NEW w \in Workers, batch[w] # <<>>, Advance(w)
    PROVE  /\ batch' \in [Workers -> Seq(Contexts)]
           /\ wpc' \in [Workers -> {"new", "idle", "acquiring", "next", "run", "store", "dead"}]
  <1>1. batch[w] \in Seq(Contexts) /\ batch[w] # <<>>
    BY DEF TypeOK
  <1>2. Tail(batch[w]) \in Seq(Contexts)
    BY <1>1
  <1> QED
    BY <1>2 DEF TypeOK, Advance

\* A worker has contexts exactly while it works through a batch, and locked
\* rows only inside an acquire transaction.
WorkerShape ==
    \A w \in Workers :
        /\ wpc[w] \in {"next", "run", "store"} <=> batch[w] # <<>>
        /\ wpc[w] = "acquiring" <=> picked[w] # <<>>
        /\ wpc[w] = "store" => outcome[w] \in {"succeeded", "failed"}

\* A retry request that is past its check holds the row of a job.
ClientHolds == \A c \in Clients : cpc[c] # "idle" => cjob[c] \in Jobs

TypeInv == TypeOK /\ WorkerShape /\ ClientHolds

\* The job a worker is executing is a row of the table.
LEMMA HeadType ==
    ASSUME TypeInv, NEW w \in Workers, wpc[w] \in {"next", "run", "store"}
    PROVE  /\ batch[w] # <<>>
           /\ Current(w) \in Jobs
           /\ Head(batch[w]).attempt \in Nat
           /\ Head(batch[w]) = batch[w][1]
           /\ 1 \in DOMAIN batch[w]
  <1>1. batch[w] \in Seq(Contexts) /\ batch[w] # <<>>
    BY DEF TypeInv, TypeOK, WorkerShape
  <1>2. Head(batch[w]) \in Contexts /\ Head(batch[w]) = batch[w][1] /\ 1 \in DOMAIN batch[w]
    BY <1>1
  <1> QED
    BY <1>1, <1>2 DEF Current, Contexts

\* Leaving the heartbeat (_LeaseHeartbeat.__exit__) keeps beat and stray in
\* their types.
LEMMA LeaveType ==
    ASSUME TypeInv, NEW w \in Workers, Current(w) \in Jobs, LeaveHeartbeat(w)
    PROVE  stray' \in [Workers -> SUBSET Jobs] /\ beat' \in [Workers -> {"off", "on", "lost"}]
  <1>1. beat' \in [Workers -> {"off", "on", "lost"}]
    BY DEF LeaveHeartbeat, TypeInv, TypeOK
  <1>2. (stray[w] \cup {Current(w)}) \in SUBSET Jobs
    BY DEF TypeInv, TypeOK
  <1>3. stray' \in [Workers -> SUBSET Jobs]
    <2>1. CASE UNCHANGED stray
      BY <2>1 DEF TypeInv, TypeOK
    <2>2. CASE stray' = [stray EXCEPT ![w] = stray[w] \cup {Current(w)}]
      BY <1>2, <2>2 DEF TypeInv, TypeOK
    <2> QED
      BY <2>1, <2>2 DEF LeaveHeartbeat
  <1> QED
    BY <1>1, <1>3

\* The empty table and the workers before their start are well typed.
LEMMA TypeInit == Init => TypeInv
  <1> SUFFICES ASSUME Init PROVE TypeInv
    OBVIOUS
  <1> USE QueueAssumption DEF Init
  <1>1. TypeOK
    BY DEF TypeOK, Statuses, Active, Terminal
  <1>2. WorkerShape
    BY DEF WorkerShape
  <1> QED
    BY <1>1, <1>2 DEF TypeInv, ClientHolds

\* Advance keeps the shape of the worker that advances.
LEMMA AdvanceShape ==
    ASSUME TypeInv, NEW w \in Workers, wpc[w] \in {"next", "run", "store"},
           Advance(w), picked' = picked,
           \A v \in Workers \ {w} : outcome'[v] = outcome[v]
    PROVE  WorkerShape'
  <1>1. batch[w] \in Seq(Contexts) /\ batch[w] # <<>>
    BY DEF TypeInv, TypeOK, WorkerShape
  <1>2. Len(batch[w]) = 1 <=> Tail(batch[w]) = <<>>
    <2>1. Len(batch[w]) \in Nat
      BY <1>1, LenProperties
    <2>2. Tail(batch[w]) \in Seq(Contexts) /\ Len(Tail(batch[w])) = Len(batch[w]) - 1
      BY <1>1, HeadTailProperties
    <2>3. Tail(batch[w]) = <<>> <=> Len(Tail(batch[w])) = 0
      BY <2>2, EmptySeq
    <2> QED
      BY <2>1, <2>2, <2>3
  <1>3. /\ batch'[w] = Tail(batch[w])
        /\ wpc'[w] = IF Len(batch[w]) = 1 THEN "idle" ELSE "next"
        /\ \A v \in Workers \ {w} : batch'[v] = batch[v] /\ wpc'[v] = wpc[v]
    BY DEF Advance, TypeInv, TypeOK
  <1>4. picked[w] = <<>>
    BY DEF TypeInv, WorkerShape
  <1> QED
    BY <1>2, <1>3, <1>4 DEF TypeInv, WorkerShape

\* Every action keeps the types, the shape of a worker that holds a batch and
\* the row a retry request holds.
LEMMA TypeStep == TypeInv /\ [Next]_vars => TypeInv'
  <1> SUFFICES ASSUME TypeInv, [Next]_vars PROVE TypeInv'
    OBVIOUS
  <1> USE QueueAssumption
  <1>c. UNCHANGED clientVars => ClientHolds'
    BY DEF TypeInv, ClientHolds, clientVars
  <1>1. ASSUME NEW j \in Jobs, NEW t \in JobTypes, NEW p \in Priorities, CreateJob(j, t, p)
        PROVE  TypeInv'
    BY <1>1 DEF TypeInv, TypeOK, WorkerShape, ClientHolds, CreateJob, workerVars, clientVars, Statuses, Active
  <1>2. ASSUME NEW j \in Jobs, MarkCanceled(j) PROVE TypeInv'
    BY <1>2 DEF TypeInv, TypeOK, WorkerShape, ClientHolds, MarkCanceled, workerVars, clientVars, Statuses, Terminal
  <1>3. ASSUME NEW j \in Jobs, LeaseExpires(j) PROVE TypeInv'
    <2>1. faults' \in Nat /\ lease' \in [Jobs -> {"none", "live", "expired"}]
      BY <1>3 DEF TypeInv, TypeOK, LeaseExpires
    <2>2. TypeOK'
      BY <1>3, <2>1 DEF TypeInv, TypeOK, LeaseExpires, workerVars, clientVars
    <2>3. WorkerShape'
      BY <1>3 DEF TypeInv, WorkerShape, LeaseExpires, workerVars
    <2> QED
      BY <1>3, <1>c, <2>2, <2>3 DEF TypeInv, LeaseExpires
  <1>4. ASSUME NEW w \in Workers, StartWorker(w) PROVE TypeInv'
    <2>1. TypeOK'
      BY <1>4 DEF TypeInv, TypeOK, StartWorker, rowVars, clientVars
    <2>2. WorkerShape'
      BY <1>4 DEF TypeInv, TypeOK, WorkerShape, StartWorker
    <2> QED
      BY <1>4, <1>c, <2>1, <2>2 DEF TypeInv, StartWorker
  <1>5. ASSUME NEW w \in Workers, AcquireSelect(w) PROVE TypeInv'
    <2>1. PICK s \in Selections : picked' = [picked EXCEPT ![w] = s]
      BY <1>5 DEF AcquireSelect
    <2>2. PICK n \in 1..BatchSize : s \in [1..n -> Jobs]
      BY <2>1 DEF Selections
    <2>3. s \in Seq(Jobs) /\ Len(s) = n /\ s # <<>>
      <3>1. s \in Seq(Jobs)
        BY <2>2
      <3>2. DOMAIN s = 1..n /\ DOMAIN s = 1..Len(s)
        BY <2>2, <3>1, LenProperties
      <3>3. Len(s) = n
        BY <3>1, <3>2, LenProperties
      <3> QED
        BY <3>1, <3>3, EmptySeq
    <2>4. TypeOK'
      BY <1>5, <2>1, <2>3 DEF TypeInv, TypeOK, AcquireSelect, rowVars, clientVars
    <2>5. WorkerShape'
      BY <1>5, <2>1, <2>3 DEF TypeInv, TypeOK, WorkerShape, AcquireSelect
    <2> QED
      BY <1>5, <1>c, <2>4, <2>5 DEF TypeInv, AcquireSelect
  <1>6. ASSUME NEW w \in Workers, AcquireCommit(w) PROVE TypeInv'
    <2> DEFINE new == [i \in 1..Len(picked[w]) |->
                          [job |-> picked[w][i], attempt |-> attempt[picked[w][i]] + 1]]
    <2>1. picked[w] \in Seq(Jobs) /\ picked[w] # <<>>
      BY <1>6 DEF AcquireCommit, TypeInv, TypeOK, WorkerShape
    <2>2. Len(picked[w]) \in Nat \ {0} /\ \A i \in 1..Len(picked[w]) : picked[w][i] \in Jobs
      BY <2>1, EmptySeq, LenProperties
    <2>3. new \in Seq(Contexts) /\ new # <<>>
      <3>0. \A j \in Jobs : attempt[j] + 1 \in Nat
        BY DEF TypeInv, TypeOK
      <3>1. \A i \in 1..Len(picked[w]) : new[i] \in Contexts
        BY <2>2, <3>0 DEF Contexts
      <3>2. new \in [1..Len(picked[w]) -> Contexts]
        BY <3>1
      <3>3. new \in Seq(Contexts) /\ Len(new) = Len(picked[w])
        <4> HIDE DEF new
        <4> QED
          BY <2>2, <3>2, FunctionIsSeq
      <3> QED
        BY <2>2, <3>3, EmptySeq
    <2>4. batch' = [batch EXCEPT ![w] = new]
      BY <1>6 DEF AcquireCommit
    <2>5. <<>> \in Seq(Jobs)
      BY EmptySeq
    <2> HIDE DEF new
    <2>6. TypeOK'
      <3>1. /\ status' \in [Jobs -> Statuses]
            /\ lockedBy' \in [Jobs -> Workers \cup {NoWorker}]
            /\ lease' \in [Jobs -> {"none", "live", "expired"}]
        BY <1>6 DEF AcquireCommit, TypeInv, TypeOK, Statuses, Active
      <3>2. startedAt' \in [Jobs -> Nat] /\ attempt' \in [Jobs -> Nat]
        BY <1>6 DEF AcquireCommit, TypeInv, TypeOK
      <3>3. batch' \in [Workers -> Seq(Contexts)]
        BY <2>3, <2>4 DEF TypeInv, TypeOK
      <3>4. picked' \in [Workers -> Seq(Jobs)]
        BY <1>6, <2>5 DEF AcquireCommit, TypeInv, TypeOK
      <3>5. wpc' \in [Workers -> {"new", "idle", "acquiring", "next", "run", "store", "dead"}]
        BY <1>6 DEF AcquireCommit, TypeInv, TypeOK
      <3> QED
        BY <1>6, <3>1, <3>2, <3>3, <3>4, <3>5 DEF AcquireCommit, TypeInv, TypeOK, clientVars
    <2>7. WorkerShape'
      <3>0. /\ wpc' = [wpc EXCEPT ![w] = "next"]
            /\ picked' = [picked EXCEPT ![w] = <<>>]
            /\ outcome' = outcome
        BY <1>6 DEF AcquireCommit
      <3>1. /\ wpc'[w] = "next" /\ batch'[w] # <<>> /\ picked'[w] = <<>>
            /\ \A v \in Workers \ {w} :
                  wpc'[v] = wpc[v] /\ batch'[v] = batch[v] /\ picked'[v] = picked[v]
            /\ outcome' = outcome
        BY <2>3, <2>4, <3>0 DEF TypeInv, TypeOK
      <3> QED
        BY <3>1 DEF TypeInv, WorkerShape
    <2> QED
      BY <1>6, <2>6, <2>7, <1>c DEF TypeInv, AcquireCommit
  <1>7. ASSUME NEW w \in Workers, StartContext(w) PROVE TypeInv'
    BY <1>7 DEF TypeInv, TypeOK, WorkerShape, ClientHolds, StartContext, rowVars, clientVars
  <1>8. ASSUME NEW w \in Workers, HeartbeatTick(w) PROVE TypeInv'
    <2>1. Current(w) \in Jobs
      BY <1>8, HeadType DEF HeartbeatTick
    <2> QED
      <3>1. lease' \in [Jobs -> {"none", "live", "expired"}]
        BY <1>8, <2>1 DEF TypeInv, TypeOK, HeartbeatTick, RenewLease
      <3>2. beat' \in [Workers -> {"off", "on", "lost"}]
        <4>1. CASE UNCHANGED beat
          BY <4>1 DEF TypeInv, TypeOK
        <4>2. CASE beat' = [beat EXCEPT ![w] = "lost"]
          BY <4>2 DEF TypeInv, TypeOK
        <4> QED
          BY <1>8, <4>1, <4>2 DEF HeartbeatTick
      <3> QED
        BY <1>8, <3>1, <3>2 DEF TypeInv, TypeOK, WorkerShape, ClientHolds, HeartbeatTick, clientVars
  <1>9. ASSUME NEW w \in Workers, HeartbeatError(w) PROVE TypeInv'
    BY <1>9 DEF TypeInv, TypeOK, WorkerShape, ClientHolds, HeartbeatError, rowVars, clientVars
  <1>10. ASSUME NEW w \in Workers, NEW j \in Jobs, StrayRenewal(w, j) PROVE TypeInv'
    BY <1>10 DEF TypeInv, TypeOK, WorkerShape, ClientHolds, StrayRenewal, RenewLease, clientVars
  <1>11. ASSUME NEW w \in Workers, NEW r \in {"succeeded", "failed"}, HandlerReturns(w, r)
         PROVE  TypeInv'
    <2>1. Current(w) \in Jobs /\ batch[w] # <<>>
      BY <1>11, HeadType DEF HandlerReturns
    <2>2. stray' \in [Workers -> SUBSET Jobs] /\ beat' \in [Workers -> {"off", "on", "lost"}]
      BY <1>11, <2>1, LeaveType DEF HandlerReturns
    <2>3. CASE beat[w] = "lost"
      <3>1. Advance(w) /\ UNCHANGED <<outcome, rowVars, picked, clientVars, faults>>
        BY <1>11, <2>3 DEF HandlerReturns
      <3>2. WorkerShape'
        BY <1>11, <3>1, AdvanceShape DEF HandlerReturns
      <3>3. TypeOK'
        BY <2>1, <2>2, <3>1, AdvanceType DEF TypeInv, TypeOK, rowVars, clientVars
      <3> QED
        BY <3>1, <3>2, <3>3, <1>c DEF TypeInv
    <2>4. CASE beat[w] = "on"
      <3>1. /\ outcome' = [outcome EXCEPT ![w] = r]
            /\ wpc' = [wpc EXCEPT ![w] = "store"]
            /\ UNCHANGED <<batch, rowVars, picked, clientVars, faults>>
        BY <1>11, <2>4 DEF HandlerReturns
      <3>2. TypeOK'
        BY <1>11, <2>1, <2>2, <3>1 DEF TypeInv, TypeOK, rowVars, clientVars
      <3>3. WorkerShape'
        BY <1>11, <3>1 DEF TypeInv, TypeOK, WorkerShape, HandlerReturns
      <3> QED
        BY <3>1, <3>2, <3>3, <1>c DEF TypeInv
    <2> QED
      BY <1>11, <2>3, <2>4 DEF HandlerReturns
  <1>12. ASSUME NEW w \in Workers, HandlerLeaseLost(w) PROVE TypeInv'
    <2>1. Current(w) \in Jobs /\ batch[w] # <<>>
      BY <1>12, HeadType DEF HandlerLeaseLost
    <2>2. stray' \in [Workers -> SUBSET Jobs] /\ beat' \in [Workers -> {"off", "on", "lost"}]
      BY <1>12, <2>1, LeaveType DEF HandlerLeaseLost
    <2>3. WorkerShape'
      BY <1>12, AdvanceShape DEF HandlerLeaseLost
    <2>4. TypeOK'
      BY <1>12, <2>1, <2>2, AdvanceType DEF HandlerLeaseLost, TypeInv, TypeOK, rowVars, clientVars
    <2> QED
      BY <1>12, <2>3, <2>4, <1>c DEF TypeInv, HandlerLeaseLost
  <1>13. ASSUME NEW w \in Workers, StoreTerminalResult(w) PROVE TypeInv'
    <2>1. /\ Current(w) \in Jobs
          /\ batch[w] # <<>>
          /\ Head(batch[w]).attempt \in Nat
          /\ outcome[w] \in {"succeeded", "failed"}
      BY <1>13, HeadType DEF StoreTerminalResult, TypeInv, WorkerShape
    <2>2. \A v \in Workers \ {w} : outcome'[v] = outcome[v]
      BY <1>13 DEF StoreTerminalResult, TypeInv, TypeOK
    <2>3. WorkerShape'
      BY <1>13, <2>2, AdvanceShape DEF StoreTerminalResult
    <2>4. batch' \in [Workers -> Seq(Contexts)]
          /\ wpc' \in [Workers -> {"new", "idle", "acquiring", "next", "run", "store", "dead"}]
      BY <1>13, <2>1, AdvanceType DEF StoreTerminalResult, TypeInv
    <2>5. TypeOK'
      BY <1>13, <2>1, <2>4 DEF StoreTerminalResult, TypeInv, TypeOK, clientVars, Statuses, Terminal
    <2> QED
      BY <1>13, <2>3, <2>5, <1>c DEF TypeInv, StoreTerminalResult
  <1>14. ASSUME NEW w \in Workers, SkipTerminalResult(w) PROVE TypeInv'
    <2>1. batch[w] # <<>>
      BY <1>14, HeadType DEF SkipTerminalResult
    <2>2. \A v \in Workers \ {w} : outcome'[v] = outcome[v]
      BY <1>14 DEF SkipTerminalResult, TypeInv, TypeOK
    <2>3. WorkerShape'
      BY <1>14, <2>2, AdvanceShape DEF SkipTerminalResult
    <2>4. TypeOK'
      BY <1>14, <2>1, AdvanceType DEF SkipTerminalResult, TypeInv, TypeOK, rowVars, clientVars
    <2> QED
      BY <1>14, <2>3, <2>4, <1>c DEF TypeInv, SkipTerminalResult
  <1>15. ASSUME NEW w \in Workers, EndWorker(w) PROVE TypeInv'
    BY <1>15, EmptySeq DEF TypeInv, TypeOK, WorkerShape, ClientHolds, EndWorker, rowVars, clientVars
  <1>16. ASSUME NEW c \in Clients, NEW j \in Jobs, RetryCheck(c, j) PROVE TypeInv'
    BY <1>16 DEF TypeInv, TypeOK, WorkerShape, ClientHolds, RetryCheck, rowVars, workerVars
  <1>17. ASSUME NEW c \in Clients, RetryCountRead(c) PROVE TypeInv'
    BY <1>17 DEF TypeInv, TypeOK, WorkerShape, ClientHolds, RetryCountRead, rowVars, workerVars
  <1>18. ASSUME NEW c \in Clients, NEW j \in Jobs, RetryInsert(c, j) PROVE TypeInv'
    <2>1. cjob[c] \in Jobs /\ OriginalSource(cjob[c]) \in Jobs
      BY <1>18 DEF RetryInsert, TypeInv, TypeOK, ClientHolds, OriginalSource
    <2>2. /\ status' \in [Jobs -> Statuses]
          /\ jobType' \in [Jobs -> JobTypes \cup {"none"}]
          /\ priority' \in [Jobs -> Nat]
          /\ retryOf' \in [Jobs -> Jobs \cup {0}]
          /\ retryCount' \in [Jobs -> Nat]
      <3>1. /\ status' = [status EXCEPT ![j] = "queued"]
            /\ jobType' = [jobType EXCEPT ![j] = jobType[cjob[c]]]
            /\ priority' = [priority EXCEPT ![j] = priority[cjob[c]]]
            /\ retryOf' = [retryOf EXCEPT ![j] = OriginalSource(cjob[c])]
            /\ retryCount' = [retryCount EXCEPT ![j] = ccount[c]]
        BY <1>18 DEF RetryInsert
      <3>2. status' \in [Jobs -> Statuses]
        BY <3>1 DEF TypeInv, TypeOK, Statuses, Active
      <3>3. jobType' \in [Jobs -> JobTypes \cup {"none"}] /\ priority' \in [Jobs -> Nat]
        BY <2>1, <3>1 DEF TypeInv, TypeOK
      <3>4. retryOf' \in [Jobs -> Jobs \cup {0}]
        BY <2>1, <3>1 DEF TypeInv, TypeOK
      <3>5. retryCount' \in [Jobs -> Nat]
        BY <3>1 DEF TypeInv, TypeOK
      <3> QED
        BY <3>2, <3>3, <3>4, <3>5
    <2>3. /\ cpc' \in [Clients -> {"idle", "checked", "counted"}]
          /\ cjob' \in [Clients -> Jobs \cup {0}]
          /\ ccount' \in [Clients -> Nat]
          /\ ClientHolds'
      BY <1>18 DEF RetryInsert, EndRetry, TypeInv, TypeOK, ClientHolds
    <2> QED
      BY <1>18, <2>2, <2>3 DEF RetryInsert, TypeInv, TypeOK, WorkerShape, workerVars
  <1>19. ASSUME NEW c \in Clients, RetryRefused(c) PROVE TypeInv'
    BY <1>19 DEF TypeInv, TypeOK, WorkerShape, ClientHolds, RetryRefused, EndRetry, rowVars, workerVars
  <1>20. ASSUME UNCHANGED vars PROVE TypeInv'
    BY <1>20 DEF TypeInv, TypeOK, WorkerShape, ClientHolds, vars, rowVars, workerVars, clientVars
  <1> QED
    BY <1>1, <1>2, <1>3, <1>4, <1>5, <1>6, <1>7, <1>8, <1>9, <1>10, <1>11, <1>12,
       <1>13, <1>14, <1>15, <1>16, <1>17, <1>18, <1>19, <1>20 DEF Next, WorkerStep

\* Type correctness: every column, program counter and batch keeps its type.
THEOREM TypeCorrect == Spec => []TypeOK
  <1>1. Spec => []TypeInv
    BY TypeInit, TypeStep, PTL DEF Spec
  <1>2. TypeInv => TypeOK
    BY DEF TypeInv
  <1> QED
    BY <1>1, <1>2, PTL

-----------------------------------------------------------------------------
(* Row locks. *)

\* Rows under an acquire transaction are left alone by a step that changes
\* no transaction and no locked row.
LEMMA LocksKept ==
    ASSUME TypeInv, AcquiringRowsStable,
           \A v \in Workers : wpc'[v] = "acquiring" =>
               wpc[v] = "acquiring" /\ picked'[v] = picked[v],
           \A j \in Jobs : RowLocked(j) /\ Acquirable(j) => Acquirable(j)'
    PROVE  AcquiringRowsStable'
  <1> SUFFICES ASSUME NEW w \in Workers, wpc'[w] = "acquiring",
                      NEW j \in Range(picked'[w])
               PROVE  /\ Acquirable(j)'
                      /\ \A v \in Workers \ {w} :
                            wpc'[v] = "acquiring" => j \notin Range(picked'[v])
    BY DEF AcquiringRowsStable
  <1>1. wpc[w] = "acquiring" /\ picked'[w] = picked[w] /\ j \in Range(picked[w])
    OBVIOUS
  <1>2. j \in Jobs
    BY <1>1 DEF TypeInv, TypeOK, Range
  <1>3. Acquirable(j) /\ RowLocked(j)
    BY <1>1 DEF AcquiringRowsStable, RowLocked
  <1>4. Acquirable(j)'
    BY <1>2, <1>3
  <1>5. ASSUME NEW v \in Workers \ {w}, wpc'[v] = "acquiring"
        PROVE  j \notin Range(picked'[v])
    BY <1>1, <1>5 DEF AcquiringRowsStable
  <1> QED
    BY <1>4, <1>5

\* Every action respects the row locks of open acquire transactions: the
\* UPDATEs of the code either wait for them or concern other rows.
LEMMA LocksStep ==
    ASSUME TypeInv, AcquiringRowsStable, [Next]_vars
    PROVE  AcquiringRowsStable'
  <1> USE QueueAssumption
  <1>1. ASSUME NEW j \in Jobs, NEW t \in JobTypes, NEW p \in Priorities, CreateJob(j, t, p)
        PROVE  AcquiringRowsStable'
    <2>1. \A i \in Jobs : Acquirable(i) => Acquirable(i)'
      BY <1>1 DEF CreateJob, IsNextId, Acquirable, TypeInv, TypeOK
    <2> QED
      BY <1>1, <2>1, LocksKept DEF CreateJob, workerVars
  <1>2. ASSUME NEW j \in Jobs, MarkCanceled(j) PROVE AcquiringRowsStable'
    <2>1. \A i \in Jobs : RowLocked(i) /\ Acquirable(i) => Acquirable(i)'
      BY <1>2 DEF MarkCanceled, Acquirable, TypeInv, TypeOK
    <2> QED
      BY <1>2, <2>1, LocksKept DEF MarkCanceled, workerVars
  <1>3. ASSUME NEW j \in Jobs, LeaseExpires(j) PROVE AcquiringRowsStable'
    <2>1. \A i \in Jobs : Acquirable(i) => Acquirable(i)'
      BY <1>3 DEF LeaseExpires, Acquirable, TypeInv, TypeOK
    <2> QED
      BY <1>3, <2>1, LocksKept DEF LeaseExpires, workerVars
  <1>4. ASSUME NEW w \in Workers, AcquireSelect(w) PROVE AcquiringRowsStable'
    <2>1. PICK s \in Selections : IsSelection(w, s) /\ picked' = [picked EXCEPT ![w] = s]
      BY <1>4 DEF AcquireSelect
    <2>2. \A j \in Range(s) : Acquirable(j) /\ ~RowLocked(j)
      BY <2>1 DEF IsSelection, Candidates
    <2>3. \A j : Acquirable(j)' <=> Acquirable(j)
      BY <1>4 DEF AcquireSelect, rowVars, Acquirable
    <2>4. /\ picked'[w] = s
          /\ \A v \in Workers \ {w} : picked'[v] = picked[v] /\ wpc'[v] = wpc[v]
      BY <1>4, <2>1 DEF AcquireSelect, TypeInv, TypeOK
    <2>5. \A v \in Workers \ {w} : wpc[v] = "acquiring" => \A j \in Range(s) : j \notin Range(picked[v])
      BY <2>2 DEF RowLocked
    <2> QED
      BY <2>2, <2>3, <2>4, <2>5 DEF AcquiringRowsStable
  <1>5. ASSUME NEW w \in Workers, AcquireCommit(w) PROVE AcquiringRowsStable'
    <2>1. \A v \in Workers : wpc'[v] = "acquiring" =>
             v # w /\ wpc[v] = "acquiring" /\ picked'[v] = picked[v]
      BY <1>5 DEF AcquireCommit, TypeInv, TypeOK
    <2>2. ASSUME NEW v \in Workers, wpc'[v] = "acquiring", NEW j \in Range(picked'[v])
          PROVE  /\ Acquirable(j)'
                 /\ \A u \in Workers \ {v} : wpc'[u] = "acquiring" => j \notin Range(picked'[u])
      <3>1. j \in Range(picked[v]) /\ wpc[v] = "acquiring" /\ v # w
        BY <2>1, <2>2
      <3>2. j \in Jobs
        BY <3>1 DEF TypeInv, TypeOK, Range
      <3>3. Acquirable(j) /\ j \notin Range(picked[w])
        BY <1>5, <3>1 DEF AcquiringRowsStable, AcquireCommit
      <3>4. status'[j] = status[j] /\ lease'[j] = lease[j]
        BY <1>5, <3>2, <3>3 DEF AcquireCommit
      <3> QED
        BY <2>1, <3>1, <3>3, <3>4 DEF AcquiringRowsStable, Acquirable
    <2> QED
      BY <2>2 DEF AcquiringRowsStable
  <1>6. ASSUME NEW w \in Workers, HeartbeatTick(w) PROVE AcquiringRowsStable'
    <2>1. Current(w) \in Jobs
      BY <1>6, HeadType DEF HeartbeatTick
    <2>2. \A i \in Jobs : RowLocked(i) => lease'[i] = lease[i] /\ status'[i] = status[i]
      BY <1>6, <2>1 DEF HeartbeatTick, RenewLease, TypeInv, TypeOK
    <2> QED
      BY <1>6, <2>2, LocksKept DEF HeartbeatTick, Acquirable
  <1>7. ASSUME NEW w \in Workers, NEW j \in Jobs, StrayRenewal(w, j) PROVE AcquiringRowsStable'
    <2>1. \A i \in Jobs : RowLocked(i) => lease'[i] = lease[i] /\ status'[i] = status[i]
      BY <1>7 DEF StrayRenewal, RenewLease, TypeInv, TypeOK
    <2> QED
      BY <1>7, <2>1, LocksKept DEF StrayRenewal, Acquirable
  <1>8. ASSUME NEW w \in Workers, StoreTerminalResult(w) PROVE AcquiringRowsStable'
    <2>1. Current(w) \in Jobs
      BY <1>8, HeadType DEF StoreTerminalResult
    <2>2. \A i \in Jobs : RowLocked(i) => lease'[i] = lease[i] /\ status'[i] = status[i]
      BY <1>8, <2>1 DEF StoreTerminalResult, TypeInv, TypeOK
    <2>3. \A v \in Workers : wpc'[v] = "acquiring" => wpc[v] = "acquiring" /\ picked'[v] = picked[v]
      BY <1>8 DEF StoreTerminalResult, Advance, TypeInv, TypeOK
    <2> QED
      BY <2>2, <2>3, LocksKept DEF Acquirable
  <1>9. ASSUME NEW c \in Clients, NEW j \in Jobs, RetryInsert(c, j) PROVE AcquiringRowsStable'
    <2>1. \A i \in Jobs : Acquirable(i) => Acquirable(i)'
      BY <1>9 DEF RetryInsert, IsNextId, Acquirable, TypeInv, TypeOK
    <2> QED
      BY <1>9, <2>1, LocksKept DEF RetryInsert, workerVars
  <1>10. ASSUME UNCHANGED rowVars,
                \A v \in Workers : wpc'[v] = "acquiring" =>
                    wpc[v] = "acquiring" /\ picked'[v] = picked[v]
         PROVE  AcquiringRowsStable'
    <2>1. \A i \in Jobs : Acquirable(i) => Acquirable(i)'
      BY <1>10 DEF rowVars, Acquirable
    <2> QED
      BY <1>10, <2>1, LocksKept
  <1>11. ASSUME NEW w \in Workers,
                \/ StartWorker(w) \/ StartContext(w) \/ HeartbeatError(w) \/ HandlerLeaseLost(w)
                \/ SkipTerminalResult(w) \/ EndWorker(w)
                \/ \E r \in {"succeeded", "failed"} : HandlerReturns(w, r)
         PROVE  AcquiringRowsStable'
    <2>1. UNCHANGED rowVars
      BY <1>11 DEF StartWorker, StartContext, HeartbeatError, HandlerLeaseLost,
                   SkipTerminalResult, EndWorker, HandlerReturns
    <2>2. \A v \in Workers : wpc'[v] = "acquiring" => wpc[v] = "acquiring" /\ picked'[v] = picked[v]
      <3>1. CASE StartWorker(w) \/ StartContext(w) \/ HeartbeatError(w)
        BY <3>1 DEF StartWorker, StartContext, HeartbeatError, TypeInv, TypeOK
      <3>2. CASE EndWorker(w)
        BY <3>2 DEF EndWorker, TypeInv, TypeOK
      <3>3. CASE HandlerLeaseLost(w) \/ SkipTerminalResult(w)
        BY <3>3 DEF HandlerLeaseLost, SkipTerminalResult, Advance, TypeInv, TypeOK
      <3>4. CASE \E r \in {"succeeded", "failed"} : HandlerReturns(w, r)
        BY <3>4 DEF HandlerReturns, Advance, TypeInv, TypeOK
      <3> QED
        BY <1>11, <3>1, <3>2, <3>3, <3>4
    <2> QED
      BY <1>10, <2>1, <2>2
  <1>12. ASSUME \/ \E c \in Clients, j \in Jobs : RetryCheck(c, j)
                \/ \E c \in Clients : RetryCountRead(c) \/ RetryRefused(c)
                \/ UNCHANGED vars
         PROVE  AcquiringRowsStable'
    BY <1>10, <1>12 DEF RetryCheck, RetryCountRead, RetryRefused, vars, workerVars
  <1> QED
    BY <1>1, <1>2, <1>3, <1>4, <1>5, <1>6, <1>7, <1>8, <1>9, <1>11, <1>12
    DEF Next, WorkerStep

-----------------------------------------------------------------------------
(* Fencing. *)

\* A step that acquires nothing gives no worker a context or an ownership it
\* did not have.
LEMMA FenceKept ==
    ASSUME TypeInv, OwnershipMeansLatestAttempt,
           attempt' = attempt,
           \A v \in Workers : \A i \in DOMAIN batch'[v] :
               \E k \in DOMAIN batch[v] : batch'[v][i] = batch[v][k],
           \A v \in Workers, j \in Jobs : Owns(v, j)' => Owns(v, j)
    PROVE  OwnershipMeansLatestAttempt'
  <1> SUFFICES ASSUME NEW v \in Workers, NEW i \in DOMAIN batch'[v], Owns(v, batch[v][i].job)'
               PROVE  batch'[v][i].attempt = attempt'[batch'[v][i].job]
    BY DEF OwnershipMeansLatestAttempt
  <1>1. PICK k \in DOMAIN batch[v] : batch'[v][i] = batch[v][k]
    OBVIOUS
  <1>2. batch[v][k] \in Contexts
    BY <1>1 DEF TypeInv, TypeOK
  <1>3. batch[v][k].job \in Jobs
    BY <1>2 DEF Contexts
  <1>4. Owns(v, batch[v][k].job)
    BY <1>1, <1>3
  <1> QED
    BY <1>1, <1>4 DEF OwnershipMeansLatestAttempt

\* Advance only drops a context.
LEMMA AdvanceKeepsContexts ==
    ASSUME TypeInv, NEW w \in Workers, batch[w] # <<>>, Advance(w)
    PROVE  \A v \in Workers : \A i \in DOMAIN batch'[v] :
               \E k \in DOMAIN batch[v] : batch'[v][i] = batch[v][k]
  <1> SUFFICES ASSUME NEW v \in Workers, NEW i \in DOMAIN batch'[v]
               PROVE  \E k \in DOMAIN batch[v] : batch'[v][i] = batch[v][k]
    OBVIOUS
  <1>1. CASE v # w
    BY <1>1 DEF Advance, TypeInv, TypeOK
  <1>2. CASE v = w
    <2>1. batch[w] \in Seq(Contexts) /\ batch'[w] = Tail(batch[w])
      BY DEF Advance, TypeInv, TypeOK
    <2>2. /\ Tail(batch[w]) \in Seq(Contexts)
          /\ Len(Tail(batch[w])) = Len(batch[w]) - 1
          /\ \A k \in 1..Len(Tail(batch[w])) : Tail(batch[w])[k] = batch[w][k + 1]
      BY <2>1, HeadTailProperties
    <2>3. /\ DOMAIN batch[w] = 1..Len(batch[w])
          /\ DOMAIN Tail(batch[w]) = 1..Len(Tail(batch[w]))
          /\ Len(batch[w]) \in Nat
      BY <2>1, <2>2, LenProperties
    <2>4. i + 1 \in DOMAIN batch[w] /\ batch'[w][i] = batch[w][i + 1]
      BY <1>2, <2>1, <2>2, <2>3
    <2> QED
      BY <1>2, <2>4
  <1> QED
    BY <1>1, <1>2

\* No action lets a worker own a job through a context of an older attempt:
\* acquire_jobs gives the new owner the only context of the new attempt.
LEMMA FenceStep ==
    ASSUME TypeInv, AcquiringRowsStable, OwnershipMeansLatestAttempt, [Next]_vars
    PROVE  OwnershipMeansLatestAttempt'
  <1> USE QueueAssumption
  <1>1. ASSUME NEW w \in Workers, AcquireCommit(w) PROVE OwnershipMeansLatestAttempt'
    <2> SUFFICES ASSUME NEW v \in Workers, NEW i \in DOMAIN batch'[v],
                        Owns(v, batch[v][i].job)'
                 PROVE  batch'[v][i].attempt = attempt'[batch'[v][i].job]
      BY DEF OwnershipMeansLatestAttempt
    <2>1. CASE v = w
      <3>1. picked[w] \in Seq(Jobs) /\ DOMAIN picked[w] = 1..Len(picked[w])
        BY DEF TypeInv, TypeOK
      <3>2. batch'[w] = [k \in 1..Len(picked[w]) |->
                            [job |-> picked[w][k], attempt |-> attempt[picked[w][k]] + 1]]
        BY <1>1 DEF AcquireCommit, TypeInv, TypeOK
      <3>3. /\ i \in 1..Len(picked[w])
            /\ batch'[w][i].job = picked[w][i]
            /\ batch'[w][i].attempt = attempt[picked[w][i]] + 1
        BY <2>1, <3>2
      <3>4. picked[w][i] \in Jobs /\ picked[w][i] \in Range(picked[w])
        BY <3>1, <3>3 DEF Range
      <3>5. attempt'[picked[w][i]] = attempt[picked[w][i]] + 1
        BY <1>1, <3>4 DEF AcquireCommit
      <3> QED
        BY <2>1, <3>3, <3>5
    <2>2. CASE v # w
      <3>1. batch'[v] = batch[v]
        BY <1>1, <2>2 DEF AcquireCommit, TypeInv, TypeOK
      <3>2. batch[v][i] \in Contexts
        BY <3>1 DEF TypeInv, TypeOK
      <3> DEFINE j == batch[v][i].job
      <3>3. j \in Jobs
        BY <3>2 DEF Contexts
      <3>4. status'[j] = "running" /\ lockedBy'[j] = v
        BY <3>1 DEF Owns
      <3>5. j \notin Range(picked[w])
        BY <1>1, <2>2, <3>3, <3>4 DEF AcquireCommit
      <3>6. Owns(v, j) /\ attempt'[j] = attempt[j]
        BY <1>1, <3>3, <3>4, <3>5 DEF AcquireCommit, Owns
      <3> QED
        BY <3>1, <3>6 DEF OwnershipMeansLatestAttempt
    <2> QED
      BY <2>1, <2>2
  <1>2. ASSUME NEW w \in Workers,
               wpc[w] \in {"next", "run", "store"}, Advance(w),
               attempt' = attempt,
               \A v \in Workers, j \in Jobs : Owns(v, j)' => Owns(v, j)
        PROVE  OwnershipMeansLatestAttempt'
    BY <1>2, HeadType, AdvanceKeepsContexts, FenceKept
  <1>3. ASSUME NEW w \in Workers, StoreTerminalResult(w) PROVE OwnershipMeansLatestAttempt'
    <2>1. Current(w) \in Jobs /\ outcome[w] # "running"
      BY <1>3, HeadType DEF StoreTerminalResult, TypeInv, WorkerShape
    <2>2. \A v \in Workers, j \in Jobs : Owns(v, j)' => Owns(v, j)
      BY <1>3, <2>1 DEF StoreTerminalResult, Owns, TypeInv, TypeOK
    <2> QED
      BY <1>2, <1>3, <2>2 DEF StoreTerminalResult
  <1>4. ASSUME UNCHANGED rowVars PROVE \A v \in Workers, j \in Jobs : Owns(v, j)' => Owns(v, j)
    BY <1>4 DEF rowVars, Owns
  <1>5. ASSUME NEW w \in Workers, HandlerLeaseLost(w) \/ SkipTerminalResult(w)
        PROVE  OwnershipMeansLatestAttempt'
    <2>1. UNCHANGED rowVars /\ Advance(w) /\ wpc[w] \in {"next", "run", "store"}
      BY <1>5 DEF HandlerLeaseLost, SkipTerminalResult
    <2> QED
      BY <1>2, <1>4, <2>1 DEF rowVars
  <1>6. ASSUME UNCHANGED batch, attempt' = attempt,
               \A v \in Workers, j \in Jobs : Owns(v, j)' => Owns(v, j)
        PROVE  OwnershipMeansLatestAttempt'
    BY <1>6, FenceKept
  <1>7. ASSUME NEW w \in Workers, NEW r \in {"succeeded", "failed"}, HandlerReturns(w, r)
        PROVE  OwnershipMeansLatestAttempt'
    <2>1. UNCHANGED rowVars /\ wpc[w] = "run" /\ (Advance(w) \/ UNCHANGED batch)
      BY <1>7 DEF HandlerReturns
    <2> QED
      BY <1>2, <1>4, <1>6, <2>1 DEF rowVars
  <1>8. ASSUME NEW w \in Workers, EndWorker(w) PROVE OwnershipMeansLatestAttempt'
    <2>1. UNCHANGED rowVars
      BY <1>8 DEF EndWorker
    <2>2. \A v \in Workers : \A i \in DOMAIN batch'[v] :
              \E k \in DOMAIN batch[v] : batch'[v][i] = batch[v][k]
      BY <1>8 DEF EndWorker, TypeInv, TypeOK
    <2> QED
      BY <1>4, <2>1, <2>2, FenceKept DEF rowVars
  <1>9. ASSUME NEW w \in Workers,
               StartWorker(w) \/ AcquireSelect(w) \/ StartContext(w) \/ HeartbeatError(w)
        PROVE  OwnershipMeansLatestAttempt'
    <2>1. UNCHANGED <<rowVars, batch>>
      BY <1>9 DEF StartWorker, AcquireSelect, StartContext, HeartbeatError
    <2> QED
      BY <1>4, <1>6, <2>1 DEF rowVars
  <1>10. ASSUME \/ \E c \in Clients, j \in Jobs : RetryCheck(c, j)
                \/ \E c \in Clients : RetryCountRead(c) \/ RetryRefused(c)
                \/ UNCHANGED vars
         PROVE  OwnershipMeansLatestAttempt'
    <2>1. UNCHANGED <<rowVars, batch>>
      BY <1>10 DEF RetryCheck, RetryCountRead, RetryRefused, vars, workerVars
    <2> QED
      BY <1>4, <1>6, <2>1 DEF rowVars
  <1>11. ASSUME NEW j \in Jobs,
                \/ \E t \in JobTypes, p \in Priorities : CreateJob(j, t, p)
                \/ \E c \in Clients : RetryInsert(c, j)
                \/ MarkCanceled(j)
                \/ LeaseExpires(j)
                \/ \E w \in Workers : StrayRenewal(w, j)
         PROVE  OwnershipMeansLatestAttempt'
    <2>1. UNCHANGED <<batch, attempt, lockedBy>>
      BY <1>11 DEF CreateJob, RetryInsert, MarkCanceled, LeaseExpires, StrayRenewal, workerVars
    <2>2. \A i \in Jobs : status'[i] = "running" => status[i] = "running"
      BY <1>11 DEF CreateJob, RetryInsert, MarkCanceled, LeaseExpires, StrayRenewal, TypeInv, TypeOK
    <2> QED
      BY <1>6, <2>1, <2>2 DEF Owns
  <1>12. ASSUME NEW w \in Workers, HeartbeatTick(w) PROVE OwnershipMeansLatestAttempt'
    BY <1>6, <1>12 DEF HeartbeatTick, Owns
  <1> QED
    BY <1>1, <1>3, <1>5, <1>7, <1>8, <1>9, <1>10, <1>11, <1>12 DEF Next, WorkerStep

-----------------------------------------------------------------------------
(* What a step does to the rows. *)

\* Once the locked rows are known to be acquirable, a step inserts one row or
\* moves active rows forward; it never changes the status of a finished row.
LEMMA StatusStep ==
    ASSUME TypeInv, AcquiringRowsStable, [Next]_vars
    PROVE  \/ \E j \in Jobs, t \in JobTypes, p \in Priorities : CreateJob(j, t, p)
           \/ \E c \in Clients, j \in Jobs : RetryInsert(c, j)
           \/ /\ UNCHANGED retryOf
              /\ \A j \in Jobs : \/ status'[j] = status[j]
                                 \/ /\ status[j] \in Active
                                    /\ status'[j] \in {"running"} \cup Terminal
  <1> DEFINE Forward == /\ UNCHANGED retryOf
                        /\ \A j \in Jobs : \/ status'[j] = status[j]
                                           \/ /\ status[j] \in Active
                                              /\ status'[j] \in {"running"} \cup Terminal
  <1>1. ASSUME NEW j \in Jobs, MarkCanceled(j) PROVE Forward
    BY <1>1 DEF MarkCanceled, TypeInv, TypeOK, Terminal
  <1>2. ASSUME NEW w \in Workers, AcquireCommit(w) PROVE Forward
    <2>1. \A j \in Jobs : j \in Range(picked[w]) => status[j] \in Active
      BY <1>2 DEF AcquireCommit, AcquiringRowsStable, Acquirable, Active
    <2> QED
      BY <1>2, <2>1 DEF AcquireCommit
  <1>3. ASSUME NEW w \in Workers, StoreTerminalResult(w) PROVE Forward
    <2>1. Current(w) \in Jobs /\ outcome[w] \in {"succeeded", "failed"}
      BY <1>3, HeadType DEF StoreTerminalResult, TypeInv, WorkerShape
    <2> QED
      BY <1>3, <2>1 DEF StoreTerminalResult, Owns, TypeInv, TypeOK, Active, Terminal
  <1>4. ASSUME UNCHANGED <<status, retryOf>> PROVE Forward
    BY <1>4
  <1>5. ASSUME NEW w \in Workers,
               \/ StartWorker(w) \/ AcquireSelect(w) \/ StartContext(w) \/ HandlerLeaseLost(w)
               \/ SkipTerminalResult(w) \/ HeartbeatTick(w) \/ HeartbeatError(w) \/ EndWorker(w)
               \/ \E r \in {"succeeded", "failed"} : HandlerReturns(w, r)
               \/ \E j \in Jobs : StrayRenewal(w, j)
        PROVE  Forward
    <2>1. UNCHANGED <<status, retryOf>>
      BY <1>5 DEF StartWorker, AcquireSelect, StartContext, HandlerLeaseLost, SkipTerminalResult,
                  HeartbeatTick, HeartbeatError, EndWorker, HandlerReturns, StrayRenewal, rowVars
    <2> QED
      BY <1>4, <2>1
  <1>6. ASSUME \/ \E j \in Jobs : LeaseExpires(j)
               \/ \E c \in Clients, j \in Jobs : RetryCheck(c, j)
               \/ \E c \in Clients : RetryCountRead(c) \/ RetryRefused(c)
               \/ UNCHANGED vars
        PROVE  Forward
    <2>1. UNCHANGED <<status, retryOf>>
      BY <1>6 DEF LeaseExpires, RetryCheck, RetryCountRead, RetryRefused, vars, rowVars
    <2> QED
      BY <1>4, <2>1
  <1> QED
    BY <1>1, <1>2, <1>3, <1>5, <1>6 DEF Next, WorkerStep

-----------------------------------------------------------------------------
(* Retry lineages. *)

\* What the unique index and the row lock of retry_job rest on: a row that
\* does not exist is no retry, ids are handed out in order, and a request in
\* progress holds a job that has failed for good.
AbsentRows  == \A j \in Jobs : status[j] = "absent" => retryOf[j] = 0
IdsInOrder  == \A i, k \in Jobs : k < i /\ status[i] # "absent" => status[k] # "absent"
HeldFailed  == \A c \in Clients : cpc[c] # "idle" => status[cjob[c]] = "failed"

LineageInv == AbsentRows /\ IdsInOrder /\ HeldFailed /\ RetryLineage /\ OneActiveRetry

\* A row a retry request holds FOR UPDATE stays failed until the request ends.
LEMMA HeldStep ==
    ASSUME TypeInv, AcquiringRowsStable, HeldFailed, [Next]_vars
    PROVE  HeldFailed'
  <1> USE QueueAssumption
  <1>1. \A j \in Jobs : status[j] = "failed" => status'[j] = "failed"
    <2>1. ASSUME NEW i \in Jobs, status[i] = "absent", status' = [status EXCEPT ![i] = "queued"]
          PROVE  \A j \in Jobs : status[j] = "failed" => status'[j] = "failed"
      BY <2>1 DEF TypeInv, TypeOK
    <2>2. CASE \A j \in Jobs : status'[j] = status[j] \/ status[j] \in Active
      BY <2>2 DEF Active
    <2> QED
      BY <2>1, <2>2, StatusStep DEF CreateJob, RetryInsert, IsNextId
  <1>2. ASSUME UNCHANGED clientVars PROVE HeldFailed'
    BY <1>1, <1>2 DEF HeldFailed, clientVars, TypeInv, ClientHolds
  <1>3. ASSUME NEW c \in Clients, NEW j \in Jobs, RetryCheck(c, j) PROVE HeldFailed'
    BY <1>1, <1>3 DEF HeldFailed, RetryCheck, TypeInv, TypeOK, ClientHolds
  <1>4. ASSUME NEW c \in Clients, RetryCountRead(c) PROVE HeldFailed'
    BY <1>1, <1>4 DEF HeldFailed, RetryCountRead, TypeInv, TypeOK, ClientHolds
  <1>5. ASSUME NEW c \in Clients, EndRetry(c) PROVE HeldFailed'
    BY <1>1, <1>5 DEF HeldFailed, EndRetry, TypeInv, TypeOK, ClientHolds
  <1>6. ASSUME NEW w \in Workers,
               \/ WorkerStep(w) \/ HeartbeatTick(w) \/ HeartbeatError(w) \/ EndWorker(w)
               \/ \E j \in Jobs : StrayRenewal(w, j)
        PROVE  UNCHANGED clientVars
    BY <1>6 DEF WorkerStep, StartWorker, AcquireSelect, AcquireCommit, StartContext,
                HandlerReturns, HandlerLeaseLost, StoreTerminalResult, SkipTerminalResult,
                HeartbeatTick, HeartbeatError, EndWorker, StrayRenewal
  <1>7. ASSUME NEW j \in Jobs,
               \/ \E t \in JobTypes, p \in Priorities : CreateJob(j, t, p)
               \/ MarkCanceled(j) \/ LeaseExpires(j)
        PROVE  UNCHANGED clientVars
    BY <1>7 DEF CreateJob, MarkCanceled, LeaseExpires
  <1>8. ASSUME UNCHANGED vars PROVE UNCHANGED clientVars
    BY <1>8 DEF vars
  <1> QED
    BY <1>2, <1>3, <1>4, <1>5, <1>6, <1>7, <1>8 DEF Next, RetryInsert, RetryRefused

\* Every action keeps ids in order, retries pointing at the failed first job
\* of their lineage, and at most one of them active.
LEMMA LineageStep ==
    ASSUME TypeInv, AcquiringRowsStable, LineageInv, [Next]_vars
    PROVE  LineageInv'
  <1> USE QueueAssumption DEF Jobs
  <1>1. HeldFailed'
    BY HeldStep DEF LineageInv
  <1>2. ASSUME NEW j \in Jobs, NEW t \in JobTypes, NEW p \in Priorities, CreateJob(j, t, p)
        PROVE  LineageInv'
    <2>1. /\ status[j] = "absent" /\ retryOf[j] = 0 /\ retryOf' = retryOf
          /\ \A i \in 1..(j - 1) : status[i] # "absent"
          /\ status'[j] = "queued"
          /\ \A i \in Jobs \ {j} : status'[i] = status[i]
      BY <1>2 DEF CreateJob, IsNextId, LineageInv, AbsentRows, TypeInv, TypeOK
    <2>2. AbsentRows' /\ IdsInOrder'
      BY <2>1 DEF LineageInv, AbsentRows, IdsInOrder
    <2>3. RetryLineage'
      <3> SUFFICES ASSUME NEW i \in Jobs, retryOf[i] # 0
                   PROVE  /\ retryOf[i] < i
                          /\ status'[retryOf[i]] = "failed"
                          /\ retryOf[retryOf[i]] = 0
        BY <2>1 DEF RetryLineage
      <3>1. /\ retryOf[i] \in Jobs
            /\ retryOf[i] < i
            /\ status[retryOf[i]] = "failed"
            /\ retryOf[retryOf[i]] = 0
        BY DEF LineageInv, RetryLineage, TypeInv, TypeOK
      <3> QED
        BY <2>1, <3>1
    <2>4. OneActiveRetry'
      BY <2>1 DEF LineageInv, OneActiveRetry
    <2> QED
      BY <1>1, <2>2, <2>3, <2>4 DEF LineageInv
  <1>3. ASSUME NEW c \in Clients, NEW j \in Jobs, RetryInsert(c, j) PROVE LineageInv'
    <2> DEFINE r == OriginalSource(cjob[c])
    <2>1. /\ status[j] = "absent" /\ retryOf[j] = 0
          /\ \A i \in 1..(j - 1) : status[i] # "absent"
          /\ status'[j] = "queued" /\ retryOf'[j] = r
          /\ \A i \in Jobs \ {j} : status'[i] = status[i] /\ retryOf'[i] = retryOf[i]
          /\ \A i \in Jobs : retryOf[i] = r => status[i] \notin Active
      <3>1. /\ status' = [status EXCEPT ![j] = "queued"]
            /\ retryOf' = [retryOf EXCEPT ![j] = r]
            /\ IsNextId(j)
            /\ ActiveRetries(r) = {}
        BY <1>3 DEF RetryInsert
      <3>2. status[j] = "absent" /\ \A i \in 1..(j - 1) : status[i] # "absent"
        BY <3>1 DEF IsNextId
      <3>3. retryOf[j] = 0
        BY <3>2 DEF LineageInv, AbsentRows
      <3>4. \A i \in Jobs : retryOf[i] = r => status[i] \notin Active
        BY <3>1 DEF ActiveRetries
      <3> HIDE DEF r
      <3> QED
        BY <3>1, <3>2, <3>3, <3>4 DEF TypeInv, TypeOK
    <2>2. cjob[c] \in Jobs /\ status[cjob[c]] = "failed"
      BY <1>3 DEF RetryInsert, TypeInv, ClientHolds, LineageInv, HeldFailed
    <2>3. r \in Jobs /\ status[r] = "failed" /\ retryOf[r] = 0
      BY <2>2 DEF OriginalSource, LineageInv, RetryLineage, TypeInv, TypeOK
    <2> HIDE DEF r
    <2>4. r < j
      BY <2>1, <2>3 DEF LineageInv, IdsInOrder
    <2>5. AbsentRows' /\ IdsInOrder'
      BY <2>1 DEF LineageInv, AbsentRows, IdsInOrder
    <2>6. RetryLineage'
      <3> SUFFICES ASSUME NEW i \in Jobs, retryOf'[i] # 0
                   PROVE  /\ retryOf'[i] < i
                          /\ status'[retryOf'[i]] = "failed"
                          /\ retryOf'[retryOf'[i]] = 0
        BY DEF RetryLineage
      <3>1. CASE i = j
        BY <2>1, <2>3, <2>4, <3>1
      <3>2. CASE i # j
        <4>1. retryOf'[i] = retryOf[i] /\ retryOf[i] # 0
          BY <2>1, <3>2
        <4>2. /\ retryOf[i] \in Jobs
              /\ retryOf[i] < i
              /\ status[retryOf[i]] = "failed"
              /\ retryOf[retryOf[i]] = 0
          BY <4>1 DEF LineageInv, RetryLineage, TypeInv, TypeOK
        <4>3. retryOf[i] # j
          BY <2>1, <4>2
        <4> QED
          BY <2>1, <4>1, <4>2, <4>3
      <3> QED
        BY <3>1, <3>2
    <2>7. OneActiveRetry'
      BY <2>1 DEF LineageInv, OneActiveRetry
    <2> QED
      BY <1>1, <2>5, <2>6, <2>7 DEF LineageInv
  <1>4. ASSUME UNCHANGED retryOf,
               \A j \in Jobs : \/ status'[j] = status[j]
                               \/ /\ status[j] \in Active
                                  /\ status'[j] \in {"running"} \cup Terminal
        PROVE  LineageInv'
    <2>1. AbsentRows' /\ IdsInOrder'
      BY <1>4 DEF LineageInv, AbsentRows, IdsInOrder, Active, Terminal
    <2>2. RetryLineage'
      <3> SUFFICES ASSUME NEW i \in Jobs, retryOf[i] # 0
                   PROVE  /\ retryOf[i] < i
                          /\ status'[retryOf[i]] = "failed"
                          /\ retryOf[retryOf[i]] = 0
        BY <1>4 DEF RetryLineage
      <3>1. /\ retryOf[i] \in Jobs
            /\ retryOf[i] < i
            /\ status[retryOf[i]] = "failed"
            /\ retryOf[retryOf[i]] = 0
        BY DEF LineageInv, RetryLineage, TypeInv, TypeOK
      <3> QED
        BY <1>4, <3>1 DEF Active
    <2>3. OneActiveRetry'
      BY <1>4 DEF LineageInv, OneActiveRetry
    <2> QED
      BY <1>1, <2>1, <2>2, <2>3 DEF LineageInv
  <1> QED
    BY <1>2, <1>3, <1>4, StatusStep

-----------------------------------------------------------------------------
(* Finished jobs. *)

\* A finished row keeps every column that says who did what.
FinalRows == \A j \in Jobs : status[j] \in Terminal =>
    /\ status'[j] = status[j]
    /\ attempt'[j] = attempt[j]
    /\ lockedBy'[j] = lockedBy[j]
    /\ lease'[j] = lease[j]
    /\ doneBy'[j] = doneBy[j]

\* The rows as the properties of this section see them.
ledger == <<status, attempt, lockedBy, startedAt, lease, doneBy>>

\* The steps that leave all of these columns alone.
LEMMA QuietSteps ==
    ASSUME [Next]_vars
    PROVE  \/ UNCHANGED ledger
           \/ \E j \in Jobs, t \in JobTypes, p \in Priorities : CreateJob(j, t, p)
           \/ \E c \in Clients, j \in Jobs : RetryInsert(c, j)
           \/ \E j \in Jobs : MarkCanceled(j) \/ LeaseExpires(j)
           \/ \E w \in Workers : AcquireCommit(w) \/ StoreTerminalResult(w) \/ HeartbeatTick(w)
           \/ \E w \in Workers, j \in Jobs : StrayRenewal(w, j)
  <1>1. ASSUME NEW w \in Workers,
               \/ StartWorker(w) \/ AcquireSelect(w) \/ StartContext(w) \/ HandlerLeaseLost(w)
               \/ SkipTerminalResult(w) \/ HeartbeatError(w) \/ EndWorker(w)
               \/ \E r \in {"succeeded", "failed"} : HandlerReturns(w, r)
        PROVE  UNCHANGED ledger
    <2>1. UNCHANGED rowVars
      BY <1>1 DEF StartWorker, AcquireSelect, StartContext, HandlerLeaseLost, SkipTerminalResult,
                  HeartbeatError, EndWorker, HandlerReturns
    <2> QED
      BY <2>1 DEF rowVars, ledger
  <1>2. ASSUME \/ \E c \in Clients, j \in Jobs : RetryCheck(c, j)
               \/ \E c \in Clients : RetryCountRead(c) \/ RetryRefused(c)
               \/ UNCHANGED vars
        PROVE  UNCHANGED ledger
    <2>1. UNCHANGED rowVars
      BY <1>2 DEF RetryCheck, RetryCountRead, RetryRefused, vars
    <2> QED
      BY <2>1 DEF rowVars, ledger
  <1> QED
    BY <1>1, <1>2 DEF Next, WorkerStep

FinishedInv == RowConstraints /\ CompletedByLatestAttempt

\* Every action keeps the constraints of the table and the attempt recorded
\* for a result, and leaves finished rows alone.
LEMMA FinishedStep ==
    ASSUME TypeInv, AcquiringRowsStable, OwnershipMeansLatestAttempt, LineageInv,
           FinishedInv, [Next]_vars
    PROVE  FinishedInv' /\ FinalRows
  <1> USE QueueAssumption
  <1>1. ASSUME NEW j \in Jobs, status[j] = "absent",
               status' = [status EXCEPT ![j] = "queued"],
               UNCHANGED <<lockedBy, lease, startedAt, attempt, doneBy>>
        PROVE  FinishedInv' /\ FinalRows
    <2>1. FinalRows
      BY <1>1 DEF FinalRows, Terminal, TypeInv, TypeOK
    <2>2. RowConstraints' /\ CompletedByLatestAttempt'
      BY <1>1 DEF FinishedInv, RowConstraints, CompletedByLatestAttempt, Terminal, TypeInv, TypeOK
    <2> QED
      BY <2>1, <2>2 DEF FinishedInv
  <1>2. ASSUME NEW j \in Jobs, MarkCanceled(j) PROVE FinishedInv' /\ FinalRows
    BY <1>2 DEF MarkCanceled, FinishedInv, FinalRows, RowConstraints, CompletedByLatestAttempt,
                Active, Terminal, TypeInv, TypeOK
  <1>3. ASSUME NEW j \in Jobs, status[j] = "running",
               lease' = lease \/ lease' = [lease EXCEPT ![j] = "live"]
                              \/ lease' = [lease EXCEPT ![j] = "expired"],
               UNCHANGED <<status, lockedBy, startedAt, attempt, doneBy>>
        PROVE  FinishedInv' /\ FinalRows
    BY <1>3 DEF FinishedInv, FinalRows, RowConstraints, CompletedByLatestAttempt,
                Terminal, TypeInv, TypeOK
  <1>4. ASSUME NEW w \in Workers, AcquireCommit(w) PROVE FinishedInv' /\ FinalRows
    <2>1. \A j \in Jobs : j \in Range(picked[w]) => status[j] \in Active
      BY <1>4 DEF AcquireCommit, AcquiringRowsStable, Acquirable, Active
    <2>2. FinalRows
      BY <1>4, <2>1 DEF AcquireCommit, FinalRows, Active, Terminal
    <2>3. RowConstraints'
      <3> SUFFICES ASSUME NEW j \in Jobs
                   PROVE  /\ status'[j] \in {"absent", "queued"} =>
                                startedAt'[j] = 0 /\ lockedBy'[j] = NoWorker
                          /\ status'[j] = "running" =>
                                lockedBy'[j] # NoWorker /\ lease'[j] # "none" /\ startedAt'[j] # 0
                          /\ status'[j] \in {"succeeded", "failed"} => startedAt'[j] # 0
                          /\ status'[j] \in Terminal => lease'[j] = "none"
        BY DEF RowConstraints
      <3>1. CASE j \in Range(picked[w])
        <4>1. status'[j] = "running" /\ lockedBy'[j] = w /\ lease'[j] = "live"
          BY <1>4, <3>1 DEF AcquireCommit
        <4>2. startedAt'[j] # 0
          BY <1>4, <3>1 DEF AcquireCommit, TypeInv, TypeOK
        <4> QED
          BY <4>1, <4>2 DEF Terminal
      <3>2. CASE j \notin Range(picked[w])
        <4>1. /\ status'[j] = status[j] /\ lockedBy'[j] = lockedBy[j]
              /\ lease'[j] = lease[j] /\ startedAt'[j] = startedAt[j]
          BY <1>4, <3>2 DEF AcquireCommit
        <4> QED
          BY <4>1 DEF FinishedInv, RowConstraints
      <3> QED
        BY <3>1, <3>2
    <2>4. CompletedByLatestAttempt'
      BY <1>4 DEF AcquireCommit, FinishedInv, CompletedByLatestAttempt
    <2> QED
      BY <2>2, <2>3, <2>4 DEF FinishedInv
  <1>5. ASSUME NEW w \in Workers, StoreTerminalResult(w) PROVE FinishedInv' /\ FinalRows
    <2> DEFINE j == Current(w)
    <2>1. /\ j \in Jobs /\ outcome[w] \in {"succeeded", "failed"}
          /\ 1 \in DOMAIN batch[w] /\ Head(batch[w]) = batch[w][1]
      BY <1>5, HeadType DEF StoreTerminalResult, TypeInv, WorkerShape
    <2>2. status[j] = "running" /\ Head(batch[w]).attempt = attempt[j]
      BY <1>5, <2>1 DEF StoreTerminalResult, OwnershipMeansLatestAttempt, Owns, Current
    <2>3. /\ status'[j] = outcome[w] /\ lease'[j] = "none" /\ doneBy'[j] = attempt[j]
          /\ \A i \in Jobs \ {j} : status'[i] = status[i] /\ lease'[i] = lease[i]
                                                       /\ doneBy'[i] = doneBy[i]
          /\ UNCHANGED <<lockedBy, startedAt, attempt>>
      BY <1>5, <2>1, <2>2 DEF StoreTerminalResult, TypeInv, TypeOK
    <2> HIDE DEF j
    <2>4. FinalRows
      BY <2>1, <2>2, <2>3 DEF FinalRows, Terminal
    <2>5. RowConstraints'
      BY <2>1, <2>2, <2>3 DEF FinishedInv, RowConstraints, Terminal
    <2>6. CompletedByLatestAttempt'
      BY <2>1, <2>3 DEF FinishedInv, CompletedByLatestAttempt
    <2> QED
      BY <2>4, <2>5, <2>6 DEF FinishedInv
  <1>6. ASSUME UNCHANGED ledger PROVE FinishedInv' /\ FinalRows
    BY <1>6 DEF ledger, FinishedInv, FinalRows, RowConstraints, CompletedByLatestAttempt
  <1>7. ASSUME NEW w \in Workers, HeartbeatTick(w) PROVE FinishedInv' /\ FinalRows
    <2>1. Current(w) \in Jobs
      BY <1>7, HeadType DEF HeartbeatTick
    <2>2. CASE Owns(w, Current(w))
      BY <1>3, <1>7, <2>1, <2>2 DEF HeartbeatTick, RenewLease, Owns
    <2>3. CASE ~Owns(w, Current(w))
      BY <1>6, <1>7, <2>3 DEF HeartbeatTick, ledger
    <2> QED
      BY <2>2, <2>3
  <1>8. ASSUME NEW w \in Workers, NEW j \in Jobs, StrayRenewal(w, j)
        PROVE  FinishedInv' /\ FinalRows
    <2>1. CASE Owns(w, j)
      BY <1>3, <1>8, <2>1 DEF StrayRenewal, RenewLease, Owns
    <2>2. CASE ~Owns(w, j)
      BY <1>6, <1>8, <2>2 DEF StrayRenewal, ledger
    <2> QED
      BY <2>1, <2>2
  <1>9. ASSUME NEW j \in Jobs, LeaseExpires(j) PROVE FinishedInv' /\ FinalRows
    BY <1>3, <1>9 DEF LeaseExpires
  <1>10. ASSUME NEW j \in Jobs, NEW t \in JobTypes, NEW p \in Priorities, CreateJob(j, t, p)
         PROVE  FinishedInv' /\ FinalRows
    BY <1>1, <1>10 DEF CreateJob, IsNextId
  <1>11. ASSUME NEW c \in Clients, NEW j \in Jobs, RetryInsert(c, j)
         PROVE  FinishedInv' /\ FinalRows
    BY <1>1, <1>11 DEF RetryInsert, IsNextId
  <1> QED
    BY <1>2, <1>4, <1>5, <1>6, <1>7, <1>8, <1>9, <1>10, <1>11, QuietSteps

-----------------------------------------------------------------------------
(* The theorems. *)

QueueInv ==
    /\ TypeInv
    /\ AcquiringRowsStable
    /\ OwnershipMeansLatestAttempt
    /\ LineageInv
    /\ FinishedInv

\* The invariant holds in the empty table.
LEMMA QueueInit == Init => QueueInv
  <1> SUFFICES ASSUME Init PROVE QueueInv
    OBVIOUS
  <1>1. TypeInv
    BY TypeInit
  <1>2. AcquiringRowsStable /\ OwnershipMeansLatestAttempt
    BY DEF Init, AcquiringRowsStable, OwnershipMeansLatestAttempt
  <1>3. LineageInv
    BY DEF Init, LineageInv, AbsentRows, IdsInOrder, HeldFailed, RetryLineage, OneActiveRetry
  <1>4. FinishedInv
    BY DEF Init, FinishedInv, RowConstraints, CompletedByLatestAttempt, Terminal
  <1> QED
    BY <1>1, <1>2, <1>3, <1>4 DEF QueueInv

\* The invariant is inductive, and under it no step changes a finished row.
LEMMA QueueStep == QueueInv /\ [Next]_vars => QueueInv' /\ FinalRows
  BY TypeStep, LocksStep, FenceStep, LineageStep, FinishedStep DEF QueueInv

\* The inductive invariant holds in every reachable state.
LEMMA QueueInvariant == Spec => []QueueInv
  BY QueueInit, QueueStep, PTL DEF Spec

\* locked_by is a sufficient fencing token: a worker that passes the ownership
\* check for a context it holds is executing the job's latest attempt.
THEOREM Fencing == Spec => []OwnershipMeansLatestAttempt
  BY QueueInvariant, PTL DEF QueueInv

\* The stored result of a finished job is that of its latest attempt.
THEOREM LatestAttemptCompletes == Spec => []CompletedByLatestAttempt
  BY QueueInvariant, PTL DEF QueueInv, FinishedInv

\* Locked rows stay acquirable until the acquire transaction commits.
THEOREM LockedRowsStable == Spec => []AcquiringRowsStable
  BY QueueInvariant, PTL DEF QueueInv

\* At most one job of a retry lineage is queued or running.
THEOREM SingleActiveRetry == Spec => []OneActiveRetry
  BY QueueInvariant, PTL DEF QueueInv, LineageInv

\* Retries point at an older, failed job that is no retry itself.
THEOREM RetriesPointAtRoot == Spec => []RetryLineage
  BY QueueInvariant, PTL DEF QueueInv, LineageInv

\* No transaction can fail on a CHECK constraint of table jobs.
THEOREM ConstraintsHold == Spec => []RowConstraints
  BY QueueInvariant, PTL DEF QueueInv, FinishedInv

\* A finished job is never touched again.
THEOREM FinishedStaysFinished == Spec => FinishedIsFinal
  <1>1. QueueInv /\ [Next]_vars => [FinalRows]_vars
    BY QueueStep
  <1> QED
    BY <1>1, QueueInvariant, PTL DEF Spec, FinishedIsFinal, FinalRows

\* A job changes hands only on an expired lease.
THEOREM LeaseRespected == Spec => TakenOnlyAfterExpiry
  <1> DEFINE Respected == \A j \in Jobs : (status[j] = "running" /\ lockedBy'[j] # lockedBy[j])
                                             => lease[j] = "expired"
  <1>1. ASSUME QueueInv, [Next]_vars PROVE Respected
    <2>1. ASSUME NEW w \in Workers, AcquireCommit(w) PROVE Respected
      <3>1. \A j \in Jobs : lockedBy'[j] # lockedBy[j] => j \in Range(picked[w])
        BY <2>1 DEF AcquireCommit
      <3>2. \A j \in Range(picked[w]) : Acquirable(j)
        BY <1>1, <2>1 DEF AcquireCommit, QueueInv, AcquiringRowsStable
      <3> QED
        BY <3>1, <3>2 DEF Acquirable
    <2>2. ASSUME UNCHANGED lockedBy PROVE Respected
      BY <2>2
    <2> QED
      BY <1>1, <2>1, <2>2, QuietSteps
      DEF ledger, CreateJob, RetryInsert, MarkCanceled, LeaseExpires, StoreTerminalResult,
          HeartbeatTick, StrayRenewal
  <1> QED
    BY <1>1, QueueInvariant, PTL DEF Spec, TakenOnlyAfterExpiry

-----------------------------------------------------------------------------
(* The queue implements the job lifecycle. *)

\* Under the invariant a step of the queue is a step of JobLifecycle or leaves
\* status, attempt, retryOf and doneBy unchanged.
LEMMA LifecycleStep ==
    ASSUME QueueInv, [Next]_vars
    PROVE  [Lifecycle!Next]_(Lifecycle!lifecycleVars)
  <1> USE QueueAssumption
  <1>1. ASSUME NEW j \in Jobs, NEW t \in JobTypes, NEW p \in Priorities, CreateJob(j, t, p)
        PROVE  Lifecycle!Submit(j)
    BY <1>1 DEF CreateJob, IsNextId, Lifecycle!Submit
  <1>2. ASSUME NEW j \in Jobs, MarkCanceled(j) PROVE Lifecycle!Withdraw(j)
    BY <1>2 DEF MarkCanceled, Active, Lifecycle!Withdraw, Lifecycle!ActivePhases
  <1>3. ASSUME NEW c \in Clients, NEW j \in Jobs, RetryInsert(c, j)
        PROVE  \E r \in Jobs : Lifecycle!Resubmit(j, r)
    <2> DEFINE r == OriginalSource(cjob[c])
    <2>1. cjob[c] \in Jobs /\ status[cjob[c]] = "failed"
      BY <1>3 DEF RetryInsert, QueueInv, TypeInv, ClientHolds, LineageInv, HeldFailed
    <2>2. r \in Jobs /\ status[r] = "failed" /\ retryOf[r] = 0
      BY <2>1 DEF OriginalSource, QueueInv, LineageInv, RetryLineage, TypeInv, TypeOK
    <2>3. \A i \in Jobs : retryOf[i] = r => status[i] \notin Active
      BY <1>3 DEF RetryInsert, ActiveRetries
    <2>4. Lifecycle!Resubmit(j, r)
      BY <1>3, <2>2, <2>3
      DEF RetryInsert, IsNextId, Active, Lifecycle!Resubmit, Lifecycle!ActivePhases
    <2> QED
      BY <2>2, <2>4
  <1>4. ASSUME NEW w \in Workers, AcquireCommit(w)
        PROVE  \E S \in SUBSET Jobs : Lifecycle!Claim(S)
    <2> DEFINE S == Range(picked[w])
    <2>1. S \in SUBSET Jobs
      BY DEF QueueInv, TypeInv, TypeOK, Range
    <2>2. \A j \in S : status[j] \in Active
      BY <1>4 DEF AcquireCommit, QueueInv, AcquiringRowsStable, Acquirable, Active
    <2>3. Lifecycle!Claim(S)
      BY <1>4, <2>2 DEF AcquireCommit, Active, Lifecycle!Claim, Lifecycle!ActivePhases
    <2> QED
      BY <2>1, <2>3
  <1>5. ASSUME NEW w \in Workers, StoreTerminalResult(w)
        PROVE  \E j \in Jobs, o \in {"succeeded", "failed"} : Lifecycle!Complete(j, o)
    <2> DEFINE j == Current(w)
    <2>1. /\ j \in Jobs /\ outcome[w] \in {"succeeded", "failed"}
          /\ 1 \in DOMAIN batch[w] /\ Head(batch[w]) = batch[w][1]
      BY <1>5, HeadType DEF StoreTerminalResult, QueueInv, TypeInv, WorkerShape
    <2>2. status[j] = "running" /\ Head(batch[w]).attempt = attempt[j]
      BY <1>5, <2>1 DEF StoreTerminalResult, QueueInv, OwnershipMeansLatestAttempt, Owns, Current
    <2>3. Lifecycle!Complete(j, outcome[w])
      BY <1>5, <2>2 DEF StoreTerminalResult, Lifecycle!Complete
    <2> QED
      BY <2>1, <2>3
  <1>6. ASSUME UNCHANGED <<status, attempt, retryOf, doneBy>>
        PROVE  UNCHANGED Lifecycle!lifecycleVars
    BY <1>6 DEF Lifecycle!lifecycleVars
  <1>7. ASSUME UNCHANGED rowVars PROVE UNCHANGED Lifecycle!lifecycleVars
    BY <1>6, <1>7 DEF rowVars
  <1>8. ASSUME NEW w \in Workers,
               \/ StartWorker(w) \/ AcquireSelect(w) \/ StartContext(w) \/ HandlerLeaseLost(w)
               \/ SkipTerminalResult(w) \/ HeartbeatError(w) \/ EndWorker(w)
               \/ \E r \in {"succeeded", "failed"} : HandlerReturns(w, r)
        PROVE  UNCHANGED Lifecycle!lifecycleVars
    BY <1>7, <1>8 DEF StartWorker, AcquireSelect, StartContext, HandlerLeaseLost,
                      SkipTerminalResult, HeartbeatError, EndWorker, HandlerReturns
  <1>9. ASSUME \/ \E j \in Jobs : LeaseExpires(j)
               \/ \E w \in Workers : HeartbeatTick(w)
               \/ \E w \in Workers, j \in Jobs : StrayRenewal(w, j)
        PROVE  UNCHANGED Lifecycle!lifecycleVars
    BY <1>6, <1>9 DEF LeaseExpires, HeartbeatTick, StrayRenewal
  <1>10. ASSUME \/ \E c \in Clients, j \in Jobs : RetryCheck(c, j)
                \/ \E c \in Clients : RetryCountRead(c) \/ RetryRefused(c)
                \/ UNCHANGED vars
         PROVE  UNCHANGED Lifecycle!lifecycleVars
    BY <1>7, <1>10 DEF RetryCheck, RetryCountRead, RetryRefused, vars
  <1> QED
    BY <1>1, <1>2, <1>3, <1>4, <1>5, <1>8, <1>9, <1>10 DEF Next, WorkerStep, Lifecycle!Next

\* The queue with leases, crashes, zombies and racing retries implements the
\* lifecycle: at-least-once execution, one completion by the latest attempt.
THEOREM QueueImplementsLifecycle == Spec => ImplementsLifecycle
  <1>1. Init => Lifecycle!Init
    BY DEF Init, Lifecycle!Init
  <1>2. QueueInv /\ [Next]_vars => [Lifecycle!Next]_(Lifecycle!lifecycleVars)
    BY LifecycleStep
  <1> QED
    BY <1>1, <1>2, QueueInvariant, PTL DEF Spec, ImplementsLifecycle, Lifecycle!Spec
=============================================================================
