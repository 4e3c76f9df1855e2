------------------------ MODULE GraphIndexBuildProofs ------------------------
(***************************************************************************)
(* Proofs about GraphIndexBuild, for any number of versions, jobs, worker  *)
(* processes, runs and faults, and whatever the chunks contain.            *)
(***************************************************************************)
EXTENDS GraphIndexBuild, NumberLemmas, TLAPS

-----------------------------------------------------------------------------
(* Types. *)

Results == {NoResult} \cup UNION {Extracted[v] : v \in Versions}
AllRows == UNION {Rows(r, x) : r \in RunIds, x \in Results}
Process ==
    [pc : Labels, job : Jobs \cup {NoProc}, run : RunIds \cup {0}, result : Results,
     deleted : SUBSET AllRows, seen : SUBSET Keys, rows : SUBSET AllRows]

TypeInv ==
    /\ job \in [Jobs -> {"none", "queued", "running", "succeeded", "failed"}]
    /\ payload \in [Jobs -> [version : Versions \cup {NoVersion}, run : RunIds \cup {0}]]
    /\ owner \in [Jobs -> Procs \cup {NoProc}]
    /\ runs \in [RunIds -> {"none", "queued", "running", "succeeded", "failed"}]
    /\ runLock \in [RunIds -> Procs \cup {NoProc}]
    /\ verLock \in [Versions -> Procs \cup {NoProc}]
    /\ keyLock \in [Keys -> Procs \cup {NoProc}]
    /\ entities \subseteq Keys
    /\ graph \in [Versions -> SUBSET AllRows]
    /\ neo \in [Versions -> SUBSET AllRows]
    /\ proc \in [Procs -> Process]
    /\ overlapped \subseteq Versions /\ skipped \subseteq Versions

\* Where a process holds the lock of its run, of its version; where it has a
\* result.
RunHolders == {"lockVersion", "decide", "lockKeys", "write"}
VerHolders == {"decide", "lockKeys", "write"}
Extracts == {"persist", "lockRun"} \cup RunHolders

\* A process that is not idle has a job with a version, and what it needs of a
\* run and a result.
WorkInv ==
    /\ \A j \in Jobs : job[j] # "none" => payload[j].version \in Versions
    /\ \A p \in Procs :
        /\ proc[p].pc # "idle" => proc[p].job \in Jobs /\ job[proc[p].job] # "none"
        /\ proc[p].pc \notin {"idle", "prepare", "failed", "succeeded"} => proc[p].run \in RunIds
        /\ proc[p].pc \in Extracts => proc[p].result \in Extracted[V(p)]

LEMMA IdleProcess == Idle \in Process
  BY DEF Idle, Process, Labels, Results

LEMMA RowsTyped ==
    ASSUME NEW r \in RunIds, NEW x \in Results PROVE Rows(r, x) \subseteq AllRows
  BY DEF AllRows

\* Only a job that nobody runs changes its payload.
LEMMA TypeInit == Init => TypeInv /\ WorkInv
  <1> SUFFICES ASSUME Init PROVE TypeInv /\ WorkInv
    OBVIOUS
  <1>1. TypeInv
    BY IdleProcess DEF Init, TypeInv
  <1>2. WorkInv
    BY DEF Init, WorkInv, Idle, Extracts, RunHolders
  <1> QED
    BY <1>1, <1>2

\* The next record of a process that only moves on, or keeps nothing but its job
\* and its run.
LEMMA GotoTyped ==
    ASSUME TypeInv, NEW p \in Procs, NEW l \in Labels
    PROVE  /\ [proc[p] EXCEPT !.pc = l] \in Process
           /\ [Idle EXCEPT !.pc = l, !.job = proc[p].job, !.run = proc[p].run] \in Process
  BY IdleProcess DEF TypeInv, Process

\* A step of p that leaves the payloads alone.
LEMMA MoveWork ==
    ASSUME TypeInv, WorkInv, NEW p \in Procs, NEW x \in Process,
           proc' = [proc EXCEPT ![p] = x],
           payload' = payload, \A j \in Jobs : job'[j] = "none" <=> job[j] = "none",
           x.pc # "idle" => proc[p].pc # "idle" /\ x.job = proc[p].job,
           x.pc \notin {"idle", "prepare", "failed", "succeeded"} => x.run \in RunIds,
           x.pc \in Extracts => x.result \in Extracted[V(p)]
    PROVE  WorkInv' /\ proc' \in [Procs -> Process]
  <1>1. proc' \in [Procs -> Process] /\ proc'[p] = x /\ \A q \in Procs \ {p} : proc'[q] = proc[q]
    BY DEF TypeInv
  <1>2. ASSUME NEW q \in Procs \ {p}
        PROVE  /\ proc'[q].pc # "idle" => proc'[q].job \in Jobs /\ job'[proc'[q].job] # "none"
               /\ proc'[q].pc \notin {"idle", "prepare", "failed", "succeeded"} =>
                     proc'[q].run \in RunIds
               /\ proc'[q].pc \in Extracts => proc'[q].result \in Extracted[V(q)']
    BY <1>1, <1>2 DEF WorkInv, V
  <1>3. /\ x.pc # "idle" => x.job \in Jobs /\ job'[x.job] # "none"
        /\ x.pc \in Extracts => V(p)' = V(p)
    BY <1>1 DEF WorkInv, V, Extracts, RunHolders
  <1> QED
    BY <1>1, <1>2, <1>3 DEF WorkInv

\* A process that moves on, with what it has.
LEMMA GotoWork ==
    ASSUME TypeInv, WorkInv, NEW p \in Procs, NEW l \in Labels, Goto(p, l),
           payload' = payload, job' = job, proc[p].pc # "idle",
           l \notin {"idle", "prepare", "failed", "succeeded"} => proc[p].run \in RunIds,
           l \in Extracts => proc[p].pc \in Extracts
    PROVE  WorkInv' /\ proc' \in [Procs -> Process]
  <1> DEFINE x == [proc[p] EXCEPT !.pc = l]
  <1>1. x \in Process
    BY GotoTyped
  <1>2. x.pc = l /\ x.job = proc[p].job /\ x.run = proc[p].run /\ x.result = proc[p].result
    BY DEF TypeInv, Process
  <1>3. proc' = [proc EXCEPT ![p] = x]
    BY DEF Goto, TypeInv
  <1>4. l \in Extracts => proc[p].result \in Extracted[V(p)]
    BY DEF WorkInv
  <1> HIDE DEF x
  <1> QED
    BY <1>1, <1>2, <1>3, <1>4, MoveWork

\* A process that drops its result.
LEMMA CleanWork ==
    ASSUME TypeInv, WorkInv, NEW p \in Procs, NEW l \in Labels \ Extracts, GotoClean(p, l),
           payload' = payload, job' = job, proc[p].pc # "idle",
           l \notin {"idle", "prepare", "failed", "succeeded"} => proc[p].run \in RunIds
    PROVE  WorkInv' /\ proc' \in [Procs -> Process]
  <1> DEFINE x == [Idle EXCEPT !.pc = l, !.job = proc[p].job, !.run = proc[p].run]
  <1>1. x \in Process
    BY GotoTyped
  <1>2. x.pc = l /\ x.job = proc[p].job /\ x.run = proc[p].run
    BY DEF Idle
  <1>3. proc' = [proc EXCEPT ![p] = x]
    BY DEF GotoClean
  <1> HIDE DEF x
  <1> QED
    BY <1>1, <1>2, <1>3, MoveWork

\* A process that becomes idle.
LEMMA DropWork ==
    ASSUME TypeInv, WorkInv, NEW p \in Procs, DropJob(p), payload' = payload,
           \A j \in Jobs : job'[j] = "none" <=> job[j] = "none"
    PROVE  WorkInv' /\ proc' \in [Procs -> Process]
  BY IdleProcess, MoveWork DEF DropJob, Idle, Extracts, RunHolders

\* Rolling back or committing frees locks.
LEMMA ReleaseTyped ==
    ASSUME TypeInv, NEW p \in Procs, Release(p)
    PROVE  /\ runLock' \in [RunIds -> Procs \cup {NoProc}]
           /\ verLock' \in [Versions -> Procs \cup {NoProc}]
           /\ keyLock' \in [Keys -> Procs \cup {NoProc}]
  BY DEF TypeInv, Release

-----------------------------------------------------------------------------
LEMMA QueueTypes ==
    ASSUME TypeInv, WorkInv, NEW j \in Jobs, NEW v \in Versions, QueueBuild(j, v)
    PROVE  TypeInv' /\ WorkInv'
  <1>1. /\ job[j] = "none" /\ job' = [job EXCEPT ![j] = "queued"]
        /\ proc' = proc
        /\ UNCHANGED <<owner, lockVars, dataVars, ghosts>>
    BY DEF QueueBuild
  <1>2. PICK r \in RunIds \cup {0} : payload' = [payload EXCEPT ![j] = [version |-> v, run |-> r]]
    BY GraphAssumption DEF QueueBuild
  <1>3. TypeInv'
    BY <1>1, <1>2 DEF TypeInv, lockVars, dataVars, ghosts
  <1>4. \A p \in Procs : proc[p].pc \in Extracts => proc[p].pc # "idle"
    BY DEF Extracts, RunHolders
  <1>5. \A p \in Procs : proc[p].pc # "idle" => proc[p].job \in Jobs \ {j} /\ V(p)' = V(p)
    BY <1>1, <1>2 DEF WorkInv, V, TypeInv
  <1>6. WorkInv'
    BY <1>1, <1>2, <1>4, <1>5 DEF WorkInv, TypeInv
  <1> QED
    BY <1>3, <1>6

LEMMA AcquireTypes ==
    ASSUME TypeInv, WorkInv, NEW p \in Procs, NEW j \in Jobs, Acquire(p, j)
    PROVE  TypeInv' /\ WorkInv'
  <1> DEFINE x == [Idle EXCEPT !.pc = "prepare", !.job = j]
  <1>1. /\ proc' = [proc EXCEPT ![p] = x]
        /\ job[j] \in {"queued", "running"} /\ job' = [job EXCEPT ![j] = "running"]
        /\ owner' = [owner EXCEPT ![j] = p]
        /\ UNCHANGED <<payload, lockVars, dataVars, skipped>>
        /\ overlapped' \in {overlapped, overlapped \cup {payload[j].version}}
    BY DEF Acquire
  <1>2. x \in Process /\ x.pc = "prepare" /\ x.job = j
    BY IdleProcess DEF Process, Labels, Idle
  <1>3. payload[j].version \in Versions
    BY <1>1 DEF WorkInv
  <1> HIDE DEF x
  <1>4. TypeInv'
    BY <1>1, <1>2, <1>3 DEF TypeInv, lockVars, dataVars
  <1>5. /\ proc'[p] = x
        /\ \A q \in Procs \ {p} : proc'[q] = proc[q] /\ V(q)' = V(q)
        /\ \A i \in Jobs : job'[i] = "none" <=> job[i] = "none"
    BY <1>1 DEF TypeInv, V
  <1>6. WorkInv'
    BY <1>1, <1>2, <1>5 DEF WorkInv, Extracts, RunHolders
  <1> QED
    BY <1>4, <1>6

LEMMA CrashTypes ==
    ASSUME TypeInv, WorkInv, NEW p \in Procs, Crash(p) PROVE TypeInv' /\ WorkInv'
  <1>1. /\ DropJob(p) /\ Release(p)
        /\ owner' \in {owner, [owner EXCEPT ![proc[p].job] = NoProc]}
        /\ UNCHANGED <<job, payload, dataVars, ghosts>>
    BY DEF Crash, DropJob
  <1>2. WorkInv' /\ proc' \in [Procs -> Process]
    BY <1>1, DropWork
  <1>3. TypeInv'
    BY <1>1, <1>2, ReleaseTyped DEF TypeInv, dataVars, ghosts
  <1> QED
    BY <1>2, <1>3

\* The run that Prepare creates: the CHOOSE finds the first row there is not.
LEMMA FreshRun ==
    ASSUME NEW created, \E r \in RunIds : created[r] = "none"
    PROVE  LET fresh == CHOOSE r \in RunIds :
                            created[r] = "none" /\ \A s \in 1..(r - 1) : created[s] # "none"
           IN  fresh \in RunIds /\ created[fresh] = "none"
  <1> DEFINE unused == {r \in RunIds : created[r] = "none"}
  <1>1. unused \subseteq Nat /\ unused # {}
    BY DEF RunIds
  <1> HIDE DEF unused
  <1>2. PICK r \in unused : \A s \in unused : r <= s
    BY <1>1, LeastExists
  <1> USE DEF unused
  <1>3. \A s \in 1..(r - 1) : created[s] # "none"
    BY <1>2, GraphAssumption DEF RunIds
  <1> QED
    BY <1>2, <1>3

\* Prepare takes the run of the payload, a fresh one or none.
LEMMA PrepareTypes ==
    ASSUME TypeInv, WorkInv, NEW p \in Procs, Prepare(p) PROVE TypeInv' /\ WorkInv'
  <1> DEFINE named == payload[proc[p].job].run
             fresh == CHOOSE r \in RunIds :
                         runs[r] = "none" /\ \A s \in 1..(r - 1) : runs[s] # "none"
  <1>1. /\ proc[p].pc = "prepare"
        /\ UNCHANGED <<job, payload, owner, lockVars, entities, graph, neo, ghosts>>
    BY DEF Prepare, jobVars, ghosts
  <1>2. ASSUME NEW r \in RunIds, NEW l \in {"readMentions", "extract"},
               proc' = [proc EXCEPT ![p].pc = l, ![p].run = r]
        PROVE  WorkInv' /\ proc' \in [Procs -> Process]
    <2> DEFINE x == [proc[p] EXCEPT !.pc = l, !.run = r]
    <2>1. x \in Process /\ x.pc = l /\ x.job = proc[p].job /\ x.run = r
      BY DEF TypeInv, Process, Labels
    <2>2. proc' = [proc EXCEPT ![p] = x]
      BY <1>2 DEF TypeInv
    <2> HIDE DEF x
    <2> QED
      BY <1>1, <2>1, <2>2, MoveWork DEF Extracts, RunHolders
  <1>3. CASE DropJob(p) /\ UNCHANGED runs
    BY <1>1, <1>3, DropWork DEF TypeInv, lockVars, ghosts
  <1>4. CASE named # 0 /\ proc' = [proc EXCEPT ![p].pc = "readMentions", ![p].run = named] /\ UNCHANGED runs
    <2>1. named \in RunIds
      BY <1>1, <1>4 DEF TypeInv, WorkInv
    <2> HIDE DEF named
    <2> QED
      BY <1>1, <1>2, <1>4, <2>1 DEF TypeInv, lockVars, ghosts
  <1>5. CASE /\ named # 0 /\ proc' = [proc EXCEPT ![p].pc = "extract", ![p].run = named]
             /\ runs' = [runs EXCEPT ![named] = "running"]
    <2>1. named \in RunIds
      BY <1>1, <1>5 DEF TypeInv, WorkInv
    <2> HIDE DEF named
    <2> QED
      BY <1>1, <1>2, <1>5, <2>1 DEF TypeInv, lockVars, ghosts
  <1>6. CASE /\ \E r \in RunIds : runs[r] = "none"
             /\ proc' = [proc EXCEPT ![p].pc = "extract", ![p].run = fresh]
             /\ runs' = [runs EXCEPT ![fresh] = "running"]
    <2>1. fresh \in RunIds
      BY <1>6, FreshRun
    <2> HIDE DEF fresh
    <2> QED
      BY <1>1, <1>2, <1>6, <2>1 DEF TypeInv, lockVars, ghosts
  <1>7. CASE GotoClean(p, "failed") /\ UNCHANGED runs
    BY <1>1, <1>7, CleanWork DEF TypeInv, lockVars, ghosts, Labels, Extracts, RunHolders
  <1> QED
    BY <1>3, <1>4, <1>5, <1>6, <1>7 DEF Prepare

\* The steps that change no row.
LEMMA ReadingTypes ==
    ASSUME TypeInv, WorkInv, NEW p \in Procs,
           ExtractGraph(p) \/ PersistAssert(p) \/ LockRun(p) \/ LockVersion(p)
    PROVE  TypeInv' /\ WorkInv'
  <1>1. UNCHANGED <<job, payload, owner, dataVars, ghosts, keyLock>>
    BY DEF ExtractGraph, PersistAssert, LockRun, LockVersion, jobVars, lockVars
  <1> USE DEF Labels, Extracts, RunHolders
  <1>2. CASE ExtractGraph(p)
    <2>1. proc[p].pc = "extract" /\ UNCHANGED lockVars
      BY <1>2 DEF ExtractGraph
    <2>2. ASSUME NEW result \in Extracted[V(p)],
                 proc' = [proc EXCEPT ![p].pc = "persist", ![p].result = result]
          PROVE  WorkInv' /\ proc' \in [Procs -> Process]
      <3> DEFINE x == [proc[p] EXCEPT !.pc = "persist", !.result = result]
      <3>1. result \in Results
        BY <2>1 DEF WorkInv, V, Results
      <3>2. x \in Process /\ x.pc = "persist" /\ x.job = proc[p].job /\ x.run = proc[p].run
            /\ x.result = result
        BY <3>1 DEF TypeInv, Process
      <3>3. proc' = [proc EXCEPT ![p] = x]
        BY <2>2 DEF TypeInv
      <3>4. x.run \in RunIds
        BY <2>1, <3>2 DEF WorkInv
      <3> HIDE DEF x
      <3> QED
        BY <1>1, <2>1, <3>2, <3>3, <3>4, MoveWork
    <2>3. ASSUME GotoClean(p, "failRun") PROVE WorkInv' /\ proc' \in [Procs -> Process]
      <3>1. proc[p].run \in RunIds
        BY <2>1 DEF WorkInv
      <3> QED
        BY <1>1, <2>1, <2>3, <3>1, CleanWork
    <2> QED
      BY <1>1, <1>2, <2>1, <2>2, <2>3 DEF ExtractGraph, TypeInv, lockVars, dataVars, ghosts
  <1>3. CASE PersistAssert(p)
    <2>1. proc[p].pc = "persist" /\ proc[p].run \in RunIds /\ UNCHANGED lockVars
      BY <1>3 DEF PersistAssert, WorkInv
    <2>2. WorkInv' /\ proc' \in [Procs -> Process]
      BY <1>1, <1>3, <2>1, GotoWork, DropWork DEF PersistAssert
    <2> QED
      BY <1>1, <2>1, <2>2 DEF TypeInv, lockVars, dataVars, ghosts
  <1>4. CASE LockRun(p)
    <2>1. proc[p].pc = "lockRun" /\ proc[p].run \in RunIds
      BY <1>4 DEF LockRun, WorkInv
    <2>2. WorkInv' /\ proc' \in [Procs -> Process]
      BY <1>1, <1>4, <2>1, GotoWork, CleanWork DEF LockRun
    <2>3. runLock' \in {runLock, [runLock EXCEPT ![proc[p].run] = p]} /\ verLock' = verLock
      BY <1>4 DEF LockRun
    <2> QED
      BY <1>1, <2>2, <2>3 DEF TypeInv, dataVars, ghosts
  <1>5. CASE LockVersion(p)
    <2>1. proc[p].pc = "lockVersion" /\ proc[p].run \in RunIds
      BY <1>5 DEF LockVersion, WorkInv
    <2>2. WorkInv' /\ proc' \in [Procs -> Process]
      BY <1>1, <1>5, <2>1, GotoWork DEF LockVersion
    <2>3. verLock' = [verLock EXCEPT ![V(p)] = p] /\ runLock' = runLock
      BY <1>5 DEF LockVersion
    <2> QED
      BY <1>1, <2>2, <2>3 DEF TypeInv, dataVars, ghosts
  <1> QED
    BY <1>2, <1>3, <1>4, <1>5

\* The transaction that writes a graph.
LEMMA WritingTypes ==
    ASSUME TypeInv, WorkInv, NEW p \in Procs, Decide(p) \/ LockKeys(p) \/ WriteGraph(p)
    PROVE  TypeInv' /\ WorkInv'
  <1>0. /\ proc[p].pc \in VerHolders /\ proc[p].run \in RunIds
        /\ V(p) \in Versions /\ proc[p].result \in Extracted[V(p)]
        /\ UNCHANGED <<job, payload, owner, neo, overlapped>>
    BY DEF Decide, LockKeys, WriteGraph, VerHolders, WorkInv, Extracts, RunHolders, V, jobVars,
           dataVars, ghosts
  <1>1. CASE Decide(p)
    <2>1. UNCHANGED <<entities, graph, skipped>>
      BY <1>1 DEF Decide, ghosts
    <2>2. CASE GotoClean(p, "failed") /\ Release(p) /\ runs' = [runs EXCEPT ![proc[p].run] = "failed"]
      <3>1. WorkInv' /\ proc' \in [Procs -> Process]
        BY <1>0, <2>2, CleanWork DEF VerHolders, Labels, Extracts, RunHolders
      <3> QED
        BY <1>0, <2>1, <2>2, <3>1, ReleaseTyped DEF TypeInv
    <2>3. CASE /\ proc' = [proc EXCEPT ![p].pc = "lockKeys", ![p].deleted = graph[V(p)]]
               /\ UNCHANGED <<lockVars, runs>>
      <3> DEFINE x == [proc[p] EXCEPT !.pc = "lockKeys", !.deleted = graph[V(p)]]
      <3>1. x \in Process /\ x.pc = "lockKeys" /\ x.job = proc[p].job /\ x.run = proc[p].run
            /\ x.result = proc[p].result
        BY <1>0 DEF TypeInv, Process, Labels
      <3>2. proc' = [proc EXCEPT ![p] = x]
        BY <2>3 DEF TypeInv
      <3> HIDE DEF x
      <3>3. WorkInv' /\ proc' \in [Procs -> Process]
        BY <1>0, <3>1, <3>2, MoveWork DEF VerHolders
      <3> QED
        BY <1>0, <2>1, <2>3, <3>3 DEF TypeInv, lockVars
    <2> QED
      BY <1>1, <2>2, <2>3 DEF Decide
  <1>2. CASE LockKeys(p)
    <2>1. UNCHANGED <<runLock, verLock, dataVars, ghosts>>
      BY <1>2 DEF LockKeys
    <2>2. CASE \E k : keyLock' = [keyLock EXCEPT ![k] = p] /\ UNCHANGED proc
      BY <1>0, <2>1, <2>2 DEF TypeInv, WorkInv, V, dataVars, ghosts
    <2>3. CASE proc' = [proc EXCEPT ![p].pc = "write", ![p].seen = entities] /\ UNCHANGED keyLock
      <3> DEFINE x == [proc[p] EXCEPT !.pc = "write", !.seen = entities]
      <3>1. x \in Process /\ x.pc = "write" /\ x.job = proc[p].job /\ x.run = proc[p].run
            /\ x.result = proc[p].result
        BY <1>0 DEF TypeInv, Process, Labels
      <3>2. proc' = [proc EXCEPT ![p] = x]
        BY <2>3 DEF TypeInv
      <3> HIDE DEF x
      <3>3. WorkInv' /\ proc' \in [Procs -> Process]
        BY <1>0, <3>1, <3>2, MoveWork DEF VerHolders
      <3> QED
        BY <1>0, <2>1, <2>3, <3>3 DEF TypeInv, dataVars, ghosts
    <2> QED
      BY <1>2, <2>2, <2>3 DEF LockKeys
  <1>3. CASE WriteGraph(p)
    <2>1. Release(p) /\ \E l \in {"readMentions", "failRun"} : GotoClean(p, l)
      BY <1>3 DEF WriteGraph
    <2>2. WorkInv' /\ proc' \in [Procs -> Process]
      BY <1>0, <2>1, CleanWork DEF VerHolders, Labels, Extracts, RunHolders
    <2>3. proc[p].result \in Results
      BY <1>0 DEF Results
    <2>4. Rows(proc[p].run, proc[p].result) \subseteq AllRows /\ KeysOf(proc[p].result) \subseteq Keys
      BY <1>0, <2>3, RowsTyped, GraphAssumption
    <2>5. \/ /\ entities' = entities \cup KeysOf(proc[p].result)
             /\ graph' = [graph EXCEPT ![V(p)] = (@ \ proc[p].deleted)
                                         \cup Rows(proc[p].run, proc[p].result)]
             /\ runs' = [runs EXCEPT ![proc[p].run] = "succeeded"]
             /\ skipped' = skipped \cup {V(p)}
          \/ UNCHANGED <<entities, graph, runs, skipped>>
      BY <1>3 DEF WriteGraph
    <2>6. /\ entities' \subseteq Keys /\ graph' \in [Versions -> SUBSET AllRows]
          /\ runs' \in [RunIds -> {"none", "queued", "running", "succeeded", "failed"}]
          /\ skipped' \subseteq Versions
      BY <1>0, <2>4, <2>5 DEF TypeInv
    <2> QED
      BY <1>0, <2>1, <2>2, <2>6, ReleaseTyped DEF TypeInv
  <1> QED
    BY <1>1, <1>2, <1>3

\* The projection.
LEMMA ProjectingTypes ==
    ASSUME TypeInv, WorkInv, NEW p \in Procs, ReadMentions(p) \/ ReadRelations(p) \/ Project(p)
    PROVE  TypeInv' /\ WorkInv'
  <1>0. /\ proc[p].pc \in {"readMentions", "readRelations", "project"} /\ proc[p].run \in RunIds
        /\ UNCHANGED <<job, payload, owner, lockVars, runs, entities, graph, overlapped>>
    BY DEF ReadMentions, ReadRelations, Project, WorkInv, jobVars, dataVars, ghosts
  <1>1. V(p) \in Versions /\ proc[p].rows \subseteq AllRows
    BY <1>0 DEF WorkInv, V, TypeInv, Process
  <1>2. \A kind : RowsOfKind(V(p), kind) \subseteq AllRows
    BY <1>1 DEF RowsOfKind, TypeInv
  <1>3. ASSUME NEW rows \in SUBSET AllRows, NEW l \in {"readRelations", "project"},
               proc' = [proc EXCEPT ![p].pc = l, ![p].rows = rows]
        PROVE  WorkInv' /\ proc' \in [Procs -> Process]
    <2> DEFINE x == [proc[p] EXCEPT !.pc = l, !.rows = rows]
    <2>1. x \in Process /\ x.pc = l /\ x.job = proc[p].job /\ x.run = proc[p].run
      BY DEF TypeInv, Process, Labels
    <2>2. proc' = [proc EXCEPT ![p] = x]
      BY <1>3 DEF TypeInv
    <2> HIDE DEF x
    <2> QED
      BY <1>0, <2>1, <2>2, MoveWork DEF Extracts, RunHolders
  <1>4. ASSUME GotoClean(p, "succeeded") PROVE WorkInv' /\ proc' \in [Procs -> Process]
    BY <1>0, <1>4, CleanWork DEF Labels, Extracts, RunHolders
  <1>5. WorkInv' /\ proc' \in [Procs -> Process]
    <2>1. CASE ReadMentions(p)
      BY <1>2, <1>3, <1>4, <2>1 DEF ReadMentions
    <2>2. CASE ReadRelations(p)
      <3>1. proc[p].rows \cup RowsOfKind(V(p), "relation") \in SUBSET AllRows
        BY <1>1, <1>2
      <3>2. proc' = [proc EXCEPT ![p].pc = "project",
                                 ![p].rows = proc[p].rows \cup RowsOfKind(V(p), "relation")]
        BY <2>2 DEF ReadRelations
      <3> QED
        BY <1>3, <3>1, <3>2
    <2>3. CASE Project(p)
      BY <1>4, <2>3 DEF Project
    <2> QED
      BY <2>1, <2>2, <2>3
  <1>6. neo' \in [Versions -> SUBSET AllRows] /\ skipped' \subseteq Versions
    BY <1>1 DEF ReadMentions, ReadRelations, Project, TypeInv, dataVars, ghosts
  <1> QED
    BY <1>0, <1>5, <1>6 DEF TypeInv, lockVars

\* The ends of a job.
LEMMA EndingTypes ==
    ASSUME TypeInv, WorkInv, NEW p \in Procs, FailRun(p) \/ Report(p)
    PROVE  TypeInv' /\ WorkInv'
  <1>1. CASE FailRun(p)
    <2>1. /\ proc[p].pc = "failRun"
          /\ runs' \in {runs, [runs EXCEPT ![proc[p].run] = "failed"]}
          /\ GotoClean(p, "failed") \/ DropJob(p)
          /\ UNCHANGED <<job, payload, owner, lockVars, entities, graph, neo, ghosts>>
      BY <1>1 DEF FailRun, jobVars
    <2>2. WorkInv' /\ proc' \in [Procs -> Process]
      BY <2>1, CleanWork, DropWork DEF Labels, Extracts, RunHolders
    <2> QED
      BY <2>1, <2>2 DEF TypeInv, lockVars, ghosts
  <1>2. CASE Report(p)
    <2>1. /\ DropJob(p) /\ proc[p].pc \in {"succeeded", "failed"}
          /\ job' \in {job, [job EXCEPT ![proc[p].job] = proc[p].pc]}
          /\ owner' \in {owner, [owner EXCEPT ![proc[p].job] = NoProc]}
          /\ UNCHANGED <<payload, lockVars, dataVars, ghosts>>
      BY <1>2 DEF Report
    <2>2. \A j \in Jobs : job'[j] = "none" <=> job[j] = "none"
      BY <2>1 DEF TypeInv, WorkInv
    <2>3. WorkInv' /\ proc' \in [Procs -> Process]
      BY <2>1, <2>2, DropWork
    <2> QED
      BY <2>1, <2>3 DEF TypeInv, lockVars, dataVars, ghosts
  <1> QED
    BY <1>1, <1>2

\* Every step keeps the types and what processes know of their jobs.
LEMMA TypesStep == TypeInv /\ WorkInv /\ [Next]_vars => TypeInv' /\ WorkInv'
  <1> SUFFICES ASSUME TypeInv, WorkInv, [Next]_vars PROVE TypeInv' /\ WorkInv'
    OBVIOUS
  <1>1. ASSUME NEW j \in Jobs, NEW v \in Versions, QueueBuild(j, v) \/ QueueByScript(j, v)
        PROVE  TypeInv' /\ WorkInv'
    BY <1>1, QueueTypes DEF QueueByScript
  <1>2. ASSUME NEW p \in Procs, Step(p) PROVE TypeInv' /\ WorkInv'
    BY <1>2, PrepareTypes, ReadingTypes, WritingTypes, ProjectingTypes, EndingTypes DEF Step
  <1>3. ASSUME UNCHANGED vars PROVE TypeInv' /\ WorkInv'
    BY <1>3 DEF vars, TypeInv, WorkInv, V, jobVars, lockVars, dataVars, ghosts
  <1> QED
    BY <1>1, <1>2, <1>3, AcquireTypes, CrashTypes DEF Next

-----------------------------------------------------------------------------
(* What a step of one process does to the others. *)

Acts(p) == Step(p) \/ Crash(p) \/ \E j \in Jobs : Acquire(p, j)

\* Nothing to their own records and versions.
LEMMA OthersKeepRecord ==
    ASSUME TypeInv, NEW p \in Procs, Acts(p), NEW q \in Procs \ {p}
    PROVE  proc'[q] = proc[q] /\ V(q)' = V(q)
  <1>1. payload' = payload
    BY DEF Acts, Step, Crash, Acquire, Prepare, ExtractGraph, PersistAssert, LockRun, LockVersion,
           Decide, LockKeys, WriteGraph, ReadMentions, ReadRelations, Project, FailRun, Report,
           jobVars
  <1>2. proc'[q] = proc[q]
    <2> USE DEF TypeInv, Goto, GotoClean, DropJob
    <2>1. CASE Crash(p) \/ \E j \in Jobs : Acquire(p, j)
      BY <2>1 DEF Crash, Acquire
    <2>2. CASE Prepare(p)
      BY <2>2 DEF Prepare
    <2>3. CASE ExtractGraph(p) \/ PersistAssert(p) \/ LockRun(p) \/ LockVersion(p)
      BY <2>3 DEF ExtractGraph, PersistAssert, LockRun, LockVersion
    <2>4. CASE Decide(p) \/ LockKeys(p) \/ WriteGraph(p)
      BY <2>4 DEF Decide, LockKeys, WriteGraph
    <2>5. CASE ReadMentions(p) \/ ReadRelations(p) \/ Project(p)
      BY <2>5 DEF ReadMentions, ReadRelations, Project
    <2>6. CASE FailRun(p) \/ Report(p)
      BY <2>6 DEF FailRun, Report
    <2> QED
      BY <2>1, <2>2, <2>3, <2>4, <2>5, <2>6 DEF Acts, Step
  <1> QED
    BY <1>1, <1>2 DEF V

\* Nothing to the locks they hold: a lock is taken when it is free and given back
\* by its holder.
LEMMA OthersKeepLocks ==
    ASSUME TypeInv, WorkInv, NEW p \in Procs, Acts(p), NEW q \in Procs \ {p}
    PROVE  /\ \A r \in RunIds : runLock'[r] = q <=> runLock[r] = q
           /\ \A v \in Versions : verLock'[v] = q <=> verLock[v] = q
           /\ \A k \in Keys : keyLock'[k] = q <=> keyLock[k] = q
  <1> USE GraphAssumption
  <1>1. CASE UNCHANGED lockVars
    BY <1>1 DEF lockVars
  <1>2. CASE Release(p)
    BY <1>2 DEF Release, TypeInv
  <1>3. CASE LockRun(p) \/ LockVersion(p)
    BY <1>3 DEF LockRun, LockVersion, lockVars, TypeInv
  <1>4. CASE LockKeys(p)
    BY <1>4 DEF LockKeys, lockVars, TypeInv
  <1> QED
    BY <1>1, <1>2, <1>3, <1>4 DEF Acts, Step, Crash, Acquire, Prepare, ExtractGraph, PersistAssert,
       Decide, WriteGraph, ReadMentions, ReadRelations, Project, FailRun, Report

\* Nothing to the run they have locked.
LEMMA OthersKeepRun ==
    ASSUME TypeInv, WorkInv, NEW p \in Procs, Acts(p), NEW q \in Procs \ {p}, NEW r \in RunIds,
           runLock[r] = q, runs[r] = "running",
           proc[p].pc \in RunHolders => runLock[proc[p].run] = p
    PROVE  runs'[r] = "running"
  <1> USE GraphAssumption
  <1>1. CASE runs' = runs
    BY <1>1
  <1>2. CASE Prepare(p)
    BY <1>2 DEF Prepare, TypeInv
  <1>3. CASE Decide(p) \/ WriteGraph(p)
    BY <1>3 DEF Decide, WriteGraph, RunHolders, TypeInv
  <1>4. CASE FailRun(p)
    BY <1>4 DEF FailRun, TypeInv
  <1> QED
    BY <1>1, <1>2, <1>3, <1>4 DEF Acts, Step, Crash, Acquire, ExtractGraph, PersistAssert, LockRun,
       LockVersion, LockKeys, ReadMentions, ReadRelations, Project, Report, dataVars

-----------------------------------------------------------------------------
(* The locks. *)

\* Process p holds the locks that its place says, and its locked run is running.
LocksOf(p) ==
    /\ \A r \in RunIds : runLock[r] = p <=> proc[p].pc \in RunHolders /\ proc[p].run = r
    /\ \A v \in Versions : verLock[v] = p <=> proc[p].pc \in VerHolders /\ V(p) = v
    /\ \A k \in Keys : keyLock[k] = p => proc[p].pc \in {"lockKeys", "write"}
    /\ proc[p].pc = "write" => \A k \in KeysOf(proc[p].result) : keyLock[k] = p
    /\ proc[p].pc \in RunHolders => runs[proc[p].run] = "running"

LockInv == \A p \in Procs : LocksOf(p)

\* A result only has keys of Keys, a holder has a run and a version.
LEMMA HolderFacts ==
    ASSUME WorkInv, NEW p \in Procs
    PROVE  /\ proc[p].pc \in Extracts => KeysOf(proc[p].result) \subseteq Keys
           /\ proc[p].pc \in Extracts => proc[p].run \in RunIds
           /\ proc[p].pc # "idle" => V(p) \in Versions
  BY GraphAssumption DEF WorkInv, V, Extracts, RunHolders

LEMMA OthersLocks ==
    ASSUME TypeInv, WorkInv, LockInv, NEW p \in Procs, Acts(p), NEW q \in Procs \ {p}
    PROVE  LocksOf(q)'
  <1>1. proc'[q] = proc[q] /\ V(q)' = V(q)
    BY OthersKeepRecord
  <1>2. /\ \A r \in RunIds : runLock'[r] = q <=> runLock[r] = q
        /\ \A v \in Versions : verLock'[v] = q <=> verLock[v] = q
        /\ \A k \in Keys : keyLock'[k] = q <=> keyLock[k] = q
    BY OthersKeepLocks
  <1>3. proc[q].pc = "write" => KeysOf(proc[q].result) \subseteq Keys
    BY HolderFacts DEF Extracts, RunHolders
  <1>4. proc[q].pc \in RunHolders => runs'[proc[q].run] = "running"
    <2>1. proc[p].pc \in RunHolders => runLock[proc[p].run] = p
      BY HolderFacts DEF LockInv, LocksOf, Extracts
    <2>2. proc[q].pc \in RunHolders => proc[q].run \in RunIds
      BY HolderFacts DEF Extracts
    <2> QED
      BY <2>1, <2>2, OthersKeepRun DEF LockInv, LocksOf
  <1> QED
    BY <1>1, <1>2, <1>3, <1>4 DEF LockInv, LocksOf

\* After a release p holds nothing.
LEMMA ReleasedLocks ==
    ASSUME TypeInv, NEW p \in Procs, Release(p), proc'[p].pc \notin RunHolders
    PROVE  LocksOf(p)'
  BY GraphAssumption DEF TypeInv, Release, LocksOf, RunHolders, VerHolders

\* Where the three ways to move on lead.
LEMMA Places ==
    ASSUME TypeInv, NEW p \in Procs
    PROVE  /\ \A l \in Labels : Goto(p, l) \/ GotoClean(p, l) => proc'[p].pc = l
           /\ DropJob(p) => proc'[p].pc = "idle"
  <1>1. proc \in [Procs -> Process]
    BY DEF TypeInv
  <1>2. ASSUME NEW l \in Labels, Goto(p, l) PROVE proc'[p].pc = l
    <2>1. proc'[p] = [proc[p] EXCEPT !.pc = l]
      BY <1>1, <1>2 DEF Goto
    <2> QED
      BY <1>1, <2>1 DEF Process
  <1>3. ASSUME NEW l \in Labels, GotoClean(p, l) PROVE proc'[p].pc = l
    BY <1>1, <1>3 DEF GotoClean, Idle
  <1>4. ASSUME DropJob(p) PROVE proc'[p].pc = "idle"
    BY <1>1, <1>4 DEF DropJob, Idle
  <1> QED
    BY <1>2, <1>3, <1>4

\* Steps between two places without locks.
LEMMA FreeLocks ==
    ASSUME LockInv, NEW p \in Procs, UNCHANGED lockVars,
           proc[p].pc \notin RunHolders, proc'[p].pc \notin RunHolders
    PROVE  LocksOf(p)'
  BY DEF LockInv, LocksOf, RunHolders, VerHolders, lockVars

LEMMA OwnLocks ==
    ASSUME TypeInv, WorkInv, LockInv, NEW p \in Procs, Acts(p)
    PROVE  LocksOf(p)'
  <1>0. proc \in [Procs -> Process]
    BY DEF TypeInv
  <1> USE DEF RunHolders, VerHolders
  <1>1. CASE Crash(p)
    BY <1>1, ReleasedLocks DEF TypeInv, Crash, Idle
  <1>2. CASE \E j \in Jobs : Acquire(p, j)
    BY <1>2, FreeLocks DEF TypeInv, Acquire, Idle
  <1>3. CASE Prepare(p)
    <2>1. proc[p].pc \notin RunHolders /\ proc'[p].pc \notin RunHolders
      BY <1>0, <1>3, Places DEF Labels, Prepare, Process
    <2>2. UNCHANGED lockVars
      BY <1>3 DEF Prepare
    <2> QED
      BY <2>1, <2>2, FreeLocks
  <1>4. CASE ExtractGraph(p) \/ PersistAssert(p)
    <2>1. proc[p].pc \notin RunHolders /\ proc'[p].pc \notin RunHolders
      BY <1>0, <1>4, Places DEF Labels, ExtractGraph, PersistAssert, Process
    <2>2. UNCHANGED lockVars
      BY <1>4 DEF ExtractGraph, PersistAssert
    <2> QED
      BY <2>1, <2>2, FreeLocks
  <1>5. CASE LockRun(p)
    <2>1. proc[p].run \in RunIds /\ proc[p].pc = "lockRun"
      BY <1>5, HolderFacts DEF LockRun, Extracts
    <2>2. CASE UNCHANGED runLock /\ GotoClean(p, "failRun")
      BY <1>5, <2>1, <2>2, FreeLocks DEF TypeInv, LockRun, GotoClean, Idle, lockVars
    <2>3. CASE /\ runs[proc[p].run] = "running" /\ Goto(p, "lockVersion")
               /\ runLock' = [runLock EXCEPT ![proc[p].run] = p]
      BY <1>5, <2>1, <2>3 DEF TypeInv, Process, LockRun, Goto, LockInv, LocksOf, dataVars
    <2> QED
      BY <1>5, <2>2, <2>3 DEF LockRun
  <1>6. CASE LockVersion(p)
    <2>1. V(p) \in Versions /\ V(p)' = V(p)
      BY <1>6, HolderFacts DEF TypeInv, Process, LockVersion, V, Goto, jobVars
    <2> QED
      BY <1>6, <2>1 DEF TypeInv, Process, LockVersion, Goto, LockInv, LocksOf, dataVars
  <1>7. CASE Decide(p)
    <2>1. CASE Release(p) /\ GotoClean(p, "failed")
      BY <2>1, ReleasedLocks DEF TypeInv, GotoClean, Idle
    <2>2. CASE /\ proc' = [proc EXCEPT ![p].pc = "lockKeys", ![p].deleted = graph[V(p)]]
               /\ UNCHANGED <<lockVars, runs>>
      <3>1. V(p)' = V(p)
        BY <1>7, <2>2 DEF TypeInv, Process, Decide, V, jobVars
      <3> QED
        BY <1>7, <2>2, <3>1 DEF TypeInv, Process, Decide, LockInv, LocksOf, lockVars
    <2> QED
      BY <1>7, <2>1, <2>2 DEF Decide
  <1>8. CASE LockKeys(p)
    <2>1. V(p)' = V(p) /\ UNCHANGED <<runLock, verLock, runs>> /\ proc[p].pc = "lockKeys"
      BY <1>8 DEF TypeInv, Process, LockKeys, V, jobVars, dataVars
    <2>2. CASE \E k : keyLock' = [keyLock EXCEPT ![k] = p] /\ UNCHANGED proc
      BY <2>1, <2>2 DEF TypeInv, Process, LockInv, LocksOf
    <2>3. CASE /\ OpenKeys(p) = {} /\ UNCHANGED keyLock
               /\ proc' = [proc EXCEPT ![p].pc = "write", ![p].seen = entities]
      BY <2>1, <2>3 DEF TypeInv, Process, LockInv, LocksOf, OpenKeys
    <2> QED
      BY <1>8, <2>2, <2>3 DEF LockKeys
  <1>9. CASE WriteGraph(p)
    <2>1. proc'[p].pc \notin RunHolders
      BY <1>9, Places DEF Labels, WriteGraph
    <2> QED
      BY <1>9, <2>1, ReleasedLocks DEF WriteGraph
  <1>10. CASE ReadMentions(p) \/ ReadRelations(p) \/ Project(p)
    <2>1. proc[p].pc \notin RunHolders /\ proc'[p].pc \notin RunHolders
      BY <1>0, <1>10, Places DEF Labels, ReadMentions, ReadRelations, Project, Process
    <2>2. UNCHANGED lockVars
      BY <1>10 DEF ReadMentions, ReadRelations, Project
    <2> QED
      BY <2>1, <2>2, FreeLocks
  <1>11. CASE FailRun(p) \/ Report(p)
    <2>1. proc[p].pc \notin RunHolders /\ proc'[p].pc \notin RunHolders
      BY <1>11, Places DEF Labels, FailRun, Report
    <2>2. UNCHANGED lockVars
      BY <1>11 DEF FailRun, Report
    <2> QED
      BY <2>1, <2>2, FreeLocks
  <1> QED
    BY <1>1, <1>2, <1>3, <1>4, <1>5, <1>6, <1>7, <1>8, <1>9, <1>10, <1>11 DEF Acts, Step

\* The jobs that are queued are nobody's yet.
LEMMA QueueKeeps ==
    ASSUME TypeInv, WorkInv, NEW j \in Jobs, NEW v \in Versions, QueueBuild(j, v)
    PROVE  /\ UNCHANGED <<owner, lockVars, dataVars, proc, faults, ghosts>>
           /\ \A p \in Procs : proc[p].pc # "idle" => V(p)' = V(p)
  <1>1. /\ job[j] = "none"
        /\ UNCHANGED <<owner, lockVars, dataVars, proc, faults, ghosts>>
    BY DEF QueueBuild
  <1>2. \A i \in Jobs \ {j} : payload'[i] = payload[i]
    BY DEF QueueBuild, TypeInv
  <1> QED
    BY <1>1, <1>2 DEF WorkInv, V

\* Every step keeps it so.
LEMMA LockStep == TypeInv /\ WorkInv /\ LockInv /\ [Next]_vars => LockInv'
  <1> SUFFICES ASSUME TypeInv, WorkInv, LockInv, [Next]_vars PROVE LockInv'
    OBVIOUS
  <1>1. ASSUME NEW j \in Jobs, NEW v \in Versions, QueueBuild(j, v) PROVE LockInv'
    BY <1>1, QueueKeeps DEF LockInv, LocksOf, lockVars, dataVars, VerHolders, RunHolders
  <1>2. ASSUME NEW p \in Procs, Acts(p) PROVE LockInv'
    BY <1>2, OwnLocks, OthersLocks DEF LockInv
  <1>3. CASE UNCHANGED vars
    BY <1>3 DEF vars, LockInv, LocksOf, V, jobVars, lockVars, dataVars
  <1> QED
    BY <1>1, <1>2, <1>3 DEF Next, Acts, QueueByScript

-----------------------------------------------------------------------------
(* The graphs. *)

\* What p is about to replace is what is there, it may replace it, and it knows
\* the entities that have its keys.
BuildOf(p) ==
    /\ proc[p].pc \in {"lockKeys", "write"} => proc[p].deleted = graph[V(p)] /\ ~Refused(p)
    /\ proc[p].pc = "write" => KeysOf(proc[p].result) \cap entities \subseteq proc[p].seen

\* The graph of a version is what one run that succeeded extracted from it.
GraphOf(v) ==
    \/ graph[v] = {}
    \/ \E r \in RunIds, x \in Extracted[v] : runs[r] = "succeeded" /\ graph[v] = Rows(r, x)

GraphInv ==
    /\ \A p \in Procs : BuildOf(p)
    /\ \A v \in Versions : GraphOf(v)

\* Only the transaction that writes a graph changes one, that of its version.
LEMMA GraphChanges ==
    ASSUME TypeInv, NEW p \in Procs, Acts(p)
    PROVE  /\ \A v \in Versions : graph'[v] # graph[v] => proc[p].pc = "write" /\ V(p) = v
           /\ entities' # entities => proc[p].pc = "write" /\ entities' = entities \cup KeysOf(proc[p].result)
  <1>1. CASE WriteGraph(p)
    BY <1>1 DEF WriteGraph, TypeInv
  <1>2. CASE UNCHANGED <<graph, entities>>
    BY <1>2
  <1> QED
    BY <1>1, <1>2 DEF Acts, Step, Crash, Acquire, Prepare, ExtractGraph, PersistAssert, LockRun,
       LockVersion, Decide, LockKeys, ReadMentions, ReadRelations, Project, FailRun, Report, dataVars

\* A run that succeeded stays so.
LEMMA SucceededStays ==
    ASSUME TypeInv, WorkInv, LockInv, NEW p \in Procs, Acts(p), NEW r \in RunIds,
           runs[r] = "succeeded"
    PROVE  runs'[r] = "succeeded"
  <1>1. CASE runs' = runs
    BY <1>1
  <1>2. CASE Prepare(p)
    <2> DEFINE named == payload[proc[p].job].run
               fresh == CHOOSE s \in RunIds :
                           runs[s] = "none" /\ \A t \in 1..(s - 1) : runs[t] # "none"
    <2>1. CASE runs[named] \in {"queued", "running"} /\ runs' = [runs EXCEPT ![named] = "running"]
      BY <2>1 DEF TypeInv
    <2>2. CASE (\E s \in RunIds : runs[s] = "none") /\ runs' = [runs EXCEPT ![fresh] = "running"]
      <3>1. runs[fresh] = "none"
        BY <2>2, FreshRun
      <3> QED
        BY <2>2, <3>1 DEF TypeInv
    <2> QED
      BY <1>1, <1>2, <2>1, <2>2 DEF Prepare
  <1>3. CASE Decide(p)
    <2>1. runs[proc[p].run] = "running"
      BY <1>3 DEF Decide, LockInv, LocksOf, RunHolders
    <2> QED
      BY <1>3, <2>1 DEF Decide, TypeInv
  <1>4. CASE WriteGraph(p)
    BY <1>4 DEF WriteGraph, TypeInv
  <1>5. CASE FailRun(p)
    BY <1>5 DEF FailRun, TypeInv
  <1> QED
    BY <1>1, <1>2, <1>3, <1>4, <1>5 DEF Acts, Step, Crash, Acquire, ExtractGraph, PersistAssert,
       LockRun, LockVersion, LockKeys, ReadMentions, ReadRelations, Project, Report, dataVars

\* The locks of the version and of the keys keep others from changing what q
\* relies on.
LEMMA OthersBuild ==
    ASSUME TypeInv, WorkInv, LockInv, GraphInv, NEW p \in Procs, Acts(p), NEW q \in Procs \ {p}
    PROVE  BuildOf(q)'
  <1>1. proc'[q] = proc[q] /\ V(q)' = V(q)
    BY OthersKeepRecord
  <1>2. proc[q].pc \in {"lockKeys", "write"} => graph'[V(q)] = graph[V(q)]
    <2>1. proc[q].pc \in {"lockKeys", "write"} => V(q) \in Versions /\ verLock[V(q)] = q
      BY HolderFacts DEF LockInv, LocksOf, VerHolders
    <2>2. proc[p].pc = "write" => V(p) \in Versions /\ verLock[V(p)] = p
      BY HolderFacts DEF LockInv, LocksOf, VerHolders
    <2> QED
      BY <2>1, <2>2, GraphChanges
  <1>3. proc[q].pc = "write" => KeysOf(proc[q].result) \cap entities' \subseteq proc[q].seen
    <2>1. proc[q].pc = "write" => \A k \in KeysOf(proc[q].result) : keyLock[k] = q
      BY DEF LockInv, LocksOf
    <2>2. proc[p].pc = "write" => \A k \in KeysOf(proc[p].result) : keyLock[k] = p
      BY DEF LockInv, LocksOf
    <2>3. proc[q].pc = "write" => KeysOf(proc[q].result) \cap entities \subseteq proc[q].seen
      BY DEF GraphInv, BuildOf
    <2> QED
      BY <2>1, <2>2, <2>3, GraphChanges
  <1> QED
    BY <1>1, <1>2, <1>3 DEF GraphInv, BuildOf, Refused

\* And what p knows itself when it moves.
LEMMA OwnBuild ==
    ASSUME TypeInv, WorkInv, LockInv, GraphInv, NEW p \in Procs, Acts(p)
    PROVE  BuildOf(p)'
  <1>0. proc \in [Procs -> Process]
    BY DEF TypeInv
  <1>1. ASSUME proc'[p].pc \notin {"lockKeys", "write"} PROVE BuildOf(p)'
    BY <1>1 DEF BuildOf
  <1>2. CASE Decide(p)
    <2>1. CASE GotoClean(p, "failed")
      BY <1>1, <2>1, Places DEF Labels
    <2>2. CASE /\ ~Refused(p)
               /\ proc' = [proc EXCEPT ![p].pc = "lockKeys", ![p].deleted = graph[V(p)]]
      <3>1. V(p)' = V(p) /\ graph' = graph
        BY <1>0, <1>2, <2>2 DEF Decide, V, jobVars, Process
      <3> QED
        BY <1>0, <2>2, <3>1 DEF BuildOf, Refused, Process
    <2> QED
      BY <1>2, <2>1, <2>2 DEF Decide
  <1>3. CASE LockKeys(p)
    <2>1. V(p)' = V(p) /\ UNCHANGED <<graph, entities>> /\ proc[p].pc = "lockKeys"
      BY <1>0, <1>3 DEF LockKeys, V, jobVars, dataVars, Process
    <2>2. CASE UNCHANGED proc
      BY <2>1, <2>2 DEF GraphInv, BuildOf, Refused
    <2>3. CASE proc' = [proc EXCEPT ![p].pc = "write", ![p].seen = entities]
      BY <1>0, <2>1, <2>3 DEF GraphInv, BuildOf, Refused, Process
    <2> QED
      BY <1>3, <2>2, <2>3 DEF LockKeys
  <1>4. CASE Crash(p) \/ \E j \in Jobs : Acquire(p, j)
    <2>1. ASSUME Crash(p) PROVE proc'[p].pc = "idle"
      BY <1>0, <2>1 DEF Crash, Idle
    <2>2. ASSUME NEW j \in Jobs, Acquire(p, j) PROVE proc'[p].pc = "prepare"
      BY <1>0, <2>2 DEF Acquire, Idle
    <2> QED
      BY <1>1, <1>4, <2>1, <2>2
  <1>5. CASE Prepare(p)
    BY <1>0, <1>1, <1>5, Places DEF Prepare, Labels, Process
  <1>6. CASE ExtractGraph(p)
    BY <1>0, <1>1, <1>6, Places DEF ExtractGraph, Labels, Process
  <1>7. CASE PersistAssert(p) \/ LockRun(p) \/ LockVersion(p)
    BY <1>1, <1>7, Places DEF PersistAssert, LockRun, LockVersion, Labels
  <1>8. CASE ReadMentions(p) \/ ReadRelations(p) \/ Project(p)
    BY <1>0, <1>1, <1>8, Places DEF ReadMentions, ReadRelations, Project, Labels, Process
  <1>9. CASE WriteGraph(p) \/ FailRun(p) \/ Report(p)
    BY <1>1, <1>9, Places DEF WriteGraph, FailRun, Report, Labels
  <1> QED
    BY <1>2, <1>3, <1>4, <1>5, <1>6, <1>7, <1>8, <1>9 DEF Acts, Step

\* A graph is replaced as a whole.
LEMMA GraphsReplaced ==
    ASSUME TypeInv, WorkInv, LockInv, GraphInv, NEW p \in Procs, Acts(p), NEW v \in Versions
    PROVE  GraphOf(v)'
  <1>1. CASE graph'[v] = graph[v]
    BY <1>1, SucceededStays DEF GraphInv, GraphOf
  <1>2. CASE graph'[v] # graph[v]
    <2>1. proc[p].pc = "write" /\ V(p) = v
      BY <1>2, GraphChanges
    <2>2. WriteGraph(p)
      BY <1>2, <2>1 DEF Acts, Step, Crash, Acquire, Prepare, ExtractGraph, PersistAssert, LockRun,
         LockVersion, Decide, LockKeys, ReadMentions, ReadRelations, Project, FailRun, Report,
         dataVars
    <2>3. proc[p].run \in RunIds /\ proc[p].result \in Extracted[v] /\ proc[p].deleted = graph[v]
      BY <2>1, HolderFacts DEF GraphInv, BuildOf, WorkInv, Extracts, RunHolders
    <2>4. /\ graph'[v] = (graph[v] \ proc[p].deleted) \cup Rows(proc[p].run, proc[p].result)
          /\ runs' = [runs EXCEPT ![proc[p].run] = "succeeded"]
      BY <1>2, <2>1, <2>2 DEF WriteGraph, TypeInv
    <2> QED
      BY <2>3, <2>4 DEF GraphOf, TypeInv
  <1> QED
    BY <1>1, <1>2

LEMMA GraphStep == TypeInv /\ WorkInv /\ LockInv /\ GraphInv /\ [Next]_vars => GraphInv'
  <1> SUFFICES ASSUME TypeInv, WorkInv, LockInv, GraphInv, [Next]_vars PROVE GraphInv'
    OBVIOUS
  <1>1. ASSUME NEW j \in Jobs, NEW v \in Versions, QueueBuild(j, v) PROVE GraphInv'
    BY <1>1, QueueKeeps DEF GraphInv, BuildOf, GraphOf, Refused, dataVars
  <1>2. ASSUME NEW p \in Procs, Acts(p) PROVE GraphInv'
    BY <1>2, OwnBuild, OthersBuild, GraphsReplaced DEF GraphInv
  <1>3. CASE UNCHANGED vars
    BY <1>3 DEF vars, GraphInv, BuildOf, GraphOf, Refused, V, jobVars, dataVars
  <1> QED
    BY <1>1, <1>2, <1>3 DEF Next, Acts, QueueByScript

-----------------------------------------------------------------------------
Inv == TypeInv /\ WorkInv /\ LockInv /\ GraphInv

\* Nothing is locked or built at the start.
LEMMA InvInit == Init => Inv
  <1> SUFFICES ASSUME Init PROVE Inv
    OBVIOUS
  <1>1. \A p \in Procs : proc[p].pc = "idle"
    BY DEF Init, Idle
  <1>2. LockInv
    BY <1>1, GraphAssumption DEF Init, LockInv, LocksOf, RunHolders, VerHolders
  <1>3. GraphInv
    BY <1>1 DEF Init, GraphInv, BuildOf, GraphOf
  <1> QED
    BY <1>2, <1>3, TypeInit DEF Inv

LEMMA InvStep == Inv /\ [Next]_vars => Inv'
  BY TypesStep, LockStep, GraphStep DEF Inv

LEMMA InvHolds == Spec => []Inv
  BY InvInit, InvStep, PTL DEF Spec

\* The graph of a version is never a mixture of two builds, and the run it names
\* has succeeded, however many builds of it interleave, lose their lease or die
\* (acquire_graph_index_document_version_lock, persist_extraction_result).
THEOREM OneRunPerGraph == Spec => []GraphOfOneRun
  <1>1. Inv => GraphOfOneRun
    BY DEF Inv, GraphInv, GraphOf, GraphOfOneRun, Rows
  <1> QED
    BY <1>1, InvHolds, PTL

\* No build meets an entity that another one has inserted since it looked:
\* the locks of the keys are held from the look to the commit
\* (acquire_graph_entity_key_locks, list_entities_by_keys).
THEOREM EntitiesNeverConflict == Spec => []NoEntityConflict
  <1>1. Inv => NoEntityConflict
    BY DEF Inv, GraphInv, BuildOf, NoEntityConflict, Conflict
  <1> QED
    BY <1>1, InvHolds, PTL

\* An extraction is complete, partial, by the patterns, or to be repeated.
LEMMA ExtractionCodes ==
    ASSUME NEW v \in Versions, NEW result \in Extracted[v]
    PROVE  result.code \in {"completed", "partial", "fallback", "retryable"}
  <1>1. PICK o : result = Extract(ChunksOf[v], o)
    BY DEF Extracted, Extractions
  <1> DEFINE found == LlmExtract(ChunksOf[v], o)
  <1> HIDE DEF found
  <1>2. \/ result = found /\ found.code \in {"completed", "partial"}
        \/ result = Result("retryable", {}, {})
        \/ result = RuleExtract("fallback", ChunksOf[v])
    BY <1>1 DEF Extract, found
  <1> QED
    BY <1>2 DEF Result, RuleExtract

\* Only a complete extraction replaces a graph: the rows of a version are not
\* lost to an unreachable model or to one that failed for some chunks, even if
\* another build wrote the rows after this one began (persist_extraction_result
\* decides under the lock of the version).
THEOREM GraphSurvivesPartial == Spec => PartialKeepsGraph
  <1> DEFINE kept ==
        \A v \in Versions : (graph[v] # {} /\ graph'[v] # graph[v]) =>
          \E p \in Procs : proc[p].pc = "write" /\ proc[p].result.code \in {"completed", "fallback"}
  <1>1. ASSUME Inv, Next PROVE kept
    <2>1. SUFFICES ASSUME NEW v \in Versions, graph[v] # {}, graph'[v] # graph[v]
                   PROVE  \E p \in Procs : /\ proc[p].pc = "write"
                                           /\ proc[p].result.code \in {"completed", "fallback"}
      OBVIOUS
    <2>2. PICK p \in Procs : Acts(p)
      <3>1. ASSUME NEW j \in Jobs, NEW w \in Versions, QueueBuild(j, w) PROVE FALSE
        BY <2>1, <3>1 DEF QueueBuild, dataVars
      <3> QED
        BY <1>1, <3>1 DEF Next, QueueByScript, Acts
    <2>3. proc[p].pc = "write" /\ V(p) = v
      BY <1>1, <2>1, <2>2, GraphChanges DEF Inv
    <2>4. ~Refused(p) /\ proc[p].result \in Extracted[v]
      BY <1>1, <2>3 DEF Inv, GraphInv, BuildOf, WorkInv, Extracts, RunHolders
    <2> QED
      BY <2>1, <2>3, <2>4, ExtractionCodes DEF Refused
  <1>2. Inv /\ [Next]_vars => [kept]_vars
    BY <1>1
  <1> QED
    BY <1>2, InvHolds, PTL DEF Spec, PartialKeepsGraph

\* A relation joins two entities that the same extraction mentions in its chunk.
Grounded(result) ==
    \A r \in result.relations :
        r[1] # r[2] /\ \A e \in {r[1], r[2]} : <<e, r[3]>> \in result.mentions

\* If every extraction is grounded in itself, then so is every graph, since it
\* is that of one extraction at any time: the mentions a relation needs are not
\* taken away by another build (_persist_mentions, _persist_relations).
THEOREM RelationsStayGrounded ==
    ASSUME \A v \in Versions : \A result \in Extracted[v] : Grounded(result)
    PROVE  Spec => []RelationsGrounded
  <1>1. ASSUME GraphInv PROVE RelationsGrounded
    <2> SUFFICES ASSUME NEW v \in Versions, NEW x \in RowsOfKind(v, "relation")
                 PROVE  /\ x.row[1] # x.row[2]
                        /\ \A e \in {x.row[1], x.row[2]} :
                              \E m \in RowsOfKind(v, "mention") : m.row = <<e, x.row[3]>>
      BY DEF RelationsGrounded
    <2>1. x \in graph[v] /\ x.kind = "relation"
      BY DEF RowsOfKind
    <2>2. PICK r \in RunIds, found \in Extracted[v] : graph[v] = Rows(r, found)
      BY <1>1, <2>1 DEF GraphInv, GraphOf
    <2>3. x.row \in found.relations
      BY <2>1, <2>2 DEF Rows
    <2>4. \A m \in found.mentions :
            [run |-> r, kind |-> "mention", row |-> m] \in RowsOfKind(v, "mention")
      BY <2>2 DEF Rows, RowsOfKind
    <2> QED
      BY <2>3, <2>4 DEF Grounded
  <1>2. Inv => RelationsGrounded
    BY <1>1 DEF Inv
  <1> QED
    BY <1>2, InvHolds, PTL

-----------------------------------------------------------------------------
(* The projection. *)

\* A version without overlapping builds has one at a time.
AloneInv ==
    \A v \in Versions \ overlapped : \A p, q \in Procs :
        (proc[p].pc # "idle" /\ proc[q].pc # "idle" /\ V(p) = v /\ V(q) = v) => p = q

\* What it has read of the graph is what is there.
ReadOf(p) ==
    (proc[p].pc # "idle" /\ V(p) \notin overlapped) =>
        /\ proc[p].pc = "readRelations" => proc[p].rows = RowsOfKind(V(p), "mention")
        /\ proc[p].pc = "project" => proc[p].rows = graph[V(p)]

ProjectedInv == \A v \in Versions \ (overlapped \cup skipped) : neo[v] = graph[v]

ProjectionInv == AloneInv /\ (\A p \in Procs : ReadOf(p)) /\ ProjectedInv

\* A process works on one version until it is idle again.
LEMMA SameVersion ==
    ASSUME TypeInv, NEW p \in Procs, Step(p) \/ Crash(p), proc'[p].pc # "idle"
    PROVE  proc[p].pc # "idle" /\ V(p)' = V(p)
  <1>0. proc \in [Procs -> Process]
    BY DEF TypeInv
  <1>1. payload' = payload
    BY DEF Step, Crash, Prepare, ExtractGraph, PersistAssert, LockRun, LockVersion, Decide, LockKeys,
           WriteGraph, ReadMentions, ReadRelations, Project, FailRun, Report, jobVars
  <1>2. ASSUME NEW l, Goto(p, l) \/ GotoClean(p, l) PROVE proc'[p].job = proc[p].job
    <2>1. CASE Goto(p, l)
      <3>1. proc'[p] = [proc[p] EXCEPT !.pc = l]
        BY <1>0, <2>1 DEF Goto
      <3> QED
        BY <1>0, <3>1 DEF Process
    <2>2. CASE GotoClean(p, l)
      BY <1>0, <2>2 DEF GotoClean, Idle
    <2> QED
      BY <1>2, <2>1, <2>2
  <1>3. proc[p].pc # "idle" /\ proc'[p].job = proc[p].job
    <2>1. CASE Crash(p) \/ Report(p)
      BY <2>1, <1>0 DEF Crash, Report, DropJob, Idle
    <2>2. CASE Prepare(p)
      BY <1>0, <1>2, <2>2, Places DEF Prepare, Process
    <2>3. CASE ExtractGraph(p)
      BY <1>0, <1>2, <2>3 DEF ExtractGraph, Process
    <2>4. CASE PersistAssert(p) \/ LockRun(p) \/ LockVersion(p)
      BY <1>2, <2>4, Places DEF PersistAssert, LockRun, LockVersion
    <2>5. CASE Decide(p)
      BY <1>0, <1>2, <2>5 DEF Decide, Process
    <2>6. CASE LockKeys(p)
      BY <1>0, <2>6 DEF LockKeys, Process
    <2>7. CASE WriteGraph(p) \/ ReadMentions(p) \/ ReadRelations(p) \/ Project(p)
      BY <1>0, <1>2, <2>7 DEF WriteGraph, ReadMentions, ReadRelations, Project, Process
    <2>8. CASE FailRun(p)
      BY <1>2, <2>8, Places DEF FailRun
    <2> QED
      BY <2>1, <2>2, <2>3, <2>4, <2>5, <2>6, <2>7, <2>8 DEF Step
  <1> QED
    BY <1>1, <1>3 DEF V

LEMMA OverlapGrows ==
    ASSUME NEW p \in Procs, Acts(p) PROVE overlapped \subseteq overlapped'
  BY DEF Acts, Step, Crash, Acquire, Prepare, ExtractGraph, PersistAssert, LockRun, LockVersion,
         Decide, LockKeys, WriteGraph, ReadMentions, ReadRelations, Project, FailRun, Report, ghosts

\* A second build of a version is noted when it starts.
LEMMA AloneStep ==
    ASSUME TypeInv, WorkInv, AloneInv, NEW p \in Procs, Acts(p) PROVE AloneInv'
  <1>1. \A q \in Procs \ {p} : proc'[q] = proc[q] /\ V(q)' = V(q)
    BY OthersKeepRecord
  <1>2. CASE Step(p) \/ Crash(p)
    BY <1>1, <1>2, SameVersion, OverlapGrows DEF AloneInv
  <1>3. ASSUME NEW j \in Jobs, Acquire(p, j) PROVE AloneInv'
    <2>1. proc'[p].job = j /\ V(p)' = payload[j].version
      BY <1>3 DEF Acquire, Idle, TypeInv, V
    <2>2. \A q \in Procs \ {p} : (proc[q].pc # "idle" /\ V(q) = payload[j].version) =>
                                     payload[j].version \in overlapped'
      BY <1>3 DEF Acquire
    <2> QED
      BY <1>1, <2>1, <2>2, OverlapGrows DEF AloneInv
  <1> QED
    BY <1>2, <1>3 DEF Acts

\* What the others have read stays true.
LEMMA OthersRead ==
    ASSUME Inv, ProjectionInv, NEW p \in Procs, Acts(p), NEW q \in Procs \ {p} PROVE ReadOf(q)'
  <1> USE DEF Inv
  <1>1. proc'[q] = proc[q] /\ V(q)' = V(q)
    BY OthersKeepRecord
  <1>2. (proc[q].pc # "idle" /\ V(q) \notin overlapped) => graph'[V(q)] = graph[V(q)]
    <2>1. SUFFICES ASSUME proc[q].pc # "idle", V(q) \notin overlapped, graph'[V(q)] # graph[V(q)]
                   PROVE  FALSE
      OBVIOUS
    <2>2. V(q) \in Versions
      BY <2>1, HolderFacts
    <2>3. proc[p].pc = "write" /\ V(p) = V(q)
      BY <2>1, <2>2, GraphChanges
    <2> QED
      BY <2>1, <2>2, <2>3 DEF ProjectionInv, AloneInv
  <1> QED
    BY <1>1, <1>2, OverlapGrows DEF ProjectionInv, ReadOf, RowsOfKind

\* And p reads what is there.
LEMMA OwnRead ==
    ASSUME Inv, ProjectionInv, NEW p \in Procs, Acts(p) PROVE ReadOf(p)'
  <1> USE DEF Inv
  <1>0. proc \in [Procs -> Process]
    BY DEF TypeInv
  <1>1. ASSUME proc'[p].pc \notin {"readRelations", "project"} PROVE ReadOf(p)'
    BY <1>1 DEF ReadOf
  <1>2. CASE ReadMentions(p)
    <2>1. CASE GotoClean(p, "succeeded")
      BY <1>1, <2>1, Places DEF Labels
    <2>2. CASE proc' = [proc EXCEPT ![p].pc = "readRelations", ![p].rows = RowsOfKind(V(p), "mention")]
      <3>1. V(p)' = V(p) /\ graph' = graph
        BY <1>0, <1>2, <2>2 DEF ReadMentions, V, jobVars, dataVars, Process
      <3> QED
        BY <1>0, <2>2, <3>1 DEF ReadOf, RowsOfKind, Process
    <2> QED
      BY <1>2, <2>1, <2>2 DEF ReadMentions
  <1>3. CASE ReadRelations(p)
    <2>1. /\ proc[p].pc = "readRelations" /\ V(p)' = V(p) /\ UNCHANGED <<graph, overlapped>>
          /\ proc'[p].pc = "project"
          /\ proc'[p].rows = proc[p].rows \cup RowsOfKind(V(p), "relation")
      BY <1>0, <1>3 DEF ReadRelations, V, jobVars, dataVars, ghosts, Process
    <2>2. graph[V(p)] = RowsOfKind(V(p), "mention") \cup RowsOfKind(V(p), "relation")
      <3>1. V(p) \in Versions
        BY <2>1, HolderFacts
      <3>2. \A x \in graph[V(p)] : x.kind \in {"mention", "relation"}
        BY <3>1 DEF GraphInv, GraphOf, Rows
      <3> QED
        BY <3>2 DEF RowsOfKind
    <2> QED
      BY <2>1, <2>2 DEF ProjectionInv, ReadOf
  <1>4. CASE Crash(p) \/ \E j \in Jobs : Acquire(p, j)
    <2>1. ASSUME Crash(p) PROVE proc'[p].pc = "idle"
      BY <1>0, <2>1 DEF Crash, Idle
    <2>2. ASSUME NEW j \in Jobs, Acquire(p, j) PROVE proc'[p].pc = "prepare"
      BY <1>0, <2>2 DEF Acquire, Idle
    <2> QED
      BY <1>1, <1>4, <2>1, <2>2
  <1>5. CASE Prepare(p)
    BY <1>0, <1>1, <1>5, Places DEF Prepare, Labels, Process
  <1>6. CASE ExtractGraph(p)
    BY <1>0, <1>1, <1>6, Places DEF ExtractGraph, Labels, Process
  <1>7. CASE PersistAssert(p) \/ LockRun(p) \/ LockVersion(p)
    BY <1>1, <1>7, Places DEF PersistAssert, LockRun, LockVersion, Labels
  <1>8. CASE Decide(p)
    BY <1>0, <1>1, <1>8, Places DEF Decide, Labels, Process
  <1>9. CASE LockKeys(p)
    BY <1>0, <1>1, <1>9 DEF LockKeys, Process
  <1>10. CASE WriteGraph(p) \/ Project(p) \/ FailRun(p) \/ Report(p)
    BY <1>1, <1>10, Places DEF WriteGraph, Project, FailRun, Report, Labels
  <1> QED
    BY <1>2, <1>3, <1>4, <1>5, <1>6, <1>7, <1>8, <1>9, <1>10 DEF Acts, Step

\* Neo4j follows when it is written, and the note says when it is not.
LEMMA ProjectedStep ==
    ASSUME Inv, ProjectionInv, NEW p \in Procs, Acts(p) PROVE ProjectedInv'
  <1> USE DEF Inv
  <1>1. CASE WriteGraph(p)
    BY <1>1 DEF WriteGraph, TypeInv, ProjectionInv, ProjectedInv, jobVars
  <1>2. CASE Project(p)
    <2>1. proc[p].pc = "project" /\ UNCHANGED <<graph, overlapped>>
      BY <1>2 DEF Project
    <2>2. V(p) \notin overlapped => proc[p].rows = graph[V(p)]
      BY <2>1 DEF ProjectionInv, ReadOf
    <2>3. \/ neo' = [neo EXCEPT ![V(p)] = proc[p].rows] /\ skipped' = skipped \ {V(p)}
          \/ UNCHANGED <<neo, skipped>>
      BY <1>2 DEF Project
    <2> QED
      BY <2>1, <2>2, <2>3 DEF TypeInv, ProjectionInv, ProjectedInv
  <1>3. CASE UNCHANGED <<neo, graph, skipped>>
    BY <1>3, OverlapGrows DEF ProjectionInv, ProjectedInv
  <1> QED
    BY <1>1, <1>2, <1>3 DEF Acts, Step, Crash, Acquire, Prepare, ExtractGraph, PersistAssert, LockRun,
       LockVersion, Decide, LockKeys, ReadMentions, ReadRelations, FailRun, Report, dataVars, ghosts

LEMMA ProjectionStep == Inv /\ ProjectionInv /\ [Next]_vars => ProjectionInv'
  <1> SUFFICES ASSUME Inv, ProjectionInv, [Next]_vars PROVE ProjectionInv'
    OBVIOUS
  <1>1. ASSUME NEW j \in Jobs, NEW v \in Versions, QueueBuild(j, v) PROVE ProjectionInv'
    BY <1>1, QueueKeeps DEF Inv, ProjectionInv, AloneInv, ReadOf, ProjectedInv, RowsOfKind, dataVars,
       ghosts
  <1>2. ASSUME NEW p \in Procs, Acts(p) PROVE ProjectionInv'
    BY <1>2, AloneStep, OthersRead, OwnRead, ProjectedStep DEF Inv, ProjectionInv
  <1>3. CASE UNCHANGED vars
    BY <1>3 DEF vars, ProjectionInv, AloneInv, ReadOf, ProjectedInv, RowsOfKind, V, jobVars, dataVars,
       ghosts
  <1> QED
    BY <1>1, <1>2, <1>3 DEF Next, Acts, QueueByScript

\* Where the builds of a version followed each other, and Neo4j took the latest
\* projection, it has the rows of PostgreSQL, although these are read by two
\* statements that each have a snapshot of their own (_load_projection_rows,
\* _replace_document_version_projection).
THEOREM ProjectionIsFaithful == Spec => []ProjectionFollows
  <1>1. Init => ProjectionInv
    BY DEF Init, ProjectionInv, AloneInv, ReadOf, ProjectedInv, Idle
  <1>2. ProjectionInv => ProjectionFollows
    BY DEF ProjectionInv, ProjectedInv, ProjectionFollows
  <1> QED
    BY <1>1, <1>2, ProjectionStep, InvHolds, PTL DEF Spec

-----------------------------------------------------------------------------
(* The order of the locks. *)

\* A process that still takes keys has those below the ones it waits for.
OrderOf(p) ==
    proc[p].pc = "lockKeys" =>
        \A k \in Keys : keyLock[k] = p => \A o \in OpenKeys(p) : k < o

OrderInv == \A p \in Procs : OrderOf(p)

LEMMA KeysAreNumbers == Keys \subseteq Nat
  BY GraphAssumption

\* The next key is an open one, and the least of them.
LEMMA NextKeyLeast ==
    ASSUME WorkInv, NEW p \in Procs, proc[p].pc = "lockKeys", OpenKeys(p) # {}
    PROVE  /\ OpenKeys(p) \subseteq Keys
           /\ NextKey(p) \in OpenKeys(p) /\ \A o \in OpenKeys(p) : NextKey(p) <= o
  <1>1. OpenKeys(p) \subseteq Keys
    BY HolderFacts DEF OpenKeys, Extracts, RunHolders
  <1>2. OpenKeys(p) \subseteq Nat
    BY <1>1, KeysAreNumbers
  <1> QED
    BY <1>1, <1>2, MinLeast DEF NextKey

LEMMA OthersOrder ==
    ASSUME Inv, OrderInv, NEW p \in Procs, Acts(p), NEW q \in Procs \ {p} PROVE OrderOf(q)'
  <1> USE DEF Inv
  <1>1. proc'[q] = proc[q]
    BY OthersKeepRecord
  <1>2. \A k \in Keys : keyLock'[k] = q <=> keyLock[k] = q
    BY OthersKeepLocks
  <1>3. proc[q].pc = "lockKeys" => KeysOf(proc[q].result) \subseteq Keys
    BY HolderFacts DEF Extracts, RunHolders
  <1>4. proc[q].pc = "lockKeys" => OpenKeys(q)' = OpenKeys(q)
    BY <1>1, <1>2, <1>3 DEF OpenKeys
  <1> QED
    BY <1>1, <1>2, <1>4 DEF OrderInv, OrderOf

LEMMA OwnOrder ==
    ASSUME Inv, OrderInv, NEW p \in Procs, Acts(p) PROVE OrderOf(p)'
  <1> USE DEF Inv
  <1>0. proc \in [Procs -> Process]
    BY DEF TypeInv
  <1>1. ASSUME proc'[p].pc # "lockKeys" PROVE OrderOf(p)'
    BY <1>1 DEF OrderOf
  <1>2. CASE Decide(p)
    <2>1. CASE GotoClean(p, "failed")
      BY <1>1, <2>1, Places DEF Labels
    <2>2. CASE UNCHANGED lockVars
      <3>1. \A k \in Keys : keyLock'[k] # p
        BY <1>2, <2>2 DEF Decide, LockInv, LocksOf, lockVars
      <3> QED
        BY <3>1 DEF OrderOf
    <2> QED
      BY <1>2, <2>1, <2>2 DEF Decide
  <1>3. CASE LockKeys(p)
    <2>1. CASE proc' = [proc EXCEPT ![p].pc = "write", ![p].seen = entities]
      BY <1>0, <1>1, <2>1 DEF Process
    <2>2. CASE /\ OpenKeys(p) # {} /\ keyLock[NextKey(p)] = NoProc /\ UNCHANGED proc
               /\ keyLock' = [keyLock EXCEPT ![NextKey(p)] = p]
      <3>1. proc[p].pc = "lockKeys"
        BY <1>3 DEF LockKeys
      <3>2. /\ OpenKeys(p) \subseteq Keys
            /\ NextKey(p) \in OpenKeys(p) /\ \A o \in OpenKeys(p) : NextKey(p) <= o
        BY <2>2, <3>1, NextKeyLeast
      <3>3. OpenKeys(p)' = OpenKeys(p) \ {NextKey(p)}
        <4>1. keyLock'[NextKey(p)] = p
          BY <2>2, <3>2 DEF TypeInv
        <4>2. \A k \in Keys \ {NextKey(p)} : keyLock'[k] = keyLock[k]
          BY <2>2 DEF TypeInv
        <4>3. KeysOf(proc[p].result) \subseteq Keys
          BY <3>1, HolderFacts DEF Extracts, RunHolders
        <4> QED
          BY <2>2, <4>1, <4>2, <4>3 DEF OpenKeys
      <3>4. \A k \in Keys : keyLock'[k] = p => k = NextKey(p) \/ keyLock[k] = p
        BY <2>2 DEF TypeInv
      <3>5. \A o \in OpenKeys(p)' : NextKey(p) < o
        <4> SUFFICES ASSUME NEW o \in OpenKeys(p) \ {NextKey(p)} PROVE NextKey(p) < o
          BY <3>3
        <4>1. NextKey(p) \in Nat /\ o \in Nat /\ NextKey(p) <= o /\ o # NextKey(p)
          BY <3>2, KeysAreNumbers
        <4> QED
          BY <4>1
      <3>6. \A k \in Keys : keyLock[k] = p => \A o \in OpenKeys(p) : k < o
        BY <3>1 DEF OrderInv, OrderOf
      <3> QED
        BY <3>3, <3>4, <3>5, <3>6 DEF OrderOf
    <2> QED
      BY <1>3, <2>1, <2>2 DEF LockKeys
  <1>4. CASE Crash(p) \/ \E j \in Jobs : Acquire(p, j)
    <2>1. ASSUME Crash(p) PROVE proc'[p].pc = "idle"
      BY <1>0, <2>1 DEF Crash, Idle
    <2>2. ASSUME NEW j \in Jobs, Acquire(p, j) PROVE proc'[p].pc = "prepare"
      BY <1>0, <2>2 DEF Acquire, Idle
    <2> QED
      BY <1>1, <1>4, <2>1, <2>2
  <1>5. CASE Prepare(p)
    BY <1>0, <1>1, <1>5, Places DEF Prepare, Labels, Process
  <1>6. CASE ExtractGraph(p)
    BY <1>0, <1>1, <1>6, Places DEF ExtractGraph, Labels, Process
  <1>7. CASE PersistAssert(p) \/ LockRun(p) \/ LockVersion(p)
    BY <1>1, <1>7, Places DEF PersistAssert, LockRun, LockVersion, Labels
  <1>8. CASE ReadMentions(p) \/ ReadRelations(p)
    BY <1>0, <1>1, <1>8, Places DEF ReadMentions, ReadRelations, Labels, Process
  <1>9. CASE WriteGraph(p) \/ Project(p) \/ FailRun(p) \/ Report(p)
    BY <1>1, <1>9, Places DEF WriteGraph, Project, FailRun, Report, Labels
  <1> QED
    BY <1>2, <1>3, <1>4, <1>5, <1>6, <1>7, <1>8, <1>9 DEF Acts, Step

LEMMA OrderStep == Inv /\ OrderInv /\ [Next]_vars => OrderInv'
  <1> SUFFICES ASSUME Inv, OrderInv, [Next]_vars PROVE OrderInv'
    OBVIOUS
  <1>1. ASSUME NEW j \in Jobs, NEW v \in Versions, QueueBuild(j, v) PROVE OrderInv'
    BY <1>1 DEF QueueBuild, OrderInv, OrderOf, OpenKeys, lockVars
  <1>2. ASSUME NEW p \in Procs, Acts(p) PROVE OrderInv'
    BY <1>2, OthersOrder, OwnOrder DEF OrderInv
  <1>3. CASE UNCHANGED vars
    BY <1>3 DEF vars, OrderInv, OrderOf, OpenKeys, lockVars
  <1> QED
    BY <1>1, <1>2, <1>3 DEF Next, Acts, QueueByScript

\* Who is waited for holds its run; who then waits, waits for a version or a key.
LEMMA WaitedHolds ==
    ASSUME Inv, NEW p \in Procs, NEW q \in Procs, WaitsFor(p, q)
    PROVE  /\ proc[q].pc \in RunHolders
           /\ proc[p].pc = "lockVersion" => proc[q].pc \in VerHolders
           /\ proc[p].pc = "lockKeys" => /\ OpenKeys(p) # {} /\ keyLock[NextKey(p)] = q
                                         /\ proc[q].pc \in {"lockKeys", "write"}
  <1> USE DEF Inv
  <1>1. CASE proc[p].pc \in {"lockRun", "failRun"} /\ runLock[proc[p].run] = q
    <2>1. proc[p].run \in RunIds
      BY <1>1 DEF WorkInv, Extracts
    <2> QED
      BY <1>1, <2>1 DEF LockInv, LocksOf
  <1>2. CASE proc[p].pc = "lockVersion" /\ verLock[V(p)] = q
    BY <1>2, HolderFacts DEF LockInv, LocksOf, VerHolders, RunHolders
  <1>3. CASE proc[p].pc = "lockKeys" /\ OpenKeys(p) # {} /\ keyLock[NextKey(p)] = q
    BY <1>3, NextKeyLeast DEF LockInv, LocksOf, RunHolders
  <1> QED
    BY <1>1, <1>2, <1>3 DEF WaitsFor

\* A set of processes that all wait for each other has members that wait for a
\* key, and among these each waits for one that waits for a greater key.
LEMMA NoCircle == Inv /\ OrderInv => NoLockCycle
  <1> SUFFICES ASSUME Inv, OrderInv, NEW S \in (SUBSET Procs) \ {{}},
                      \A p \in S : \E q \in S : WaitsFor(p, q)
               PROVE  FALSE
    BY DEF NoLockCycle
  <1> DEFINE T == {p \in S : proc[p].pc = "lockKeys" /\ OpenKeys(p) # {}}
  <1>1. \A p \in S : proc[p].pc \in {"lockRun", "failRun", "lockVersion", "lockKeys"}
    BY DEF WaitsFor
  <1>2. T # {}
    <2>1. PICK p \in S : TRUE
      OBVIOUS
    <2>2. PICK q \in S : proc[q].pc \in RunHolders
      BY <2>1, WaitedHolds
    <2>3. PICK r \in S : WaitsFor(q, r)
      OBVIOUS
    <2>4. CASE proc[q].pc = "lockKeys"
      BY <2>3, <2>4, WaitedHolds
    <2>5. CASE proc[q].pc = "lockVersion"
      <3>1. proc[r].pc = "lockKeys"
        BY <1>1, <2>3, <2>5, WaitedHolds DEF VerHolders
      <3>2. PICK s \in S : WaitsFor(r, s)
        OBVIOUS
      <3> QED
        BY <3>1, <3>2, WaitedHolds
    <2> QED
      BY <1>1, <2>2, <2>4, <2>5 DEF RunHolders
  <1>3. ASSUME NEW p \in T PROVE \E q \in T : NextKey(p) < NextKey(q)
    <2>1. PICK q \in S : WaitsFor(p, q)
      BY <1>3
    <2>2. keyLock[NextKey(p)] = q /\ proc[q].pc = "lockKeys"
      BY <1>1, <1>3, <2>1, WaitedHolds
    <2>3. PICK r \in S : WaitsFor(q, r)
      OBVIOUS
    <2>4. OpenKeys(q) # {}
      BY <2>2, <2>3, WaitedHolds
    <2>5. NextKey(p) \in Keys /\ NextKey(q) \in OpenKeys(q)
      BY <1>3, <2>2, <2>4, NextKeyLeast DEF Inv
    <2>6. NextKey(p) < NextKey(q)
      BY <2>2, <2>5 DEF OrderInv, OrderOf
    <2> QED
      BY <2>2, <2>4, <2>6
  <1>4. PICK n \in Nat : Keys \subseteq 0..n
    <2>1. PICK n \in Keys \cup {0} : Keys \subseteq 0..n
      BY GraphAssumption
    <2>2. n \in Nat
      BY <2>1
    <2> QED
      BY <2>1, <2>2
  <1>5. \A p \in T : NextKey(p) \in 0..n
    BY <1>4, NextKeyLeast DEF Inv
  <1> DEFINE Above == {n - NextKey(p) : p \in T}
  <1>6. PICK x \in Above : \A y \in Above : x <= y
    <2>1. Above \subseteq Nat /\ Above # {}
      BY <1>2, <1>5
    <2> QED
      BY <2>1, LeastExists
  <1>7. PICK p \in T : x = n - NextKey(p)
    BY <1>6
  <1>8. PICK q \in T : NextKey(p) < NextKey(q)
    BY <1>3
  <1>9. n - NextKey(p) <= n - NextKey(q)
    BY <1>6, <1>7
  <1> QED
    BY <1>5, <1>8, <1>9

\* The builds lock the run, the version and the keys in their order, so they
\* never wait for each other in a circle (the FOR UPDATE of get_graph_index_run,
\* acquire_graph_index_document_version_lock, acquire_graph_entity_key_locks in
\* sorted order).
THEOREM LocksWithoutCircle == Spec => []NoLockCycle
  <1>1. Init => OrderInv
    BY DEF Init, OrderInv, OrderOf, Idle
  <1> QED
    BY <1>1, NoCircle, OrderStep, InvHolds, PTL DEF Spec
=============================================================================
