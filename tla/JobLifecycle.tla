---------------------------- MODULE JobLifecycle ----------------------------
(***************************************************************************)
(* What the job table promises to the rest of the system, with the leases, *)
(* the worker processes and the transactions left out:                     *)
(*                                                                         *)
(*  - a job is executed at least once, in numbered attempts;               *)
(*  - it is completed at most once, by its LATEST attempt;                 *)
(*  - a completed job never changes again;                                 *)
(*  - a failed job is repeated by a new job that points at the first job   *)
(*    of the lineage, and at most one job of a lineage is active.          *)
(*                                                                         *)
(* JobQueue implements this specification.                                 *)
(***************************************************************************)
EXTENDS Naturals

CONSTANTS
    Jobs      \* job ids (jobs.job_id), a set of positive naturals

VARIABLES
    phase,    \* jobs.status, "absent" before the row is inserted
    attempt,  \* the number of times the job has been handed to a worker
    origin,   \* jobs.retry_of_job_id, 0 for NULL
    doneBy    \* the attempt whose result was stored, 0 while there is none

lifecycleVars == <<phase, attempt, origin, doneBy>>

ActivePhases == {"queued", "running"}
FinalPhases  == {"succeeded", "failed", "canceled"}

Init ==
    /\ phase = [j \in Jobs |-> "absent"]
    /\ attempt = [j \in Jobs |-> 0]
    /\ origin = [j \in Jobs |-> 0]
    /\ doneBy = [j \in Jobs |-> 0]

Submit(j) ==
    /\ phase[j] = "absent"
    /\ phase' = [phase EXCEPT ![j] = "queued"]
    /\ UNCHANGED <<attempt, origin, doneBy>>

\* A new job j repeats the failed lineage that started with job r.
Resubmit(j, r) ==
    /\ phase[j] = "absent"
    /\ phase[r] = "failed"
    /\ origin[r] = 0
    /\ \A i \in Jobs : origin[i] = r => phase[i] \notin ActivePhases
    /\ phase' = [phase EXCEPT ![j] = "queued"]
    /\ origin' = [origin EXCEPT ![j] = r]
    /\ UNCHANGED <<attempt, doneBy>>

\* One worker takes a batch S; a running job may be taken again.
Claim(S) ==
    /\ \A j \in S : phase[j] \in ActivePhases
    /\ phase' = [j \in Jobs |-> IF j \in S THEN "running" ELSE phase[j]]
    /\ attempt' = [j \in Jobs |-> IF j \in S THEN attempt[j] + 1 ELSE attempt[j]]
    /\ UNCHANGED <<origin, doneBy>>

\* Only the latest attempt may complete the job.
Complete(j, outcome) ==
    /\ phase[j] = "running"
    /\ phase' = [phase EXCEPT ![j] = outcome]
    /\ doneBy' = [doneBy EXCEPT ![j] = attempt[j]]
    /\ UNCHANGED <<attempt, origin>>

Withdraw(j) ==
    /\ phase[j] \in ActivePhases
    /\ phase' = [phase EXCEPT ![j] = "canceled"]
    /\ UNCHANGED <<attempt, origin, doneBy>>

Next ==
    \/ \E j \in Jobs : Submit(j) \/ Withdraw(j)
    \/ \E j, r \in Jobs : Resubmit(j, r)
    \/ \E S \in SUBSET Jobs : Claim(S)
    \/ \E j \in Jobs, outcome \in {"succeeded", "failed"} : Complete(j, outcome)

Spec == Init /\ [][Next]_lifecycleVars
=============================================================================
