----------------------------- MODULE MCJobQueue -----------------------------
(* Instances of JobQueue for TLC. *)
EXTENDS JobQueue, TLC

CONSTANTS w1, w2, c1, c2

\* Both workers serve every type.
AllEnabled == [w \in Workers |-> JobTypes]

\* w2 is configured with WORKER_ENABLED_JOB_TYPES = ingest.
W2OnlyIngest == [w \in Workers |-> IF w = w2 THEN {"ingest"} ELSE JobTypes]

Interchangeable == Permutations(Workers) \cup Permutations(Clients)
=============================================================================
