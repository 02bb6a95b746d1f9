-------------------------- MODULE GarbleLifecycle --------------------------
(* pallet-ocw-garble implements JobLifecycle. *)
EXTENDS OcwGarble

\* a run has read job j and may still take it
HeldUntaken(j) ==
    \E r \in Runs : pc[r] \in {"loaded", "locked"} /\ local[r].indexing_data.job = j

\* a garbled and stripped package of job j was announced
Announced(j) == \E e \in announced : e[2].job = j

\* where job j is; a GarbleStandard job stays "taken", nothing of it is stored
JobStatus(j) ==
    IF j > nJobs THEN "none"
    ELSE IF j \in {indexed.job, oci_mem.job} THEN "waiting"
    ELSE IF Announced(j) THEN "published"
    ELSE IF attempts[j] > 0 THEN "taken"
    ELSE IF HeldUntaken(j) THEN "waiting"
    ELSE "lost"

Lifecycle == INSTANCE JobLifecycle WITH status <- [j \in Jobs |-> JobStatus(j)]

\* Every step of requests, runs, callbacks and the node is a step of JobLifecycle
\* or leaves every job where it is: a request whose job was cleared never waits
\* again (a run that read it before may garble it once more), is announced only if a
\* run took it, and is lost before that only to another request.
ImplementsLifecycle == Lifecycle!Spec
=============================================================================
