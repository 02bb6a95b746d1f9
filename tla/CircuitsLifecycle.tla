------------------------- MODULE CircuitsLifecycle -------------------------
(* pallet-ocw-circuits implements JobLifecycle. *)
EXTENDS OcwCircuits

\* a run has read job j and may still take it
HeldUntaken(j) ==
    \E r \in Runs : pc[r] \in {"loaded", "locked"} /\ local[r].indexing_data.job = j

\* where job j is, seen from the entries, the events and the runs
JobStatus(j) ==
    IF j > nJobs THEN "none"
    ELSE IF j \in {indexed.job, oci_mem.job} THEN "waiting"
    ELSE IF deposited[j] > 0 THEN "published"
    ELSE IF attempts[j] > 0 THEN "taken"
    ELSE IF HeldUntaken(j) THEN "waiting"
    ELSE "lost"

Lifecycle == INSTANCE JobLifecycle WITH status <- [j \in Jobs |-> JobStatus(j)]

\* Every step of users, runs, callbacks, the node and its restarts is a step of
\* JobLifecycle or leaves every job where it is: a job a run took never waits
\* again, a lost job stays lost, only a job that was taken is published, and
\* none is lost unless another job came into its place or was taken from it.
ImplementsLifecycle == Lifecycle!Spec
=============================================================================
