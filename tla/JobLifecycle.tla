---------------------------- MODULE JobLifecycle ----------------------------
(***************************************************************************)
(* What the two worker pallets promise about a job, whatever their runs,   *)
(* locks, callbacks and restarts do.  Jobs are numbered in the order they  *)
(* are submitted.  A job waits, is taken by a worker at most once (a       *)
(* repeated attempt is not visible here) and may then be published.  There *)
(* is one place for a waiting job, so it may be lost before it is taken,   *)
(* but only to another job: a later one that came into its place, or an    *)
(* earlier one that was taken while it stood there.                        *)
(***************************************************************************)
EXTENDS Naturals

CONSTANT Jobs          \* the job numbers, 1 .. n

VARIABLE status        \* status[j]: where job j is

Statuses == {"none", "waiting", "taken", "published", "lost"}

InState(s) == {j \in Jobs : status[j] = s}

Init == status = [j \in Jobs |-> "none"]

-----------------------------------------------------------------------------
\* the step from which the waiting jobs of L do not come back
Becomes(changed, s, L) ==
    status' = [j \in Jobs |-> IF j \in L THEN "lost"
                              ELSE IF j \in changed THEN s ELSE status[j]]

\* a later job was submitted by now, or an earlier one was taken
Displaced(j, changed) ==
    \E k \in Jobs \ {j} :
        /\ k > j => status[k] # "none" \/ k \in changed
        /\ k < j => status[k] \in {"taken", "published"} \/ k \in changed

Lost(L, changed) ==
    /\ L \subseteq InState("waiting") \ changed
    /\ \A j \in L : Displaced(j, changed)

\* the next job comes in
Submit(j) ==
    /\ status[j] = "none"
    /\ \A i \in Jobs : i < j => status[i] # "none"
    /\ \E L \in SUBSET Jobs : Lost(L, {j}) /\ Becomes({j}, "waiting", L)

\* a worker removes a waiting job from its place and begins to work on it
Take(j) ==
    /\ status[j] = "waiting"
    /\ \E L \in SUBSET Jobs : Lost(L, {j}) /\ Becomes({j}, "taken", L)

\* the result of a job reaches the chain for the first time
Publish(j) ==
    /\ status[j] = "taken"
    /\ Becomes({j}, "published", {})

\* waiting jobs give way without a new job being submitted or taken
Lose == \E L \in SUBSET Jobs : Lost(L, {}) /\ Becomes({}, "lost", L)

Next ==
    \/ Lose
    \/ \E j \in Jobs : Submit(j) \/ Take(j) \/ Publish(j)

Spec == Init /\ [][Next]_status
=============================================================================
