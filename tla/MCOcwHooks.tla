----------------------------- MODULE MCOcwHooks -----------------------------
(***************************************************************************)
(* An instance of OcwHooks for TLC.                                        *)
(***************************************************************************)
EXTENDS OcwHooks

\* With three jobs of ocw-circuits, one of them and a job of ocw-garble can keep
\* both threads busy while the run of the next one waits.
HooksMaxJobs == [circuits |-> 3, garble |-> 2]
=============================================================================
