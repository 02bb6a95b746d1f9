---------------------------- MODULE MCOcwGarble ----------------------------
(* Small instances of OcwGarble for TLC. *)
EXTENDS GarbleLifecycle, TLC

RunSymmetry == Permutations(Runs)
=============================================================================
