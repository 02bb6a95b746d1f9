--------------------------- MODULE MCOcwCircuits ---------------------------
(* Small instances of OcwCircuits for TLC. *)
EXTENDS CircuitsLifecycle, TLC

AllEnvVars == {"aaa", "INTERSTELLAR_URI_ROOT_API_CIRCUITS"}
BothExecutors == {"native", "wasm"}
NativeOnly == {"native"}

RunSymmetry == Permutations(Runs)
=============================================================================
