---------------------------- MODULE NodeService ----------------------------
(***************************************************************************)
(* The node's process: what command::run does with its arguments, how      *)
(* service::new_partial and new_full put the node together, and how it     *)
(* ends.  Every "?" may return early and drops the task manager, and with  *)
(* it the tasks that run already.  Tasks that are spawned run beside the   *)
(* start-up and may end before it is over.                                 *)
(*                                                                         *)
(* The keys of the off-chain workers are made from a seed and kept in      *)
(* memory only, so every start begins without them.                        *)
(***************************************************************************)

VARIABLES
    phase,             \* how far the process is
    config,            \* Configuration and the subcommand
    keystore,          \* keystore[k]: accounts with a key of type k
    running,           \* tasks that run
    failed,            \* an essential task has ended
    network            \* start_network() was called

vars == <<phase, config, keystore, running, failed, network>>

-----------------------------------------------------------------------------
(* Arguments and chain specifications *)

KeyTypes == {"garb", "circ"}

\* subcommands that run on new_partial, and those that need no service
PartialCommands == {"CheckBlock", "ExportBlocks", "ExportState", "ImportBlocks", "Revert"}
OtherCommands == {"Key", "BuildSpec", "PurgeChain", "Benchmark", "TryRuntime"}

Configuration ==
    [subcommand : {"none"} \cup PartialCommands \cup OtherCommands,
     chain_spec : {"dev", "local"}, is_authority : BOOLEAN, enable_grandpa : BOOLEAN,
     offchain_worker : BOOLEAN, keystore_remote : BOOLEAN]

\* accounts are named by their seeds, "//Alice" or "Alice//stash"
Alice == <<"Alice", "">>

\* the accounts with a balance in the genesis of development_config and of
\* local_testnet_config; a chain specification from a file is left out
endowed_accounts(spec) ==
    LET owners == IF spec = "dev" THEN {"Alice", "Bob"}
                  ELSE {"Alice", "Bob", "Charlie", "Dave", "Eve", "Ferdie"}
    IN  owners \X {"", "//stash"}

NoKeys == [k \in KeyTypes |-> {}]

NoConfig == [subcommand |-> "Key", chain_spec |-> "dev", is_authority |-> FALSE,
             enable_grandpa |-> FALSE, offchain_worker |-> FALSE, keystore_remote |-> FALSE]

Init ==
    /\ phase = "down"
    /\ config = NoConfig
    /\ keystore = NoKeys
    /\ running = {}
    /\ failed = FALSE
    /\ network = FALSE

-----------------------------------------------------------------------------
(* command::run *)

Run(c) ==
    /\ phase = "down"
    /\ config' = c
    /\ phase' = IF c.subcommand \in OtherCommands THEN "exiting" ELSE "new_partial"
    /\ UNCHANGED <<keystore, running, failed, network>>

\* the process ends, and its memory is gone
Exit ==
    /\ phase' = "down"
    /\ config' = NoConfig
    /\ keystore' = NoKeys
    /\ running' = {}
    /\ failed' = FALSE
    /\ network' = FALSE

\* a subcommand is done
CommandEnds == phase = "exiting" /\ Exit

-----------------------------------------------------------------------------
(* service::new_partial *)

\* keystore_remote is set, or one of the "?"
new_partial_fails == phase = "new_partial" /\ Exit

\* Mutant: the seed of a key has its type as a derivation path.
WorkerKeys_SeedPerType ==
    IF config.offchain_worker THEN [k \in KeyTypes |-> {<<"Alice", k>>}] ELSE NoKeys

\* Mutant: the key of the second worker is forgotten.
WorkerKeys_OneOnly ==
    IF config.offchain_worker THEN [NoKeys EXCEPT !["garb"] = {Alice}] ELSE NoKeys

\* sr25519_generate_new with the seed "//Alice", for both key types
WorkerKeys ==
    IF config.offchain_worker THEN [k \in KeyTypes |-> {Alice}] ELSE NoKeys

new_partial ==
    /\ phase = "new_partial"
    /\ ~config.keystore_remote
    /\ keystore' = WorkerKeys
    /\ running' = {"transaction-pool", "import-queue"}
    /\ phase' = IF config.subcommand = "none" THEN "build_network" ELSE "exiting"
    /\ UNCHANGED <<config, failed, network>>

-----------------------------------------------------------------------------
(* service::new_full *)

\* "?" of build_network, spawn_tasks, start_aura and run_grandpa_voter
new_full_fails ==
    /\ phase \in {"build_network", "spawn_tasks", "aura", "grandpa"}
    /\ phase = "aura" => config.is_authority
    /\ phase = "grandpa" => config.enable_grandpa
    /\ Exit

Goto(p) == phase' = p /\ UNCHANGED <<config, keystore, failed>>

Spawn(task, enabled) == running' = IF enabled THEN running \cup {task} ELSE running

\* build_network and, if they are enabled, build_offchain_workers
build_network ==
    /\ phase = "build_network"
    /\ Spawn("offchain-worker", config.offchain_worker)
    /\ Goto("spawn_tasks")
    /\ UNCHANGED network

spawn_tasks ==
    /\ phase = "spawn_tasks"
    /\ Spawn("rpc", TRUE)
    /\ Goto("aura")
    /\ UNCHANGED network

start_aura ==
    /\ phase = "aura"
    /\ Spawn("aura", config.is_authority)
    /\ Goto("grandpa")
    /\ UNCHANGED network

\* Mutant: the network is started first and the voter after it.
run_grandpa_voter_NetworkFirst ==
    /\ phase = "grandpa"
    /\ network' = TRUE
    /\ \/ ~network /\ UNCHANGED <<phase, config, keystore, running, failed>>
       \/ network /\ Spawn("grandpa-voter", config.enable_grandpa) /\ Goto("up")

\* the full voter, on non-authorities too
run_grandpa_voter ==
    /\ phase = "grandpa"
    /\ Spawn("grandpa-voter", config.enable_grandpa)
    /\ Goto("start_network")
    /\ UNCHANGED network

start_network ==
    /\ phase = "start_network"
    /\ network' = TRUE
    /\ Goto("up")
    /\ UNCHANGED running

-----------------------------------------------------------------------------
(* Tasks *)

\* Mutant: the voter is spawned with spawn_handle().
Essential_NotGrandpa == {"transaction-pool", "import-queue", "aura"}

\* spawn_essential_handle()
Essential == {"transaction-pool", "import-queue", "aura", "grandpa-voter"}

TaskEnds(t) ==
    /\ t \in running
    /\ running' = running \ {t}
    /\ failed' = (failed \/ t \in Essential)
    /\ UNCHANGED <<phase, config, keystore, network>>

\* run_node_until_exit: the task manager is watched once new_full returned
EssentialTaskFailed == phase = "up" /\ failed /\ Exit

\* ctrl-c, or the process is killed
Interrupted == phase # "down" /\ Exit

Step ==
    \/ new_partial
    \/ build_network
    \/ spawn_tasks
    \/ start_aura
    \/ run_grandpa_voter
    \/ start_network

Next ==
    \/ \E c \in Configuration : Run(c)
    \/ Step
    \/ new_partial_fails
    \/ new_full_fails
    \/ CommandEnds
    \/ \E t \in running : TaskEnds(t)
    \/ EssentialTaskFailed
    \/ Interrupted

Spec == Init /\ [][Next]_vars

\* start-up goes on and a failed task manager is noticed; nobody has to start or
\* stop the node, and no task has to end
Fairness ==
    /\ WF_vars(Step \/ new_partial_fails \/ new_full_fails \/ CommandEnds)
    /\ WF_vars(EssentialTaskFailed)

FairSpec == Spec /\ Fairness

-----------------------------------------------------------------------------
(* Properties *)

\* Tasks are those the service spawns.
Tasks == {"transaction-pool", "import-queue", "aura", "grandpa-voter", "offchain-worker", "rpc"}

\* Variables have their types: whatever is in the keystore is the key of an account
\* that a built-in chain specification endows.
TypeOK ==
    /\ phase \in {"down", "new_partial", "build_network", "spawn_tasks", "aura", "grandpa",
                  "start_network", "up", "exiting"}
    /\ config \in Configuration
    /\ keystore \in [KeyTypes -> SUBSET endowed_accounts("local")]
    /\ running \subseteq Tasks
    /\ {failed, network} \subseteq BOOLEAN

\* A worker run can publish what it has: whenever the off-chain worker task runs,
\* at any point of a start-up or after a restart, both pallets have a signing key,
\* and its account has the funds for the fees in the genesis of the chain.
WorkersCanPublish ==
    "offchain-worker" \in running =>
        \A k \in KeyTypes : keystore[k] # {} /\ keystore[k] \subseteq endowed_accounts(config.chain_spec)

\* the essential tasks this configuration asks for
Wanted ==
    {"transaction-pool", "import-queue"}
        \cup (IF config.is_authority THEN {"aura"} ELSE {})
        \cup (IF config.enable_grandpa THEN {"grandpa-voter"} ELSE {})

\* The network is started last: peers never see a node that lacks one of its
\* essential tasks, unless one has ended since and the node is about to stop.
NetworkMeansComplete == network /\ ~failed => Wanted \subseteq running

\* "if it fails we take down the service with it": a node does not go on without
\* authoring, voting, pool or import queue, also when they ended while new_full
\* was still busy with the rest.
NoHalfNode == (phase = "up" /\ ~(Wanted \subseteq running)) ~> (phase = "down")
=============================================================================
