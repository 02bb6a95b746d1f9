------------------------- MODULE NodeServiceProofs -------------------------
(***************************************************************************)
(* Theorems about NodeService, over any number of starts, failures and     *)
(* restarts.  KeysInv says from which point of a start on the keystore     *)
(* has the keys of the workers; StartInv says which essential tasks run at *)
(* each point of it unless one has failed.                                 *)
(***************************************************************************)
EXTENDS NodeService, TLAPS

\* The process has its types before the first start.
LEMMA NodeTypeInit == Init => TypeOK
<1> SUFFICES ASSUME Init PROVE TypeOK
  OBVIOUS
<1>1. config \in Configuration
  BY DEF Init, NoConfig, Configuration, OtherCommands, PartialCommands
<1>2. keystore \in [KeyTypes -> SUBSET endowed_accounts("local")]
  BY DEF Init, NoKeys
<1>3. {failed, network} \subseteq BOOLEAN
  BY Zenon DEF Init
<1>4. phase \in {"down", "new_partial", "build_network", "spawn_tasks", "aura", "grandpa",
                  "start_network", "up", "exiting"} /\ running = {}
  BY DEF Init
<1>5. QED
  BY <1>1, <1>2, <1>3, <1>4, Zenon DEF TypeOK

\* The end of the process leaves the state of Init.
LEMMA ExitIsInit == Exit => Init'
BY DEF Exit, Init

\* The keys new_partial makes are keys of an account of every genesis.
LEMMA WorkerKeysType ==
  /\ WorkerKeys \in [KeyTypes -> SUBSET endowed_accounts("local")]
  /\ \A spec : Alice \in endowed_accounts(spec)
<1>1. \A spec : Alice \in endowed_accounts(spec)
  BY DEF Alice, endowed_accounts
<1>2. [k \in KeyTypes |-> {Alice}] \in [KeyTypes -> SUBSET endowed_accounts("local")]
  BY <1>1
<1>3. WorkerKeys \in {[k \in KeyTypes |-> {Alice}], NoKeys}
  BY Zenon DEF WorkerKeys
<1>4. QED
  BY <1>1, <1>2, <1>3 DEF NoKeys

\* Spawning a task of the node keeps the set of running tasks well typed.
LEMMA SpawnType ==
  ASSUME running \subseteq Tasks, NEW t \in Tasks, NEW enabled, Spawn(t, enabled)
  PROVE  running' \subseteq Tasks
BY Zenon DEF Spawn

\* Every step keeps the types.
LEMMA NodeTypeStep == TypeOK /\ [Next]_vars => TypeOK'
<1> SUFFICES ASSUME TypeOK, [Next]_vars PROVE TypeOK'
  OBVIOUS
<1>1. ASSUME NEW c \in Configuration, Run(c) PROVE TypeOK'
  <2>1. phase' \in {"exiting", "new_partial"}
    BY <1>1, Zenon DEF Run
  <2>2. QED
    BY <1>1, <2>1, Zenon DEF Run, TypeOK
<1>2. CASE Exit
  BY <1>2, ExitIsInit, NodeTypeInit, PTL
<1>3. CASE new_partial
  <2>1. phase' \in {"build_network", "exiting"}
    BY <1>3, Zenon DEF new_partial
  <2>2. {"transaction-pool", "import-queue"} \subseteq Tasks
    BY DEF Tasks
  <2>3. QED
    BY <1>3, <2>1, <2>2, WorkerKeysType, Zenon DEF new_partial, TypeOK
<1>4. CASE build_network \/ spawn_tasks \/ start_aura \/ run_grandpa_voter
  <2>1. running' \subseteq Tasks
    BY <1>4, SpawnType, Zenon
    DEF TypeOK, build_network, spawn_tasks, start_aura, run_grandpa_voter, Tasks
  <2>2. QED
    BY <1>4, <2>1, Zenon
    DEF TypeOK, build_network, spawn_tasks, start_aura, run_grandpa_voter, Goto
<1>5. CASE start_network
  BY <1>5, Zenon DEF start_network, Goto, TypeOK
<1>6. ASSUME NEW t \in running, TaskEnds(t) PROVE TypeOK'
  <2>1. failed' \in BOOLEAN /\ running' \subseteq running
    BY <1>6, Zenon DEF TaskEnds
  <2>2. QED
    BY <1>6, <2>1, Zenon DEF TaskEnds, TypeOK
<1>7. CASE UNCHANGED vars
  BY <1>7, Zenon DEF vars, TypeOK
<1>8. QED
  BY <1>1, <1>2, <1>3, <1>4, <1>5, <1>6, <1>7
  DEF Next, Step, new_partial_fails, new_full_fails, CommandEnds, EssentialTaskFailed, Interrupted

\* The process keeps its types over every start and restart.
THEOREM NodeTypeCorrect == Spec => []TypeOK
BY NodeTypeInit, NodeTypeStep, PTL DEF Spec

-----------------------------------------------------------------------------
(* The keys of the workers.                                                *)

\* new_full goes on with the keys new_partial has made; the off-chain worker task
\* only runs on them
KeysInv ==
    /\ phase = "down" => running = {}
    /\ phase \in {"build_network", "spawn_tasks", "aura", "grandpa", "start_network", "up"} =>
           keystore = WorkerKeys
    /\ "offchain-worker" \in running =>
           config.offchain_worker /\ keystore = [k \in KeyTypes |-> {Alice}]

\* Every step keeps KeysInv.
LEMMA KeysStep == KeysInv /\ [Next]_vars => KeysInv'
<1> SUFFICES ASSUME KeysInv, [Next]_vars PROVE KeysInv'
  OBVIOUS
<1>1. ASSUME NEW c \in Configuration, Run(c) PROVE KeysInv'
  BY <1>1 DEF Run, KeysInv
<1>2. CASE Exit
  BY <1>2 DEF Exit, KeysInv
<1>3. CASE new_partial
  BY <1>3 DEF new_partial, KeysInv, WorkerKeys
<1>4. CASE build_network
  <2>1. "offchain-worker" \in running' => "offchain-worker" \in running \/ config.offchain_worker
    BY <1>4, Zenon DEF build_network, Spawn
  <2>2. QED
    BY <1>4, <2>1 DEF build_network, Goto, KeysInv, WorkerKeys
<1>5. CASE spawn_tasks \/ start_aura \/ run_grandpa_voter \/ start_network
  <2>1. "offchain-worker" \in running' => "offchain-worker" \in running
    BY <1>5 DEF spawn_tasks, start_aura, run_grandpa_voter, start_network, Spawn
  <2>2. QED
    BY <1>5, <2>1
    DEF spawn_tasks, start_aura, run_grandpa_voter, start_network, Goto, KeysInv, WorkerKeys
<1>6. ASSUME NEW t \in running, TaskEnds(t) PROVE KeysInv'
  BY <1>6 DEF TaskEnds, KeysInv, WorkerKeys
<1>7. CASE UNCHANGED vars
  BY <1>7 DEF vars, KeysInv, WorkerKeys
<1>8. QED
  BY <1>1, <1>2, <1>3, <1>4, <1>5, <1>6, <1>7
  DEF Next, Step, new_partial_fails, new_full_fails, CommandEnds, EssentialTaskFailed, Interrupted

\* At every point of every start, and after every restart, the off-chain worker
\* task has a key of both types, of an account that has funds on this chain.
THEOREM WorkersCanPublishHolds == Spec => []WorkersCanPublish
<1>1. Init => KeysInv
  BY DEF Init, KeysInv
<1>2. KeysInv => WorkersCanPublish
  BY WorkerKeysType DEF KeysInv, WorkersCanPublish
<1>3. QED
  BY <1>1, <1>2, KeysStep, PTL DEF Spec

-----------------------------------------------------------------------------
(* The network is started last.                                            *)

\* the essential tasks that were spawned so far still run, unless one has failed;
\* only a node that is up has a network
StartInv ==
    /\ network => phase = "up"
    /\ ~failed =>
        /\ phase \in {"build_network", "spawn_tasks", "aura", "grandpa", "start_network", "up"} =>
               {"transaction-pool", "import-queue"} \subseteq running
        /\ phase \in {"grandpa", "start_network", "up"} /\ config.is_authority =>
               "aura" \in running
        /\ phase \in {"start_network", "up"} /\ config.enable_grandpa =>
               "grandpa-voter" \in running

\* Every step keeps StartInv.
LEMMA StartStep == StartInv /\ [Next]_vars => StartInv'
<1> SUFFICES ASSUME StartInv, [Next]_vars PROVE StartInv'
  OBVIOUS
<1>1. ASSUME NEW c \in Configuration, Run(c) PROVE StartInv'
  BY <1>1 DEF Run, StartInv
<1>2. CASE Exit
  BY <1>2 DEF Exit, StartInv
<1>3. CASE new_partial
  BY <1>3 DEF new_partial, StartInv
<1>4. CASE build_network \/ spawn_tasks
  BY <1>4 DEF build_network, spawn_tasks, Spawn, Goto, StartInv
<1>5. CASE start_aura
  BY <1>5 DEF start_aura, Spawn, Goto, StartInv
<1>6. CASE run_grandpa_voter
  BY <1>6 DEF run_grandpa_voter, Spawn, Goto, StartInv
<1>7. CASE start_network
  BY <1>7 DEF start_network, Goto, StartInv
<1>8. ASSUME NEW t \in running, TaskEnds(t) PROVE StartInv'
  <2>1. ~failed' => ~failed /\ t \notin Essential
    BY <1>8, Zenon DEF TaskEnds
  <2>2. QED
    BY <1>8, <2>1 DEF TaskEnds, StartInv, Essential
<1>9. CASE UNCHANGED vars
  BY <1>9 DEF vars, StartInv
<1>10. QED
  BY <1>1, <1>2, <1>3, <1>4, <1>5, <1>6, <1>7, <1>8, <1>9
  DEF Next, Step, new_partial_fails, new_full_fails, CommandEnds, EssentialTaskFailed, Interrupted

\* Peers never see a node that lacks an essential task of its configuration,
\* unless that task has ended and the node is about to stop.
THEOREM NetworkMeansCompleteHolds == Spec => []NetworkMeansComplete
<1>1. Init => StartInv
  BY DEF Init, StartInv
<1>2. StartInv => NetworkMeansComplete
  BY DEF StartInv, NetworkMeansComplete, Wanted
<1>3. QED
  BY <1>1, <1>2, StartStep, PTL DEF Spec
=============================================================================
