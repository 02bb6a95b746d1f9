---------------------- MODULE CircuitsLifecycleProofs ----------------------
(***************************************************************************)
(* What becomes of a job of pallet-ocw-circuits, for every number of runs, *)
(* jobs, blocks, restarts, accounts and cids.  ResultInv follows a result  *)
(* from the reply of the service through the pool to the chain, and says   *)
(* that a job that was taken is in no storage entry; with it, every step   *)
(* is one of JobLifecycle.                                                 *)
(***************************************************************************)
EXTENDS CircuitsLifecycle, OcwCircuitsProofs, FiniteSetTheorems

-----------------------------------------------------------------------------
(* The way of a result.                                                    *)

Job(r) == local[r].indexing_data.job

\* a run that works on its job has counted its attempt; its Ok replies are about
\* that job, and in display mode each is the circuit it was asked for
RunResult(r) ==
    /\ Working(r) => attempts[Job(r)] > 0
    /\ local[r].message.status = "ok" => Working(r) /\ local[r].message.skcd_cid.job = Job(r)
    /\ local[r].message.status = "ok" /\ Kind(r) = "Display" =>
           /\ local[r].message.skcd_cid.part = "message"
           /\ pc[r] = "finalize" => local[r].pinpad.skcd_cid = [job |-> Job(r), part |-> "pinpad"]

\* a waiting callback is about a job that was taken, and pairs two circuits of it
TxResult(tx) ==
    /\ tx.message.skcd_cid.job \in Jobs
    /\ attempts[tx.message.skcd_cid.job] > 0
    /\ tx.grpc_kind = "Display" =>
           /\ tx.message.skcd_cid.part = "message"
           /\ tx.pinpad.skcd_cid = [job |-> tx.message.skcd_cid.job, part |-> "pinpad"]

\* a job that was taken is in no entry any more, and only such a job is published
TakenJobs ==
    \A j \in Jobs :
        /\ attempts[j] > 0 => j <= nJobs /\ j \notin {indexed.job, oci_mem.job}
        /\ deposited[j] > 0 => attempts[j] > 0

\* the reference package, with the number of the job it is of
PackageResult ==
    /\ PackageFromOneJob
    /\ \/ DisplaySkcdPackageValue = DefaultDisplaySkcdPackage
       \/ DisplaySkcdPackageValue.message_skcd_cid.job \in Jobs

ResultInv ==
    /\ \A r \in Runs : RunResult(r)
    /\ \A tx \in pool : TxResult(tx)
    /\ TakenJobs
    /\ PackageResult

\* Nothing is taken, sent or published before the first block.
LEMMA ResultInit == Init => ResultInv
<1> SUFFICES ASSUME Init PROVE ResultInv
  OBVIOUS
<1>1. \A r \in Runs : RunResult(r)
  BY DEF Init, RunResult, Working, NoLocal, NewLocal, PendingReply
<1>2. QED
  BY <1>1 DEF Init, ResultInv, TakenJobs, PackageResult, PackageFromOneJob

\* An Ok reply names the job of the run and the circuit it asked for.
LEMMA RemoteOk ==
  ASSUME NEW r \in Runs, NEW uri_root, NEW part, NEW digits,
         NEW reply \in RemoteReplies(r, uri_root, part, digits), reply.status = "ok"
  PROVE  reply.skcd_cid = [job |-> Job(r), part |-> part]
BY DEF RemoteReplies, ErrReply, OkReply, Job

\* A job a run holds is a job number.
LEMMA HeldIsJob ==
  ASSUME TypeInv, JobInv, NEW r \in Runs, Holding(r) PROVE Job(r) \in Jobs /\ Job(r) <= nJobs
<1>1. Job(r) \in Nat /\ Job(r) <= nJobs /\ Job(r) # 0
  BY DEF TypeInv, TypeOK, WorkerTypeOK, Local, IndexingData, JobNumbers, JobInv, Job
<1>2. nJobs \in Nat /\ nJobs <= MaxJobs
  BY ConstantsAssumption DEF TypeInv, TypeOK, HistoryTypeOK
<1>3. QED
  BY <1>1, <1>2, ConstantsAssumption DEF Jobs

\* A step of run r that touches neither pool nor chain nor entries nor history.
LEMMA RunResultStep ==
  ASSUME ResultInv, NEW r \in Runs, RunResult(r)',
         \A s \in Runs \ {r} : pc'[s] = pc[s] /\ local'[s] = local[s],
         UNCHANGED <<DisplaySkcdPackageValue, deposited, indexed, pool, oci_mem, nJobs, attempts>>
  PROVE  ResultInv'
<1>1. \A s \in Runs \ {r} : RunResult(s)'
  BY DEF ResultInv, RunResult, Working, Job, Kind
<1>2. \A tx \in pool' : TxResult(tx)'
  BY DEF ResultInv, TxResult
<1>3. TakenJobs' /\ PackageResult'
  BY DEF ResultInv, TakenJobs, PackageResult, PackageFromOneJob
<1>4. QED
  BY <1>1, <1>2, <1>3 DEF ResultInv

\* A run that returns, for whatever reason, has no result.
LEMMA ReturnResult ==
  ASSUME TypeInv, ResultInv, NEW r \in Runs, Return(r),
         UNCHANGED <<DisplaySkcdPackageValue, deposited, indexed, pool, oci_mem, nJobs, attempts>>
  PROVE  ResultInv'
<1>1. pc'[r] = "idle" /\ local'[r] = NoLocal
  BY DEF TypeInv, TypeOK, WorkerTypeOK, Return, Goto
<1>2. \A s \in Runs \ {r} : pc'[s] = pc[s] /\ local'[s] = local[s]
  BY DEF TypeInv, TypeOK, WorkerTypeOK, Return, Goto
<1>3. RunResult(r)'
  BY <1>1 DEF RunResult, Working, NoLocal, NewLocal, PendingReply
<1>4. QED
  BY <1>2, <1>3, RunResultStep

\* The steps before the slot is cleared bring no result.
LEMMA EarlyResult ==
  ASSUME TypeInv, ResultInv, NEW r \in Runs,
         offchain_worker(r) \/ NothingToDo(r) \/ ReadJob(r) \/ try_lock(r) \/ try_lock_fails(r)
  PROVE  ResultInv'
<1> USE DEF chain, node, history
<1>1. CASE NothingToDo(r) \/ try_lock_fails(r)
  BY <1>1, ReturnResult DEF NothingToDo, try_lock_fails
<1>2. CASE offchain_worker(r)
  <2>1. pc'[r] = "started" /\ local'[r].message.status = "pending"
    BY <1>2 DEF TypeInv, TypeOK, WorkerTypeOK, offchain_worker, Goto, NewLocal, PendingReply
  <2>2. \A s \in Runs \ {r} : pc'[s] = pc[s] /\ local'[s] = local[s]
    BY <1>2 DEF TypeInv, TypeOK, WorkerTypeOK, offchain_worker, Goto
  <2>3. RunResult(r)'
    BY <2>1 DEF RunResult, Working
  <2>4. QED
    BY <1>2, <2>2, <2>3, RunResultStep DEF offchain_worker
<1>3. CASE ReadJob(r) \/ try_lock(r)
  <2>1. pc'[r] \in {"loaded", "locked"} /\ local'[r].message = local[r].message
    BY <1>3 DEF TypeInv, TypeOK, WorkerTypeOK, Local, ReadJob, try_lock, Goto
  <2>2. \A s \in Runs \ {r} : pc'[s] = pc[s] /\ local'[s] = local[s]
    BY <1>3 DEF TypeInv, TypeOK, WorkerTypeOK, ReadJob, try_lock, Goto
  <2>3. local[r].message.status # "ok"
    BY <1>3 DEF ResultInv, RunResult, Working, ReadJob, try_lock
  <2>4. RunResult(r)'
    BY <2>1, <2>3 DEF RunResult, Working
  <2>5. QED
    BY <1>3, <2>2, <2>4, RunResultStep DEF ReadJob, try_lock
<1>4. QED
  BY <1>1, <1>2, <1>3

\* Clearing the slot counts the attempt on a job that is in no entry from then on.
LEMMA ClearSlotResult ==
  ASSUME TypeInv, JobInv, ResultInv, NEW r \in Runs, ClearSlot(r) PROVE ResultInv'
<1>1. Job(r) \in Jobs /\ Job(r) <= nJobs /\ Job(r) # indexed.job
  BY HeldIsJob DEF ClearSlot, Holding, JobInv, Job
<1>2. /\ UNCHANGED <<DisplaySkcdPackageValue, deposited, indexed, pool, nJobs, local>>
      /\ attempts' = [attempts EXCEPT ![Job(r)] = @ + 1]
      /\ oci_mem'.job = 0
      /\ pc[r] = "locked"
  BY DEF ClearSlot, chain, Job, DefaultIndexingData
<1>3. pc'[r] = "calling" /\ \A s \in Runs \ {r} : pc'[s] = pc[s]
  BY DEF ClearSlot, Goto, TypeInv, TypeOK, WorkerTypeOK
<1>4. \A j \in Jobs : /\ attempts[j] \in Nat
                      /\ attempts'[j] = IF j = Job(r) THEN attempts[j] + 1 ELSE attempts[j]
  BY <1>1, <1>2 DEF TypeInv, TypeOK, HistoryTypeOK
<1>5. \A s \in Runs : RunResult(s)'
  <2>1. \A s \in Runs \ {r} : Working(s) => Job(s) \in Jobs
    BY HeldIsJob DEF Holding
  <2>2. \A s \in Runs \ {r} : RunResult(s)'
    BY <1>2, <1>3, <1>4, <2>1 DEF ResultInv, RunResult, Working, Job, Kind
  <2>3. local[r].message.status # "ok"
    BY <1>2 DEF ResultInv, RunResult, Working
  <2>4. RunResult(r)'
    BY <1>1, <1>2, <1>3, <1>4, <2>3 DEF RunResult, Job
  <2>5. QED
    BY <2>2, <2>4
<1>6. \A tx \in pool' : TxResult(tx)'
  <2>1. \A j \in Jobs : attempts[j] > 0 => attempts'[j] > 0
    BY <1>4
  <2>2. pool' = pool
    BY <1>2
  <2>3. QED
    BY <2>1, <2>2 DEF ResultInv, TxResult
<1>7. TakenJobs'
  BY <1>1, <1>2, <1>4, ConstantsAssumption DEF ResultInv, TakenJobs, Jobs
<1>8. PackageResult'
  BY <1>2 DEF ResultInv, PackageResult, PackageFromOneJob
<1>9. QED
  BY <1>5, <1>6, <1>7, <1>8 DEF ResultInv

\* A run keeps the reply of a call that did not panic.
LEMMA CallResult ==
  ASSUME TypeInv, JobInv, ResultInv, NEW r \in Runs, ~Panic(r),
         \/ call_grpc_generic(r)
         \/ call_grpc_display_message(r)
         \/ call_grpc_display_pinpad(r)
  PROVE  ResultInv'
<1> USE DEF chain, node, history
<1>0. local[r] \in Local /\ local \in [Runs -> Local] /\ pc \in [Runs -> Labels]
  BY DEF TypeInv, TypeOK, WorkerTypeOK
<1>1. CASE call_grpc_generic(r)
  <2>1. PICK reply \in RemoteReplies(r, "aaa", "skcd", {None}) :
          local' = [local EXCEPT ![r].message = reply]
    BY <1>1 DEF call_grpc_generic, RemoteCallPanics
  <2>2. /\ Goto(r, "finalize") /\ UNCHANGED <<chain, node, history>>
        /\ pc[r] = "calling" /\ Kind(r) = "Generic"
    BY <1>1 DEF call_grpc_generic, RemoteCallPanics
  <2>3. /\ pc'[r] = "finalize"
        /\ local'[r] = [local[r] EXCEPT !.message = reply]
        /\ \A s \in Runs \ {r} : pc'[s] = pc[s] /\ local'[s] = local[s]
    BY <1>0, <2>1, <2>2 DEF Goto
  <2>4. local'[r].message = reply /\ local'[r].indexing_data = local[r].indexing_data
    BY <1>0, <2>3 DEF Local
  <2>5. reply.status = "ok" => reply.skcd_cid.job = Job(r)
    <3>1. reply.status = "ok" => reply.skcd_cid = [job |-> Job(r), part |-> "skcd"]
      BY <2>1, RemoteOk
    <3>2. QED
      BY <3>1
  <2>6. RunResult(r)'
    BY <2>2, <2>3, <2>4, <2>5 DEF ResultInv, RunResult, Working, Job, Kind
  <2>7. QED
    BY <2>2, <2>3, <2>6, RunResultStep
<1>2. CASE call_grpc_display_message(r)
  <2>1. PICK reply \in RemoteReplies(r, "INTERSTELLAR_URI_ROOT_API_CIRCUITS", "message",
                                     NbDigits \cup {None}) :
          local' = [local EXCEPT ![r].message = reply]
    BY <1>2 DEF call_grpc_display_message, RemoteCallPanics
  <2>2. /\ Goto(r, "calling_pinpad") /\ UNCHANGED <<chain, node, history>>
        /\ pc[r] = "calling" /\ Kind(r) = "Display"
    BY <1>2 DEF call_grpc_display_message, RemoteCallPanics
  <2>3. /\ pc'[r] = "calling_pinpad"
        /\ local'[r] = [local[r] EXCEPT !.message = reply]
        /\ \A s \in Runs \ {r} : pc'[s] = pc[s] /\ local'[s] = local[s]
    BY <1>0, <2>1, <2>2 DEF Goto
  <2>4. local'[r].message = reply /\ local'[r].indexing_data = local[r].indexing_data
    BY <1>0, <2>3 DEF Local
  <2>5. reply.status = "ok" => reply.skcd_cid.job = Job(r) /\ reply.skcd_cid.part = "message"
    <3>1. reply.status = "ok" => reply.skcd_cid = [job |-> Job(r), part |-> "message"]
      BY <2>1, RemoteOk
    <3>2. QED
      BY <3>1
  <2>6. RunResult(r)'
    BY <2>2, <2>3, <2>4, <2>5 DEF ResultInv, RunResult, Working, Job, Kind
  <2>7. QED
    BY <2>2, <2>3, <2>6, RunResultStep
<1>3. CASE call_grpc_display_pinpad(r)
  <2>1. PICK reply \in RemoteReplies(r, "INTERSTELLAR_URI_ROOT_API_CIRCUITS", "pinpad",
                                     NbDigits \cup {None}) :
          /\ reply.status = "ok"
          /\ local' = [local EXCEPT ![r].pinpad = reply]
          /\ Goto(r, "finalize")
          /\ UNCHANGED <<chain, node, history>>
    BY <1>3 DEF call_grpc_display_pinpad, RemoteCallPanics
  <2>2. pc[r] = "calling_pinpad"
    BY <1>3 DEF call_grpc_display_pinpad
  <2>3. /\ pc'[r] = "finalize"
        /\ local'[r] = [local[r] EXCEPT !.pinpad = reply]
        /\ \A s \in Runs \ {r} : pc'[s] = pc[s] /\ local'[s] = local[s]
    BY <1>0, <2>1, <2>2 DEF Goto
  <2>4. /\ local'[r].pinpad = reply
        /\ local'[r].message = local[r].message
        /\ local'[r].indexing_data = local[r].indexing_data
    BY <1>0, <2>3 DEF Local
  <2>5. reply.skcd_cid = [job |-> Job(r), part |-> "pinpad"]
    BY <2>1, RemoteOk
  <2>6. RunResult(r)'
    BY <2>1, <2>2, <2>3, <2>4, <2>5 DEF ResultInv, RunResult, Working, Job, Kind
  <2>7. QED
    BY <2>1, <2>3, <2>6, RunResultStep
<1>4. QED
  BY <1>1, <1>2, <1>3

\* A callback that is sent carries the circuits of the job the run has taken.
LEMMA SendResult ==
  ASSUME TypeInv, JobInv, ResultInv, NEW r \in Runs, send_signed_transaction(r)
  PROVE  ResultInv'
<1>1. /\ pc[r] = "finalize" /\ local[r].message.status = "ok"
      /\ UNCHANGED <<DisplaySkcdPackageValue, deposited, indexed, oci_mem, nJobs, attempts, local>>
      /\ Goto(r, "unlock")
  BY DEF send_signed_transaction, chain, history
<1>2. pc'[r] = "unlock" /\ \A s \in Runs \ {r} : pc'[s] = pc[s]
  BY <1>1 DEF Goto, TypeInv, TypeOK, WorkerTypeOK
<1>3. \A s \in Runs : RunResult(s)'
  <2>1. \A s \in Runs \ {r} : RunResult(s)'
    BY <1>1, <1>2 DEF ResultInv, RunResult, Working, Job, Kind
  <2>2. RunResult(r)'
    BY <1>1, <1>2 DEF ResultInv, RunResult, Working, Job, Kind
  <2>3. QED
    BY <2>1, <2>2
<1>4. Job(r) \in Jobs
  BY <1>1, HeldIsJob DEF Holding, Working
<1>5. RunResult(r) /\ Working(r)
  BY <1>1 DEF ResultInv, Working
<1>6. \A a \in SignerAccounts : TxResult(CallbackTx(r, a))
  BY <1>1, <1>4, <1>5 DEF CallbackTx, TxResult, RunResult
<1>7. \A tx \in pool' : tx \in pool \/ \E a \in SignerAccounts : tx = CallbackTx(r, a)
  BY DEF send_signed_transaction, Submit
<1>8. \A tx \in pool' : TxResult(tx)
  BY <1>6, <1>7 DEF ResultInv
<1>9. \A tx \in pool' : TxResult(tx)'
  BY <1>1, <1>8 DEF TxResult
<1>10. TakenJobs' /\ PackageResult'
  BY <1>1 DEF ResultInv, TakenJobs, PackageResult, PackageFromOneJob
<1>11. QED
  BY <1>3, <1>9, <1>10 DEF ResultInv

\* Every step of a run keeps ResultInv.
LEMMA RunStepResult ==
  ASSUME TypeInv, JobInv, ResultInv, NEW r \in Runs, offchain_worker(r) \/ RunStep(r)
  PROVE  ResultInv'
<1>1. CASE Panic(r)
  BY <1>1, ReturnResult DEF Panic, chain
<1>2. CASE finalize_error(r)
  <2>1. /\ pc[r] = "finalize" /\ local[r].message.status = "err"
        /\ local' = local /\ Goto(r, "unlock")
        /\ UNCHANGED <<DisplaySkcdPackageValue, deposited, indexed, pool, oci_mem, nJobs, attempts>>
    BY <1>2 DEF finalize_error, chain, node, history
  <2>2. pc'[r] = "unlock" /\ \A s \in Runs \ {r} : pc'[s] = pc[s]
    BY <2>1 DEF Goto, TypeInv, TypeOK, WorkerTypeOK
  <2>3. RunResult(r)'
    BY <2>1, <2>2 DEF ResultInv, RunResult, Working, Job
  <2>4. QED
    BY <2>1, <2>2, <2>3, RunResultStep
<1>3. CASE Unlock(r)
  BY <1>3, ReturnResult DEF Unlock, chain, history
<1>4. QED
  BY <1>1, <1>2, <1>3, EarlyResult, ClearSlotResult, CallResult, SendResult
  DEF RunStep, finalize_panics

\* A new submission has a number that was neither taken nor published.
LEMMA UserResult ==
  ASSUME TypeInv, ResultInv, NEW who, NEW cid, NEW kind, submit_config(who, cid, kind)
  PROVE  ResultInv'
<1>1. /\ UNCHANGED <<DisplaySkcdPackageValue, deposited, pool, oci_mem, pc, local, attempts>>
      /\ indexed'.job = nJobs + 1 /\ nJobs' = nJobs + 1
  BY DEF submit_config, append_or_replace_verilog_hash, node, worker
<1>2. nJobs \in Nat /\ Jobs \subseteq Nat
  BY ConstantsAssumption DEF TypeInv, TypeOK, HistoryTypeOK, Jobs
<1>3. TakenJobs'
  BY <1>1, <1>2 DEF ResultInv, TakenJobs
<1>4. QED
  BY <1>1, <1>3
  DEF ResultInv, RunResult, TxResult, PackageResult, PackageFromOneJob, Working, Job, Kind

\* A callback publishes a job that was taken, and its package is of that job.
LEMMA AuthorResult ==
  ASSUME TypeInv, ResultInv, NEW tx \in pool,
         callback_new_skcd_signed(tx) \/ callback_new_display_circuits_package_signed(tx)
  PROVE  ResultInv'
<1> DEFINE job == tx.message.skcd_cid.job
<1>1. /\ UNCHANGED <<indexed, oci_mem, pc, local, nJobs, attempts>>
      /\ pool' \subseteq pool
      /\ deposited' = [deposited EXCEPT ![job] = @ + 1]
  BY DEF callback_new_skcd_signed, callback_new_display_circuits_package_signed, Include,
         deposit_event, worker, history
<1>2. job \in Jobs /\ attempts[job] > 0 /\ TxResult(tx)
  BY DEF ResultInv, TxResult
<1>3. \A j \in Jobs : /\ deposited[j] \in Nat
                      /\ deposited'[j] = IF j = job THEN deposited[j] + 1 ELSE deposited[j]
  BY <1>1, <1>2 DEF TypeInv, TypeOK, ChainTypeOK
<1>4. TakenJobs'
  BY <1>1, <1>2, <1>3 DEF ResultInv, TakenJobs
<1>5. PackageResult'
  <2>1. CASE callback_new_skcd_signed(tx)
    <3>1. DisplaySkcdPackageValue' = DisplaySkcdPackageValue
      BY <2>1 DEF callback_new_skcd_signed
    <3>2. \A j \in Jobs : deposited[j] > 0 => deposited'[j] > 0
      BY <1>3
    <3>3. QED
      BY <3>1, <3>2 DEF ResultInv, PackageResult, PackageFromOneJob
  <2>2. CASE callback_new_display_circuits_package_signed(tx)
    <3>1. /\ DisplaySkcdPackageValue'.message_skcd_cid = tx.message.skcd_cid
          /\ DisplaySkcdPackageValue'.pinpad_skcd_cid = tx.pinpad.skcd_cid
          /\ tx.grpc_kind = "Display"
      BY <2>2 DEF callback_new_display_circuits_package_signed
    <3>2. deposited'[job] > 0
      BY <1>2, <1>3
    <3>3. QED
      BY <1>2, <3>1, <3>2 DEF TxResult, PackageResult, PackageFromOneJob
  <2>3. QED
    BY <2>1, <2>2
<1>6. QED
  BY <1>1, <1>4, <1>5 DEF ResultInv, RunResult, TxResult, Working, Job, Kind

\* Every step keeps ResultInv.
LEMMA ResultStep == TypeInv /\ JobInv /\ ResultInv /\ [Next]_vars => ResultInv'
<1> SUFFICES ASSUME TypeInv, JobInv, ResultInv, [Next]_vars PROVE ResultInv'
  OBVIOUS
<1>1. CASE User
  BY <1>1, UserResult
  DEF User, submit_config_generic_signed, submit_config_display_circuits_package_signed
<1>2. CASE Author
  BY <1>2, AuthorResult DEF Author
<1>3. CASE ImportBlock
  <2>1. /\ UNCHANGED <<DisplaySkcdPackageValue, deposited, pool, pc, local, nJobs, attempts>>
        /\ oci_mem' \in {indexed, oci_mem} /\ indexed'.job = 0
    BY <1>3 DEF ImportBlock, worker, history, DefaultIndexingData
  <2>2. TakenJobs'
    BY <2>1, ConstantsAssumption DEF ResultInv, TakenJobs, Jobs
  <2>3. QED
    BY <2>1, <2>2 DEF ResultInv, RunResult, TxResult, PackageResult, PackageFromOneJob, Working, Job, Kind
<1>4. ASSUME UNCHANGED <<DisplaySkcdPackageValue, deposited, indexed, pool, oci_mem, pc, local,
                         nJobs, attempts>>
      PROVE  ResultInv'
  BY <1>4
  DEF ResultInv, RunResult, TxResult, TakenJobs, PackageResult, PackageFromOneJob, Working, Job, Kind
<1>5. CASE LockTimeout \/ UNCHANGED vars
  BY <1>4, <1>5 DEF LockTimeout, vars, chain, node, worker, history
<1>6. CASE Crash
  <2>1. /\ UNCHANGED <<DisplaySkcdPackageValue, deposited, indexed, oci_mem, nJobs, attempts>>
        /\ pool' = {} /\ \A s \in Runs : pc'[s] = "idle" /\ local'[s] = NoLocal
    BY <1>6 DEF Crash, chain
  <2>2. \A s \in Runs : RunResult(s)'
    BY <2>1 DEF RunResult, Working, NoLocal, NewLocal, PendingReply
  <2>3. TakenJobs' /\ PackageResult'
    BY <2>1 DEF ResultInv, TakenJobs, PackageResult, PackageFromOneJob
  <2>4. QED
    BY <2>1, <2>2, <2>3 DEF ResultInv
<1>7. ASSUME NEW r \in Runs, offchain_worker(r) \/ RunStep(r) PROVE ResultInv'
  BY <1>7, RunStepResult
<1>8. QED
  BY <1>1, <1>2, <1>3, <1>5, <1>6, <1>7 DEF Next

\* The three invariants hold together in every reachable state.
LEMMA ResultInvariant == Spec => [](TypeInv /\ JobInv /\ ResultInv)
<1>1. Init => TypeInv /\ JobInv /\ ResultInv
  BY TypeInit, JobInit, ResultInit
<1>2. TypeInv /\ JobInv /\ ResultInv /\ [Next]_vars => (TypeInv /\ JobInv /\ ResultInv)'
  BY TypeStep, JobStep, ResultStep
<1>3. QED
  BY <1>1, <1>2, PTL DEF Spec

\* The package pallet-ocw-garble reads pairs the message and the pinpad circuit
\* of one published job: no interleaving of runs, retries and callbacks of
\* several jobs and signers mixes them.
THEOREM PackageFromOneJobHolds == Spec => []PackageFromOneJob
<1>1. TypeInv /\ JobInv /\ ResultInv => PackageFromOneJob
  BY DEF ResultInv, PackageResult
<1>2. QED
  BY <1>1, ResultInvariant, PTL
-----------------------------------------------------------------------------
(* A job a run has read and that is in the entry no more.                  *)

Untaken(r) == pc[r] \in {"loaded", "locked"}

\* a job that left the entry before its reader took it: a later job was submitted,
\* or another run took its own job and cleared the entry
HeldDisplaced ==
    \A r \in Runs : Untaken(r) /\ Job(r) # oci_mem.job =>
        \/ Job(r) < nJobs
        \/ \E k \in Jobs : attempts[k] > 0 /\ k <= Job(r)

\* no run has come to hold a job by this step
NoNewHolder ==
    \A s \in Runs : Untaken(s)' => Untaken(s) /\ Job(s)' = Job(s)

\* Numbers the proofs below compare.
LEMMA JobNumberTypes ==
  ASSUME TypeInv
  PROVE  /\ nJobs \in Nat /\ nJobs <= MaxJobs /\ Jobs \subseteq Nat
         /\ indexed.job \in Nat /\ oci_mem.job \in Nat /\ oci_mem.job <= nJobs
         /\ indexed.job \in {0, nJobs}
         /\ \A r \in Runs : Job(r) \in Nat /\ Job(r) <= nJobs
         /\ \A j \in Jobs : attempts[j] \in Nat /\ deposited[j] \in Nat
         /\ \A j \in Nat : j # 0 /\ j <= nJobs => j \in Jobs
         /\ 0 \notin Jobs
<1>1. nJobs \in Nat /\ nJobs <= MaxJobs /\ Jobs \subseteq Nat /\ 0 \notin Jobs
  BY ConstantsAssumption DEF TypeInv, TypeOK, HistoryTypeOK, Jobs
<1>2. /\ indexed.job \in Nat /\ oci_mem.job \in Nat /\ oci_mem.job <= nJobs
      /\ indexed.job \in {0, nJobs}
  BY DEF TypeInv, TypeOK, ChainTypeOK, NodeTypeOK, JobNumbers, IndexingData
<1>3. \A r \in Runs : Job(r) \in Nat /\ Job(r) <= nJobs
  BY DEF TypeInv, TypeOK, WorkerTypeOK, JobNumbers, Local, IndexingData, Job
<1>4. \A j \in Jobs : attempts[j] \in Nat /\ deposited[j] \in Nat
  BY DEF TypeInv, TypeOK, ChainTypeOK, HistoryTypeOK
<1>5. \A j \in Nat : j # 0 /\ j <= nJobs => j \in Jobs
  BY <1>1, ConstantsAssumption DEF Jobs
<1>6. QED
  BY <1>1, <1>2, <1>3, <1>4, <1>5

\* The steps of a run but reading and taking a job: no new holder, and entries,
\* events and attempts stay.
LEMMA OtherRunStep ==
  ASSUME TypeInv, NEW r \in Runs, offchain_worker(r) \/ RunStep(r), ~ReadJob(r), ~ClearSlot(r)
  PROVE  NoNewHolder /\ UNCHANGED <<indexed, oci_mem, deposited, nJobs, attempts>>
<1> USE DEF chain, node, history
<1>0. local \in [Runs -> Local] /\ pc \in [Runs -> Labels]
  BY DEF TypeInv, TypeOK, WorkerTypeOK
<1>1. ASSUME Return(r) PROVE NoNewHolder
  BY <1>0, <1>1 DEF Return, Goto, NoNewHolder, Untaken, Job
<1>2. ASSUME NEW label, label \notin {"loaded", "locked"}, Goto(r, label),
             \A s \in Runs \ {r} : local'[s] = local[s]
      PROVE  NoNewHolder
  BY <1>0, <1>2 DEF Goto, NoNewHolder, Untaken, Job
<1>3. CASE NothingToDo(r) \/ try_lock_fails(r) \/ Unlock(r) \/ Panic(r)
  BY <1>1, <1>3 DEF NothingToDo, try_lock_fails, Unlock, Panic
<1>4. CASE offchain_worker(r)
  <2>1. \A s \in Runs \ {r} : local'[s] = local[s]
    BY <1>0, <1>4 DEF offchain_worker
  <2>2. QED
    BY <1>2, <1>4, <2>1 DEF offchain_worker
<1>5. CASE try_lock(r)
  BY <1>0, <1>5 DEF try_lock, Goto, NoNewHolder, Untaken, Job
<1>6. CASE call_grpc_generic(r) /\ ~Panic(r)
  <2>1. \A s \in Runs \ {r} : local'[s] = local[s]
    BY <1>0, <1>6 DEF call_grpc_generic, RemoteCallPanics
  <2>2. QED
    BY <1>2, <1>6, <2>1 DEF call_grpc_generic, RemoteCallPanics
<1>7. CASE call_grpc_display_message(r) /\ ~Panic(r)
  <2>1. \A s \in Runs \ {r} : local'[s] = local[s]
    BY <1>0, <1>7 DEF call_grpc_display_message, RemoteCallPanics
  <2>2. QED
    BY <1>2, <1>7, <2>1 DEF call_grpc_display_message, RemoteCallPanics
<1>8. CASE call_grpc_display_pinpad(r) /\ ~Panic(r)
  <2>1. \A s \in Runs \ {r} : local'[s] = local[s]
    BY <1>0, <1>8 DEF call_grpc_display_pinpad, RemoteCallPanics
  <2>2. Goto(r, "finalize") /\ UNCHANGED <<chain, node, history>>
    BY <1>8 DEF call_grpc_display_pinpad, RemoteCallPanics
  <2>3. QED
    BY <1>2, <2>1, <2>2
<1>9. CASE send_signed_transaction(r) \/ finalize_error(r)
  BY <1>2, <1>9 DEF send_signed_transaction, finalize_error
<1>10. QED
  BY <1>3, <1>4, <1>5, <1>6, <1>7, <1>8, <1>9 DEF RunStep, finalize_panics

\* Clearing the slot makes one holder a worker, and no new holder.
LEMMA ClearSlotHolders ==
  ASSUME TypeInv, JobInv, NEW r \in Runs, ClearSlot(r)
  PROVE  /\ NoNewHolder
         /\ Untaken(r) /\ ~Untaken(r)'
         /\ \A s \in Runs \ {r} : Untaken(s) => Untaken(s)' /\ Job(s)' = Job(s)
         /\ oci_mem'.job = 0 /\ UNCHANGED <<indexed, deposited, nJobs>>
         /\ Job(r) \in Jobs /\ Job(r) <= nJobs /\ Job(r) # indexed.job
         /\ \A j \in Jobs : attempts'[j] = IF j = Job(r) THEN attempts[j] + 1 ELSE attempts[j]
<1>1. /\ NoNewHolder /\ Untaken(r) /\ ~Untaken(r)'
      /\ \A s \in Runs \ {r} : Untaken(s) => Untaken(s)' /\ Job(s)' = Job(s)
  BY DEF ClearSlot, Goto, NoNewHolder, Untaken, Job, TypeInv, TypeOK, WorkerTypeOK
<1>2. oci_mem'.job = 0 /\ UNCHANGED <<indexed, deposited, nJobs>>
  BY DEF ClearSlot, chain, DefaultIndexingData
<1>3. Job(r) \in Jobs /\ Job(r) <= nJobs /\ Job(r) # indexed.job
  BY HeldIsJob DEF ClearSlot, Holding, JobInv, Job
<1>4. attempts' = [attempts EXCEPT ![Job(r)] = @ + 1] /\ attempts \in [Jobs -> Nat]
  BY DEF ClearSlot, Job, TypeInv, TypeOK, HistoryTypeOK
<1>5. \A j \in Jobs : attempts'[j] = IF j = Job(r) THEN attempts[j] + 1 ELSE attempts[j]
  BY <1>4
<1>6. QED
  BY <1>1, <1>2, <1>3, <1>5

\* A step without a new holder that keeps entry and history keeps HeldDisplaced.
LEMMA HeldQuietStep ==
  ASSUME HeldDisplaced, NoNewHolder, UNCHANGED <<oci_mem, nJobs, attempts>>
  PROVE  HeldDisplaced'
<1>1. \A s \in Runs : Untaken(s)' => Untaken(s) /\ Job(s)' = Job(s)
  BY DEF NoNewHolder
<1>2. QED
  BY <1>1 DEF HeldDisplaced

\* Every step keeps HeldDisplaced.
LEMMA HeldStep == TypeInv /\ JobInv /\ HeldDisplaced /\ [Next]_vars => HeldDisplaced'
<1> SUFFICES ASSUME TypeInv, JobInv, HeldDisplaced, [Next]_vars PROVE HeldDisplaced'
  OBVIOUS
<1>0. /\ nJobs \in Nat /\ Jobs \subseteq Nat /\ indexed.job \in {0, nJobs}
      /\ \A r \in Runs : Job(r) \in Nat /\ Job(r) <= nJobs
      /\ \A j \in Jobs : attempts[j] \in Nat
  BY JobNumberTypes
<1>1. ASSUME UNCHANGED worker PROVE \A s \in Runs : (Untaken(s)' <=> Untaken(s)) /\ Job(s)' = Job(s)
  BY <1>1 DEF worker, Untaken, Job
<1>2. CASE User
  <2>1. nJobs' = nJobs + 1 /\ UNCHANGED worker
    BY <1>2 DEF User, submit_config_generic_signed, submit_config_display_circuits_package_signed,
                submit_config, append_or_replace_verilog_hash
  <2>2. \A s \in Runs : Job(s)' < nJobs'
    BY <1>0, <1>1, <2>1
  <2>3. QED
    BY <2>2 DEF HeldDisplaced
<1>3. CASE Author
  <2>1. UNCHANGED <<oci_mem, nJobs, attempts, worker>>
    BY <1>3 DEF Author, callback_new_skcd_signed, callback_new_display_circuits_package_signed,
                Include, history
  <2>2. QED
    BY <1>1, <2>1, HeldQuietStep DEF NoNewHolder
<1>4. CASE ImportBlock
  <2>1. UNCHANGED <<nJobs, attempts, worker>>
    BY <1>4 DEF ImportBlock, history
  <2>2. CASE indexed.block_number = 0
    BY <1>1, <1>4, <2>1, <2>2, HeldQuietStep DEF ImportBlock, NoNewHolder
  <2>3. CASE indexed.block_number # 0
    <3>1. indexed.job = nJobs
      BY <1>0, <2>3 DEF JobInv
    <3>2. \A s \in Runs : Untaken(s) => Job(s) # indexed.job
      BY DEF JobInv, Untaken, Holding, Job
    <3>3. \A s \in Runs : Untaken(s)' => Job(s)' < nJobs'
      BY <1>0, <1>1, <2>1, <3>1, <3>2
    <3>4. QED
      BY <3>3 DEF HeldDisplaced
  <2>4. QED
    BY <2>2, <2>3
<1>5. CASE LockTimeout \/ UNCHANGED vars
  <2>1. UNCHANGED <<oci_mem, nJobs, attempts, worker>>
    BY <1>5 DEF LockTimeout, vars, node, history
  <2>2. QED
    BY <1>1, <2>1, HeldQuietStep DEF NoNewHolder
<1>6. CASE Crash
  BY <1>6 DEF Crash, HeldDisplaced, Untaken
<1>7. ASSUME NEW r \in Runs, ReadJob(r) PROVE HeldDisplaced'
  <2>1. UNCHANGED <<oci_mem, nJobs, attempts>>
    BY <1>7 DEF ReadJob, node, history
  <2>2. /\ Job(r)' = oci_mem.job
        /\ \A s \in Runs \ {r} : (Untaken(s)' <=> Untaken(s)) /\ Job(s)' = Job(s)
    BY <1>7 DEF ReadJob, Goto, Untaken, Job, TypeInv, TypeOK, WorkerTypeOK, Local
  <2>3. QED
    BY <2>1, <2>2 DEF HeldDisplaced
<1>8. ASSUME NEW r \in Runs, ClearSlot(r) PROVE HeldDisplaced'
  <2>1. ASSUME NEW s \in Runs, Untaken(s)'
        PROVE  Job(s)' < nJobs' \/ \E k \in Jobs : attempts'[k] > 0 /\ k <= Job(s)'
    <3>1. Job(s)' = Job(s) /\ Job(s) \in Nat /\ nJobs' = nJobs
      BY <1>0, <1>8, <2>1, ClearSlotHolders DEF NoNewHolder
    <3>2. Job(r) \in Jobs /\ Job(r) <= nJobs /\ Job(r) \in Nat /\ attempts'[Job(r)] > 0
      BY <1>0, <1>8, ClearSlotHolders
    <3>3. CASE Job(r) <= Job(s)
      BY <3>1, <3>2, <3>3
    <3>4. CASE Job(s) < Job(r)
      BY <1>0, <3>1, <3>2, <3>4
    <3>5. QED
      BY <3>1, <3>2, <3>3, <3>4
  <2>2. QED
    BY <2>1 DEF HeldDisplaced
<1>9. ASSUME NEW r \in Runs, offchain_worker(r) \/ RunStep(r), ~ReadJob(r), ~ClearSlot(r)
      PROVE  HeldDisplaced'
  BY <1>9, OtherRunStep, HeldQuietStep
<1>10. QED
  BY <1>2, <1>3, <1>4, <1>5, <1>6, <1>7, <1>8, <1>9 DEF Next
-----------------------------------------------------------------------------
(* The steps of JobLifecycle, by the status of each job before and after.  *)

\* job j gives way to a later job that was submitted, or to an earlier one that was
\* taken, before this step or by it
GivesWay(j, changed) ==
    \E k \in Jobs \ {j} :
        /\ k > j => JobStatus(k) # "none" \/ k \in changed
        /\ k < j => JobStatus(k) \in {"taken", "published"} \/ k \in changed

\* Jobs that wait may be lost to others that were submitted or taken before.
LEMMA LoseStep ==
  ASSUME NEW L \in SUBSET Jobs,
         \A j \in L : JobStatus(j) = "waiting" /\ GivesWay(j, {}),
         \A j \in Jobs : JobStatus(j)' = IF j \in L THEN "lost" ELSE JobStatus(j)
  PROVE  Lifecycle!Next
<1>1. Lifecycle!Lost(L, {})
  BY DEF Lifecycle!Lost, Lifecycle!InState, Lifecycle!Displaced, GivesWay
<1>2. Lifecycle!Becomes({}, "lost", L)
  BY DEF Lifecycle!Becomes
<1>3. QED
  BY <1>1, <1>2 DEF Lifecycle!Next, Lifecycle!Lose

\* A waiting job is taken, and others may be lost to it.
LEMMA TakeStep ==
  ASSUME NEW t \in Jobs, JobStatus(t) = "waiting", NEW L \in SUBSET (Jobs \ {t}),
         \A j \in L : JobStatus(j) = "waiting" /\ GivesWay(j, {t}),
         \A j \in Jobs : JobStatus(j)' = IF j \in L THEN "lost"
                                         ELSE IF j = t THEN "taken" ELSE JobStatus(j)
  PROVE  Lifecycle!Next
<1>1. Lifecycle!Lost(L, {t})
  BY DEF Lifecycle!Lost, Lifecycle!InState, Lifecycle!Displaced, GivesWay
<1>2. Lifecycle!Becomes({t}, "taken", L)
  BY DEF Lifecycle!Becomes
<1>3. Lifecycle!Take(t)
  BY <1>1, <1>2 DEF Lifecycle!Take
<1>4. QED
  BY <1>3 DEF Lifecycle!Next

\* The next job comes in, and others may be lost to it.
LEMMA SubmitStep ==
  ASSUME NEW t \in Jobs, JobStatus(t) = "none", NEW L \in SUBSET (Jobs \ {t}),
         \A i \in Jobs : i < t => JobStatus(i) # "none",
         \A j \in L : JobStatus(j) = "waiting" /\ GivesWay(j, {t}),
         \A j \in Jobs : JobStatus(j)' = IF j \in L THEN "lost"
                                         ELSE IF j = t THEN "waiting" ELSE JobStatus(j)
  PROVE  Lifecycle!Next
<1>1. Lifecycle!Lost(L, {t})
  BY DEF Lifecycle!Lost, Lifecycle!InState, Lifecycle!Displaced, GivesWay
<1>2. Lifecycle!Becomes({t}, "waiting", L)
  BY DEF Lifecycle!Becomes
<1>3. Lifecycle!Submit(t)
  BY <1>1, <1>2 DEF Lifecycle!Submit
<1>4. QED
  BY <1>3 DEF Lifecycle!Next

\* The result of a job that was taken is published.
LEMMA PublishStep ==
  ASSUME NEW t \in Jobs, JobStatus(t) = "taken",
         \A j \in Jobs : JobStatus(j)' = IF j = t THEN "published" ELSE JobStatus(j)
  PROVE  Lifecycle!Next
<1>1. Lifecycle!Becomes({t}, "published", {})
  BY DEF Lifecycle!Becomes
<1>2. Lifecycle!Publish(t)
  BY <1>1 DEF Lifecycle!Publish
<1>3. QED
  BY <1>2 DEF Lifecycle!Next
-----------------------------------------------------------------------------
(* Every step of the pallet is a step of JobLifecycle.                     *)

LifeInv == TypeInv /\ JobInv /\ ResultInv /\ HeldDisplaced

\* What the status of a job says, and what says the status of a job.
LEMMA StatusFacts ==
  ASSUME LifeInv, NEW j \in Jobs
  PROVE  /\ j <= nJobs => JobStatus(j) # "none"
         /\ attempts[j] > 0 => JobStatus(j) \in {"taken", "published"}
         /\ JobStatus(j) = "waiting" =>
                j <= nJobs /\ ~(attempts[j] > 0) /\ ~(deposited[j] > 0)
         /\ j <= nJobs /\ (j \in {indexed.job, oci_mem.job} \/ HeldUntaken(j)) /\ ~(attempts[j] > 0)
                => JobStatus(j) = "waiting"
<1>1. nJobs \in Nat /\ j \in Nat
  BY JobNumberTypes DEF LifeInv
<1>2. /\ attempts[j] > 0 => j <= nJobs /\ j \notin {indexed.job, oci_mem.job}
      /\ deposited[j] > 0 => attempts[j] > 0
  BY DEF LifeInv, ResultInv, TakenJobs
<1>3. QED
  BY <1>1, <1>2 DEF JobStatus

\* A job the entries, the events, the attempts and the runs tell nothing new of.
LEMMA StatusSame ==
  ASSUME NEW j \in Jobs, nJobs' = nJobs,
         (j \in {indexed.job, oci_mem.job})' <=> j \in {indexed.job, oci_mem.job},
         (deposited[j] > 0)' <=> deposited[j] > 0,
         (attempts[j] > 0)' <=> attempts[j] > 0,
         HeldUntaken(j)' <=> HeldUntaken(j)
  PROVE  JobStatus(j)' = JobStatus(j)
BY DEF JobStatus

\* A job that was displaced gives way.
LEMMA HeldGivesWay ==
  ASSUME LifeInv, NEW j \in Jobs, HeldUntaken(j), j # oci_mem.job, ~(attempts[j] > 0)
  PROVE  GivesWay(j, {})
<1>1. PICK r \in Runs : Untaken(r) /\ Job(r) = j
  BY DEF HeldUntaken, Untaken, Job
<1>2. j < nJobs \/ \E k \in Jobs : attempts[k] > 0 /\ k <= j
  BY <1>1 DEF LifeInv, HeldDisplaced
<1>3. /\ nJobs \in Nat /\ Jobs \subseteq Nat
      /\ \A k \in Nat : k # 0 /\ k <= nJobs => k \in Jobs
      /\ 0 \notin Jobs
  BY JobNumberTypes DEF LifeInv
<1>4. CASE j < nJobs
  <2>1. nJobs \in Jobs \ {j} /\ nJobs > j /\ ~(nJobs < j)
    BY <1>3, <1>4
  <2>2. JobStatus(nJobs) # "none"
    BY <1>3, <2>1, StatusFacts
  <2>3. QED
    BY <2>1, <2>2 DEF GivesWay
<1>5. ASSUME NEW k \in Jobs, attempts[k] > 0, k <= j PROVE GivesWay(j, {})
  <2>1. k \in Jobs \ {j} /\ ~(k > j) /\ JobStatus(k) \in {"taken", "published"}
    BY <1>3, <1>5, StatusFacts
  <2>2. QED
    BY <2>1 DEF GivesWay
<1>6. QED
  BY <1>2, <1>4, <1>5

\* Runs that end before they take the job they hold lose it, if it is in no entry;
\* every other job stays where it is.
LEMMA HoldersGone ==
  ASSUME LifeInv, NoNewHolder, UNCHANGED <<indexed, oci_mem, deposited, nJobs, attempts>>
  PROVE  Lifecycle!Next
<1> DEFINE L == {j \in Jobs : /\ JobStatus(j) = "waiting" /\ j \notin {indexed.job, oci_mem.job}
                              /\ ~HeldUntaken(j)'}
<1>1. \A j \in Jobs : HeldUntaken(j)' => HeldUntaken(j)
  BY DEF NoNewHolder, HeldUntaken, Untaken, Job
<1>2. ASSUME NEW j \in L PROVE JobStatus(j) = "waiting" /\ GivesWay(j, {})
  <2>1. j <= nJobs /\ ~(attempts[j] > 0) /\ ~(deposited[j] > 0) /\ JobStatus(j) = "waiting"
    BY StatusFacts
  <2>2. HeldUntaken(j)
    BY <2>1 DEF JobStatus
  <2>3. QED
    BY <2>1, <2>2, HeldGivesWay
<1>3. ASSUME NEW j \in Jobs PROVE JobStatus(j)' = IF j \in L THEN "lost" ELSE JobStatus(j)
  <2>0. nJobs \in Nat /\ j \in Nat
    BY JobNumberTypes DEF LifeInv
  <2>1. CASE j \in L
    <3>1. j <= nJobs /\ ~(attempts[j] > 0) /\ ~(deposited[j] > 0)
      BY <2>1, StatusFacts
    <3>2. QED
      BY <2>0, <2>1, <3>1 DEF JobStatus
  <2>2. CASE j \notin L
    BY <1>1, <2>0, <2>2 DEF JobStatus
  <2>3. QED
    BY <2>1, <2>2
<1> HIDE DEF L
<1>4. L \in SUBSET Jobs
  BY DEF L
<1>5. QED
  BY <1>2, <1>3, <1>4, LoseStep

\* submit_config_*_signed is Submit of the next job: it is lost to nobody, and the
\* job of the same block that it overwrites is lost to it.
LEMMA UserLife ==
  ASSUME LifeInv, NEW who, NEW cid, NEW kind, submit_config(who, cid, kind)
  PROVE  Lifecycle!Next
<1> DEFINE L == {j \in Jobs : j = indexed.job}
<1>0. PICK t \in Nat : t = nJobs + 1
  BY JobNumberTypes DEF LifeInv
<1>1. /\ UNCHANGED <<deposited, attempts, oci_mem, pc, local>>
      /\ indexed'.job = t /\ nJobs' = t /\ nJobs < MaxJobs
  BY <1>0 DEF submit_config, append_or_replace_verilog_hash, node, worker
<1>2. /\ nJobs \in Nat /\ Jobs \subseteq Nat /\ oci_mem.job \in Nat /\ oci_mem.job <= nJobs
      /\ indexed.job \in {0, nJobs} /\ 0 \notin Jobs
      /\ \A r \in Runs : Job(r) \in Nat /\ Job(r) <= nJobs
  BY JobNumberTypes DEF LifeInv
<1>3. t \in Jobs
  BY <1>0, <1>1, <1>2, ConstantsAssumption DEF Jobs
<1>4. \A j \in Jobs : HeldUntaken(j)' <=> HeldUntaken(j)
  BY <1>1 DEF HeldUntaken
<1>5. JobStatus(t) = "none" /\ JobStatus(t)' = "waiting"
  BY <1>0, <1>1, <1>2 DEF JobStatus
<1>6. \A i \in Jobs : i < t => JobStatus(i) # "none"
  BY <1>0, <1>2, StatusFacts
<1>7. \A j \in L : /\ j = nJobs /\ ~HeldUntaken(j) /\ ~(attempts[j] > 0) /\ ~(deposited[j] > 0)
                   /\ j # oci_mem.job
  BY <1>2 DEF LifeInv, ResultInv, TakenJobs, JobInv, Holding, HeldUntaken
<1>8. \A j \in L : JobStatus(j) = "waiting" /\ GivesWay(j, {t})
  <2>1. TAKE j \in L
  <2>2. JobStatus(j) = "waiting"
    BY <1>2, <1>7, StatusFacts
  <2>3. t \in Jobs \ {j} /\ ~(t < j)
    BY <1>0, <1>2, <1>3, <1>7
  <2>4. QED
    BY <2>2, <2>3 DEF GivesWay
<1>9. ASSUME NEW j \in Jobs
      PROVE  JobStatus(j)' = IF j \in L THEN "lost" ELSE IF j = t THEN "waiting" ELSE JobStatus(j)
  <2>1. CASE j \in L
    BY <1>0, <1>1, <1>2, <1>4, <1>7, <2>1 DEF JobStatus
  <2>2. CASE j \notin L /\ j # t
    <3>1. (j > nJobs' <=> j > nJobs) /\ j # indexed.job /\ j # indexed'.job
      BY <1>0, <1>1, <1>2, <2>2
    <3>2. QED
      BY <1>1, <1>4, <3>1 DEF JobStatus
  <2>3. QED
    BY <1>0, <1>2, <1>5, <1>7, <2>1, <2>2
<1>10. L \in SUBSET (Jobs \ {t})
  BY <1>0, <1>2
<1> HIDE DEF L
<1>11. QED
  BY <1>3, <1>5, <1>6, <1>8, <1>9, <1>10, SubmitStep

\* The first callback of a job is Publish, a later one changes no status.
LEMMA AuthorLife ==
  ASSUME LifeInv, NEW tx \in pool,
         callback_new_skcd_signed(tx) \/ callback_new_display_circuits_package_signed(tx)
  PROVE  Lifecycle!Next \/ \A j \in Jobs : JobStatus(j)' = JobStatus(j)
<1> DEFINE t == tx.message.skcd_cid.job
<1>1. /\ UNCHANGED <<indexed, oci_mem, pc, local, nJobs, attempts>>
      /\ deposited' = [deposited EXCEPT ![t] = @ + 1]
  BY DEF callback_new_skcd_signed, callback_new_display_circuits_package_signed, Include,
         deposit_event, worker, history
<1>2. t \in Jobs /\ attempts[t] > 0
  BY DEF LifeInv, ResultInv, TxResult
<1> HIDE DEF t
<1>3. \A j \in Jobs : /\ deposited[j] \in Nat
                      /\ deposited'[j] = IF j = t THEN deposited[j] + 1 ELSE deposited[j]
  BY <1>1, <1>2 DEF LifeInv, TypeInv, TypeOK, ChainTypeOK
<1>4. \A j \in Jobs : HeldUntaken(j)' <=> HeldUntaken(j)
  BY <1>1 DEF HeldUntaken
<1>5. \A j \in Jobs \ {t} : JobStatus(j)' = JobStatus(j)
  BY <1>1, <1>3, <1>4 DEF JobStatus
<1>6. t <= nJobs /\ t \notin {indexed.job, oci_mem.job} /\ nJobs \in Nat /\ t \in Nat
  BY <1>2, JobNumberTypes DEF LifeInv, ResultInv, TakenJobs
<1>7. JobStatus(t)' = "published" /\ JobStatus(t) \in {"taken", "published"}
  BY <1>1, <1>2, <1>3, <1>6, StatusFacts DEF JobStatus
<1>8. CASE JobStatus(t) = "taken"
  <2>1. \A j \in Jobs : JobStatus(j)' = IF j = t THEN "published" ELSE JobStatus(j)
    BY <1>5, <1>7
  <2>2. QED
    BY <1>2, <1>8, <2>1, PublishStep
<1>9. CASE JobStatus(t) = "published"
  BY <1>5, <1>7, <1>9
<1>10. QED
  BY <1>7, <1>8, <1>9

\* The index write of a block displaces the job in the entry, which is lost to it
\* unless a run holds it.
LEMMA ImportBlockLife ==
  ASSUME LifeInv, ImportBlock
  PROVE  Lifecycle!Next
<1> DEFINE L == {j \in Jobs : j = oci_mem.job /\ indexed.block_number # 0 /\ ~HeldUntaken(j)}
<1>1. /\ UNCHANGED <<deposited, attempts, nJobs, pc, local>> /\ indexed'.job = 0
      /\ oci_mem' = IF indexed.block_number = 0 THEN oci_mem ELSE indexed
  BY DEF ImportBlock, worker, history, DefaultIndexingData
<1>2. /\ nJobs \in Nat /\ Jobs \subseteq Nat /\ oci_mem.job \in Nat /\ oci_mem.job <= nJobs
      /\ indexed.job \in {0, nJobs} /\ 0 \notin Jobs
      /\ \A k \in Nat : k # 0 /\ k <= nJobs => k \in Jobs
  BY JobNumberTypes DEF LifeInv
<1>3. /\ indexed.block_number = 0 <=> indexed.job = 0
      /\ indexed.job # 0 => indexed.job # oci_mem.job
  BY DEF LifeInv, JobInv
<1>4. \A j \in Jobs : HeldUntaken(j)' <=> HeldUntaken(j)
  BY <1>1 DEF HeldUntaken
<1>5. \A j \in Jobs : j = oci_mem.job => ~(attempts[j] > 0) /\ ~(deposited[j] > 0)
  BY DEF LifeInv, ResultInv, TakenJobs
<1>6. ASSUME NEW j \in L PROVE JobStatus(j) = "waiting" /\ GivesWay(j, {})
  <2>1. JobStatus(j) = "waiting"
    BY <1>2, <1>5, StatusFacts
  <2>2. nJobs \in Jobs \ {j} /\ ~(nJobs < j)
    BY <1>2, <1>3
  <2>3. JobStatus(nJobs) # "none"
    BY <1>2, <2>2, StatusFacts
  <2>4. QED
    BY <2>1, <2>2, <2>3 DEF GivesWay
<1>7. ASSUME NEW j \in Jobs PROVE JobStatus(j)' = IF j \in L THEN "lost" ELSE JobStatus(j)
  <2>1. CASE j \in L
    <3>1. j \notin {indexed'.job, oci_mem'.job} /\ j <= nJobs /\ j \in Nat
      BY <1>1, <1>2, <1>3, <2>1
    <3>2. QED
      BY <1>1, <1>2, <1>4, <1>5, <2>1, <3>1 DEF JobStatus
  <2>2. CASE j = oci_mem.job /\ indexed.block_number # 0 /\ HeldUntaken(j)
    BY <1>1, <1>2, <1>4, <1>5, <2>2 DEF JobStatus
  <2>3. CASE j # oci_mem.job \/ indexed.block_number = 0
    <3>1. j \in {indexed'.job, oci_mem'.job} <=> j \in {indexed.job, oci_mem.job}
      BY <1>1, <1>2, <1>3, <2>3
    <3>2. j \notin L
      BY <2>3
    <3>3. QED
      BY <1>1, <1>4, <3>1, <3>2, StatusSame
  <2>4. QED
    BY <2>1, <2>2, <2>3
<1> HIDE DEF L
<1>8. L \in SUBSET Jobs
  BY DEF L
<1>9. QED
  BY <1>6, <1>7, <1>8, LoseStep

\* Reading the entry tells nothing new of a job: it waits there already.
LEMMA ReadJobLife ==
  ASSUME LifeInv, NEW r \in Runs, ReadJob(r), NEW j \in Jobs
  PROVE  JobStatus(j)' = JobStatus(j)
<1>1. UNCHANGED <<indexed, oci_mem, deposited, attempts, nJobs>>
  BY DEF ReadJob, chain, node, history
<1>2. /\ Job(r)' = oci_mem.job /\ Untaken(r)' /\ ~Untaken(r)
      /\ \A s \in Runs \ {r} : (Untaken(s)' <=> Untaken(s)) /\ Job(s)' = Job(s)
  BY DEF ReadJob, Goto, Untaken, Job, LifeInv, TypeInv, TypeOK, WorkerTypeOK, Local
<1>3. CASE j = oci_mem.job
  BY <1>1, <1>3 DEF JobStatus
<1>4. CASE j # oci_mem.job
  <2>1. HeldUntaken(j)' <=> HeldUntaken(j)
    <3>1. HeldUntaken(j) <=> \E s \in Runs : Untaken(s) /\ Job(s) = j
      BY DEF HeldUntaken, Untaken, Job
    <3>2. HeldUntaken(j)' <=> \E s \in Runs : Untaken(s)' /\ Job(s)' = j
      BY DEF HeldUntaken, Untaken, Job
    <3>3. QED
      BY <1>2, <1>4, <3>1, <3>2
  <2>2. QED
    BY <1>1, <2>1, StatusSame
<1>5. QED
  BY <1>3, <1>4

\* The first run that clears the slot takes its job; a later one that has read the
\* same job takes nothing.  Another job that stands in the entry is lost to it.
LEMMA ClearSlotLife ==
  ASSUME LifeInv, NEW r \in Runs, ClearSlot(r)
  PROVE  Lifecycle!Next
<1> DEFINE L == {j \in Jobs : j = oci_mem.job /\ j # Job(r) /\ ~HeldUntaken(j)}
<1>0. PICK t \in Jobs : t = Job(r)
  BY ClearSlotHolders DEF LifeInv
<1>1. /\ UNCHANGED <<indexed, deposited, nJobs>> /\ oci_mem'.job = 0
      /\ t <= nJobs /\ t # indexed.job
      /\ \A j \in Jobs : attempts'[j] = IF j = t THEN attempts[j] + 1 ELSE attempts[j]
      /\ Untaken(r) /\ ~Untaken(r)'
      /\ \A s \in Runs : Untaken(s)' => Untaken(s) /\ Job(s)' = Job(s)
      /\ \A s \in Runs \ {r} : Untaken(s) => Untaken(s)' /\ Job(s)' = Job(s)
  BY <1>0, ClearSlotHolders DEF LifeInv, NoNewHolder
<1>2. /\ nJobs \in Nat /\ Jobs \subseteq Nat /\ oci_mem.job \in Nat /\ oci_mem.job <= nJobs
      /\ 0 \notin Jobs
      /\ \A j \in Jobs : attempts[j] \in Nat /\ deposited[j] \in Nat
  BY JobNumberTypes DEF LifeInv
<1>3. \A j \in Jobs \ {t} : HeldUntaken(j)' <=> HeldUntaken(j)
  <2>1. \A j \in Jobs : HeldUntaken(j) <=> \E s \in Runs : Untaken(s) /\ Job(s) = j
    BY DEF HeldUntaken, Untaken, Job
  <2>2. \A j \in Jobs : HeldUntaken(j)' <=> \E s \in Runs : Untaken(s)' /\ Job(s)' = j
    BY DEF HeldUntaken, Untaken, Job
  <2>3. QED
    BY <1>0, <1>1, <2>1, <2>2
<1>4. HeldUntaken(t)
  BY <1>0, <1>1 DEF HeldUntaken, Untaken, Job
<1>5. \A j \in Jobs : /\ j \in {indexed.job, oci_mem.job} => ~(attempts[j] > 0)
                      /\ deposited[j] > 0 => attempts[j] > 0
  BY DEF LifeInv, ResultInv, TakenJobs
<1>6. \A j \in Jobs : j = oci_mem.job => j # indexed.job
  BY <1>2 DEF LifeInv, JobInv
<1>7. JobStatus(t)' = IF deposited[t] > 0 THEN "published" ELSE "taken"
  BY <1>1, <1>2 DEF JobStatus
<1>8. ASSUME NEW j \in Jobs, j # t
      PROVE  JobStatus(j)' = IF j \in L THEN "lost" ELSE JobStatus(j)
  <2>1. attempts'[j] = attempts[j] /\ (HeldUntaken(j)' <=> HeldUntaken(j)) /\ j # oci_mem'.job
    BY <1>1, <1>2, <1>3, <1>8
  <2>2. CASE j = oci_mem.job /\ ~HeldUntaken(j)
    <3>1. j \in L /\ ~(attempts[j] > 0) /\ ~(deposited[j] > 0) /\ j # indexed.job /\ j <= nJobs
      BY <1>0, <1>2, <1>5, <1>6, <1>8, <2>2
    <3>2. QED
      BY <1>1, <1>2, <2>1, <2>2, <3>1 DEF JobStatus
  <2>3. CASE j = oci_mem.job /\ HeldUntaken(j)
    BY <1>1, <1>2, <1>5, <2>1, <2>3 DEF JobStatus
  <2>4. CASE j # oci_mem.job
    BY <1>1, <2>1, <2>4, StatusSame
  <2>5. QED
    BY <2>2, <2>3, <2>4
<1>9. L \in SUBSET (Jobs \ {t}) /\ \A j \in L : JobStatus(j) = "waiting"
  BY <1>0, <1>2, <1>5, StatusFacts
<1>10. CASE attempts[t] > 0
  <2>1. JobStatus(t) \in {"taken", "published"} /\ JobStatus(t)' = JobStatus(t)
    BY <1>1, <1>2, <1>5, <1>7, <1>10, StatusFacts DEF JobStatus
  <2>2. \A j \in L : GivesWay(j, {})
    BY <1>9, <2>1 DEF GivesWay
  <2>3. \A j \in Jobs : JobStatus(j)' = IF j \in L THEN "lost" ELSE JobStatus(j)
    BY <1>8, <1>9, <2>1
  <2> HIDE DEF L
  <2>4. QED
    BY <1>9, <2>2, <2>3, LoseStep
<1>11. CASE ~(attempts[t] > 0)
  <2>1. JobStatus(t) = "waiting" /\ JobStatus(t)' = "taken"
    BY <1>1, <1>4, <1>5, <1>7, <1>11, StatusFacts
  <2>2. \A j \in L : GivesWay(j, {t})
    BY <1>9 DEF GivesWay
  <2>3. \A j \in Jobs : JobStatus(j)' = IF j \in L THEN "lost"
                                        ELSE IF j = t THEN "taken" ELSE JobStatus(j)
    BY <1>8, <1>9, <2>1
  <2> HIDE DEF L
  <2>4. QED
    BY <1>9, <2>1, <2>2, <2>3, TakeStep
<1>12. QED
  BY <1>10, <1>11

\* Every step of the pallet is a step of JobLifecycle or moves no job.
LEMMA LifeStep ==
  ASSUME LifeInv, [Next]_vars
  PROVE  Lifecycle!Next \/ \A j \in Jobs : JobStatus(j)' = JobStatus(j)
<1>1. CASE User
  BY <1>1, UserLife
  DEF User, submit_config_generic_signed, submit_config_display_circuits_package_signed
<1>2. CASE Author
  BY <1>2, AuthorLife DEF Author
<1>3. CASE ImportBlock
  BY <1>3, ImportBlockLife
<1>4. CASE LockTimeout \/ UNCHANGED vars
  <2>1. UNCHANGED <<indexed, oci_mem, deposited, nJobs, attempts, pc, local>>
    BY <1>4 DEF LockTimeout, vars, chain, node, worker, history
  <2>2. NoNewHolder
    BY <2>1 DEF NoNewHolder, Untaken, Job
  <2>3. QED
    BY <2>1, <2>2, HoldersGone
<1>5. CASE Crash
  <2>1. UNCHANGED <<indexed, oci_mem, deposited, nJobs, attempts>>
    BY <1>5 DEF Crash, chain
  <2>2. NoNewHolder
    BY <1>5 DEF Crash, NoNewHolder, Untaken
  <2>3. QED
    BY <2>1, <2>2, HoldersGone
<1>6. ASSUME NEW r \in Runs, ReadJob(r) PROVE \A j \in Jobs : JobStatus(j)' = JobStatus(j)
  BY <1>6, ReadJobLife
<1>7. ASSUME NEW r \in Runs, ClearSlot(r) PROVE Lifecycle!Next
  BY <1>7, ClearSlotLife
<1>8. ASSUME NEW r \in Runs, offchain_worker(r) \/ RunStep(r), ~ReadJob(r), ~ClearSlot(r)
      PROVE  Lifecycle!Next
  BY <1>8, OtherRunStep, HoldersGone DEF LifeInv
<1>9. QED
  BY <1>1, <1>2, <1>3, <1>4, <1>5, <1>6, <1>7, <1>8 DEF Next

\* pallet-ocw-circuits implements JobLifecycle, for every number of runs in flight
\* and any crashes, traps and expired locks: a job that a run took never waits
\* again, only a job that was taken is published, and a job that is lost before it is
\* taken is lost to a later submission or to an earlier job taken in its place.
THEOREM ImplementsLifecycleHolds == Spec => ImplementsLifecycle
<1>1. Init => LifeInv
  BY TypeInit, JobInit, ResultInit DEF LifeInv, Init, HeldDisplaced, Untaken
<1>2. LifeInv /\ [Next]_vars => LifeInv'
  BY TypeStep, JobStep, ResultStep, HeldStep DEF LifeInv
<1>3. Init => Lifecycle!Init
  BY ConstantsAssumption DEF Init, Lifecycle!Init, JobStatus, Jobs
<1>4. LifeInv /\ [Next]_vars => [Lifecycle!Next]_([j \in Jobs |-> JobStatus(j)])
  BY LifeStep
<1>5. QED
  BY <1>1, <1>2, <1>3, <1>4, PTL DEF Spec, ImplementsLifecycle, Lifecycle!Spec
-----------------------------------------------------------------------------
(* How often a job is taken and published.                                 *)

\* the runs that hold job j and may still take it
Holders(j) == {r \in Runs : Untaken(r) /\ Job(r) = j}

\* every attempt used up one of the runs that had read the job
AttemptsInv == \A j \in Jobs : attempts[j] + Cardinality(Holders(j)) <= Cardinality(Runs)

\* Sets of runs can be counted.
LEMMA RunSets ==
  ASSUME NEW A \in SUBSET Runs, NEW B \in SUBSET A
  PROVE  /\ IsFiniteSet(A) /\ Cardinality(A) \in Nat /\ Cardinality(A) <= Cardinality(Runs)
         /\ Cardinality(B) \in Nat /\ Cardinality(B) <= Cardinality(A)
         /\ Cardinality(Runs) \in Nat
         /\ \A r \in A : Cardinality(A \ {r}) = Cardinality(A) - 1
         /\ \A r \in Runs \ A : Cardinality(A \cup {r}) = Cardinality(A) + 1
<1>1. IsFiniteSet(Runs) /\ IsFiniteSet(A) /\ IsFiniteSet(B)
  BY FinitenessAssumption, FS_Subset
<1>2. Cardinality(A) <= Cardinality(Runs) /\ Cardinality(B) <= Cardinality(A)
  BY <1>1, FS_Subset
<1>3. Cardinality(A) \in Nat /\ Cardinality(B) \in Nat /\ Cardinality(Runs) \in Nat
  BY <1>1, FS_CardinalityType
<1>4. \A r \in A : Cardinality(A \ {r}) = Cardinality(A) - 1
  BY <1>1, FS_RemoveElement
<1>5. \A r \in Runs \ A : Cardinality(A \cup {r}) = Cardinality(A) + 1
  BY <1>1, FS_AddElement
<1>6. QED
  BY <1>1, <1>2, <1>3, <1>4, <1>5

\* Every step keeps AttemptsInv: a job gets no new holder once it was taken.
LEMMA AttemptsStep ==
  ASSUME TypeInv, JobInv, ResultInv, AttemptsInv, [Next]_vars
  PROVE  AttemptsInv'
<1>1. ASSUME NoNewHolder, attempts' = attempts PROVE AttemptsInv'
  <2>1. SUFFICES ASSUME NEW j \in Jobs
                 PROVE  attempts'[j] + Cardinality(Holders(j)') <= Cardinality(Runs)
    BY DEF AttemptsInv
  <2>2. Holders(j)' \subseteq Holders(j) /\ Holders(j) \subseteq Runs
    BY <1>1 DEF NoNewHolder, Holders
  <2>3. /\ Cardinality(Holders(j)') <= Cardinality(Holders(j))
        /\ Cardinality(Holders(j)') \in Nat /\ Cardinality(Holders(j)) \in Nat
        /\ Cardinality(Runs) \in Nat
    BY <2>2, RunSets
  <2>4. attempts[j] \in Nat /\ attempts[j] + Cardinality(Holders(j)) <= Cardinality(Runs)
    BY JobNumberTypes DEF AttemptsInv
  <2>5. QED
    BY <1>1, <2>3, <2>4
<1>2. CASE User \/ Author \/ ImportBlock \/ LockTimeout \/ UNCHANGED vars
  <2>1. UNCHANGED <<worker, attempts>>
    BY <1>2 DEF User, submit_config_generic_signed, submit_config_display_circuits_package_signed,
                submit_config, Author, callback_new_skcd_signed,
                callback_new_display_circuits_package_signed, Include, ImportBlock, LockTimeout,
                vars, history
  <2>2. QED
    BY <1>1, <2>1 DEF worker, NoNewHolder, Untaken, Job
<1>3. CASE Crash
  <2>1. NoNewHolder /\ attempts' = attempts
    BY <1>3 DEF Crash, NoNewHolder, Untaken
  <2>2. QED
    BY <1>1, <2>1
<1>4. ASSUME NEW r \in Runs, ReadJob(r) PROVE AttemptsInv'
  <2>1. attempts' = attempts
    BY <1>4 DEF ReadJob, history
  <2>2. Job(r)' = oci_mem.job /\ \A s \in Runs \ {r} : (Untaken(s)' <=> Untaken(s)) /\ Job(s)' = Job(s)
    BY <1>4 DEF ReadJob, Goto, Untaken, Job, TypeInv, TypeOK, WorkerTypeOK, Local
  <2>3. ASSUME NEW j \in Jobs
        PROVE  attempts'[j] + Cardinality(Holders(j)') <= Cardinality(Runs)
    <3>0. attempts[j] \in Nat /\ attempts[j] + Cardinality(Holders(j)) <= Cardinality(Runs)
      BY JobNumberTypes DEF AttemptsInv
    <3>1. CASE j = oci_mem.job
      <4>1. attempts[j] = 0
        BY <3>0, <3>1 DEF ResultInv, TakenJobs
      <4>2. Holders(j)' \subseteq Runs
        BY DEF Holders
      <4>3. Cardinality(Holders(j)') \in Nat /\ Cardinality(Holders(j)') <= Cardinality(Runs)
        BY <4>2, RunSets
      <4>4. QED
        BY <2>1, <4>1, <4>3
    <3>2. CASE j # oci_mem.job
      <4>1. Holders(j)' \subseteq Holders(j) /\ Holders(j) \subseteq Runs
        BY <2>2, <3>2 DEF Holders
      <4>2. /\ Cardinality(Holders(j)') <= Cardinality(Holders(j))
            /\ Cardinality(Holders(j)') \in Nat /\ Cardinality(Holders(j)) \in Nat
            /\ Cardinality(Runs) \in Nat
        BY <4>1, RunSets
      <4>3. QED
        BY <2>1, <3>0, <4>2
    <3>3. QED
      BY <3>1, <3>2
  <2>4. QED
    BY <2>3 DEF AttemptsInv
<1>5. ASSUME NEW r \in Runs, ClearSlot(r) PROVE AttemptsInv'
  <2>1. /\ \A s \in Runs : Untaken(s)' => Untaken(s) /\ Job(s)' = Job(s)
        /\ Untaken(r) /\ ~Untaken(r)'
        /\ \A j \in Jobs : attempts'[j] = IF j = Job(r) THEN attempts[j] + 1 ELSE attempts[j]
    BY <1>5, ClearSlotHolders DEF NoNewHolder
  <2>2. ASSUME NEW j \in Jobs
        PROVE  attempts'[j] + Cardinality(Holders(j)') <= Cardinality(Runs)
    <3>0. attempts[j] \in Nat /\ attempts[j] + Cardinality(Holders(j)) <= Cardinality(Runs)
      BY JobNumberTypes DEF AttemptsInv
    <3>1. Holders(j) \subseteq Runs /\ Holders(j)' \subseteq Holders(j) \ {r}
      BY <2>1 DEF Holders
    <3>2. CASE j = Job(r)
      <4>1. r \in Holders(j)
        BY <2>1, <3>2 DEF Holders
      <4>2. Cardinality(Holders(j) \ {r}) = Cardinality(Holders(j)) - 1
        BY <3>1, <4>1, RunSets
      <4>3. /\ Cardinality(Holders(j)') <= Cardinality(Holders(j) \ {r})
            /\ Cardinality(Holders(j)') \in Nat /\ Cardinality(Runs) \in Nat
        BY <3>1, RunSets
      <4>4. Cardinality(Holders(j)) \in Nat
        BY <3>1, RunSets
      <4>5. QED
        BY <2>1, <3>0, <3>2, <4>2, <4>3, <4>4
    <3>3. CASE j # Job(r)
      <4>1. /\ Cardinality(Holders(j)') <= Cardinality(Holders(j))
            /\ Cardinality(Holders(j)') \in Nat /\ Cardinality(Holders(j)) \in Nat
            /\ Cardinality(Runs) \in Nat
        BY <3>1, RunSets
      <4>2. QED
        BY <2>1, <3>0, <3>3, <4>1
    <3>4. QED
      BY <3>2, <3>3
  <2>3. QED
    BY <2>2 DEF AttemptsInv
<1>6. ASSUME NEW r \in Runs, offchain_worker(r) \/ RunStep(r), ~ReadJob(r), ~ClearSlot(r)
      PROVE  AttemptsInv'
  BY <1>1, <1>6, OtherRunStep
<1>7. QED
  BY <1>2, <1>3, <1>4, <1>5, <1>6 DEF Next

\* A job is worked on at most once by each run that was in flight when it was stored:
\* doubled blocks, panics, restarts and expired locks never add an attempt.
THEOREM AttemptsBoundedHolds == Spec => []AttemptsBounded
<1> DEFINE Inv == TypeInv /\ JobInv /\ ResultInv /\ AttemptsInv
<1>1. Init => Inv
  <2> SUFFICES ASSUME Init PROVE Inv
    OBVIOUS
  <2>1. TypeInv /\ JobInv /\ ResultInv
    BY TypeInit, JobInit, ResultInit
  <2>2. \A j \in Jobs : attempts[j] = 0 /\ Holders(j) \subseteq Runs
    BY DEF Init, Holders
  <2>3. \A j \in Jobs : Cardinality(Holders(j)) \in Nat /\ Cardinality(Holders(j)) <= Cardinality(Runs)
    BY <2>2, RunSets
  <2>4. QED
    BY <2>1, <2>2, <2>3 DEF AttemptsInv
<1>2. Inv /\ [Next]_vars => Inv'
  BY TypeStep, JobStep, ResultStep, AttemptsStep
<1>3. Inv => AttemptsBounded
  <2> SUFFICES ASSUME Inv, NEW j \in Jobs PROVE attempts[j] <= Cardinality(Runs)
    BY DEF AttemptsBounded
  <2>1. attempts[j] \in Nat /\ attempts[j] + Cardinality(Holders(j)) <= Cardinality(Runs)
    BY JobNumberTypes DEF AttemptsInv
  <2>2. Holders(j) \subseteq Runs
    BY DEF Holders
  <2>3. Cardinality(Holders(j)) \in Nat /\ Cardinality(Runs) \in Nat
    BY <2>2, RunSets
  <2>4. QED
    BY <2>1, <2>3
<1>4. QED
  BY <1>1, <1>2, <1>3, PTL DEF Spec

\* the runs that work on job j and have not sent its result, and the callbacks of
\* job j that wait in the pool
Unsent(j) == {r \in Runs : pc[r] \in {"calling", "calling_pinpad", "finalize"} /\ Job(r) = j}
PoolOf(j) == {tx \in pool : tx.message.skcd_cid.job = j}

Signers == Cardinality(SignerAccounts)

\* every attempt pays for one event per signer: those deposited, those waiting, and
\* those a run may still send
Paid(j) ==
    deposited[j] + Cardinality(PoolOf(j)) + Signers * Cardinality(Unsent(j)) <= attempts[j] * Signers

PublishInv == IsFiniteSet(pool) /\ \A j \in Jobs : Paid(j)

\* What is waiting or unsent may become less.
LEMMA PaidLess ==
  ASSUME NEW n \in Nat, NEW d \in Nat, NEW p \in Nat, NEW u \in Nat, NEW a \in Nat,
         d + p + n * u <= a * n, NEW q \in Nat, q <= p, NEW v \in Nat, v <= u
  PROVE  d + q + n * v <= a * n
<1>1. PICK w \in Nat : u = v + w
  <2>1. u - v \in Nat /\ u = v + (u - v)
    OBVIOUS
  <2>2. QED
    BY <2>1
<1>2. n * u = n * v + n * w /\ n * w \in Nat /\ n * v \in Nat /\ a * n \in Nat
  BY <1>1
<1>3. QED
  BY <1>2

\* An attempt that starts is paid for, and one that sends has been.
LEMMA PaidMoves ==
  ASSUME NEW n \in Nat, NEW d \in Nat, NEW p \in Nat, NEW u \in Nat, NEW a \in Nat,
         d + p + n * u <= a * n
  PROVE  /\ d + p + n * (u + 1) <= (a + 1) * n
         /\ \A q \in Nat : u > 0 /\ q <= p + n => d + q + n * (u - 1) <= a * n
<1>1. n * (u + 1) = n * u + n /\ (a + 1) * n = a * n + n /\ n * (u - 1) = n * u - n
  OBVIOUS
<1>2. n * u \in Nat /\ a * n \in Nat
  OBVIOUS
<1>3. QED
  BY <1>1, <1>2

\* The numbers Paid adds up are natural numbers.
LEMMA PaidTypes ==
  ASSUME TypeInv, IsFiniteSet(pool), NEW j \in Jobs
  PROVE  /\ deposited[j] \in Nat /\ attempts[j] \in Nat /\ Signers \in Nat
         /\ IsFiniteSet(PoolOf(j)) /\ Cardinality(PoolOf(j)) \in Nat
         /\ Unsent(j) \subseteq Runs /\ Cardinality(Unsent(j)) \in Nat
<1>1. deposited[j] \in Nat /\ attempts[j] \in Nat
  BY JobNumberTypes
<1>2. Signers \in Nat
  BY FinitenessAssumption, FS_CardinalityType DEF Signers
<1>3. IsFiniteSet(PoolOf(j)) /\ Cardinality(PoolOf(j)) \in Nat
  <2>1. PoolOf(j) \subseteq pool
    BY DEF PoolOf
  <2>2. IsFiniteSet(PoolOf(j))
    BY <2>1, FS_Subset
  <2>3. QED
    BY <2>2, FS_CardinalityType
<1>4. Unsent(j) \subseteq Runs
  BY DEF Unsent
<1>5. Cardinality(Unsent(j)) \in Nat
  BY <1>4, RunSets
<1>6. QED
  BY <1>1, <1>2, <1>3, <1>4, <1>5

\* A step that adds no callback and no worker keeps the account balanced.
LEMMA PublishQuietStep ==
  ASSUME TypeInv, PublishInv, pool' \subseteq pool, UNCHANGED <<deposited, attempts>>,
         \A j \in Jobs : Unsent(j)' \subseteq Unsent(j)
  PROVE  PublishInv'
<1>1. IsFiniteSet(pool) /\ IsFiniteSet(pool')
  BY FS_Subset DEF PublishInv
<1>2. ASSUME NEW j \in Jobs PROVE Paid(j)'
  <2>1. /\ deposited[j] \in Nat /\ attempts[j] \in Nat /\ Signers \in Nat
        /\ IsFiniteSet(PoolOf(j)) /\ Cardinality(PoolOf(j)) \in Nat
        /\ Unsent(j) \subseteq Runs /\ Cardinality(Unsent(j)) \in Nat
    BY <1>1, PaidTypes
  <2>2. PoolOf(j)' \subseteq PoolOf(j)
    BY DEF PoolOf
  <2>3. IsFiniteSet(PoolOf(j)') /\ Cardinality(PoolOf(j)') <= Cardinality(PoolOf(j))
    BY <2>1, <2>2, FS_Subset
  <2>4. Cardinality(PoolOf(j)') \in Nat
    BY <2>3, FS_CardinalityType
  <2>5. Cardinality(Unsent(j)') <= Cardinality(Unsent(j)) /\ Cardinality(Unsent(j)') \in Nat
    BY <2>1, RunSets
  <2>6. deposited[j] + Cardinality(PoolOf(j)) + Signers * Cardinality(Unsent(j))
          <= attempts[j] * Signers
    BY DEF PublishInv, Paid
  <2>7. deposited[j] + Cardinality(PoolOf(j)') + Signers * Cardinality(Unsent(j)')
          <= attempts[j] * Signers
    BY <2>1, <2>3, <2>4, <2>5, <2>6, PaidLess
  <2>8. QED
    BY <2>7 DEF Paid, Signers
<1>3. QED
  BY <1>1, <1>2 DEF PublishInv

\* A callback that is executed leaves the pool and becomes an event.
LEMMA AuthorPublish ==
  ASSUME TypeInv, ResultInv, PublishInv, NEW tx \in pool,
         callback_new_skcd_signed(tx) \/ callback_new_display_circuits_package_signed(tx)
  PROVE  PublishInv'
<1> DEFINE t == tx.message.skcd_cid.job
<1>1. /\ UNCHANGED <<pc, local, attempts>> /\ pool' = pool \ {tx}
      /\ deposited' = [deposited EXCEPT ![t] = @ + 1]
  BY DEF callback_new_skcd_signed, callback_new_display_circuits_package_signed, Include,
         deposit_event, worker, history
<1>2. t \in Jobs /\ deposited \in [Jobs -> Nat]
  BY DEF ResultInv, TxResult, TypeInv, TypeOK, ChainTypeOK
<1>3. IsFiniteSet(pool) /\ IsFiniteSet(pool')
  BY <1>1, FS_Subset DEF PublishInv
<1>4. ASSUME NEW j \in Jobs PROVE Paid(j)'
  <2>1. /\ deposited[j] \in Nat /\ IsFiniteSet(PoolOf(j)) /\ Cardinality(PoolOf(j)) \in Nat
    BY <1>3, PaidTypes
  <2>2. Unsent(j)' = Unsent(j)
    BY <1>1 DEF Unsent, Job
  <2>3. PoolOf(j)' = PoolOf(j) \ {tx} /\ (tx \in PoolOf(j) <=> j = t)
    BY <1>1 DEF PoolOf
  <2>4. Cardinality(PoolOf(j)') = IF j = t THEN Cardinality(PoolOf(j)) - 1 ELSE Cardinality(PoolOf(j))
    BY <2>1, <2>3, FS_RemoveElement
  <2>5. deposited'[j] = IF j = t THEN deposited[j] + 1 ELSE deposited[j]
    BY <1>1, <1>2
  <2>6. deposited'[j] + Cardinality(PoolOf(j)') = deposited[j] + Cardinality(PoolOf(j))
    BY <2>1, <2>4, <2>5
  <2>7. QED
    BY <1>1, <2>2, <2>6 DEF PublishInv, Paid, Signers
<1>5. QED
  BY <1>3, <1>4 DEF PublishInv

\* A run that finalizes sends at most one callback per signer and is done.
LEMMA SendPublish ==
  ASSUME TypeInv, JobInv, ResultInv, PublishInv, NEW r \in Runs, send_signed_transaction(r)
  PROVE  PublishInv'
<1> DEFINE C == {CallbackTx(r, a) : a \in SignerAccounts}
           f == [tx \in C |-> tx.account]
<1>1. /\ UNCHANGED <<deposited, attempts, local>> /\ Goto(r, "unlock")
      /\ pc[r] = "finalize" /\ local[r].message.status = "ok"
  BY DEF send_signed_transaction, chain, history
<1>2. pc'[r] = "unlock" /\ \A s \in Runs \ {r} : pc'[s] = pc[s]
  BY <1>1 DEF Goto, TypeInv, TypeOK, WorkerTypeOK
<1>3. pool' \subseteq pool \cup C
  BY DEF send_signed_transaction, Submit
<1>4. IsFiniteSet(C) /\ Cardinality(C) <= Signers
  <2>1. f \in Injection(C, SignerAccounts)
    BY DEF Injection, IsInjective, CallbackTx
  <2> HIDE DEF C, f
  <2>2. QED
    BY <2>1, FinitenessAssumption, FS_Injection DEF Signers
<1>5. \A tx \in C : tx.message.skcd_cid.job = Job(r)
  <2>1. local[r].message.skcd_cid.job = Job(r)
    BY <1>1 DEF ResultInv, RunResult
  <2>2. QED
    BY <2>1 DEF CallbackTx
<1> HIDE DEF C, f
<1>6. IsFiniteSet(pool) /\ IsFiniteSet(pool')
  <2>1. IsFiniteSet(pool) /\ IsFiniteSet(pool \cup C)
    BY <1>4, FS_Union DEF PublishInv
  <2>2. QED
    BY <1>3, <2>1, FS_Subset
<1>7. ASSUME NEW j \in Jobs PROVE Paid(j)'
  <2>1. /\ deposited[j] \in Nat /\ attempts[j] \in Nat /\ Signers \in Nat
        /\ IsFiniteSet(PoolOf(j)) /\ Cardinality(PoolOf(j)) \in Nat
        /\ Unsent(j) \subseteq Runs /\ Cardinality(Unsent(j)) \in Nat
    BY <1>6, PaidTypes
  <2>2. deposited[j] + Cardinality(PoolOf(j)) + Signers * Cardinality(Unsent(j))
          <= attempts[j] * Signers
    BY DEF PublishInv, Paid
  <2>3. Unsent(j)' = Unsent(j) \ {r} /\ (r \in Unsent(j) <=> j = Job(r))
    BY <1>1, <1>2 DEF Unsent, Job
  <2>4. CASE j = Job(r)
    <3>1. PoolOf(j)' \subseteq PoolOf(j) \cup C
      BY <1>3 DEF PoolOf
    <3>2. /\ IsFiniteSet(PoolOf(j) \cup C)
          /\ Cardinality(PoolOf(j) \cup C)
               = Cardinality(PoolOf(j)) + Cardinality(C) - Cardinality(PoolOf(j) \cap C)
      BY <1>4, <2>1, FS_Union
    <3>3. Cardinality(PoolOf(j) \cap C) \in Nat /\ Cardinality(C) \in Nat
      BY <1>4, <2>1, FS_Intersection, FS_CardinalityType
    <3>4. Cardinality(PoolOf(j) \cup C) <= Cardinality(PoolOf(j)) + Signers
      BY <1>4, <2>1, <3>2, <3>3
    <3>5. IsFiniteSet(PoolOf(j)') /\ Cardinality(PoolOf(j)') <= Cardinality(PoolOf(j) \cup C)
      BY <3>1, <3>2, FS_Subset
    <3>6. Cardinality(PoolOf(j)') \in Nat /\ Cardinality(PoolOf(j) \cup C) \in Nat
      BY <3>2, <3>5, FS_CardinalityType
    <3>7. Cardinality(PoolOf(j)') <= Cardinality(PoolOf(j)) + Signers
      BY <2>1, <3>4, <3>5, <3>6
    <3>8. Cardinality(Unsent(j)') = Cardinality(Unsent(j)) - 1 /\ Cardinality(Unsent(j)') \in Nat
      <4>1. Unsent(j)' \subseteq Runs
        BY <2>1, <2>3
      <4>2. QED
        BY <2>1, <2>3, <2>4, <4>1, RunSets
    <3>9. deposited[j] + Cardinality(PoolOf(j)') + Signers * (Cardinality(Unsent(j)) - 1)
            <= attempts[j] * Signers
      BY <2>1, <2>2, <3>6, <3>7, <3>8, PaidMoves
    <3>10. QED
      BY <1>1, <3>8, <3>9 DEF Paid, Signers
  <2>5. CASE j # Job(r)
    <3>1. PoolOf(j)' \subseteq PoolOf(j)
      BY <1>3, <1>5, <2>5 DEF PoolOf
    <3>2. IsFiniteSet(PoolOf(j)') /\ Cardinality(PoolOf(j)') <= Cardinality(PoolOf(j))
      BY <2>1, <3>1, FS_Subset
    <3>3. Cardinality(PoolOf(j)') \in Nat
      BY <3>2, FS_CardinalityType
    <3>4. Unsent(j)' = Unsent(j)
      BY <2>3, <2>5
    <3>5. deposited[j] + Cardinality(PoolOf(j)') + Signers * Cardinality(Unsent(j))
            <= attempts[j] * Signers
      BY <2>1, <2>2, <3>2, <3>3, PaidLess
    <3>6. QED
      BY <1>1, <3>4, <3>5 DEF Paid, Signers
  <2>6. QED
    BY <2>4, <2>5
<1>8. QED
  BY <1>6, <1>7 DEF PublishInv

\* Taking a job adds an attempt and a run that may send.
LEMMA ClearSlotPublish ==
  ASSUME TypeInv, JobInv, PublishInv, NEW r \in Runs, ClearSlot(r)
  PROVE  PublishInv'
<1>1. /\ UNCHANGED <<pool, local, deposited>> /\ pc[r] = "locked"
      /\ \A j \in Jobs : attempts'[j] = IF j = Job(r) THEN attempts[j] + 1 ELSE attempts[j]
  BY ClearSlotHolders DEF ClearSlot, chain
<1>2. pc'[r] = "calling" /\ \A s \in Runs \ {r} : pc'[s] = pc[s]
  BY DEF ClearSlot, Goto, TypeInv, TypeOK, WorkerTypeOK
<1>3. IsFiniteSet(pool) /\ IsFiniteSet(pool')
  BY <1>1 DEF PublishInv
<1>4. ASSUME NEW j \in Jobs PROVE Paid(j)'
  <2>1. /\ deposited[j] \in Nat /\ attempts[j] \in Nat /\ Signers \in Nat
        /\ Cardinality(PoolOf(j)) \in Nat
        /\ Unsent(j) \subseteq Runs /\ Cardinality(Unsent(j)) \in Nat
    BY <1>3, PaidTypes
  <2>2. deposited[j] + Cardinality(PoolOf(j)) + Signers * Cardinality(Unsent(j))
          <= attempts[j] * Signers
    BY DEF PublishInv, Paid
  <2>3. PoolOf(j)' = PoolOf(j)
    BY <1>1 DEF PoolOf
  <2>4. CASE j = Job(r)
    <3>1. Unsent(j)' = Unsent(j) \cup {r} /\ r \notin Unsent(j)
      BY <1>1, <1>2, <2>4 DEF Unsent, Job
    <3>2. Cardinality(Unsent(j)') = Cardinality(Unsent(j)) + 1
      BY <2>1, <3>1, RunSets
    <3>3. deposited[j] + Cardinality(PoolOf(j)) + Signers * (Cardinality(Unsent(j)) + 1)
            <= (attempts[j] + 1) * Signers
      BY <2>1, <2>2, PaidMoves
    <3>4. attempts'[j] = attempts[j] + 1
      BY <1>1, <2>4
    <3>5. QED
      BY <1>1, <2>3, <3>2, <3>3, <3>4 DEF Paid, Signers
  <2>5. CASE j # Job(r)
    <3>1. Unsent(j)' = Unsent(j) /\ attempts'[j] = attempts[j]
      BY <1>1, <1>2, <2>5 DEF Unsent, Job
    <3>2. QED
      BY <1>1, <2>2, <2>3, <3>1 DEF Paid, Signers
  <2>6. QED
    BY <2>4, <2>5
<1>5. QED
  BY <1>3, <1>4 DEF PublishInv

\* The other steps of a run add neither workers nor callbacks.
LEMMA OtherPublish ==
  ASSUME TypeInv, NEW r \in Runs, offchain_worker(r) \/ RunStep(r),
         ~ClearSlot(r), ~send_signed_transaction(r)
  PROVE  UNCHANGED <<pool, deposited, attempts>> /\ \A j \in Jobs : Unsent(j)' \subseteq Unsent(j)
<1> USE DEF chain, node, history
<1>0. local \in [Runs -> Local] /\ pc \in [Runs -> Labels]
  BY DEF TypeInv, TypeOK, WorkerTypeOK
<1>1. ASSUME NEW label, label \notin {"calling", "calling_pinpad", "finalize"}, Goto(r, label),
             \A s \in Runs \ {r} : local'[s] = local[s]
      PROVE  \A j \in Jobs : Unsent(j)' \subseteq Unsent(j)
  BY <1>0, <1>1 DEF Goto, Unsent, Job
<1>2. ASSUME NEW label, pc[r] \in {"calling", "calling_pinpad", "finalize"}, Goto(r, label),
             \A s \in Runs : local'[s].indexing_data = local[s].indexing_data
      PROVE  \A j \in Jobs : Unsent(j)' \subseteq Unsent(j)
  BY <1>0, <1>2 DEF Goto, Unsent, Job
<1>3. ASSUME Return(r) PROVE \A j \in Jobs : Unsent(j)' \subseteq Unsent(j)
  BY <1>0, <1>1, <1>3 DEF Return
<1>4. CASE NothingToDo(r) \/ try_lock_fails(r) \/ Unlock(r) \/ Panic(r)
  BY <1>3, <1>4 DEF NothingToDo, try_lock_fails, Unlock, Panic
<1>5. CASE offchain_worker(r)
  <2>1. \A s \in Runs \ {r} : local'[s] = local[s]
    BY <1>0, <1>5 DEF offchain_worker
  <2>2. QED
    BY <1>1, <1>5, <2>1 DEF offchain_worker
<1>6. CASE ReadJob(r)
  <2>1. \A s \in Runs \ {r} : local'[s] = local[s]
    BY <1>0, <1>6 DEF ReadJob
  <2>2. QED
    BY <1>1, <1>6, <2>1 DEF ReadJob
<1>7. CASE try_lock(r) \/ finalize_error(r)
  BY <1>1, <1>7 DEF try_lock, finalize_error
<1>8. CASE call_grpc_generic(r) /\ ~Panic(r)
  <2>1. \A s \in Runs : local'[s].indexing_data = local[s].indexing_data
    BY <1>0, <1>8 DEF call_grpc_generic, RemoteCallPanics, Local
  <2>2. QED
    BY <1>2, <1>8, <2>1 DEF call_grpc_generic, RemoteCallPanics
<1>9. CASE call_grpc_display_message(r) /\ ~Panic(r)
  <2>1. \A s \in Runs : local'[s].indexing_data = local[s].indexing_data
    BY <1>0, <1>9 DEF call_grpc_display_message, RemoteCallPanics, Local
  <2>2. QED
    BY <1>2, <1>9, <2>1 DEF call_grpc_display_message, RemoteCallPanics
<1>10. CASE call_grpc_display_pinpad(r) /\ ~Panic(r)
  <2>1. \A s \in Runs : local'[s].indexing_data = local[s].indexing_data
    BY <1>0, <1>10 DEF call_grpc_display_pinpad, RemoteCallPanics, Local
  <2>2. /\ Goto(r, "finalize") /\ UNCHANGED <<chain, node, history>>
        /\ pc[r] = "calling_pinpad"
    BY <1>10 DEF call_grpc_display_pinpad, RemoteCallPanics
  <2>3. QED
    BY <1>2, <2>1, <2>2
<1>11. QED
  BY <1>4, <1>5, <1>6, <1>7, <1>8, <1>9, <1>10 DEF RunStep, finalize_panics

\* Every step keeps the account balanced.
LEMMA PublishStepInv ==
  ASSUME TypeInv, JobInv, ResultInv, PublishInv, [Next]_vars
  PROVE  PublishInv'
<1>1. ASSUME UNCHANGED <<pool, deposited, attempts, pc, local>> PROVE PublishInv'
  BY <1>1, PublishQuietStep DEF Unsent, Job
<1>2. CASE User \/ ImportBlock \/ LockTimeout \/ UNCHANGED vars
  <2>1. UNCHANGED <<pool, deposited, attempts, pc, local>>
    BY <1>2 DEF User, submit_config_generic_signed, submit_config_display_circuits_package_signed,
                submit_config, ImportBlock, LockTimeout, vars, chain, node, worker, history
  <2>2. QED
    BY <1>1, <2>1
<1>3. CASE Author
  BY <1>3, AuthorPublish DEF Author
<1>4. CASE Crash
  <2>1. /\ pool' \subseteq pool /\ UNCHANGED <<deposited, attempts>>
        /\ \A j \in Jobs : Unsent(j)' \subseteq Unsent(j)
    BY <1>4 DEF Crash, chain, Unsent
  <2>2. QED
    BY <2>1, PublishQuietStep
<1>5. ASSUME NEW r \in Runs, offchain_worker(r) \/ RunStep(r) PROVE PublishInv'
  BY <1>5, ClearSlotPublish, SendPublish, OtherPublish, PublishQuietStep
<1>6. QED
  BY <1>2, <1>3, <1>4, <1>5 DEF Next

\* The chain never has more results of a job than one per attempt and signer: no
\* callback is executed twice, and a replaced or dropped one is not made up for.
THEOREM PublishedOncePerAttemptHolds == Spec => []PublishedOncePerAttempt
<1> DEFINE Inv == TypeInv /\ JobInv /\ ResultInv /\ PublishInv
<1>1. Init => Inv
  <2> SUFFICES ASSUME Init PROVE Inv
    OBVIOUS
  <2>1. TypeInv /\ JobInv /\ ResultInv
    BY TypeInit, JobInit, ResultInit
  <2>2. IsFiniteSet(pool)
    BY FS_EmptySet DEF Init
  <2>3. ASSUME NEW j \in Jobs PROVE Paid(j)
    <3>1. deposited[j] = 0 /\ attempts[j] = 0 /\ PoolOf(j) = {} /\ Unsent(j) = {}
      BY DEF Init, PoolOf, Unsent
    <3>2. Signers \in Nat
      BY <2>1, <2>2, PaidTypes
    <3>3. QED
      BY <3>1, <3>2, FS_EmptySet DEF Paid
  <2>4. QED
    BY <2>1, <2>2, <2>3 DEF PublishInv
<1>2. Inv /\ [Next]_vars => Inv'
  BY TypeStep, JobStep, ResultStep, PublishStepInv
<1>3. Inv => PublishedOncePerAttempt
  <2> SUFFICES ASSUME Inv, NEW j \in Jobs PROVE deposited[j] <= attempts[j] * Signers
    BY DEF PublishedOncePerAttempt, Signers
  <2>1. /\ deposited[j] \in Nat /\ attempts[j] \in Nat /\ Signers \in Nat
        /\ Cardinality(PoolOf(j)) \in Nat /\ Cardinality(Unsent(j)) \in Nat
    BY PaidTypes DEF PublishInv
  <2>2. deposited[j] + Cardinality(PoolOf(j)) + Signers * Cardinality(Unsent(j))
          <= attempts[j] * Signers
    BY DEF PublishInv, Paid
  <2>3. Signers * Cardinality(Unsent(j)) \in Nat /\ attempts[j] * Signers \in Nat
    BY <2>1
  <2>4. QED
    BY <2>1, <2>2, <2>3
<1>4. QED
  BY <1>1, <1>2, <1>3, PTL DEF Spec
=============================================================================
