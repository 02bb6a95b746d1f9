-------------------------- MODULE OcwGarbleProofs --------------------------
(***************************************************************************)
(* Theorems about OcwGarble for every number of runs, requests, blocks,    *)
(* accounts, pinpad keys, code digits and list lengths.  The inductive     *)
(* invariants:                                                             *)
(*   - WorkerInv: types of entries and runs, where the job of a run can    *)
(*     still be, and how many attempts a job can have;                     *)
(*   - ChainInv: what a callback carries, and that it is written as one;   *)
(*   - SeedsInv: the nonces drawn so far lie below the next one;           *)
(*   - DigitsInv: every copy of a job, on whatever way, has the digits that*)
(*     were drawn for its request;                                         *)
(*   - LifeInv: why a job that a run has read is in the entry no more.     *)
(***************************************************************************)
EXTENDS GarbleLifecycle, TLAPS, FiniteSetTheorems

-----------------------------------------------------------------------------
(* Entries, runs and attempts.                                             *)

Labels == {"idle", "started", "loaded", "locked", "calling", "calling_pinpad", "finalize", "unlock"}

\* a GarbleAndStrip job has its digits
IndexingData ==
    {d \in [block_number : {0, 1}, grpc_kind : GrpcCallKind, job : Nat,
            message_digits : Messages \cup {None}, pinpad_digits : Pinpads \cup {None}] :
        d.grpc_kind = "GarbleAndStrip" => d.message_digits \in Messages /\ d.pinpad_digits \in Pinpads}

Cid == [job : Nat, attempt : Nat, part : {"none", "circuit", "message", "pinpad"}]
Reply == [status : {"pending", "err", "ok"}, pgarbled_cid : Cid]
Local == [block : Nat, attempt : Nat, indexing_data : IndexingData, message : Reply, pinpad : Reply]

Job(r) == local[r].indexing_data.job
Strips(r) == local[r].indexing_data.grpc_kind = "GarbleAndStrip"

Untaken(r) == pc[r] \in {"loaded", "locked"}
Working(r) == pc[r] \in {"calling", "calling_pinpad", "finalize", "unlock"}

\* the runs that hold job j and may still take it
Holders(j) == {r \in Runs : Untaken(r) /\ Job(r) = j}

TypeInv ==
    /\ block \in Nat /\ lock \in Lock
    /\ indexed \in IndexingData /\ oci_mem \in IndexingData
    /\ pc \in [Runs -> Labels] /\ local \in [Runs -> Local]
    /\ nJobs \in 0 .. MaxJobs /\ attempts \in [Jobs -> Nat]

\* an entry without a job is the default one, the index write is the newest job,
\* and a job that was taken is in no entry
EntryInv ==
    /\ indexed.block_number = 0 <=> indexed.job = 0
    /\ oci_mem.block_number = 0 <=> oci_mem.job = 0
    /\ indexed.job \in {0, nJobs} /\ oci_mem.job <= nJobs
    /\ indexed.job # 0 => indexed.job # oci_mem.job
    /\ \A j \in Jobs : attempts[j] > 0 => j <= nJobs /\ j \notin {indexed.job, oci_mem.job}

\* what a run has read, its own number among the attempts, and its replies
RunInv(r) ==
    /\ Job(r) <= nJobs
    /\ Untaken(r) \/ Working(r) => Job(r) # 0 /\ Job(r) # indexed.job
    /\ Working(r) => attempts[Job(r)] > 0 /\ local[r].attempt \in 1 .. attempts[Job(r)]
    /\ local[r].message.status = "ok" => Working(r)
    /\ local[r].message.status = "ok" /\ Strips(r) =>
           local[r].message.pgarbled_cid = GarbledCid(Job(r), local[r].attempt, "message")
    /\ local[r].message.status = "ok" /\ Strips(r) /\ pc[r] = "finalize" =>
           local[r].pinpad.pgarbled_cid = GarbledCid(Job(r), local[r].attempt, "pinpad")

\* every attempt used up one of the runs that had read the job
AttemptsInv == \A j \in Jobs : attempts[j] + Cardinality(Holders(j)) <= Cardinality(Runs)

WorkerInv == TypeInv /\ EntryInv /\ (\A r \in Runs : RunInv(r)) /\ AttemptsInv

\* The constants of the data types are in them.
LEMMA DataTypes ==
  /\ DefaultIndexingData \in IndexingData /\ DefaultIndexingData.job = 0
  /\ DefaultIndexingData.block_number = 0
  /\ ErrReply \in Reply /\ PendingReply \in Reply
  /\ NoLock \in Lock
<1>1. NoCid \in Cid
  BY DEF NoCid, Cid
<1>2. ErrReply \in Reply /\ PendingReply \in Reply
  BY <1>1 DEF ErrReply, PendingReply, Reply
<1>3. DefaultIndexingData \in IndexingData /\ DefaultIndexingData.job = 0
      /\ DefaultIndexingData.block_number = 0
  BY DEF DefaultIndexingData, IndexingData, GrpcCallKind
<1>4. NoLock \in Lock
  BY DEF NoLock, Lock
<1>5. QED
  BY <1>2, <1>3, <1>4

\* A new run has no job and no reply.
LEMMA NewLocalType ==
  ASSUME NEW b \in Nat
  PROVE  /\ NewLocal(b) \in Local /\ NewLocal(b).indexing_data = DefaultIndexingData
         /\ NewLocal(b).message.status = "pending" /\ NewLocal(b).block = b
BY DataTypes DEF NewLocal, Local, PendingReply

\* Sets of runs can be counted.
LEMMA RunSets ==
  ASSUME NEW A \in SUBSET Runs, NEW B \in SUBSET A
  PROVE  /\ IsFiniteSet(A) /\ Cardinality(A) \in Nat /\ Cardinality(A) <= Cardinality(Runs)
         /\ Cardinality(B) \in Nat /\ Cardinality(B) <= Cardinality(A)
         /\ Cardinality(Runs) \in Nat
         /\ \A r \in A : Cardinality(A \ {r}) = Cardinality(A) - 1
<1>1. IsFiniteSet(Runs)
  BY GarbleAssumption
<1>2. IsFiniteSet(A) /\ IsFiniteSet(B)
  BY <1>1, FS_Subset
<1>3. Cardinality(A) <= Cardinality(Runs) /\ Cardinality(B) <= Cardinality(A)
  BY <1>1, <1>2, FS_Subset
<1>4. Cardinality(A) \in Nat /\ Cardinality(B) \in Nat /\ Cardinality(Runs) \in Nat
  BY <1>1, <1>2, FS_CardinalityType
<1>5. \A r \in A : Cardinality(A \ {r}) = Cardinality(A) - 1
  BY <1>2, FS_RemoveElement
<1>6. QED
  BY <1>2, <1>3, <1>4, <1>5

\* Numbers the proofs below compare.
LEMMA JobNumberTypes ==
  ASSUME WorkerInv
  PROVE  /\ nJobs \in Nat /\ nJobs <= MaxJobs /\ Jobs \subseteq Nat /\ 0 \notin Jobs
         /\ indexed.job \in Nat /\ oci_mem.job \in Nat /\ oci_mem.job <= nJobs
         /\ indexed.job \in {0, nJobs}
         /\ \A r \in Runs : Job(r) \in Nat /\ Job(r) <= nJobs /\ local[r].attempt \in Nat
         /\ \A j \in Jobs : attempts[j] \in Nat
         /\ \A j \in Nat : j # 0 /\ j <= nJobs => j \in Jobs
         /\ \A r \in Runs : Untaken(r) \/ Working(r) => Job(r) \in Jobs
<1>1. nJobs \in Nat /\ nJobs <= MaxJobs /\ Jobs \subseteq Nat /\ 0 \notin Jobs
  BY GarbleAssumption DEF WorkerInv, TypeInv, Jobs
<1>2. /\ indexed.job \in Nat /\ oci_mem.job \in Nat /\ oci_mem.job <= nJobs
      /\ indexed.job \in {0, nJobs}
  BY DEF WorkerInv, TypeInv, EntryInv, IndexingData
<1>3. \A r \in Runs : Job(r) \in Nat /\ Job(r) <= nJobs /\ local[r].attempt \in Nat
  BY DEF WorkerInv, TypeInv, RunInv, Local, IndexingData, Job
<1>4. \A j \in Jobs : attempts[j] \in Nat
  BY DEF WorkerInv, TypeInv
<1>5. \A j \in Nat : j # 0 /\ j <= nJobs => j \in Jobs
  BY <1>1, GarbleAssumption DEF Jobs
<1>6. \A r \in Runs : Untaken(r) \/ Working(r) => Job(r) \in Jobs
  BY <1>3, <1>5 DEF WorkerInv, RunInv
<1>7. QED
  BY <1>1, <1>2, <1>3, <1>4, <1>5, <1>6

\* Nothing is stored or running before the first block.
LEMMA WorkerInit == Init => WorkerInv
<1> SUFFICES ASSUME Init PROVE WorkerInv
  OBVIOUS
<1>1. NoLocal \in Local /\ NoLocal.indexing_data.job = 0 /\ NoLocal.message.status = "pending"
  BY NewLocalType, DataTypes DEF NoLocal
<1>2. TypeInv
  BY <1>1, DataTypes, GarbleAssumption DEF Init, TypeInv, Labels
<1>3. EntryInv
  BY DataTypes DEF Init, EntryInv
<1>4. \A r \in Runs : RunInv(r)
  BY <1>1 DEF Init, RunInv, Job, Untaken, Working
<1>5. AttemptsInv
  <2>1. \A j \in Jobs : attempts[j] = 0 /\ Holders(j) \subseteq Runs
    BY DEF Init, Holders
  <2>2. \A j \in Jobs : Cardinality(Holders(j)) \in Nat /\ Cardinality(Holders(j)) <= Cardinality(Runs)
    BY <2>1, RunSets
  <2>3. QED
    BY <2>1, <2>2 DEF AttemptsInv
<1>6. QED
  BY <1>2, <1>3, <1>4, <1>5 DEF WorkerInv

\* no run has come to hold a job by this step
NoNewHolder == \A s \in Runs : Untaken(s)' => Untaken(s) /\ Job(s)' = Job(s)

\* Without new holders and attempts, AttemptsInv stays.
LEMMA AttemptsQuiet ==
  ASSUME WorkerInv, NoNewHolder, attempts' = attempts PROVE AttemptsInv'
<1>1. SUFFICES ASSUME NEW j \in Jobs
               PROVE  attempts'[j] + Cardinality(Holders(j)') <= Cardinality(Runs)
  BY DEF AttemptsInv
<1>2. Holders(j)' \subseteq Holders(j) /\ Holders(j) \subseteq Runs
  BY DEF NoNewHolder, Holders
<1>3. /\ Cardinality(Holders(j)') <= Cardinality(Holders(j))
      /\ Cardinality(Holders(j)') \in Nat /\ Cardinality(Holders(j)) \in Nat
      /\ Cardinality(Runs) \in Nat
  BY <1>2, RunSets
<1>4. attempts[j] \in Nat /\ attempts[j] + Cardinality(Holders(j)) <= Cardinality(Runs)
  BY JobNumberTypes DEF WorkerInv, AttemptsInv
<1>5. QED
  BY <1>3, <1>4

\* A step of run r that leaves entries and attempts alone.
LEMMA RunStepWorker ==
  ASSUME WorkerInv, NEW r \in Runs, RunInv(r)', NEW label \in Labels, NEW l \in Local,
         pc' = [pc EXCEPT ![r] = label], local' = [local EXCEPT ![r] = l],
         label \in {"loaded", "locked"} => Untaken(r) /\ l.indexing_data = local[r].indexing_data,
         lock' \in Lock, UNCHANGED <<indexed, block, oci_mem, nJobs, attempts>>
  PROVE  WorkerInv' /\ NoNewHolder
<1>1. TypeInv'
  BY DEF WorkerInv, TypeInv
<1>2. EntryInv'
  BY DEF WorkerInv, EntryInv
<1>3. /\ pc'[r] = label /\ local'[r] = l
      /\ \A s \in Runs \ {r} : pc'[s] = pc[s] /\ local'[s] = local[s]
  BY DEF WorkerInv, TypeInv
<1>4. \A s \in Runs \ {r} : RunInv(s)'
  BY <1>3 DEF WorkerInv, RunInv, Job, Strips, Untaken, Working
<1>5. NoNewHolder
  BY <1>3 DEF NoNewHolder, Untaken, Job
<1>6. QED
  BY <1>1, <1>2, <1>4, <1>5, AttemptsQuiet DEF WorkerInv

\* A run that ends keeps nothing.
LEMMA ReturnWorker ==
  ASSUME WorkerInv, NEW r \in Runs, Return(r), lock' \in Lock,
         UNCHANGED <<indexed, block, oci_mem, nJobs, attempts>>
  PROVE  WorkerInv'
<1>1. NoLocal \in Local /\ NoLocal.indexing_data.job = 0 /\ NoLocal.message.status = "pending"
  BY NewLocalType, DataTypes DEF NoLocal
<1>2. pc'[r] = "idle" /\ local'[r] = NoLocal
  BY DEF Return, Goto, WorkerInv, TypeInv
<1>3. RunInv(r)'
  BY <1>1, <1>2, JobNumberTypes DEF RunInv, Job, Strips, Untaken, Working
<1>4. QED
  BY <1>1, <1>3, RunStepWorker DEF Return, Goto, Labels

\* A run starts without a job.
LEMMA OffchainWorkerWorker ==
  ASSUME WorkerInv, NEW r \in Runs, offchain_worker(r) PROVE WorkerInv'
<1>1. block \in Nat
  BY DEF WorkerInv, TypeInv
<1>2. NewLocal(block) \in Local /\ NewLocal(block).indexing_data.job = 0
      /\ NewLocal(block).message.status = "pending"
  BY <1>1, NewLocalType, DataTypes
<1>3. pc'[r] = "started" /\ local'[r] = NewLocal(block)
  BY DEF offchain_worker, Goto, WorkerInv, TypeInv
<1>4. RunInv(r)'
  BY <1>2, <1>3, JobNumberTypes DEF RunInv, Job, Strips, Untaken, Working, offchain_worker, history
<1>5. UNCHANGED <<indexed, block, oci_mem, nJobs, attempts>> /\ lock' \in Lock
  BY DEF offchain_worker, history, WorkerInv, TypeInv
<1>6. QED
  BY <1>2, <1>4, <1>5, RunStepWorker DEF offchain_worker, Goto, Labels

\* A run reads a job that nobody has taken yet: all runs may hold it.
LEMMA ReadJobWorker ==
  ASSUME WorkerInv, NEW r \in Runs, ReadJob(r) PROVE WorkerInv'
<1>1. UNCHANGED <<indexed, block, oci_mem, lock, nJobs, attempts>> /\ lock' \in Lock
  BY DEF ReadJob, history, WorkerInv, TypeInv
<1>2. CASE Return(r)
  BY <1>1, <1>2, ReturnWorker
<1>3. CASE /\ oci_mem.block_number # 0 /\ Goto(r, "loaded")
           /\ local' = [local EXCEPT ![r].indexing_data = oci_mem]
  <2>1. /\ pc' = [pc EXCEPT ![r] = "loaded"]
        /\ local' = [local EXCEPT ![r] = [local[r] EXCEPT !.indexing_data = oci_mem]]
    BY <1>3 DEF Goto
  <2>2. local[r] \in Local /\ oci_mem \in IndexingData /\ oci_mem.job # 0
    BY <1>3 DEF WorkerInv, TypeInv, EntryInv
  <2>3. /\ [local[r] EXCEPT !.indexing_data = oci_mem] \in Local
        /\ [local[r] EXCEPT !.indexing_data = oci_mem].indexing_data = oci_mem
        /\ [local[r] EXCEPT !.indexing_data = oci_mem].message = local[r].message
    BY <2>2 DEF Local
  <2>4. /\ pc'[r] = "loaded" /\ local'[r].indexing_data = oci_mem
        /\ local'[r].message = local[r].message
        /\ \A s \in Runs \ {r} : pc'[s] = pc[s] /\ local'[s] = local[s]
    BY <2>1, <2>3 DEF WorkerInv, TypeInv
  <2>5. TypeInv'
    BY <1>1, <2>1, <2>3 DEF WorkerInv, TypeInv, Labels
  <2>6. EntryInv'
    BY <1>1 DEF WorkerInv, EntryInv
  <2>7. local[r].message.status # "ok"
    BY DEF WorkerInv, RunInv, Working, ReadJob
  <2>8. oci_mem.job # indexed.job
    BY <2>2 DEF WorkerInv, EntryInv
  <2>9. RunInv(r)'
    BY <1>1, <2>2, <2>4, <2>7, <2>8, JobNumberTypes DEF RunInv, Job, Strips, Untaken, Working
  <2>10. \A s \in Runs \ {r} : RunInv(s)'
    BY <1>1, <2>4 DEF WorkerInv, RunInv, Job, Strips, Untaken, Working
  <2>11. AttemptsInv'
    <3>1. SUFFICES ASSUME NEW j \in Jobs
                   PROVE  attempts'[j] + Cardinality(Holders(j)') <= Cardinality(Runs)
      BY DEF AttemptsInv
    <3>2. CASE j = oci_mem.job
      <4>1. attempts[j] = 0
        BY <3>2, JobNumberTypes DEF WorkerInv, EntryInv
      <4>2. Holders(j)' \subseteq Runs
        BY DEF Holders
      <4>3. Cardinality(Holders(j)') \in Nat /\ Cardinality(Holders(j)') <= Cardinality(Runs)
        BY <4>2, RunSets
      <4>4. QED
        BY <1>1, <4>1, <4>3
    <3>3. CASE j # oci_mem.job
      <4>1. Holders(j)' \subseteq Holders(j) /\ Holders(j) \subseteq Runs
        BY <2>4, <3>3 DEF Holders, Job, Untaken
      <4>2. /\ Cardinality(Holders(j)') <= Cardinality(Holders(j))
            /\ Cardinality(Holders(j)') \in Nat /\ Cardinality(Holders(j)) \in Nat
            /\ Cardinality(Runs) \in Nat
        BY <4>1, RunSets
      <4>3. attempts[j] \in Nat /\ attempts[j] + Cardinality(Holders(j)) <= Cardinality(Runs)
        BY JobNumberTypes DEF WorkerInv, AttemptsInv
      <4>4. QED
        BY <1>1, <4>2, <4>3
    <3>4. QED
      BY <3>2, <3>3
  <2>12. QED
    BY <2>5, <2>6, <2>9, <2>10, <2>11 DEF WorkerInv
<1>4. QED
  BY <1>2, <1>3 DEF ReadJob

\* The lock decides whether a run goes on with the job it holds.
LEMMA TryLockWorker ==
  ASSUME WorkerInv, NEW r \in Runs, try_lock(r) PROVE WorkerInv'
<1>1. UNCHANGED <<indexed, block, oci_mem, nJobs, attempts>> /\ lock \in Lock
  BY DEF try_lock, history, WorkerInv, TypeInv
<1>2. CASE Return(r) /\ UNCHANGED lock
  BY <1>1, <1>2, ReturnWorker
<1>3. CASE lock' = LockOf(local[r].block) /\ Goto(r, "locked") /\ UNCHANGED local
  <2>1. local[r] \in Local /\ local[r].block \in Nat /\ local' = [local EXCEPT ![r] = local[r]]
    BY <1>3 DEF WorkerInv, TypeInv, Local
  <2>2. lock' \in Lock
    BY <1>3, <2>1, LockBlockExpirationAssumption DEF Lock, LockOf
  <2>3. pc[r] = "loaded" /\ pc'[r] = "locked"
    BY <1>3 DEF try_lock, Goto, WorkerInv, TypeInv
  <2>4. RunInv(r)'
    BY <1>1, <1>3, <2>3 DEF WorkerInv, RunInv, Job, Strips, Untaken, Working
  <2>5. QED
    BY <1>1, <1>3, <2>1, <2>2, <2>3, <2>4, RunStepWorker DEF Goto, Labels, Untaken
<1>4. QED
  BY <1>2, <1>3 DEF try_lock

\* The run that takes the job stops holding it: one holder for one attempt.
LEMMA ClearSlotWorker ==
  ASSUME WorkerInv, NEW r \in Runs, ClearSlot(r) PROVE WorkerInv'
<1> DEFINE j == Job(r)
<1>1. /\ UNCHANGED <<indexed, block, lock, nJobs>> /\ oci_mem' = DefaultIndexingData
      /\ pc[r] = "locked" /\ attempts' = [attempts EXCEPT ![j] = @ + 1]
      /\ pc' = [pc EXCEPT ![r] = "calling"]
      /\ local' = [local EXCEPT ![r] = [local[r] EXCEPT !.attempt = attempts[j] + 1]]
  BY DEF ClearSlot, Goto, Job
<1>2. Untaken(r) /\ ~Working(r)
  BY <1>1 DEF Untaken, Working
<1>3. j \in Jobs /\ attempts[j] \in Nat /\ j # 0 /\ j \in Nat /\ j <= nJobs /\ j # indexed.job
  BY <1>2, JobNumberTypes DEF WorkerInv, RunInv
<1>4. local[r] \in Local /\ local[r].message.status # "ok"
  BY <1>2 DEF WorkerInv, TypeInv, RunInv
<1>5. [local[r] EXCEPT !.attempt = attempts[j] + 1] \in Local
  BY <1>3, <1>4 DEF Local
<1>6. /\ local'[r].attempt = attempts[j] + 1 /\ local'[r].indexing_data = local[r].indexing_data
      /\ local'[r].message = local[r].message /\ pc'[r] = "calling"
      /\ \A s \in Runs \ {r} : pc'[s] = pc[s] /\ local'[s] = local[s]
  BY <1>1, <1>4 DEF WorkerInv, TypeInv, Local
<1>7. /\ attempts' \in [Jobs -> Nat] /\ attempts'[j] = attempts[j] + 1
      /\ \A i \in Jobs : i # j => attempts'[i] = attempts[i]
      /\ \A i \in Jobs : attempts'[i] >= attempts[i]
  <2>1. attempts \in [Jobs -> Nat]
    BY DEF WorkerInv, TypeInv
  <2>2. QED
    BY <1>1, <1>3, <2>1
<1>8. TypeInv'
  BY <1>1, <1>5, <1>7, DataTypes DEF WorkerInv, TypeInv, Labels
<1>9. EntryInv'
  <2>1. \A i \in Jobs : attempts'[i] > 0 => i <= nJobs' /\ i # indexed'.job /\ i # oci_mem'.job
    <3>1. SUFFICES ASSUME NEW i \in Jobs, attempts'[i] > 0
                   PROVE  i <= nJobs' /\ i # indexed'.job /\ i # oci_mem'.job
      OBVIOUS
    <3>2. i # oci_mem'.job
      BY <1>1, DataTypes, JobNumberTypes
    <3>3. CASE i = j
      BY <1>1, <1>3, <3>2, <3>3
    <3>4. CASE i # j
      BY <1>1, <1>7, <3>1, <3>2, <3>4 DEF WorkerInv, EntryInv
    <3>5. QED
      BY <3>3, <3>4
  <2>2. QED
    BY <1>1, <2>1, DataTypes, JobNumberTypes DEF WorkerInv, EntryInv
<1>10. RunInv(r)'
  BY <1>1, <1>3, <1>4, <1>6, <1>7 DEF RunInv, Job, Strips, Untaken, Working
<1>11. \A s \in Runs \ {r} : RunInv(s)'
  <2>1. SUFFICES ASSUME NEW s \in Runs \ {r} PROVE RunInv(s)'
    OBVIOUS
  <2>2. RunInv(s) /\ Job(s)' = Job(s) /\ (Strips(s)' <=> Strips(s)) /\ local'[s] = local[s]
        /\ (Untaken(s)' <=> Untaken(s)) /\ (Working(s)' <=> Working(s)) /\ pc'[s] = pc[s]
    BY <1>6 DEF WorkerInv, Job, Strips, Untaken, Working
  <2>3. Working(s) => Job(s) \in Jobs /\ local[s].attempt \in Nat
    BY JobNumberTypes
  <2>4. Working(s)' => attempts'[Job(s)'] > 0 /\ local'[s].attempt \in 1 .. attempts'[Job(s)']
    BY <2>2, <2>3, <1>7, JobNumberTypes DEF RunInv
  <2>5. QED
    BY <1>1, <2>2, <2>4 DEF RunInv
<1>12. AttemptsInv'
  <2>1. SUFFICES ASSUME NEW i \in Jobs
                 PROVE  attempts'[i] + Cardinality(Holders(i)') <= Cardinality(Runs)
    BY DEF AttemptsInv
  <2>2. Holders(i)' \subseteq Holders(i) \ {r} /\ Holders(i) \subseteq Runs
    BY <1>6 DEF Holders, Job, Untaken
  <2>3. attempts[i] \in Nat /\ attempts[i] + Cardinality(Holders(i)) <= Cardinality(Runs)
    BY JobNumberTypes DEF WorkerInv, AttemptsInv
  <2>4. CASE i = j
    <3>1. r \in Holders(i)
      BY <1>2, <2>4 DEF Holders
    <3>2. /\ Cardinality(Holders(i) \ {r}) = Cardinality(Holders(i)) - 1
          /\ Cardinality(Holders(i)) \in Nat /\ Cardinality(Runs) \in Nat
      BY <2>2, <3>1, RunSets
    <3>3. Holders(i) \ {r} \in SUBSET Runs
      BY <2>2
    <3>4. /\ Cardinality(Holders(i)') <= Cardinality(Holders(i) \ {r})
          /\ Cardinality(Holders(i)') \in Nat
      BY <2>2, <3>3, RunSets
    <3>5. QED
      BY <1>7, <2>3, <2>4, <3>2, <3>4
  <2>5. CASE i # j
    <3>1. Holders(i)' \subseteq Holders(i)
      BY <2>2
    <3>2. /\ Cardinality(Holders(i)') <= Cardinality(Holders(i))
          /\ Cardinality(Holders(i)') \in Nat /\ Cardinality(Holders(i)) \in Nat
          /\ Cardinality(Runs) \in Nat
      BY <2>2, <3>1, RunSets
    <3>3. QED
      BY <1>7, <2>3, <2>5, <3>2
  <2>6. QED
    BY <2>4, <2>5
<1>13. QED
  BY <1>8, <1>9, <1>10, <1>11, <1>12 DEF WorkerInv

\* A run that stops with its node is one that panics and leaves the lock.
LEMMA StoppedRun == ASSUME NEW r \in Runs, NodeStops(r) PROVE Panic(r)
BY DEF NodeStops, Panic

\* A panic ends the run, with or without the lock.
LEMMA PanicWorker ==
  ASSUME WorkerInv, NEW r \in Runs, Panic(r) PROVE WorkerInv'
<1>1. UNCHANGED <<indexed, block, oci_mem, nJobs, attempts>> /\ Return(r)
  BY DEF Panic, history
<1>2. lock' \in Lock
  BY DataTypes DEF Panic, WorkerInv, TypeInv
<1>3. QED
  BY <1>1, <1>2, ReturnWorker

\* What the service answers: an error, or the cid of this job and attempt.
LEMMA RepliesTyped ==
  ASSUME WorkerInv, NEW r \in Runs, NEW part \in {"circuit", "message", "pinpad"},
         NEW reply \in RemoteReplies(r, part)
  PROVE  /\ reply \in Reply /\ reply.status \in {"ok", "err"}
         /\ reply.status = "ok" =>
                reply.pgarbled_cid = GarbledCid(Job(r), local[r].attempt, part)
<1>1. GarbledCid(Job(r), local[r].attempt, part) \in Cid
  BY JobNumberTypes DEF GarbledCid, Cid
<1>2. reply = ErrReply \/ reply = OkReply(GarbledCid(Job(r), local[r].attempt, part))
  BY DEF RemoteReplies, Data, Job
<1>3. CASE reply = ErrReply
  BY <1>3, DataTypes DEF ErrReply
<1>4. CASE reply = OkReply(GarbledCid(Job(r), local[r].attempt, part))
  BY <1>1, <1>4 DEF OkReply, Reply
<1>5. QED
  BY <1>2, <1>3, <1>4

\* A working run keeps its reply and goes on.
LEMMA ReplyWorker ==
  ASSUME WorkerInv, NEW r \in Runs, Working(r), NEW label \in {"calling_pinpad", "finalize", "unlock"},
         NEW m \in Reply, NEW p \in Reply,
         m.status = "ok" /\ Strips(r) =>
             m.pgarbled_cid = GarbledCid(Job(r), local[r].attempt, "message"),
         m.status = "ok" /\ Strips(r) /\ label = "finalize" =>
             p.pgarbled_cid = GarbledCid(Job(r), local[r].attempt, "pinpad"),
         pc' = [pc EXCEPT ![r] = label],
         local' = [local EXCEPT ![r] = [local[r] EXCEPT !.message = m, !.pinpad = p]],
         UNCHANGED <<indexed, block, oci_mem, lock, nJobs, attempts>>
  PROVE  WorkerInv'
<1>1. local[r] \in Local
  BY DEF WorkerInv, TypeInv
<1>2. [local[r] EXCEPT !.message = m, !.pinpad = p] \in Local
  BY <1>1 DEF Local
<1>3. /\ local'[r].indexing_data = local[r].indexing_data /\ local'[r].attempt = local[r].attempt
      /\ local'[r].message = m /\ local'[r].pinpad = p /\ pc'[r] = label
  BY <1>1 DEF WorkerInv, TypeInv, Local
<1>4. Job(r)' = Job(r) /\ (Strips(r)' <=> Strips(r)) /\ ~Untaken(r)' /\ Working(r)'
  BY <1>3 DEF Job, Strips, Untaken, Working
<1>5. RunInv(r)'
  BY <1>3, <1>4 DEF WorkerInv, RunInv
<1>6. lock' \in Lock /\ label \in Labels /\ label \notin {"loaded", "locked"}
  BY DEF WorkerInv, TypeInv, Labels
<1>7. QED
  BY <1>2, <1>5, <1>6, RunStepWorker

\* The calls keep what the service answered.
LEMMA CallsWorker ==
  ASSUME WorkerInv, NEW r \in Runs,
         \/ call_grpc_garble(r)
         \/ call_grpc_garble_and_strip_message(r)
         \/ call_grpc_garble_and_strip_pinpad(r)
  PROVE  WorkerInv'
<1>1. local[r] \in Local /\ local[r].message \in Reply /\ local[r].pinpad \in Reply
  BY DEF WorkerInv, TypeInv, Local
<1>2. CASE Panic(r)
  BY <1>2, PanicWorker
<1>3. CASE call_grpc_garble(r) /\ ~Panic(r)
  <2>1. PICK reply \in RemoteReplies(r, "circuit") : local' = [local EXCEPT ![r].message = reply]
    BY <1>3 DEF call_grpc_garble
  <2>2. reply \in Reply
    BY RepliesTyped
  <2>3. /\ Working(r) /\ ~Strips(r) /\ pc' = [pc EXCEPT ![r] = "finalize"]
        /\ UNCHANGED <<indexed, block, oci_mem, lock, nJobs, attempts>>
    BY <1>3 DEF call_grpc_garble, Goto, Working, Strips, Data, history
  <2>4. local' = [local EXCEPT ![r] = [local[r] EXCEPT !.message = reply, !.pinpad = local[r].pinpad]]
    BY <1>1, <2>1 DEF Local
  <2>5. QED
    BY <1>1, <2>2, <2>3, <2>4, ReplyWorker
<1>4. CASE call_grpc_garble_and_strip_message(r) /\ ~Panic(r)
  <2>1. PICK reply \in RemoteReplies(r, "message") : local' = [local EXCEPT ![r].message = reply]
    BY <1>4 DEF call_grpc_garble_and_strip_message
  <2>2. /\ reply \in Reply
        /\ reply.status = "ok" => reply.pgarbled_cid = GarbledCid(Job(r), local[r].attempt, "message")
    BY RepliesTyped
  <2>3. /\ Working(r) /\ pc' = [pc EXCEPT ![r] = "calling_pinpad"]
        /\ UNCHANGED <<indexed, block, oci_mem, lock, nJobs, attempts>>
    BY <1>4 DEF call_grpc_garble_and_strip_message, Goto, Working, history
  <2>4. local' = [local EXCEPT ![r] = [local[r] EXCEPT !.message = reply, !.pinpad = local[r].pinpad]]
    BY <1>1, <2>1 DEF Local
  <2>5. QED
    BY <1>1, <2>2, <2>3, <2>4, ReplyWorker
<1>5. CASE call_grpc_garble_and_strip_pinpad(r) /\ ~Panic(r)
  <2>1. PICK reply \in RemoteReplies(r, "pinpad") :
            reply.status = "ok" /\ local' = [local EXCEPT ![r].pinpad = reply]
    BY <1>5 DEF call_grpc_garble_and_strip_pinpad
  <2>2. reply \in Reply /\ reply.pgarbled_cid = GarbledCid(Job(r), local[r].attempt, "pinpad")
    BY <2>1, RepliesTyped
  <2>3. /\ Working(r) /\ pc' = [pc EXCEPT ![r] = "finalize"]
        /\ UNCHANGED <<indexed, block, oci_mem, lock, nJobs, attempts>>
    BY <1>5 DEF call_grpc_garble_and_strip_pinpad, Goto, Working, history
  <2>4. local' = [local EXCEPT ![r] = [local[r] EXCEPT !.message = local[r].message, !.pinpad = reply]]
    BY <1>1, <2>1 DEF Local
  <2>5. local[r].message.status = "ok" /\ Strips(r) =>
            local[r].message.pgarbled_cid = GarbledCid(Job(r), local[r].attempt, "message")
    BY DEF WorkerInv, RunInv
  <2>6. QED
    BY <1>1, <2>2, <2>3, <2>4, <2>5, ReplyWorker
<1>6. QED
  BY <1>2, <1>3, <1>4, <1>5

\* Publishing and unlocking leave the entries to the next run.
LEMMA EndOfRunWorker ==
  ASSUME WorkerInv, NEW r \in Runs, finalize_grpc_call(r) \/ Unlock(r) PROVE WorkerInv'
<1>1. CASE finalize_grpc_call(r)
  <2>1. local[r] \in Local /\ local[r].message \in Reply /\ local[r].pinpad \in Reply
    BY DEF WorkerInv, TypeInv, Local
  <2>2. /\ Working(r) /\ pc' = [pc EXCEPT ![r] = "unlock"]
        /\ UNCHANGED <<indexed, block, oci_mem, lock, local, nJobs, attempts>>
    BY <1>1 DEF finalize_grpc_call, Goto, Working, history
  <2>3. local[r].message.status = "ok" /\ Strips(r) =>
            local[r].message.pgarbled_cid = GarbledCid(Job(r), local[r].attempt, "message")
    BY DEF WorkerInv, RunInv
  <2>4. local' = [local EXCEPT ![r] = [local[r] EXCEPT !.message = local[r].message,
                                                      !.pinpad = local[r].pinpad]]
    BY <2>1, <2>2 DEF Local, WorkerInv, TypeInv
  <2>5. QED
    BY <2>1, <2>2, <2>3, <2>4, ReplyWorker
<1>2. CASE Unlock(r)
  <2>1. UNCHANGED <<indexed, block, oci_mem, nJobs, attempts>> /\ Return(r) /\ lock' \in Lock
    BY <1>2, DataTypes DEF Unlock, history
  <2>2. QED
    BY <2>1, ReturnWorker
<1>3. QED
  BY <1>1, <1>2

\* A step that leaves runs, jobs and entries alone.
LEMMA QuietWorker ==
  ASSUME WorkerInv, lock' \in Lock,
         UNCHANGED <<indexed, block, oci_mem, pc, local, nJobs, attempts>>
  PROVE  WorkerInv'
<1>1. TypeInv' /\ EntryInv'
  BY DEF WorkerInv, TypeInv, EntryInv
<1>2. \A r \in Runs : RunInv(r)'
  BY DEF WorkerInv, RunInv, Job, Strips, Untaken, Working
<1>3. NoNewHolder
  BY DEF NoNewHolder, Untaken, Job
<1>4. QED
  BY <1>1, <1>2, <1>3, AttemptsQuiet DEF WorkerInv

\* A request replaces the index write of its block by the next job.
LEMMA RequestWorker ==
  ASSUME WorkerInv, NEW who \in Users,
         \/ garble_standard_signed(who)
         \/ garble_and_strip_display_circuits_package_signed(who)
  PROVE  /\ WorkerInv' /\ nJobs < MaxJobs /\ nJobs' = nJobs + 1
         /\ indexed'.job = nJobs + 1 /\ indexed' \in IndexingData
<1>1. Request(who)
  BY DEF garble_standard_signed, garble_and_strip_display_circuits_package_signed
<1>2. /\ nJobs < MaxJobs /\ nJobs' = nJobs + 1
      /\ UNCHANGED <<block, oci_mem, lock, pc, local, attempts>>
  BY <1>1 DEF Request
<1>3. nJobs \in Nat /\ MaxJobs \in Nat
  BY JobNumberTypes, GarbleAssumption
<1>4. indexed' \in IndexingData /\ indexed'.job = nJobs + 1 /\ indexed'.block_number = 1
  <2>1. CASE garble_standard_signed(who)
    BY <1>3, <2>1 DEF garble_standard_signed, append_or_replace_skcd_hash, IndexingData, GrpcCallKind
  <2>2. CASE garble_and_strip_display_circuits_package_signed(who)
    <3>1. PICK pinpad_digits \in Pinpads, message_digits \in Messages :
              append_or_replace_skcd_hash("GarbleAndStrip", message_digits, pinpad_digits)
      BY <2>2 DEF garble_and_strip_display_circuits_package_signed
    <3>2. QED
      BY <1>3, <3>1 DEF append_or_replace_skcd_hash, IndexingData, GrpcCallKind
  <2>3. QED
    BY <2>1, <2>2
<1>5. TypeInv'
  BY <1>2, <1>3, <1>4 DEF WorkerInv, TypeInv
<1>6. EntryInv'
  <2>1. nJobs + 1 # 0 /\ indexed'.job # oci_mem'.job /\ indexed'.block_number # 0
    BY <1>2, <1>3, <1>4, JobNumberTypes
  <2>2. oci_mem'.job <= nJobs'
    BY <1>2, <1>3, JobNumberTypes
  <2>3. \A j \in Jobs : attempts'[j] > 0 => j <= nJobs' /\ j # indexed'.job /\ j # oci_mem'.job
    BY <1>2, <1>3, <1>4, JobNumberTypes DEF WorkerInv, EntryInv
  <2>4. QED
    BY <1>2, <1>4, <2>1, <2>2, <2>3 DEF WorkerInv, EntryInv
<1>7. \A r \in Runs : RunInv(r)'
  <2>1. SUFFICES ASSUME NEW r \in Runs PROVE RunInv(r)'
    OBVIOUS
  <2>2. Job(r) \in Nat /\ Job(r) <= nJobs /\ Job(r)' = Job(r) /\ (Strips(r)' <=> Strips(r))
        /\ (Untaken(r)' <=> Untaken(r)) /\ (Working(r)' <=> Working(r))
    BY <1>2, JobNumberTypes DEF Job, Strips, Untaken, Working
  <2>3. Job(r)' <= nJobs' /\ Job(r)' # indexed'.job
    BY <1>2, <1>3, <1>4, <2>2
  <2>4. QED
    BY <1>2, <2>2, <2>3 DEF WorkerInv, RunInv
<1>8. NoNewHolder
  BY <1>2 DEF NoNewHolder, Untaken, Job
<1>9. QED
  BY <1>2, <1>4, <1>5, <1>6, <1>7, <1>8, AttemptsQuiet DEF WorkerInv

\* An imported block moves its index write to the entry the runs read.
LEMMA ImportBlockWorker ==
  ASSUME WorkerInv, ImportBlock PROVE WorkerInv'
<1>1. /\ block' = block + 1 /\ indexed' = DefaultIndexingData
      /\ oci_mem' = IF indexed.block_number = 0 THEN oci_mem ELSE indexed
      /\ UNCHANGED <<lock, pc, local, nJobs, attempts>>
  BY DEF ImportBlock, history
<1>2. TypeInv'
  BY <1>1, DataTypes DEF WorkerInv, TypeInv
<1>3. indexed'.job = 0 /\ indexed'.block_number = 0
  BY <1>1, DataTypes
<1>4. EntryInv'
  <2>1. /\ oci_mem'.block_number = 0 <=> oci_mem'.job = 0
        /\ oci_mem'.job <= nJobs /\ oci_mem'.job \in {oci_mem.job, indexed.job}
    BY <1>1, JobNumberTypes DEF WorkerInv, EntryInv
  <2>2. \A j \in Jobs : attempts'[j] > 0 => j <= nJobs' /\ j # indexed'.job /\ j # oci_mem'.job
    BY <1>1, <1>3, <2>1, JobNumberTypes DEF WorkerInv, EntryInv
  <2>3. QED
    BY <1>1, <1>3, <2>1, <2>2 DEF EntryInv
<1>5. \A r \in Runs : RunInv(r)'
  BY <1>1, <1>3 DEF WorkerInv, RunInv, Job, Strips, Untaken, Working
<1>6. NoNewHolder
  BY <1>1 DEF NoNewHolder, Untaken, Job
<1>7. QED
  BY <1>1, <1>2, <1>4, <1>5, <1>6, AttemptsQuiet DEF WorkerInv

\* A callback touches chain and pool only.
LEMMA CallbackLeaves ==
  ASSUME NEW tx \in pool,
         \/ callback_new_garbled_signed(tx)
         \/ callback_new_garbled_and_strip_signed(tx)
         \/ callback_panics(tx)
  PROVE  /\ pool' = pool \ {tx}
         /\ UNCHANGED <<PackageReady, Nonce, indexed, block, oci_mem, lock, pc, local, history, garbled>>
BY DEF callback_new_garbled_signed, callback_new_garbled_and_strip_signed, callback_panics, Include

LEMMA WorkerStep == WorkerInv /\ [Next]_vars => WorkerInv'
<1> SUFFICES ASSUME WorkerInv, [Next]_vars PROVE WorkerInv'
  OBVIOUS
<1>0. lock \in Lock
  BY DEF WorkerInv, TypeInv
<1>1. CASE NewDisplayPackage
  BY <1>0, <1>1, QuietWorker DEF NewDisplayPackage, history
<1>2. CASE Extrinsic
  <2>1. CASE \E who \in Users : \/ garble_standard_signed(who)
                                \/ garble_and_strip_display_circuits_package_signed(who)
    BY <2>1, RequestWorker
  <2>2. CASE \E tx \in pool : \/ callback_new_garbled_signed(tx)
                              \/ callback_new_garbled_and_strip_signed(tx)
                              \/ callback_panics(tx)
    <3>1. UNCHANGED <<PackageReady, Nonce, indexed, block, oci_mem, lock, pc, local, history, garbled>>
      BY <2>2, CallbackLeaves
    <3>2. QED
      BY <1>0, <3>1, QuietWorker DEF history
  <2>3. QED
    BY <1>2, <2>1, <2>2 DEF Extrinsic
<1>3. CASE ImportBlock
  BY <1>3, ImportBlockWorker
<1>4. CASE LockTimeout
  <2>1. lock' \in Lock
    BY <1>0, <1>4 DEF LockTimeout, TimedOut, Lock
  <2>2. QED
    BY <1>4, <2>1, QuietWorker DEF LockTimeout, history
<1>5. CASE \E r \in Runs : RunStep(r)
  BY <1>5, OffchainWorkerWorker, ReadJobWorker, TryLockWorker, ClearSlotWorker, CallsWorker,
     EndOfRunWorker, StoppedRun, PanicWorker DEF RunStep
<1>6. CASE UNCHANGED vars
  BY <1>0, <1>6, QuietWorker DEF vars, history
<1>7. QED
  BY <1>1, <1>2, <1>3, <1>4, <1>5, <1>6 DEF Next

-----------------------------------------------------------------------------
(* Seeds.                                                                  *)

\* the nonces drawn so far lie below the next one, which has not come round
SeedsInv ==
    /\ Nonce \in 0 .. NonceModulus - 1
    /\ seeds \in [Jobs -> (Nat \X Nat) \cup {None}]
    /\ \A i \in Jobs : seeds[i] # None => i <= nJobs
    /\ nJobs < MaxJobs => /\ Nonce <= nJobs
                          /\ \A i \in Jobs : seeds[i] # None => seeds[i][2] < Nonce
    /\ SeedsDistinct

LEMMA SeedsInit == Init => SeedsInv
BY GarbleAssumption DEF Init, SeedsInv, SeedsDistinct

\* A nonce that is drawn is larger than all before it.
LEMMA DrawSeeds ==
  ASSUME MaxJobs <= NonceModulus, WorkerInv, SeedsInv, nJobs < MaxJobs, nJobs' = nJobs + 1,
         get_and_increment_nonce
  PROVE  SeedsInv'
<1> DEFINE t == nJobs + 1
<1>1. /\ nJobs \in Nat /\ Nonce \in Nat /\ Nonce < NonceModulus /\ block \in Nat /\ t \in Jobs
      /\ NonceModulus \in Nat /\ MaxJobs \in Nat
  BY JobNumberTypes, GarbleAssumption DEF SeedsInv, WorkerInv, TypeInv, Jobs
<1>2. /\ seeds'[t] = <<block, Nonce>>
      /\ \A i \in Jobs : i # t => seeds'[i] = seeds[i]
      /\ seeds' \in [Jobs -> (Nat \X Nat) \cup {None}]
  <2>1. <<block, Nonce>> \in Nat \X Nat
    BY <1>1
  <2>2. QED
    BY <1>1, <2>1 DEF get_and_increment_nonce, SeedsInv
<1>3. \A i \in Jobs : seeds[i] # None => i # t /\ seeds[i][2] < Nonce /\ seeds[i] \in Nat \X Nat
  BY <1>1 DEF SeedsInv
<1>4. Nonce' \in 0 .. NonceModulus - 1 /\ Nonce' = (Nonce + 1) % NonceModulus
  BY <1>1, GarbleAssumption DEF get_and_increment_nonce
<1>5. \A i \in Jobs : seeds'[i] # None => i <= nJobs'
  BY <1>1, <1>2, JobNumberTypes DEF SeedsInv
<1>6. nJobs' < MaxJobs => /\ Nonce' <= nJobs'
                          /\ \A i \in Jobs : seeds'[i] # None => seeds'[i][2] < Nonce'
  <2>1. SUFFICES ASSUME nJobs' < MaxJobs
                 PROVE  /\ Nonce' <= nJobs'
                        /\ \A i \in Jobs : seeds'[i] # None => seeds'[i][2] < Nonce'
    OBVIOUS
  <2>2. Nonce <= nJobs
    BY DEF SeedsInv
  <2>3. Nonce + 1 < NonceModulus
    BY <1>1, <2>1, <2>2
  <2>4. Nonce' = Nonce + 1
    BY <1>1, <1>4, <2>3
  <2>5. seeds'[t][2] < Nonce'
    BY <1>1, <1>2, <2>4
  <2>6. \A i \in Jobs : i # t /\ seeds[i] # None => seeds[i][2] < Nonce'
    BY <1>1, <1>3, <2>4
  <2>7. QED
    BY <1>1, <1>2, <2>2, <2>4, <2>5, <2>6
<1>7. SeedsDistinct'
  <2>1. SUFFICES ASSUME NEW i \in Jobs, NEW j \in Jobs, i # j, seeds'[i] # None
                 PROVE  seeds'[i] # seeds'[j]
    BY DEF SeedsDistinct
  <2>2. CASE i = t
    <3>1. seeds'[j] = seeds[j] /\ seeds'[i] = <<block, Nonce>>
      BY <1>2, <2>1, <2>2
    <3>2. seeds[j] # None => seeds[j][2] # Nonce
      BY <1>1, <1>3
    <3>3. QED
      BY <2>1, <3>1, <3>2
  <2>3. CASE i # t
    <3>1. seeds'[i] = seeds[i] /\ seeds[i][2] # Nonce
      BY <1>1, <1>2, <1>3, <2>1, <2>3
    <3>2. CASE j = t
      BY <1>2, <3>1, <3>2
    <3>3. CASE j # t
      BY <1>2, <2>1, <3>1, <3>3 DEF SeedsInv, SeedsDistinct
    <3>4. QED
      BY <3>2, <3>3
  <2>4. QED
    BY <2>2, <2>3
<1>8. QED
  BY <1>2, <1>4, <1>5, <1>6, <1>7 DEF SeedsInv

LEMMA SeedsStep ==
  ASSUME MaxJobs <= NonceModulus
  PROVE  WorkerInv /\ SeedsInv /\ [Next]_vars => SeedsInv'
<1> SUFFICES ASSUME WorkerInv, SeedsInv, [Next]_vars PROVE SeedsInv'
  OBVIOUS
<1>1. CASE \E who \in Users : garble_standard_signed(who)
  <2>1. nJobs < MaxJobs /\ nJobs' = nJobs + 1 /\ UNCHANGED <<Nonce, seeds>> /\ nJobs \in Nat
    BY <1>1, JobNumberTypes DEF garble_standard_signed, Request
  <2>2. \A i \in Jobs : i \in Nat
    BY JobNumberTypes
  <2>3. \A i \in Jobs : seeds[i] # None => i <= nJobs'
    BY <2>1, <2>2 DEF SeedsInv
  <2>4. Nonce \in Nat /\ Nonce <= nJobs'
    BY <2>1, GarbleAssumption DEF SeedsInv
  <2>5. QED
    BY <2>1, <2>3, <2>4 DEF SeedsInv, SeedsDistinct
<1>2. CASE \E who \in Users : garble_and_strip_display_circuits_package_signed(who)
  BY <1>2, DrawSeeds DEF garble_and_strip_display_circuits_package_signed, Request
<1>3. CASE UNCHANGED <<Nonce, seeds, nJobs>>
  BY <1>3 DEF SeedsInv, SeedsDistinct
<1>4. CASE \E tx \in pool : \/ callback_new_garbled_signed(tx)
                            \/ callback_new_garbled_and_strip_signed(tx)
                            \/ callback_panics(tx)
  BY <1>3, <1>4, CallbackLeaves DEF history
<1>5. CASE \E r \in Runs : RunStep(r)
  BY <1>3, <1>5 DEF RunStep, offchain_worker, ReadJob, try_lock, ClearSlot, call_grpc_garble,
     call_grpc_garble_and_strip_message, call_grpc_garble_and_strip_pinpad, Panic,
     finalize_grpc_call, Unlock, NodeStops, chain, history
<1>6. CASE NewDisplayPackage \/ ImportBlock \/ LockTimeout \/ UNCHANGED vars
  BY <1>3, <1>6 DEF NewDisplayPackage, ImportBlock, LockTimeout, vars, chain, history
<1>7. QED
  BY <1>1, <1>2, <1>4, <1>5, <1>6 DEF Next, Extrinsic

\* While there are no more requests than values of the nonce (a u64), no two
\* requests draw their digits with the same seed, in whatever blocks they are.
THEOREM SeedsDistinctHolds ==
  ASSUME MaxJobs <= NonceModulus
  PROVE  Spec => []SeedsDistinct
<1>1. Init => WorkerInv /\ SeedsInv
  BY WorkerInit, SeedsInit
<1>2. WorkerInv /\ SeedsInv /\ [Next]_vars => (WorkerInv /\ SeedsInv)'
  BY WorkerStep, SeedsStep
<1>3. SeedsInv => SeedsDistinct
  BY DEF SeedsInv
<1>4. QED
  BY <1>1, <1>2, <1>3, PTL DEF Spec

-----------------------------------------------------------------------------
(* What callbacks carry and write.                                         *)

Digits == [message_digits : Messages, pinpad_digits : Pinpads]
Package == [message_pgarbled_cid : MessageCids, pinpad_pgarbled_cid : Cid, message_nb_digits : Nat]

IsGarbled(c) == \E g \in garbled : g.cid = c

\* the message and the pinpad circuit of one attempt
Pair(m, p) ==
    /\ m \in MessageCids /\ p = GarbledCid(m.job, m.attempt, "pinpad")
    /\ IsGarbled(m) /\ IsGarbled(p)

TxInv(tx) ==
    /\ tx.account \in SignerAccounts
    /\ tx.grpc_kind = "GarbleAndStrip" =>
           /\ tx.message_digits \in Messages /\ tx.pinpad_digits \in Pinpads
           /\ Pair(tx.message.pgarbled_cid, tx.pinpad.pgarbled_cid)

\* the cids a run has kept are those of circuits that exist
RunGarbled(r) ==
    local[r].message.status = "ok" /\ Strips(r) =>
        /\ IsGarbled(local[r].message.pgarbled_cid)
        /\ pc[r] = "finalize" => IsGarbled(local[r].pinpad.pgarbled_cid)

ChainTypes ==
    /\ PackageReady \in BOOLEAN
    /\ Nonce \in 0 .. NonceModulus - 1
    /\ AccountToPendingCircuitsMap \in [Accounts -> Seq(Package)]
    /\ \A a \in Accounts :
          Len(AccountToPendingCircuitsMap[a]) <= MAX_NUMBER_PENDING_CIRCUITS_PER_ACCOUNT
    /\ CircuitServerMetadataMap \in [Accounts \X MessageCids -> Digits \cup {None}]
    /\ announced \subseteq SignerAccounts \X MessageCids

PendingInv ==
    \A a \in Accounts : \A p \in PendingPackages(a) :
        Pair(p.message_pgarbled_cid, p.pinpad_pgarbled_cid) /\ p.message_nb_digits = NbMessageDigits

ChainInv ==
    /\ ChainTypes /\ CallbackAllOrNothing /\ PendingInv
    /\ \A tx \in pool : TxInv(tx)
    /\ \A r \in Runs : RunGarbled(r)
    /\ \A g \in garbled : g.cid.job \in 1 .. nJobs

\* An appended element joins the elements of a list.
LEMMA AppendElements ==
  ASSUME NEW S, NEW s \in Seq(S), NEW e \in S
  PROVE  /\ Append(s, e) \in Seq(S) /\ Len(Append(s, e)) = Len(s) + 1
         /\ {Append(s, e)[i] : i \in DOMAIN Append(s, e)} = {s[i] : i \in DOMAIN s} \cup {e}
<1>1. /\ Append(s, e) \in Seq(S) /\ Len(Append(s, e)) = Len(s) + 1 /\ Len(s) \in Nat
      /\ DOMAIN Append(s, e) = 1 .. Len(s) + 1 /\ DOMAIN s = 1 .. Len(s)
      /\ \A i \in 1 .. Len(s) : Append(s, e)[i] = s[i]
      /\ Append(s, e)[Len(s) + 1] = e
  OBVIOUS
<1>2. \A i \in 1 .. Len(s) + 1 : i \in 1 .. Len(s) \/ i = Len(s) + 1
  BY <1>1
<1>3. 1 .. Len(s) \subseteq 1 .. Len(s) + 1 /\ Len(s) + 1 \in 1 .. Len(s) + 1
  BY <1>1
<1>4. QED
  BY <1>1, <1>2, <1>3, Zenon

LEMMA ChainInit == Init => ChainInv
<1> SUFFICES ASSUME Init PROVE ChainInv
  OBVIOUS
<1>1. ChainTypes
  <2>1. \A a \in Accounts : AccountToPendingCircuitsMap[a] = <<>> /\ Len(<<>>) = 0
    BY DEF Init
  <2>2. AccountToPendingCircuitsMap \in [Accounts -> Seq(Package)]
    BY DEF Init
  <2>3. CircuitServerMetadataMap \in [Accounts \X MessageCids -> Digits \cup {None}]
    BY DEF Init
  <2>4. 0 \in 0 .. NonceModulus - 1 /\ 0 <= MAX_NUMBER_PENDING_CIRCUITS_PER_ACCOUNT
    BY GarbleAssumption
  <2>5. QED
    BY <2>1, <2>2, <2>3, <2>4 DEF Init, ChainTypes
<1>2. \A a \in Accounts : PendingPackages(a) = {}
  BY DEF Init, PendingPackages
<1>3. CallbackAllOrNothing /\ PendingInv
  BY <1>2 DEF Init, CallbackAllOrNothing, PendingInv
<1>4. \A r \in Runs : RunGarbled(r)
  BY DEF Init, RunGarbled, NoLocal, NewLocal, PendingReply
<1>5. QED
  BY <1>1, <1>3, <1>4 DEF Init, ChainInv

\* A pair of circuits stays one: the service takes nothing back.
LEMMA PairStays ==
  ASSUME garbled \subseteq garbled', NEW m, NEW p, Pair(m, p) PROVE Pair(m, p)'
BY DEF Pair, IsGarbled

\* A step that leaves lists, digits and announcements alone.
LEMMA QuietChain ==
  ASSUME ChainInv, PackageReady' \in BOOLEAN, Nonce' \in 0 .. NonceModulus - 1,
         UNCHANGED <<AccountToPendingCircuitsMap, CircuitServerMetadataMap, announced>>,
         garbled \subseteq garbled', \A tx \in pool' : tx \in pool \/ TxInv(tx)',
         \A r \in Runs : RunGarbled(r)', \A g \in garbled' : g.cid.job \in 1 .. nJobs'
  PROVE  ChainInv'
<1>1. ChainTypes'
  BY DEF ChainInv, ChainTypes
<1>2. \A a \in Accounts : PendingPackages(a)' = PendingPackages(a)
  BY DEF PendingPackages
<1>3. CallbackAllOrNothing'
  BY <1>2 DEF ChainInv, CallbackAllOrNothing
<1>4. PendingInv'
  BY <1>2, PairStays DEF ChainInv, PendingInv
<1>5. \A tx \in pool' : TxInv(tx)'
  BY PairStays DEF ChainInv, TxInv
<1>6. QED
  BY <1>1, <1>3, <1>4, <1>5 DEF ChainInv

\* The cids a run gets for its attempt are within the bound of MessageCids.
LEMMA AttemptCids ==
  ASSUME WorkerInv, NEW r \in Runs, Working(r)
  PROVE  GarbledCid(Job(r), local[r].attempt, "message") \in MessageCids
<1>1. Job(r) \in Jobs /\ local[r].attempt \in 1 .. attempts[Job(r)] /\ attempts[Job(r)] \in Nat
  BY JobNumberTypes DEF WorkerInv, RunInv
<1>2. Holders(Job(r)) \subseteq Runs
  BY DEF Holders
<1>3. Cardinality(Holders(Job(r))) \in Nat /\ Cardinality(Runs) \in Nat
  BY <1>2, RunSets
<1>4. attempts[Job(r)] + Cardinality(Holders(Job(r))) <= Cardinality(Runs)
  BY <1>1 DEF WorkerInv, AttemptsInv
<1>5. local[r].attempt \in 1 .. Cardinality(Runs)
  BY <1>1, <1>3, <1>4
<1>6. QED
  BY <1>1, <1>5 DEF GarbledCid, MessageCids

\* A step of run r, seen from all runs: circuits that exist stay.
LEMMA OtherRunsGarbled ==
  ASSUME WorkerInv, ChainInv, NEW r \in Runs, garbled \subseteq garbled', RunGarbled(r)',
         \A s \in Runs \ {r} : pc'[s] = pc[s] /\ local'[s] = local[s]
  PROVE  \A s \in Runs : RunGarbled(s)'
BY DEF ChainInv, RunGarbled, Strips, IsGarbled

\* A run that does not call the service or the pool, and has no reply or ends.
LEMMA QuietRunChain ==
  ASSUME WorkerInv, ChainInv, NEW r \in Runs, NEW label, NEW l,
         pc' = [pc EXCEPT ![r] = label], local' = [local EXCEPT ![r] = l],
         l.message.status # "ok",
         UNCHANGED <<chain, pool, nJobs, garbled>>
  PROVE  ChainInv'
<1>1. /\ pc'[r] = label /\ local'[r] = l
      /\ \A s \in Runs \ {r} : pc'[s] = pc[s] /\ local'[s] = local[s]
  BY DEF WorkerInv, TypeInv
<1>2. RunGarbled(r)'
  BY <1>1 DEF RunGarbled
<1>3. \A s \in Runs : RunGarbled(s)'
  BY <1>1, <1>2, OtherRunsGarbled
<1>4. QED
  BY <1>3, QuietChain DEF chain, ChainInv, ChainTypes

\* The steps of a run before its calls, and those that end it.
LEMMA SilentStepsChain ==
  ASSUME WorkerInv, ChainInv, NEW r \in Runs,
         \/ offchain_worker(r) \/ ReadJob(r) \/ try_lock(r) \/ ClearSlot(r)
         \/ Panic(r) \/ Unlock(r)
  PROVE  ChainInv'
<1>1. NoLocal.message.status # "ok" /\ \A b \in Nat : NewLocal(b).message.status # "ok"
  BY NewLocalType DEF NoLocal
<1>2. local[r] \in Local /\ block \in Nat /\ local \in [Runs -> Local]
  BY DEF WorkerInv, TypeInv
<1>3. UNCHANGED <<chain, pool, nJobs, garbled>>
  BY DEF offchain_worker, ReadJob, try_lock, ClearSlot, Panic, Unlock, history
<1>4. CASE Return(r)
  BY <1>1, <1>3, <1>4, QuietRunChain DEF Return, Goto
<1>5. CASE offchain_worker(r)
  BY <1>1, <1>2, <1>3, <1>5, QuietRunChain DEF offchain_worker, Goto
<1>6. CASE ~Return(r) /\ (ReadJob(r) \/ try_lock(r) \/ ClearSlot(r))
  <2>1. local[r].message.status # "ok"
    BY <1>6 DEF WorkerInv, RunInv, Working, ReadJob, try_lock, ClearSlot
  <2>2. CASE ReadJob(r)
    <3>1. /\ pc' = [pc EXCEPT ![r] = "loaded"]
          /\ local' = [local EXCEPT ![r] = [local[r] EXCEPT !.indexing_data = oci_mem]]
      BY <1>6, <2>2 DEF ReadJob, Goto
    <3>2. [local[r] EXCEPT !.indexing_data = oci_mem].message = local[r].message
      BY <1>2 DEF Local
    <3>3. QED
      BY <1>3, <2>1, <3>1, <3>2, QuietRunChain
  <2>3. CASE try_lock(r)
    <3>1. pc' = [pc EXCEPT ![r] = "locked"] /\ local' = [local EXCEPT ![r] = local[r]]
      BY <1>2, <1>6, <2>3 DEF try_lock, Goto
    <3>2. QED
      BY <1>3, <2>1, <3>1, QuietRunChain
  <2>4. CASE ClearSlot(r)
    <3>1. /\ pc' = [pc EXCEPT ![r] = "calling"]
          /\ local' = [local EXCEPT ![r] = [local[r] EXCEPT !.attempt = attempts[Job(r)] + 1]]
      BY <2>4 DEF ClearSlot, Goto, Job
    <3>2. [local[r] EXCEPT !.attempt = attempts[Job(r)] + 1].message = local[r].message
      BY <1>2 DEF Local
    <3>3. QED
      BY <1>3, <2>1, <3>1, <3>2, QuietRunChain
  <2>5. QED
    BY <1>6, <2>2, <2>3, <2>4
<1>7. QED
  BY <1>4, <1>5, <1>6 DEF Panic, Unlock

\* The circuit of a good reply exists.
LEMMA NowGarbled ==
  ASSUME NEW reply, NEW digits, ServiceGarbles(reply, digits), reply.status = "ok"
  PROVE  IsGarbled(reply.pgarbled_cid)'
<1> DEFINE g == [cid |-> reply.pgarbled_cid, digits |-> digits]
<1>1. g \in garbled' /\ g.cid = reply.pgarbled_cid
  BY DEF ServiceGarbles
<1>2. \E h \in garbled' : h.cid = reply.pgarbled_cid
  BY <1>1
<1>3. QED
  BY <1>2 DEF IsGarbled

\* A reply is kept together with the circuit behind it.
LEMMA CallsChain ==
  ASSUME WorkerInv, ChainInv, NEW r \in Runs,
         \/ call_grpc_garble(r)
         \/ call_grpc_garble_and_strip_message(r)
         \/ call_grpc_garble_and_strip_pinpad(r),
         ~Panic(r)
  PROVE  ChainInv'
<1>1. local[r] \in Local /\ local \in [Runs -> Local] /\ pc \in [Runs -> Labels]
  BY DEF WorkerInv, TypeInv
<1>2. UNCHANGED <<chain, pool, nJobs>> /\ Working(r)
  BY DEF call_grpc_garble, call_grpc_garble_and_strip_message, call_grpc_garble_and_strip_pinpad,
     history, Working
<1>3. Job(r) \in 1 .. nJobs
  BY <1>2, JobNumberTypes DEF WorkerInv, RunInv
<1>4. PICK part \in {"circuit", "message", "pinpad"} :
          \E reply \in RemoteReplies(r, part) : \E digits : ServiceGarbles(reply, digits)
  BY DEF call_grpc_garble, call_grpc_garble_and_strip_message, call_grpc_garble_and_strip_pinpad
<1>5. PICK reply \in RemoteReplies(r, part) : \E digits : ServiceGarbles(reply, digits)
  BY <1>4
<1>6. garbled \subseteq garbled' /\ \A g \in garbled' : g.cid.job \in 1 .. nJobs'
  <2>1. reply.status = "ok" => reply.pgarbled_cid = GarbledCid(Job(r), local[r].attempt, part)
    BY RepliesTyped
  <2>2. QED
    BY <1>2, <1>3, <1>5, <2>1 DEF ServiceGarbles, GarbledCid, ChainInv
<1>7. /\ \A s \in Runs \ {r} : pc'[s] = pc[s] /\ local'[s] = local[s]
      /\ local'[r].indexing_data = local[r].indexing_data
  BY <1>1 DEF call_grpc_garble, call_grpc_garble_and_strip_message,
     call_grpc_garble_and_strip_pinpad, Goto, Local
<1>8. RunGarbled(r)'
  <2>1. CASE call_grpc_garble(r)
    BY <1>7, <2>1 DEF call_grpc_garble, Data, RunGarbled, Strips
  <2>2. CASE call_grpc_garble_and_strip_message(r)
    <3>1. PICK rep \in RemoteReplies(r, "message") :
              /\ ServiceGarbles(rep, Data(r).message_digits)
              /\ local' = [local EXCEPT ![r].message = rep]
      BY <2>2 DEF call_grpc_garble_and_strip_message
    <3>2. pc'[r] = "calling_pinpad" /\ local'[r].message = rep
      BY <1>1, <2>2, <3>1 DEF call_grpc_garble_and_strip_message, Goto, Local
    <3>3. rep.status = "ok" => IsGarbled(rep.pgarbled_cid)'
      BY <3>1, NowGarbled
    <3>4. QED
      BY <3>2, <3>3 DEF RunGarbled, IsGarbled
  <2>3. CASE call_grpc_garble_and_strip_pinpad(r)
    <3>1. PICK rep \in RemoteReplies(r, "pinpad") :
              /\ rep.status = "ok" /\ ServiceGarbles(rep, Data(r).pinpad_digits)
              /\ local' = [local EXCEPT ![r].pinpad = rep]
      BY <2>3 DEF call_grpc_garble_and_strip_pinpad
    <3>2. local'[r].message = local[r].message /\ local'[r].pinpad = rep
      BY <1>1, <3>1 DEF Local
    <3>3. IsGarbled(rep.pgarbled_cid)'
      BY <3>1, NowGarbled
    <3>4. RunGarbled(r) /\ (Strips(r)' <=> Strips(r))
      BY <1>7 DEF ChainInv, Strips
    <3>5. QED
      BY <1>6, <3>2, <3>3, <3>4 DEF RunGarbled, IsGarbled
  <2>4. QED
    BY <2>1, <2>2, <2>3
<1>9. \A s \in Runs : RunGarbled(s)'
  BY <1>6, <1>7, <1>8, OtherRunsGarbled
<1>10. QED
  BY <1>2, <1>6, <1>9, QuietChain DEF chain, ChainInv, ChainTypes

\* What goes to the pool is the pair of circuits of the run's own attempt.
LEMMA FinalizeChain ==
  ASSUME WorkerInv, ChainInv, NEW r \in Runs, finalize_grpc_call(r) PROVE ChainInv'
<1>1. /\ pc[r] = "finalize" /\ Working(r) /\ pc' = [pc EXCEPT ![r] = "unlock"]
      /\ UNCHANGED <<chain, local, nJobs, garbled>>
  BY DEF finalize_grpc_call, Goto, Working, history
<1>2. local[r] \in Local /\ pc \in [Runs -> Labels]
  BY DEF WorkerInv, TypeInv
<1>3. ASSUME local[r].message.status = "ok", NEW a \in SignerAccounts PROVE TxInv(CallbackTx(r, a))
  <2> DEFINE tx == CallbackTx(r, a)
  <2>1. /\ tx.account = a /\ tx.grpc_kind = local[r].indexing_data.grpc_kind
        /\ tx.message = local[r].message /\ tx.message_digits = local[r].indexing_data.message_digits
        /\ tx.pinpad = local[r].pinpad /\ tx.pinpad_digits = local[r].indexing_data.pinpad_digits
    BY DEF CallbackTx, Data
  <2> HIDE DEF tx
  <2>2. SUFFICES ASSUME Strips(r)
                 PROVE  /\ tx.message_digits \in Messages /\ tx.pinpad_digits \in Pinpads
                        /\ Pair(tx.message.pgarbled_cid, tx.pinpad.pgarbled_cid)
    BY <2>1 DEF TxInv, Strips, tx
  <2>3. tx.message_digits \in Messages /\ tx.pinpad_digits \in Pinpads
    BY <1>2, <2>1, <2>2 DEF Local, IndexingData, Strips
  <2>4. /\ tx.message.pgarbled_cid = GarbledCid(Job(r), local[r].attempt, "message")
        /\ tx.pinpad.pgarbled_cid = GarbledCid(Job(r), local[r].attempt, "pinpad")
    BY <1>1, <1>3, <2>1, <2>2 DEF WorkerInv, RunInv
  <2>5. IsGarbled(tx.message.pgarbled_cid) /\ IsGarbled(tx.pinpad.pgarbled_cid)
    BY <1>1, <1>3, <2>1, <2>2 DEF ChainInv, RunGarbled
  <2>6. tx.message.pgarbled_cid \in MessageCids
    BY <1>1, <2>4, AttemptCids
  <2>7. QED
    BY <2>3, <2>4, <2>5, <2>6 DEF Pair, GarbledCid
<1>4. \A tx \in pool' : tx \in pool \/ TxInv(tx)
  BY <1>3 DEF finalize_grpc_call
<1>5. \A tx \in pool' : tx \in pool \/ TxInv(tx)'
  BY <1>1, <1>4 DEF TxInv, Pair, IsGarbled
<1>6. \A s \in Runs : RunGarbled(s)'
  BY <1>1, <1>2 DEF ChainInv, RunGarbled, Strips, IsGarbled
<1>7. QED
  BY <1>1, <1>5, <1>6, QuietChain DEF chain, ChainInv, ChainTypes

\* The event, the digits and the list entry of a callback are one write.
LEMMA CallbackChain ==
  ASSUME ChainInv, NEW tx \in pool, callback_new_garbled_and_strip_signed(tx)
  PROVE  ChainInv'
<1> DEFINE who == tx.account
           cid == tx.message.pgarbled_cid
           pkg == DisplayStrippedCircuitsPackage(tx)
           entry == [message_digits |-> tx.message_digits, pinpad_digits |-> tx.pinpad_digits]
<1>1. /\ who \in SignerAccounts /\ who \in Accounts /\ cid \in MessageCids
      /\ tx.message_digits \in Messages /\ tx.pinpad_digits \in Pinpads
      /\ Pair(cid, tx.pinpad.pgarbled_cid)
  BY DEF ChainInv, TxInv, Pair, callback_new_garbled_and_strip_signed, Accounts
<1>2. /\ pool' = pool \ {tx}
      /\ UNCHANGED <<PackageReady, Nonce, pc, local, nJobs, garbled>>
      /\ announced' = announced \cup {<<who, cid>>}
      /\ CircuitServerMetadataMap' = [CircuitServerMetadataMap EXCEPT ![<<who, cid>>] = entry]
      /\ AccountToPendingCircuitsMap' =
            [AccountToPendingCircuitsMap EXCEPT ![who] = Append(AccountToPendingCircuitsMap[who], pkg)]
      /\ Len(AccountToPendingCircuitsMap[who]) # MAX_NUMBER_PENDING_CIRCUITS_PER_ACCOUNT
  BY DEF callback_new_garbled_and_strip_signed, Include, TxV!store_metadata_aux, history, PendingIsFull
<1>3. Len(tx.message_digits) = NbMessageDigits /\ NbMessageDigits \in Nat
  BY <1>1, GarbleAssumption DEF Messages
<1>4. /\ pkg.message_pgarbled_cid = cid /\ pkg.pinpad_pgarbled_cid = tx.pinpad.pgarbled_cid
      /\ pkg.message_nb_digits = NbMessageDigits
      /\ pkg = [message_pgarbled_cid |-> cid, pinpad_pgarbled_cid |-> tx.pinpad.pgarbled_cid,
                message_nb_digits |-> Len(tx.message_digits)]
  BY <1>3 DEF DisplayStrippedCircuitsPackage
<1>5. tx.pinpad.pgarbled_cid \in Cid
  <2>1. cid.job \in Nat /\ cid.attempt \in Nat
    BY <1>1 DEF MessageCids, Jobs
  <2>2. QED
    BY <1>1, <2>1 DEF Pair, GarbledCid, Cid
<1>6. pkg \in Package
  BY <1>1, <1>3, <1>4, <1>5 DEF Package
<1>7. entry \in Digits /\ entry # None
  <2>1. entry \in Digits
    BY <1>1 DEF Digits
  <2>2. QED
    BY <2>1, NoneAssumption DEF Digits
<1> HIDE DEF pkg, entry, who, cid
<1>8. /\ AccountToPendingCircuitsMap \in [Accounts -> Seq(Package)]
      /\ CircuitServerMetadataMap \in [Accounts \X MessageCids -> Digits \cup {None}]
      /\ announced \subseteq SignerAccounts \X MessageCids
  BY DEF ChainInv, ChainTypes
<1>9. /\ AccountToPendingCircuitsMap'[who] = Append(AccountToPendingCircuitsMap[who], pkg)
      /\ \A a \in Accounts \ {who} : AccountToPendingCircuitsMap'[a] = AccountToPendingCircuitsMap[a]
  BY <1>1, <1>2, <1>8
<1>10. /\ Append(AccountToPendingCircuitsMap[who], pkg) \in Seq(Package)
       /\ Len(AccountToPendingCircuitsMap'[who]) = Len(AccountToPendingCircuitsMap[who]) + 1
       /\ Len(AccountToPendingCircuitsMap[who]) \in Nat
       /\ PendingPackages(who)' = PendingPackages(who) \cup {pkg}
  <2>1. AccountToPendingCircuitsMap[who] \in Seq(Package)
    BY <1>1, <1>8
  <2>2. PendingPackages(who)' = {Append(AccountToPendingCircuitsMap[who], pkg)[i] :
                                   i \in DOMAIN Append(AccountToPendingCircuitsMap[who], pkg)}
    BY <1>2, <1>9 DEF PendingPackages, who
  <2>3. QED
    BY <1>6, <1>9, <2>1, <2>2, AppendElements, SMTT(30) DEF PendingPackages
<1>11. \A a \in Accounts \ {who} : PendingPackages(a)' = PendingPackages(a)
  BY <1>9 DEF PendingPackages
<1>12. ChainTypes'
  <2>1. AccountToPendingCircuitsMap' \in [Accounts -> Seq(Package)]
    BY <1>1, <1>2, <1>8, <1>10
  <2>2. \A a \in Accounts :
          Len(AccountToPendingCircuitsMap'[a]) <= MAX_NUMBER_PENDING_CIRCUITS_PER_ACCOUNT
    <3>1. Len(AccountToPendingCircuitsMap[who]) + 1 <= MAX_NUMBER_PENDING_CIRCUITS_PER_ACCOUNT
      BY <1>1, <1>2, <1>10, GarbleAssumption DEF ChainInv, ChainTypes
    <3>2. QED
      BY <1>9, <1>10, <3>1 DEF ChainInv, ChainTypes
  <2>3. CircuitServerMetadataMap' \in [Accounts \X MessageCids -> Digits \cup {None}]
    BY <1>1, <1>2, <1>7, <1>8
  <2>4. announced' \subseteq SignerAccounts \X MessageCids
    BY <1>1, <1>2, <1>8
  <2>5. QED
    BY <1>2, <2>1, <2>2, <2>3, <2>4 DEF ChainInv, ChainTypes
<1>13. CallbackAllOrNothing'
  <2>1. SUFFICES ASSUME NEW a \in Accounts, NEW c \in MessageCids
                 PROVE  LET isPending == \E p \in PendingPackages(a)' : p.message_pgarbled_cid = c
                        IN  /\ isPending <=> CircuitServerMetadataMap'[<<a, c>>] # None
                            /\ isPending <=> <<a, c>> \in announced'
    BY DEF CallbackAllOrNothing
  <2>2. LET isPending == \E p \in PendingPackages(a) : p.message_pgarbled_cid = c
        IN  /\ isPending <=> CircuitServerMetadataMap[<<a, c>>] # None
            /\ isPending <=> <<a, c>> \in announced
    BY DEF ChainInv, CallbackAllOrNothing
  <2>3. CASE a = who /\ c = cid
    <3>1. CircuitServerMetadataMap'[<<a, c>>] = entry
      BY <1>1, <1>2, <1>8, <2>3
    <3>2. pkg \in PendingPackages(a)' /\ pkg.message_pgarbled_cid = c
      BY <1>4, <1>10, <2>3
    <3>3. <<a, c>> \in announced'
      BY <1>2, <2>3
    <3>4. QED
      BY <1>7, <3>1, <3>2, <3>3
  <2>4. CASE ~(a = who /\ c = cid)
    <3>1. <<a, c>> # <<who, cid>>
      BY <2>4
    <3>2. CircuitServerMetadataMap'[<<a, c>>] = CircuitServerMetadataMap[<<a, c>>]
      BY <1>2, <1>8, <3>1
    <3>3. <<a, c>> \in announced' <=> <<a, c>> \in announced
      BY <1>2, <3>1
    <3>4. (\E p \in PendingPackages(a)' : p.message_pgarbled_cid = c)
          <=> (\E p \in PendingPackages(a) : p.message_pgarbled_cid = c)
      BY <1>4, <1>10, <1>11, <2>4
    <3>5. QED
      BY <2>2, <3>2, <3>3, <3>4
  <2>5. QED
    BY <2>3, <2>4
<1>14. PendingInv'
  <2>1. \A m, p : Pair(m, p) => Pair(m, p)'
    BY <1>2, PairStays
  <2>2. SUFFICES ASSUME NEW a \in Accounts, NEW p \in PendingPackages(a)'
                 PROVE  /\ Pair(p.message_pgarbled_cid, p.pinpad_pgarbled_cid)
                        /\ p.message_nb_digits = NbMessageDigits
    BY <2>1 DEF PendingInv
  <2>3. CASE p = pkg
    BY <1>1, <1>4, <2>3
  <2>4. CASE p \in PendingPackages(a)
    BY <2>4 DEF ChainInv, PendingInv
  <2>5. QED
    BY <1>10, <1>11, <2>3, <2>4
<1>15. \A t \in pool' : TxInv(t)'
  BY <1>2 DEF ChainInv, TxInv, Pair, IsGarbled
<1>16. \A r \in Runs : RunGarbled(r)'
  BY <1>2 DEF ChainInv, RunGarbled, Strips, IsGarbled
<1>17. QED
  BY <1>2, <1>12, <1>13, <1>14, <1>15, <1>16 DEF ChainInv

\* A step in which no run moves and the service garbles nothing.
LEMMA StillRunsChain ==
  ASSUME ChainInv, NEW k \in Nat, nJobs' = nJobs + k, nJobs \in Nat,
         PackageReady' \in BOOLEAN, Nonce' \in 0 .. NonceModulus - 1, pool' \subseteq pool,
         UNCHANGED <<AccountToPendingCircuitsMap, CircuitServerMetadataMap, announced,
                     pc, local, garbled>>
  PROVE  ChainInv'
<1>1. \A r \in Runs : RunGarbled(r)'
  BY DEF ChainInv, RunGarbled, Strips, IsGarbled
<1>2. 1 .. nJobs \subseteq 1 .. nJobs'
  OBVIOUS
<1>3. \A g \in garbled' : g.cid.job \in 1 .. nJobs'
  BY <1>2 DEF ChainInv
<1>4. \A tx \in pool' : tx \in pool \/ TxInv(tx)'
  OBVIOUS
<1>5. QED
  BY <1>1, <1>3, <1>4, QuietChain

LEMMA ChainStep == WorkerInv /\ ChainInv /\ [Next]_vars => ChainInv'
<1> SUFFICES ASSUME WorkerInv, ChainInv, [Next]_vars PROVE ChainInv'
  OBVIOUS
<1>1. nJobs \in Nat /\ nJobs = nJobs + 0
  BY JobNumberTypes
<1>2. PackageReady \in BOOLEAN /\ Nonce \in 0 .. NonceModulus - 1
  BY DEF ChainInv, ChainTypes
<1>3. CASE NewDisplayPackage
  <2>1. PackageReady' \in BOOLEAN
    BY <1>3 DEF NewDisplayPackage
  <2>2. QED
    BY <1>1, <1>2, <1>3, <2>1, StillRunsChain DEF NewDisplayPackage, history
<1>4. CASE ImportBlock \/ LockTimeout \/ UNCHANGED vars
  BY <1>1, <1>2, <1>4, StillRunsChain DEF ImportBlock, LockTimeout, vars, chain, history
<1>5. CASE \E who \in Users : \/ garble_standard_signed(who)
                              \/ garble_and_strip_display_circuits_package_signed(who)
  <2>1. nJobs' = nJobs + 1
    BY <1>5, RequestWorker
  <2>2. Nonce' \in 0 .. NonceModulus - 1
    BY <1>2, <1>5, GarbleAssumption DEF garble_standard_signed,
       garble_and_strip_display_circuits_package_signed, get_and_increment_nonce
  <2>3. UNCHANGED <<PackageReady, AccountToPendingCircuitsMap, CircuitServerMetadataMap, announced,
                    pool, pc, local, garbled>>
    BY <1>5 DEF garble_standard_signed, garble_and_strip_display_circuits_package_signed, Request
  <2>4. QED
    BY <1>1, <1>2, <2>1, <2>2, <2>3, StillRunsChain
<1>6. CASE \E tx \in pool : callback_new_garbled_signed(tx) \/ callback_panics(tx)
  <2>1. UNCHANGED <<AccountToPendingCircuitsMap, CircuitServerMetadataMap, announced>>
    BY <1>6 DEF callback_new_garbled_signed, callback_panics
  <2>2. pool' \subseteq pool /\ UNCHANGED <<PackageReady, Nonce, pc, local, nJobs, garbled>>
    BY <1>6, CallbackLeaves DEF history
  <2>3. QED
    BY <1>1, <1>2, <2>1, <2>2, StillRunsChain
<1>7. CASE \E tx \in pool : callback_new_garbled_and_strip_signed(tx)
  BY <1>7, CallbackChain
<1>8. CASE \E r \in Runs : RunStep(r)
  <2>1. PICK r \in Runs : RunStep(r)
    BY <1>8
  <2>2. CASE Panic(r)
    BY <2>2, SilentStepsChain
  <2>3. CASE ~Panic(r)
    BY <2>1, <2>3, SilentStepsChain, CallsChain, FinalizeChain, StoppedRun DEF RunStep
  <2>4. QED
    BY <2>2, <2>3
<1>9. QED
  BY <1>3, <1>4, <1>5, <1>6, <1>7, <1>8 DEF Next, Extrinsic

LEMMA GarbleInvHolds == Spec => [](WorkerInv /\ ChainInv)
<1>1. Init => WorkerInv /\ ChainInv
  BY WorkerInit, ChainInit
<1>2. WorkerInv /\ ChainInv /\ [Next]_vars => (WorkerInv /\ ChainInv)'
  BY WorkerStep, ChainStep
<1>3. QED
  BY <1>1, <1>2, PTL DEF Spec

\* Storage, entries and lock keep their types; the pending list stays within
\* MAX_NUMBER_PENDING_CIRCUITS_PER_ACCOUNT, although the callback only compares
\* its length with the bound for equality.
THEOREM GarbleTypeCorrect == Spec => []TypeOK
<1>1. ASSUME WorkerInv, ChainInv PROVE TypeOK
  <2>1. indexed.job \in 0 .. nJobs /\ oci_mem.job \in 0 .. nJobs /\ lock \in Lock
    BY <1>1, JobNumberTypes DEF WorkerInv, TypeInv
  <2>2. \A k \in Accounts \X MessageCids : CircuitServerMetadataMap[k] \in Digits \cup {None}
    BY <1>1 DEF ChainInv, ChainTypes
  <2>3. QED
    BY <1>1, <2>1, <2>2 DEF TypeOK, ChainInv, ChainTypes, Digits
<1>2. QED
  BY <1>1, GarbleInvHolds, PTL

\* Event, digits for check_input and list entry of a garbled package are there
\* together or not at all, whatever callbacks panic on a full list.
THEOREM CallbackAllOrNothingHolds == Spec => []CallbackAllOrNothing
<1>1. ChainInv => CallbackAllOrNothing
  BY DEF ChainInv
<1>2. QED
  BY <1>1, GarbleInvHolds, PTL

-----------------------------------------------------------------------------
(* One code.                                                               *)

\* The Radix keys, each shown once, show every digit.
LEMMA PinpadShowsAll ==
  ASSUME NEW p \in Pinpads
  PROVE  \A d \in 0 .. Radix - 1 : \E k \in 0 .. Radix - 1 : p[k + 1] = d
<1>1. Radix \in Nat /\ Radix >= 1 /\ 1 \in Int /\ 0 \in Int /\ Radix \in Int /\ Radix - 1 \in Int
  BY GarbleAssumption
<1>2. /\ IsFiniteSet(1 .. Radix) /\ IsFiniteSet(0 .. Radix - 1)
      /\ Cardinality(1 .. Radix) = Radix /\ Cardinality(0 .. Radix - 1) = Radix
  <2>1. IsFiniteSet(1 .. Radix) /\ Cardinality(1 .. Radix) = IF 1 > Radix THEN 0 ELSE Radix - 1 + 1
    BY <1>1, FS_Interval
  <2>2. /\ IsFiniteSet(0 .. Radix - 1)
        /\ Cardinality(0 .. Radix - 1) = IF 0 > Radix - 1 THEN 0 ELSE Radix - 1 - 0 + 1
    BY <1>1, FS_Interval
  <2>3. QED
    BY <1>1, <2>1, <2>2
<1>3. p \in Injection(1 .. Radix, 0 .. Radix - 1)
  BY DEF Pinpads, Injection, IsInjective
<1>4. p \in Surjection(1 .. Radix, 0 .. Radix - 1)
  BY <1>2, <1>3, FS_Injection
<1>5. \A d \in 0 .. Radix - 1 : \E i \in 1 .. Radix : p[i] = d
  BY <1>4 DEF Surjection
<1>6. SUFFICES ASSUME NEW d \in 0 .. Radix - 1 PROVE \E k \in 0 .. Radix - 1 : p[k + 1] = d
  OBVIOUS
<1>7. PICK i \in 1 .. Radix : p[i] = d
  BY <1>5
<1>8. i - 1 \in 0 .. Radix - 1 /\ (i - 1) + 1 = i
  BY <1>1
<1>9. p[(i - 1) + 1] = d
  BY <1>7, <1>8
<1>10. QED
  BY <1>8, <1>9

\* What check_input does with raw digits on a stored pinpad.
LEMMA RawCheck ==
  ASSUME NEW e \in Digits, NEW code \in Messages
  PROVE  TxV!CheckResult(e, code) = "Ok"
             <=> \A i \in 1 .. NbMessageDigits : e.message_digits[i] = e.pinpad_digits[code[i] + 1]
<1>1. /\ NbMessageDigits \in Nat /\ Radix \in Nat /\ Radix <= 10
      /\ e # None /\ e.message_digits \in Messages /\ e.pinpad_digits \in Pinpads
  BY GarbleAssumption, NoneAssumption DEF Digits
<1>2. Len(code) = NbMessageDigits /\ Len(e.pinpad_digits) = Radix
  BY <1>1 DEF Messages, Pinpads
<1>3. \A i \in 1 .. NbMessageDigits : TxV!ToDigit(code[i]) = code[i] /\ code[i] < Radix
  <2>1. \A d \in 0 .. Radix - 1 : d \in Nat /\ d < Radix /\ d \notin 48 .. 57
    BY <1>1
  <2>2. \A d \in 0 .. Radix - 1 : TxV!ToDigit(d) = d
    BY <2>1 DEF TxV!ToDigit
  <2>3. \A i \in 1 .. NbMessageDigits : code[i] \in 0 .. Radix - 1
    BY DEF Messages
  <2>4. QED
    BY <2>1, <2>2, <2>3
<1>4. TxV!InRange(e.pinpad_digits, code) /\ ~TxV!LogPanics(e.pinpad_digits)
  BY <1>2, <1>3 DEF TxV!InRange, TxV!LogPanics
<1>5. TxV!computed_inputs_from_permutation(e.pinpad_digits, code)
        = [i \in 1 .. NbMessageDigits |-> e.pinpad_digits[code[i] + 1]]
  BY <1>2, <1>3 DEF TxV!computed_inputs_from_permutation
<1>6. TxV!CheckResult(e, code) = "Ok"
        <=> e.message_digits = [i \in 1 .. NbMessageDigits |-> e.pinpad_digits[code[i] + 1]]
  BY <1>1, <1>4, <1>5 DEF TxV!CheckResult
<1>7. e.message_digits = [i \in 1 .. NbMessageDigits |-> e.message_digits[i]]
  BY <1>1 DEF Messages
<1>8. QED
  BY <1>6, <1>7

\* Exactly one sequence of keys passes.
LEMMA OneCode ==
  ASSUME NEW e \in Digits
  PROVE  Cardinality({code \in Messages : TxV!CheckResult(e, code) = "Ok"}) = 1
<1> DEFINE Key(d) == CHOOSE k \in 0 .. Radix - 1 : e.pinpad_digits[k + 1] = d
           c == [i \in 1 .. NbMessageDigits |-> Key(e.message_digits[i])]
<1>1. e.message_digits \in Messages /\ e.pinpad_digits \in Pinpads /\ Radix \in Nat
  BY GarbleAssumption DEF Digits
<1>2. \A i \in 1 .. NbMessageDigits : e.message_digits[i] \in 0 .. Radix - 1
  BY <1>1 DEF Messages
<1>3. \A i \in 1 .. NbMessageDigits :
          c[i] \in 0 .. Radix - 1 /\ e.pinpad_digits[c[i] + 1] = e.message_digits[i]
  BY <1>1, <1>2, PinpadShowsAll
<1>4. c \in Messages
  BY <1>3 DEF Messages
<1> HIDE DEF c
<1>5. TxV!CheckResult(e, c) = "Ok"
  BY <1>3, <1>4, RawCheck
<1>6. ASSUME NEW code \in Messages, TxV!CheckResult(e, code) = "Ok" PROVE code = c
  <2>1. \A i \in 1 .. NbMessageDigits : e.pinpad_digits[code[i] + 1] = e.pinpad_digits[c[i] + 1]
    BY <1>3, <1>6, RawCheck
  <2>2. \A i \in 1 .. NbMessageDigits : code[i] + 1 \in 1 .. Radix /\ c[i] + 1 \in 1 .. Radix
                                        /\ code[i] \in Nat /\ c[i] \in Nat
    BY <1>1, <1>4, <1>6 DEF Messages
  <2>3. \A i \in 1 .. NbMessageDigits : code[i] + 1 = c[i] + 1
    BY <1>1, <2>1, <2>2 DEF Pinpads
  <2>4. \A i \in 1 .. NbMessageDigits : code[i] = c[i]
    BY <2>2, <2>3
  <2>5. /\ code = [i \in 1 .. NbMessageDigits |-> code[i]]
        /\ c = [i \in 1 .. NbMessageDigits |-> c[i]]
    BY <1>4, <1>6 DEF Messages
  <2>6. [i \in 1 .. NbMessageDigits |-> code[i]] = [i \in 1 .. NbMessageDigits |-> c[i]]
    BY <2>4
  <2>7. QED
    BY <2>5, <2>6, Zenon
<1>7. {code \in Messages : TxV!CheckResult(e, code) = "Ok"} = {c}
  BY <1>4, <1>5, <1>6
<1>8. QED
  BY <1>7, FS_Singleton

-----------------------------------------------------------------------------
(* The digits of a job, wherever they are.  D[j] is what request j drew.   *)

EntriesAgree(D) ==
    /\ indexed.job # 0 => indexed = D[indexed.job]
    /\ oci_mem.job # 0 => oci_mem = D[oci_mem.job]

RunAgrees(D, r) == Untaken(r) \/ Working(r) => local[r].indexing_data = D[Job(r)]

TxAgrees(D, tx) ==
    tx.grpc_kind = "GarbleAndStrip" =>
        LET d == D[tx.message.pgarbled_cid.job]
        IN  tx.message_digits = d.message_digits /\ tx.pinpad_digits = d.pinpad_digits

CircuitAgrees(D, g) ==
    /\ g.cid.part = "message" => g.digits = D[g.cid.job].message_digits
    /\ g.cid.part = "pinpad" => g.digits = D[g.cid.job].pinpad_digits

StoredAgrees(D, a, cid) ==
    LET entry == CircuitServerMetadataMap[<<a, cid>>]
    IN  entry # None => /\ entry.message_digits = D[cid.job].message_digits
                        /\ entry.pinpad_digits = D[cid.job].pinpad_digits

DigitsOf(D) ==
    /\ EntriesAgree(D)
    /\ \A r \in Runs : RunAgrees(D, r)
    /\ \A tx \in pool : TxAgrees(D, tx)
    /\ \A g \in garbled : CircuitAgrees(D, g)
    /\ \A a \in Accounts, cid \in MessageCids : StoredAgrees(D, a, cid)

DigitsInv == \E D \in [Jobs -> IndexingData] : DigitsOf(D)

LEMMA DigitsInit == Init => DigitsInv
<1> SUFFICES ASSUME Init PROVE DigitsInv
  OBVIOUS
<1>1. [j \in Jobs |-> DefaultIndexingData] \in [Jobs -> IndexingData]
  BY DataTypes
<1>2. PICK D \in [Jobs -> IndexingData] : TRUE
  BY <1>1
<1>3. EntriesAgree(D)
  BY DataTypes DEF Init, EntriesAgree
<1>4. \A r \in Runs : RunAgrees(D, r)
  BY DEF Init, RunAgrees, Untaken, Working
<1>5. \A a \in Accounts, cid \in MessageCids : StoredAgrees(D, a, cid)
  BY DEF Init, StoredAgrees
<1>6. DigitsOf(D)
  BY <1>3, <1>4, <1>5 DEF Init, DigitsOf
<1>7. QED
  BY <1>6 DEF DigitsInv

\* The digits in use are those of requests that were made.
LEMMA OldJobs ==
  ASSUME WorkerInv, ChainInv
  PROVE  /\ \A tx \in pool : tx.grpc_kind = "GarbleAndStrip" => tx.message.pgarbled_cid.job \in 1 .. nJobs
         /\ \A g \in garbled : g.cid.job \in 1 .. nJobs
         /\ \A a \in Accounts, cid \in MessageCids :
               CircuitServerMetadataMap[<<a, cid>>] # None => cid.job \in 1 .. nJobs
<1>1. \A g \in garbled : g.cid.job \in 1 .. nJobs
  BY DEF ChainInv
<1>2. \A tx \in pool : tx.grpc_kind = "GarbleAndStrip" => tx.message.pgarbled_cid.job \in 1 .. nJobs
  BY <1>1 DEF ChainInv, TxInv, Pair, IsGarbled
<1>3. ASSUME NEW a \in Accounts, NEW cid \in MessageCids, CircuitServerMetadataMap[<<a, cid>>] # None
      PROVE  cid.job \in 1 .. nJobs
  <2>1. PICK p \in PendingPackages(a) : p.message_pgarbled_cid = cid
    BY <1>3 DEF ChainInv, CallbackAllOrNothing
  <2>2. IsGarbled(cid)
    BY <2>1 DEF ChainInv, PendingInv, Pair
  <2>3. QED
    BY <1>1, <2>2 DEF IsGarbled
<1>4. QED
  BY <1>1, <1>2, <1>3

\* A request adds its own digits and changes those of no other.
LEMMA RequestDigits ==
  ASSUME WorkerInv, ChainInv, DigitsInv, NEW who \in Users,
         \/ garble_standard_signed(who)
         \/ garble_and_strip_display_circuits_package_signed(who)
  PROVE  DigitsInv'
<1>1. PICK D \in [Jobs -> IndexingData] : DigitsOf(D)
  BY DEF DigitsInv
<1>2. /\ nJobs < MaxJobs /\ indexed'.job = nJobs + 1 /\ indexed' \in IndexingData
      /\ nJobs \in Nat /\ MaxJobs \in Nat
  BY RequestWorker, JobNumberTypes, GarbleAssumption
<1>3. UNCHANGED <<pool, oci_mem, pc, local, garbled, CircuitServerMetadataMap>>
  BY DEF garble_standard_signed, garble_and_strip_display_circuits_package_signed, Request
<1>4. PICK t \in Jobs : t = nJobs + 1
  BY <1>2 DEF Jobs
<1>5. [D EXCEPT ![t] = indexed'] \in [Jobs -> IndexingData]
  BY <1>2
<1>6. PICK E \in [Jobs -> IndexingData] : E = [D EXCEPT ![t] = indexed']
  BY <1>5
<1>7. E[t] = indexed' /\ \A i \in 1 .. nJobs : E[i] = D[i]
  BY <1>2, <1>4, <1>6 DEF Jobs
<1>8. EntriesAgree(E)'
  <2>1. oci_mem.job # 0 => oci_mem.job \in 1 .. nJobs
    BY JobNumberTypes
  <2>2. QED
    BY <1>1, <1>2, <1>3, <1>4, <1>7, <2>1 DEF DigitsOf, EntriesAgree
<1>9. \A r \in Runs : RunAgrees(E, r)'
  <2>1. SUFFICES ASSUME NEW r \in Runs PROVE RunAgrees(E, r)'
    OBVIOUS
  <2>2. /\ Job(r)' = Job(r) /\ (Untaken(r)' <=> Untaken(r)) /\ (Working(r)' <=> Working(r))
        /\ local'[r] = local[r]
    BY <1>3 DEF Job, Untaken, Working
  <2>3. Untaken(r) \/ Working(r) => Job(r) \in 1 .. nJobs
    BY JobNumberTypes DEF WorkerInv, RunInv
  <2>4. RunAgrees(D, r)
    BY <1>1 DEF DigitsOf
  <2>5. QED
    BY <1>7, <2>2, <2>3, <2>4 DEF RunAgrees
<1>10. \A tx \in pool' : TxAgrees(E, tx)'
  BY <1>1, <1>3, <1>7, OldJobs DEF DigitsOf, TxAgrees
<1>11. \A g \in garbled' : CircuitAgrees(E, g)'
  BY <1>1, <1>3, <1>7, OldJobs DEF DigitsOf, CircuitAgrees
<1>12. \A a \in Accounts, cid \in MessageCids : StoredAgrees(E, a, cid)'
  <2>1. SUFFICES ASSUME NEW a \in Accounts, NEW cid \in MessageCids,
                        CircuitServerMetadataMap[<<a, cid>>] # None
                 PROVE  /\ CircuitServerMetadataMap[<<a, cid>>].message_digits = E[cid.job].message_digits
                        /\ CircuitServerMetadataMap[<<a, cid>>].pinpad_digits = E[cid.job].pinpad_digits
    BY <1>3 DEF StoredAgrees
  <2>2. cid.job \in 1 .. nJobs
    BY <2>1, OldJobs
  <2>3. StoredAgrees(D, a, cid)
    BY <1>1 DEF DigitsOf
  <2>4. QED
    BY <1>7, <2>1, <2>2, <2>3 DEF StoredAgrees
<1>13. DigitsOf(E)'
  BY <1>8, <1>9, <1>10, <1>11, <1>12 DEF DigitsOf
<1>14. QED
  BY <1>13 DEF DigitsInv

\* A step that stores, sends and garbles nothing new.
LEMMA QuietDigits ==
  ASSUME NEW D \in [Jobs -> IndexingData], DigitsOf(D), EntriesAgree(D)',
         \A r \in Runs : RunAgrees(D, r)', pool' \subseteq pool,
         UNCHANGED <<garbled, CircuitServerMetadataMap>>
  PROVE  DigitsOf(D)'
<1>1. \A tx \in pool' : TxAgrees(D, tx)'
  BY DEF DigitsOf, TxAgrees
<1>2. \A g \in garbled' : CircuitAgrees(D, g)'
  BY DEF DigitsOf, CircuitAgrees
<1>3. \A a \in Accounts, cid \in MessageCids : StoredAgrees(D, a, cid)'
  BY DEF DigitsOf, StoredAgrees
<1>4. QED
  BY <1>1, <1>2, <1>3 DEF DigitsOf

\* A run that moves with the job it has, or with none.
LEMMA MovedRunAgrees ==
  ASSUME WorkerInv, NEW D, DigitsOf(D), NEW r \in Runs,
         \A s \in Runs \ {r} : pc'[s] = pc[s] /\ local'[s] = local[s],
         \/ pc'[r] \in {"idle", "started"}
         \/ (Untaken(r) \/ Working(r)) /\ local'[r].indexing_data = local[r].indexing_data
  PROVE  \A s \in Runs : RunAgrees(D, s)'
<1>1. \A s \in Runs : RunAgrees(D, s)
  BY DEF DigitsOf
<1>2. \A s \in Runs \ {r} : RunAgrees(D, s)'
  BY <1>1 DEF RunAgrees, Untaken, Working, Job
<1>3. RunAgrees(D, r)'
  BY <1>1 DEF RunAgrees, Untaken, Working, Job
<1>4. QED
  BY <1>2, <1>3

\* The steps of a run before its calls, and those that end it.
LEMMA SilentStepsDigits ==
  ASSUME WorkerInv, NEW D \in [Jobs -> IndexingData], DigitsOf(D), NEW r \in Runs,
         \/ offchain_worker(r) \/ ReadJob(r) \/ try_lock(r) \/ ClearSlot(r)
         \/ Panic(r) \/ Unlock(r)
  PROVE  DigitsOf(D)'
<1>1. local[r] \in Local /\ local \in [Runs -> Local] /\ pc \in [Runs -> Labels]
  BY DEF WorkerInv, TypeInv
<1>2. UNCHANGED <<indexed, pool, garbled, CircuitServerMetadataMap>>
  BY DEF offchain_worker, ReadJob, try_lock, ClearSlot, Panic, Unlock, chain
<1>3. EntriesAgree(D)'
  <2>1. oci_mem' = oci_mem \/ oci_mem' = DefaultIndexingData
    BY DEF offchain_worker, ReadJob, try_lock, ClearSlot, Panic, Unlock
  <2>2. QED
    BY <1>2, <2>1, DataTypes DEF DigitsOf, EntriesAgree
<1>4. \A s \in Runs \ {r} : pc'[s] = pc[s] /\ local'[s] = local[s]
  BY <1>1 DEF offchain_worker, ReadJob, try_lock, ClearSlot, Panic, Unlock, Return, Goto
<1>5. \A s \in Runs : RunAgrees(D, s)'
  <2>1. CASE Return(r) \/ offchain_worker(r)
    <3>1. pc'[r] \in {"idle", "started"}
      BY <1>1, <2>1 DEF Return, offchain_worker, Goto
    <3>2. QED
      BY <1>4, <3>1, MovedRunAgrees
  <2>2. CASE ~Return(r) /\ (try_lock(r) \/ ClearSlot(r))
    <3>1. Untaken(r)
      BY <2>2 DEF try_lock, ClearSlot, Untaken
    <3>2. local'[r].indexing_data = local[r].indexing_data
      BY <1>1, <2>2 DEF try_lock, ClearSlot, Local
    <3>3. QED
      BY <1>4, <3>1, <3>2, MovedRunAgrees
  <2>3. CASE ~Return(r) /\ ReadJob(r)
    <3>1. oci_mem.job # 0 /\ local'[r].indexing_data = oci_mem
      BY <1>1, <2>3 DEF ReadJob, WorkerInv, EntryInv, Local
    <3>2. RunAgrees(D, r)'
      BY <3>1 DEF DigitsOf, EntriesAgree, RunAgrees, Job
    <3>3. \A s \in Runs \ {r} : RunAgrees(D, s)'
      BY <1>4 DEF DigitsOf, RunAgrees, Untaken, Working, Job
    <3>4. QED
      BY <3>2, <3>3
  <2>4. QED
    BY <2>1, <2>2, <2>3 DEF Panic, Unlock
<1>6. QED
  BY <1>2, <1>3, <1>5, QuietDigits

\* Steps of the node and callbacks that store nothing.
LEMMA NodeDigits ==
  ASSUME WorkerInv, NEW D \in [Jobs -> IndexingData], DigitsOf(D),
         \/ NewDisplayPackage \/ ImportBlock \/ LockTimeout \/ UNCHANGED vars
         \/ \E tx \in pool : callback_new_garbled_signed(tx) \/ callback_panics(tx)
  PROVE  DigitsOf(D)'
<1>1. UNCHANGED <<pc, local, garbled, CircuitServerMetadataMap>> /\ pool' \subseteq pool
  BY DEF NewDisplayPackage, ImportBlock, LockTimeout, vars, chain, callback_new_garbled_signed,
     callback_panics, Include
<1>2. EntriesAgree(D)'
  <2>1. CASE ImportBlock
    BY <2>1, DataTypes DEF ImportBlock, DigitsOf, EntriesAgree
  <2>2. CASE ~ImportBlock
    <3>1. UNCHANGED <<indexed, oci_mem>>
      BY <2>2 DEF NewDisplayPackage, LockTimeout, vars, callback_new_garbled_signed,
         callback_panics, Include
    <3>2. QED
      BY <3>1 DEF DigitsOf, EntriesAgree
  <2>3. QED
    BY <2>1, <2>2
<1>3. \A r \in Runs : RunAgrees(D, r)'
  BY <1>1 DEF DigitsOf, RunAgrees, Untaken, Working, Job
<1>4. QED
  BY <1>1, <1>2, <1>3, QuietDigits

\* A circuit shows the digits of the job its run works on.
LEMMA CallsDigits ==
  ASSUME WorkerInv, NEW D \in [Jobs -> IndexingData], DigitsOf(D), NEW r \in Runs,
         \/ call_grpc_garble(r)
         \/ call_grpc_garble_and_strip_message(r)
         \/ call_grpc_garble_and_strip_pinpad(r),
         ~Panic(r)
  PROVE  DigitsOf(D)'
<1>1. local[r] \in Local /\ local \in [Runs -> Local] /\ pc \in [Runs -> Labels]
  BY DEF WorkerInv, TypeInv
<1>2. UNCHANGED <<indexed, oci_mem, pool, CircuitServerMetadataMap>> /\ Working(r)
  BY DEF call_grpc_garble, call_grpc_garble_and_strip_message, call_grpc_garble_and_strip_pinpad,
     chain, Working
<1>3. /\ \A s \in Runs \ {r} : pc'[s] = pc[s] /\ local'[s] = local[s]
      /\ local'[r].indexing_data = local[r].indexing_data
  BY <1>1 DEF call_grpc_garble, call_grpc_garble_and_strip_message,
     call_grpc_garble_and_strip_pinpad, Goto, Local
<1>4. \A s \in Runs : RunAgrees(D, s)'
  BY <1>2, <1>3, MovedRunAgrees
<1>5. EntriesAgree(D)'
  BY <1>2 DEF DigitsOf, EntriesAgree
<1>6. \A tx \in pool' : TxAgrees(D, tx)'
  BY <1>2 DEF DigitsOf, TxAgrees
<1>7. \A a \in Accounts, cid \in MessageCids : StoredAgrees(D, a, cid)'
  BY <1>2 DEF DigitsOf, StoredAgrees
<1>8. local[r].indexing_data = D[Job(r)]
  BY <1>2 DEF DigitsOf, RunAgrees
<1>9. \A g \in garbled' : CircuitAgrees(D, g)
  <2>1. ASSUME NEW part \in {"circuit", "message", "pinpad"}, NEW reply \in RemoteReplies(r, part),
               NEW digits, ServiceGarbles(reply, digits),
               part = "message" => digits = local[r].indexing_data.message_digits,
               part = "pinpad" => digits = local[r].indexing_data.pinpad_digits
        PROVE  \A g \in garbled' : CircuitAgrees(D, g)
    <3>1. reply.status = "ok" => reply.pgarbled_cid = GarbledCid(Job(r), local[r].attempt, part)
      BY RepliesTyped
    <3>2. CASE reply.status = "ok"
      <4>1. garbled' = garbled \cup {[cid |-> reply.pgarbled_cid, digits |-> digits]}
        BY <2>1, <3>2 DEF ServiceGarbles
      <4>2. CircuitAgrees(D, [cid |-> reply.pgarbled_cid, digits |-> digits])
        BY <1>8, <2>1, <3>1, <3>2 DEF CircuitAgrees, GarbledCid
      <4>3. QED
        BY <4>1, <4>2 DEF DigitsOf
    <3>3. CASE reply.status # "ok"
      BY <2>1, <3>3 DEF ServiceGarbles, DigitsOf
    <3>4. QED
      BY <3>2, <3>3
  <2>2. CASE call_grpc_garble(r)
    BY <2>1, <2>2 DEF call_grpc_garble
  <2>3. CASE call_grpc_garble_and_strip_message(r)
    BY <2>1, <2>3 DEF call_grpc_garble_and_strip_message, Data
  <2>4. CASE call_grpc_garble_and_strip_pinpad(r)
    BY <2>1, <2>4 DEF call_grpc_garble_and_strip_pinpad, Data
  <2>5. QED
    BY <2>2, <2>3, <2>4
<1>10. \A g \in garbled' : CircuitAgrees(D, g)'
  BY <1>9 DEF CircuitAgrees
<1>11. QED
  BY <1>4, <1>5, <1>6, <1>7, <1>10 DEF DigitsOf

\* A callback carries the digits of the job its run worked on.
LEMMA FinalizeDigits ==
  ASSUME WorkerInv, NEW D \in [Jobs -> IndexingData], DigitsOf(D), NEW r \in Runs,
         finalize_grpc_call(r)
  PROVE  DigitsOf(D)'
<1>1. /\ Working(r) /\ UNCHANGED <<indexed, oci_mem, local, garbled, CircuitServerMetadataMap>>
      /\ pc' = [pc EXCEPT ![r] = "unlock"] /\ pc \in [Runs -> Labels]
  BY DEF finalize_grpc_call, chain, Working, Goto, WorkerInv, TypeInv
<1>2. \A s \in Runs : RunAgrees(D, s)'
  BY <1>1, MovedRunAgrees
<1>3. EntriesAgree(D)'
  BY <1>1 DEF DigitsOf, EntriesAgree
<1>4. \A g \in garbled' : CircuitAgrees(D, g)'
  BY <1>1 DEF DigitsOf, CircuitAgrees
<1>5. \A a \in Accounts, cid \in MessageCids : StoredAgrees(D, a, cid)'
  BY <1>1 DEF DigitsOf, StoredAgrees
<1>6. local[r].indexing_data = D[Job(r)]
  BY <1>1 DEF DigitsOf, RunAgrees
<1>7. ASSUME local[r].message.status = "ok", NEW a \in SignerAccounts
      PROVE  TxAgrees(D, CallbackTx(r, a))
  <2>1. Strips(r) => local[r].message.pgarbled_cid = GarbledCid(Job(r), local[r].attempt, "message")
    BY <1>7 DEF WorkerInv, RunInv
  <2>2. Strips(r) => local[r].message.pgarbled_cid.job = Job(r)
    BY <2>1 DEF GarbledCid
  <2>3. QED
    BY <1>6, <2>2 DEF TxAgrees, CallbackTx, Data, Strips
<1>8. \A tx \in pool' : TxAgrees(D, tx)
  BY <1>7 DEF finalize_grpc_call, DigitsOf
<1>9. \A tx \in pool' : TxAgrees(D, tx)'
  BY <1>8 DEF TxAgrees
<1>10. QED
  BY <1>2, <1>3, <1>4, <1>5, <1>9 DEF DigitsOf

\* A callback stores the digits it carries under the cid of its own job.
LEMMA CallbackDigits ==
  ASSUME ChainInv, NEW D \in [Jobs -> IndexingData], DigitsOf(D), NEW tx \in pool,
         callback_new_garbled_and_strip_signed(tx)
  PROVE  DigitsOf(D)'
<1> DEFINE who == tx.account
           cid == tx.message.pgarbled_cid
           entry == [message_digits |-> tx.message_digits, pinpad_digits |-> tx.pinpad_digits]
<1>1. /\ pool' = pool \ {tx} /\ UNCHANGED <<indexed, oci_mem, pc, local, garbled>>
      /\ CircuitServerMetadataMap' = [CircuitServerMetadataMap EXCEPT ![<<who, cid>>] = entry]
  BY DEF callback_new_garbled_and_strip_signed, Include, TxV!store_metadata_aux
<1>2. CircuitServerMetadataMap \in [Accounts \X MessageCids -> Digits \cup {None}]
  BY DEF ChainInv, ChainTypes
<1>3. EntriesAgree(D)' /\ \A r \in Runs : RunAgrees(D, r)'
  BY <1>1 DEF DigitsOf, EntriesAgree, RunAgrees, Untaken, Working, Job
<1>4. \A t \in pool' : TxAgrees(D, t)'
  BY <1>1 DEF DigitsOf, TxAgrees
<1>5. \A g \in garbled' : CircuitAgrees(D, g)'
  BY <1>1 DEF DigitsOf, CircuitAgrees
<1>6. /\ entry.message_digits = D[cid.job].message_digits
      /\ entry.pinpad_digits = D[cid.job].pinpad_digits
  BY DEF DigitsOf, TxAgrees, callback_new_garbled_and_strip_signed
<1> HIDE DEF entry, who, cid
<1>7. ASSUME NEW a \in Accounts, NEW c \in MessageCids PROVE StoredAgrees(D, a, c)'
  <2>1. CASE <<a, c>> = <<who, cid>>
    <3>1. c = cid /\ CircuitServerMetadataMap'[<<a, c>>] = entry
      BY <1>1, <1>2, <1>7, <2>1
    <3>2. QED
      BY <1>6, <3>1 DEF StoredAgrees
  <2>2. CASE <<a, c>> # <<who, cid>>
    <3>1. CircuitServerMetadataMap'[<<a, c>>] = CircuitServerMetadataMap[<<a, c>>]
      BY <1>1, <1>2, <1>7, <2>2
    <3>2. StoredAgrees(D, a, c)
      BY <1>7 DEF DigitsOf
    <3>3. QED
      BY <3>1, <3>2 DEF StoredAgrees
  <2>3. QED
    BY <2>1, <2>2
<1>8. QED
  BY <1>3, <1>4, <1>5, <1>7 DEF DigitsOf

LEMMA DigitsStep == WorkerInv /\ ChainInv /\ DigitsInv /\ [Next]_vars => DigitsInv'
<1> SUFFICES ASSUME WorkerInv, ChainInv, DigitsInv, [Next]_vars PROVE DigitsInv'
  OBVIOUS
<1>1. CASE \E who \in Users : \/ garble_standard_signed(who)
                              \/ garble_and_strip_display_circuits_package_signed(who)
  BY <1>1, RequestDigits
<1>2. PICK D \in [Jobs -> IndexingData] : DigitsOf(D)
  BY DEF DigitsInv
<1>3. CASE \/ NewDisplayPackage \/ ImportBlock \/ LockTimeout \/ UNCHANGED vars
           \/ \E tx \in pool : callback_new_garbled_signed(tx) \/ callback_panics(tx)
  BY <1>2, <1>3, NodeDigits DEF DigitsInv
<1>4. CASE \E tx \in pool : callback_new_garbled_and_strip_signed(tx)
  BY <1>2, <1>4, CallbackDigits DEF DigitsInv
<1>5. CASE \E r \in Runs : RunStep(r)
  <2>1. PICK r \in Runs : RunStep(r)
    BY <1>5
  <2>2. CASE Panic(r)
    BY <1>2, <2>2, SilentStepsDigits DEF DigitsInv
  <2>3. CASE ~Panic(r)
    BY <1>2, <2>1, <2>3, SilentStepsDigits, CallsDigits, FinalizeDigits, StoppedRun
       DEF RunStep, DigitsInv
  <2>4. QED
    BY <2>2, <2>3
<1>6. QED
  BY <1>1, <1>3, <1>4, <1>5 DEF Next, Extrinsic

\* The circuits of a listed package show what is stored, and one code passes.
LEMMA AgreementIsChecked ==
  ASSUME WorkerInv, ChainInv, DigitsInv PROVE PendingCodeIsChecked
<1>1. PICK D \in [Jobs -> IndexingData] : DigitsOf(D)
  BY DEF DigitsInv
<1> SUFFICES ASSUME NEW a \in Accounts, NEW p \in PendingPackages(a)
             PROVE  LET entry == CircuitServerMetadataMap[<<a, p.message_pgarbled_cid>>]
                    IN /\ entry # None
                      /\ ShownBy(p.message_pgarbled_cid) = {entry.message_digits}
                      /\ ShownBy(p.pinpad_pgarbled_cid) = {entry.pinpad_digits}
                      /\ p.message_nb_digits = Len(entry.message_digits)
                      /\ Cardinality({code \in Messages : TxV!CheckResult(entry, code) = "Ok"}) = 1
  BY DEF PendingCodeIsChecked
<1> DEFINE m == p.message_pgarbled_cid
           k == p.pinpad_pgarbled_cid
           entry == CircuitServerMetadataMap[<<a, m>>]
<1>3. Pair(m, k) /\ p.message_nb_digits = NbMessageDigits /\ m \in MessageCids
  BY DEF ChainInv, PendingInv, Pair
<1>4. entry # None
  BY <1>3 DEF ChainInv, CallbackAllOrNothing
<1>5. entry \in Digits
  BY <1>3, <1>4 DEF ChainInv, ChainTypes
<1>6. /\ entry.message_digits = D[m.job].message_digits
      /\ entry.pinpad_digits = D[m.job].pinpad_digits
  <2>1. StoredAgrees(D, a, m)
    BY <1>1, <1>3 DEF DigitsOf
  <2>2. QED
    BY <1>4, <2>1 DEF StoredAgrees
<1>7. m.part = "message" /\ k.part = "pinpad" /\ k.job = m.job
  BY <1>3 DEF MessageCids, Pair, GarbledCid
<1>8. IsGarbled(m) /\ IsGarbled(k)
  BY <1>3 DEF Pair
<1> HIDE DEF m, k, entry
<1>9. \A g \in garbled : g.cid = m => g.digits = entry.message_digits
  BY <1>1, <1>6, <1>7 DEF DigitsOf, CircuitAgrees
<1>10. \A g \in garbled : g.cid = k => g.digits = entry.pinpad_digits
  BY <1>1, <1>6, <1>7 DEF DigitsOf, CircuitAgrees
<1>11. ShownBy(m) = {entry.message_digits}
  BY <1>8, <1>9 DEF ShownBy, IsGarbled
<1>12. ShownBy(k) = {entry.pinpad_digits}
  BY <1>8, <1>10 DEF ShownBy, IsGarbled
<1>13. Len(entry.message_digits) = NbMessageDigits
  BY <1>5, GarbleAssumption DEF Digits, Messages
<1>14. Cardinality({code \in Messages : TxV!CheckResult(entry, code) = "Ok"}) = 1
  BY <1>5, OneCode
<1>15. QED
  BY <1>3, <1>4, <1>11, <1>12, <1>13, <1>14 DEF m, k, entry

\* End to end, for every pinpad and code length: what check_input compares a
\* listed package with is what its two circuits show, and one sequence of keys
\* passes.
THEOREM PendingCodeIsCheckedHolds == Spec => []PendingCodeIsChecked
<1>1. Init => WorkerInv /\ ChainInv /\ DigitsInv
  BY WorkerInit, ChainInit, DigitsInit
<1>2. WorkerInv /\ ChainInv /\ DigitsInv /\ [Next]_vars => (WorkerInv /\ ChainInv /\ DigitsInv)'
  BY WorkerStep, ChainStep, DigitsStep
<1>3. WorkerInv /\ ChainInv /\ DigitsInv => PendingCodeIsChecked
  BY AgreementIsChecked
<1>4. QED
  BY <1>1, <1>2, <1>3, PTL DEF Spec

-----------------------------------------------------------------------------
(* The life of a job.                                                      *)

\* a circuit exists only of a job that a run took
TakenGarbled == \A g \in garbled : g.cid.job \in Jobs /\ attempts[g.cid.job] > 0

\* a job that left the entry before its reader took it: a later request was made,
\* or another run took its own job and cleared the entry
HeldDisplaced ==
    \A r \in Runs : Untaken(r) /\ Job(r) # oci_mem.job =>
        \/ Job(r) < nJobs
        \/ \E k \in Jobs : attempts[k] > 0 /\ k <= Job(r)

LifeInv == WorkerInv /\ ChainInv /\ TakenGarbled /\ HeldDisplaced

LEMMA LifeInit == Init => LifeInv
BY WorkerInit, ChainInit DEF Init, LifeInv, TakenGarbled, HeldDisplaced, Untaken

\* Steps of a run other than reading and taking a job: no new holder, and entries,
\* announcements and attempts stay.
LEMMA OtherRunStep ==
  ASSUME WorkerInv, NEW r \in Runs, RunStep(r), ~ClearSlot(r), ReadJob(r) => Return(r)
  PROVE  NoNewHolder /\ UNCHANGED <<indexed, oci_mem, announced, nJobs, attempts>>
<1>0. local \in [Runs -> Local] /\ pc \in [Runs -> Labels] /\ local[r] \in Local
  BY DEF WorkerInv, TypeInv
<1>1. UNCHANGED <<indexed, oci_mem, announced, nJobs, attempts>>
  BY DEF RunStep, offchain_worker, ReadJob, try_lock, call_grpc_garble,
     call_grpc_garble_and_strip_message, call_grpc_garble_and_strip_pinpad, Panic,
     finalize_grpc_call, Unlock, NodeStops, chain, history
<1>2. CASE Return(r)
  BY <1>0, <1>1, <1>2 DEF Return, Goto, NoNewHolder, Untaken, Job
<1>3. CASE try_lock(r) /\ ~Return(r)
  BY <1>0, <1>1, <1>3 DEF try_lock, Goto, NoNewHolder, Untaken, Job
<1>4. CASE ~try_lock(r) /\ ~Return(r)
  <2>1. pc'[r] \notin {"loaded", "locked"}
    BY <1>0, <1>4 DEF RunStep, offchain_worker, call_grpc_garble,
       call_grpc_garble_and_strip_message, call_grpc_garble_and_strip_pinpad, Panic,
       finalize_grpc_call, Unlock, NodeStops, Goto
  <2>2. \A s \in Runs \ {r} : pc'[s] = pc[s]
    BY <1>0, <1>4 DEF RunStep, offchain_worker, call_grpc_garble,
       call_grpc_garble_and_strip_message, call_grpc_garble_and_strip_pinpad, Panic,
       finalize_grpc_call, Unlock, NodeStops, Goto
  <2>3. \A s \in Runs \ {r} : local'[s] = local[s]
    BY <1>0, <1>4 DEF RunStep, offchain_worker, call_grpc_garble,
       call_grpc_garble_and_strip_message, call_grpc_garble_and_strip_pinpad, Panic,
       finalize_grpc_call, Unlock, NodeStops
  <2>4. QED
    BY <1>1, <2>1, <2>2, <2>3 DEF NoNewHolder, Untaken, Job
<1>5. QED
  BY <1>1, <1>2, <1>3, <1>4

\* A run reads the job of the entry.
LEMMA ReadJobHolders ==
  ASSUME WorkerInv, NEW r \in Runs, ReadJob(r), ~Return(r)
  PROVE  /\ UNCHANGED <<indexed, oci_mem, announced, nJobs, attempts, garbled>>
         /\ Job(r)' = oci_mem.job /\ Untaken(r)' /\ ~Untaken(r)
         /\ \A s \in Runs \ {r} : (Untaken(s)' <=> Untaken(s)) /\ Job(s)' = Job(s)
<1>1. local \in [Runs -> Local] /\ pc \in [Runs -> Labels] /\ local[r] \in Local
  BY DEF WorkerInv, TypeInv
<1>2. UNCHANGED <<indexed, oci_mem, announced, nJobs, attempts, garbled>>
  BY DEF ReadJob, chain, history
<1>3. QED
  BY <1>1, <1>2 DEF ReadJob, Goto, Untaken, Job, Local

\* Clearing the slot makes one holder a worker, and no new holder.
LEMMA ClearSlotHolders ==
  ASSUME WorkerInv, NEW r \in Runs, ClearSlot(r)
  PROVE  /\ NoNewHolder
         /\ Untaken(r) /\ ~Untaken(r)'
         /\ \A s \in Runs \ {r} : Untaken(s) => Untaken(s)' /\ Job(s)' = Job(s)
         /\ oci_mem'.job = 0 /\ UNCHANGED <<indexed, announced, nJobs, garbled>>
         /\ Job(r) \in Jobs /\ Job(r) <= nJobs /\ Job(r) # indexed.job
         /\ \A j \in Jobs : attempts'[j] = IF j = Job(r) THEN attempts[j] + 1 ELSE attempts[j]
<1>1. local \in [Runs -> Local] /\ pc \in [Runs -> Labels] /\ local[r] \in Local
  BY DEF WorkerInv, TypeInv
<1>2. /\ NoNewHolder /\ Untaken(r) /\ ~Untaken(r)'
      /\ \A s \in Runs \ {r} : Untaken(s) => Untaken(s)' /\ Job(s)' = Job(s)
  BY <1>1 DEF ClearSlot, Goto, NoNewHolder, Untaken, Job, Local
<1>3. oci_mem'.job = 0 /\ UNCHANGED <<indexed, announced, nJobs, garbled>>
  BY DEF ClearSlot, chain, DefaultIndexingData
<1>4. Job(r) \in Jobs /\ Job(r) <= nJobs /\ Job(r) # indexed.job
  BY <1>2, JobNumberTypes DEF WorkerInv, RunInv
<1>5. attempts' = [attempts EXCEPT ![Job(r)] = @ + 1] /\ attempts \in [Jobs -> Nat]
  BY DEF ClearSlot, Job, WorkerInv, TypeInv
<1>6. \A j \in Jobs : attempts'[j] = IF j = Job(r) THEN attempts[j] + 1 ELSE attempts[j]
  BY <1>5
<1>7. QED
  BY <1>2, <1>3, <1>4, <1>6

\* Circuits are garbled by working runs, and attempts are not taken back.
LEMMA TakenStep == WorkerInv /\ TakenGarbled /\ [Next]_vars => TakenGarbled'
<1> SUFFICES ASSUME WorkerInv, TakenGarbled, [Next]_vars PROVE TakenGarbled'
  OBVIOUS
<1>1. CASE UNCHANGED <<garbled, attempts>>
  BY <1>1 DEF TakenGarbled
<1>2. CASE Extrinsic
  BY <1>1, <1>2, CallbackLeaves DEF Extrinsic, garble_standard_signed,
     garble_and_strip_display_circuits_package_signed, Request, history
<1>3. CASE NewDisplayPackage \/ ImportBlock \/ LockTimeout \/ UNCHANGED vars
  BY <1>1, <1>3 DEF NewDisplayPackage, ImportBlock, LockTimeout, vars, history
<1>4. ASSUME NEW r \in Runs, ClearSlot(r) PROVE TakenGarbled'
  <2>1. garbled' = garbled /\ \A j \in Jobs : attempts[j] > 0 => attempts'[j] > 0
    BY <1>4, ClearSlotHolders, JobNumberTypes
  <2>2. QED
    BY <2>1 DEF TakenGarbled
<1>5. ASSUME NEW r \in Runs,
             offchain_worker(r) \/ ReadJob(r) \/ try_lock(r) \/ Panic(r) \/ finalize_grpc_call(r)
                 \/ Unlock(r)
      PROVE  TakenGarbled'
  BY <1>1, <1>5 DEF offchain_worker, ReadJob, try_lock, Panic, finalize_grpc_call, Unlock, history
<1>6. ASSUME NEW r \in Runs, ~Panic(r),
             \/ call_grpc_garble(r)
             \/ call_grpc_garble_and_strip_message(r)
             \/ call_grpc_garble_and_strip_pinpad(r)
      PROVE  TakenGarbled'
  <2>1. attempts' = attempts /\ Working(r)
    BY <1>6 DEF call_grpc_garble, call_grpc_garble_and_strip_message,
       call_grpc_garble_and_strip_pinpad, history, Working
  <2>2. PICK part \in {"circuit", "message", "pinpad"} :
            \E reply \in RemoteReplies(r, part) : \E digits : ServiceGarbles(reply, digits)
    BY <1>6 DEF call_grpc_garble, call_grpc_garble_and_strip_message,
       call_grpc_garble_and_strip_pinpad
  <2>3. PICK reply \in RemoteReplies(r, part) : \E digits : ServiceGarbles(reply, digits)
    BY <2>2
  <2>4. reply.status = "ok" => reply.pgarbled_cid.job = Job(r)
    <3>1. reply.status = "ok" => reply.pgarbled_cid = GarbledCid(Job(r), local[r].attempt, part)
      BY RepliesTyped
    <3>2. QED
      BY <3>1 DEF GarbledCid
  <2>5. Job(r) \in Jobs /\ attempts[Job(r)] > 0
    BY <2>1, JobNumberTypes DEF WorkerInv, RunInv
  <2>6. QED
    BY <2>1, <2>3, <2>4, <2>5 DEF ServiceGarbles, TakenGarbled
<1>7. QED
  BY <1>2, <1>3, <1>4, <1>5, <1>6, StoppedRun DEF Next, RunStep

\* A step without a new holder that keeps entry and history keeps HeldDisplaced.
LEMMA HeldQuietStep ==
  ASSUME HeldDisplaced, NoNewHolder, UNCHANGED <<oci_mem, nJobs, attempts>>
  PROVE  HeldDisplaced'
<1>1. \A s \in Runs : Untaken(s)' => Untaken(s) /\ Job(s)' = Job(s)
  BY DEF NoNewHolder
<1>2. QED
  BY <1>1 DEF HeldDisplaced

\* Every step keeps HeldDisplaced.
LEMMA HeldStep == WorkerInv /\ HeldDisplaced /\ [Next]_vars => HeldDisplaced'
<1> SUFFICES ASSUME WorkerInv, HeldDisplaced, [Next]_vars PROVE HeldDisplaced'
  OBVIOUS
<1>0. /\ nJobs \in Nat /\ Jobs \subseteq Nat /\ indexed.job \in {0, nJobs}
      /\ \A r \in Runs : Job(r) \in Nat /\ Job(r) <= nJobs
      /\ \A j \in Jobs : attempts[j] \in Nat
  BY JobNumberTypes
<1>1. ASSUME UNCHANGED <<pc, local>>
      PROVE  \A s \in Runs : (Untaken(s)' <=> Untaken(s)) /\ Job(s)' = Job(s)
  BY <1>1 DEF Untaken, Job
<1>2. CASE \E who \in Users : \/ garble_standard_signed(who)
                              \/ garble_and_strip_display_circuits_package_signed(who)
  <2>1. nJobs' = nJobs + 1 /\ UNCHANGED <<pc, local>>
    BY <1>2 DEF garble_standard_signed, garble_and_strip_display_circuits_package_signed, Request
  <2>2. \A s \in Runs : Job(s)' < nJobs'
    BY <1>0, <1>1, <2>1
  <2>3. QED
    BY <2>2 DEF HeldDisplaced
<1>3. CASE \E tx \in pool : \/ callback_new_garbled_signed(tx)
                            \/ callback_new_garbled_and_strip_signed(tx)
                            \/ callback_panics(tx)
  <2>1. UNCHANGED <<oci_mem, nJobs, attempts, pc, local>>
    BY <1>3, CallbackLeaves DEF history
  <2>2. QED
    BY <1>1, <2>1, HeldQuietStep DEF NoNewHolder
<1>4. CASE ImportBlock
  <2>1. UNCHANGED <<nJobs, attempts, pc, local>>
    BY <1>4 DEF ImportBlock, history
  <2>2. CASE indexed.block_number = 0
    BY <1>1, <1>4, <2>1, <2>2, HeldQuietStep DEF ImportBlock, NoNewHolder
  <2>3. CASE indexed.block_number # 0
    <3>1. indexed.job = nJobs
      BY <1>0, <2>3 DEF WorkerInv, EntryInv
    <3>2. \A s \in Runs : Untaken(s) => Job(s) # indexed.job
      BY DEF WorkerInv, RunInv
    <3>3. \A s \in Runs : Untaken(s)' => Job(s)' < nJobs'
      BY <1>0, <1>1, <2>1, <3>1, <3>2
    <3>4. QED
      BY <3>3 DEF HeldDisplaced
  <2>4. QED
    BY <2>2, <2>3
<1>5. CASE NewDisplayPackage \/ LockTimeout \/ UNCHANGED vars
  <2>1. UNCHANGED <<oci_mem, nJobs, attempts, pc, local>>
    BY <1>5 DEF NewDisplayPackage, LockTimeout, vars, history
  <2>2. QED
    BY <1>1, <2>1, HeldQuietStep DEF NoNewHolder
<1>6. ASSUME NEW r \in Runs, ReadJob(r), ~Return(r) PROVE HeldDisplaced'
  BY <1>6, ReadJobHolders DEF HeldDisplaced
<1>7. ASSUME NEW r \in Runs, ClearSlot(r) PROVE HeldDisplaced'
  <2>1. ASSUME NEW s \in Runs, Untaken(s)'
        PROVE  Job(s)' < nJobs' \/ \E k \in Jobs : attempts'[k] > 0 /\ k <= Job(s)'
    <3>1. Job(s)' = Job(s) /\ Job(s) \in Nat /\ nJobs' = nJobs
      BY <1>0, <1>7, <2>1, ClearSlotHolders DEF NoNewHolder
    <3>2. Job(r) \in Jobs /\ Job(r) <= nJobs /\ Job(r) \in Nat /\ attempts'[Job(r)] > 0
      BY <1>0, <1>7, ClearSlotHolders
    <3>3. CASE Job(r) <= Job(s)
      BY <3>1, <3>2, <3>3
    <3>4. CASE Job(s) < Job(r)
      BY <1>0, <3>1, <3>2, <3>4
    <3>5. QED
      BY <3>1, <3>2, <3>3, <3>4
  <2>2. QED
    BY <2>1 DEF HeldDisplaced
<1>8. ASSUME NEW r \in Runs, RunStep(r), ~ClearSlot(r), ReadJob(r) => Return(r)
      PROVE  HeldDisplaced'
  BY <1>8, OtherRunStep, HeldQuietStep
<1>9. QED
  BY <1>2, <1>3, <1>4, <1>5, <1>6, <1>7, <1>8 DEF Next, Extrinsic
-----------------------------------------------------------------------------
(* The steps of JobLifecycle, by the status of each job before and after.  *)

\* job j gives way to a later job that was submitted, or to an earlier one that was
\* taken, before this step or by it
GivesWay(j, changed) ==
    \E k \in Jobs \ {j} :
        /\ k > j => JobStatus(k) # "none" \/ k \in changed
        /\ k < j => JobStatus(k) \in {"taken", "published"} \/ k \in changed

\* Jobs that wait may be lost to others that were submitted or taken before.
LEMMA LoseStep ==
  ASSUME NEW L \in SUBSET Jobs,
         \A j \in L : JobStatus(j) = "waiting" /\ GivesWay(j, {}),
         \A j \in Jobs : JobStatus(j)' = IF j \in L THEN "lost" ELSE JobStatus(j)
  PROVE  Lifecycle!Next
<1>1. Lifecycle!Lost(L, {})
  BY DEF Lifecycle!Lost, Lifecycle!InState, Lifecycle!Displaced, GivesWay
<1>2. Lifecycle!Becomes({}, "lost", L)
  BY DEF Lifecycle!Becomes
<1>3. QED
  BY <1>1, <1>2 DEF Lifecycle!Next, Lifecycle!Lose

\* A waiting job is taken, and others may be lost to it.
LEMMA TakeStep ==
  ASSUME NEW t \in Jobs, JobStatus(t) = "waiting", NEW L \in SUBSET (Jobs \ {t}),
         \A j \in L : JobStatus(j) = "waiting" /\ GivesWay(j, {t}),
         \A j \in Jobs : JobStatus(j)' = IF j \in L THEN "lost"
                                         ELSE IF j = t THEN "taken" ELSE JobStatus(j)
  PROVE  Lifecycle!Next
<1>1. Lifecycle!Lost(L, {t})
  BY DEF Lifecycle!Lost, Lifecycle!InState, Lifecycle!Displaced, GivesWay
<1>2. Lifecycle!Becomes({t}, "taken", L)
  BY DEF Lifecycle!Becomes
<1>3. Lifecycle!Take(t)
  BY <1>1, <1>2 DEF Lifecycle!Take
<1>4. QED
  BY <1>3 DEF Lifecycle!Next

\* The next job comes in, and others may be lost to it.
LEMMA SubmitStep ==
  ASSUME NEW t \in Jobs, JobStatus(t) = "none", NEW L \in SUBSET (Jobs \ {t}),
         \A i \in Jobs : i < t => JobStatus(i) # "none",
         \A j \in L : JobStatus(j) = "waiting" /\ GivesWay(j, {t}),
         \A j \in Jobs : JobStatus(j)' = IF j \in L THEN "lost"
                                         ELSE IF j = t THEN "waiting" ELSE JobStatus(j)
  PROVE  Lifecycle!Next
<1>1. Lifecycle!Lost(L, {t})
  BY DEF Lifecycle!Lost, Lifecycle!InState, Lifecycle!Displaced, GivesWay
<1>2. Lifecycle!Becomes({t}, "waiting", L)
  BY DEF Lifecycle!Becomes
<1>3. Lifecycle!Submit(t)
  BY <1>1, <1>2 DEF Lifecycle!Submit
<1>4. QED
  BY <1>3 DEF Lifecycle!Next

\* The result of a job that was taken is published.
LEMMA PublishStep ==
  ASSUME NEW t \in Jobs, JobStatus(t) = "taken",
         \A j \in Jobs : JobStatus(j)' = IF j = t THEN "published" ELSE JobStatus(j)
  PROVE  Lifecycle!Next
<1>1. Lifecycle!Becomes({t}, "published", {})
  BY DEF Lifecycle!Becomes
<1>2. Lifecycle!Publish(t)
  BY <1>1 DEF Lifecycle!Publish
<1>3. QED
  BY <1>2 DEF Lifecycle!Next
-----------------------------------------------------------------------------
(* Every step of the pallet is a step of JobLifecycle.                     *)

\* Only a job that was taken is announced.
LEMMA AnnouncedTaken ==
  ASSUME LifeInv, NEW j \in Jobs, Announced(j)
  PROVE  attempts[j] > 0
<1>1. PICK e \in announced : e[2].job = j
  BY DEF Announced
<1>2. PICK a \in SignerAccounts, cid \in MessageCids : e = <<a, cid>>
  BY <1>1 DEF LifeInv, ChainInv, ChainTypes
<1>3. a \in Accounts /\ <<a, cid>> \in announced /\ cid.job = j
  BY <1>1, <1>2 DEF Accounts
<1>4. PICK p \in PendingPackages(a) : p.message_pgarbled_cid = cid
  BY <1>3 DEF LifeInv, ChainInv, CallbackAllOrNothing
<1>5. IsGarbled(cid)
  BY <1>3, <1>4 DEF LifeInv, ChainInv, PendingInv, Pair
<1>6. QED
  BY <1>3, <1>5 DEF IsGarbled, LifeInv, TakenGarbled

\* What the entries and events say of a job.
LEMMA EntryFacts ==
  ASSUME LifeInv, NEW j \in Jobs
  PROVE  /\ j \in Nat /\ nJobs \in Nat /\ attempts[j] \in Nat
         /\ attempts[j] > 0 => j <= nJobs /\ j \notin {indexed.job, oci_mem.job}
         /\ Announced(j) => attempts[j] > 0
BY AnnouncedTaken, JobNumberTypes DEF LifeInv, WorkerInv, EntryInv

\* What the status of a job says, and what says the status of a job.
LEMMA StatusFacts ==
  ASSUME LifeInv, NEW j \in Jobs
  PROVE  /\ j <= nJobs => JobStatus(j) # "none"
         /\ attempts[j] > 0 => JobStatus(j) \in {"taken", "published"}
         /\ JobStatus(j) = "waiting" =>
                j <= nJobs /\ ~(attempts[j] > 0) /\ ~Announced(j)
         /\ j <= nJobs /\ (j \in {indexed.job, oci_mem.job} \/ HeldUntaken(j)) /\ ~(attempts[j] > 0)
                => JobStatus(j) = "waiting"
BY EntryFacts DEF JobStatus

\* A job the entries, the events, the attempts and the runs tell nothing new of.
LEMMA StatusSame ==
  ASSUME NEW j \in Jobs, nJobs' = nJobs,
         (j \in {indexed.job, oci_mem.job})' <=> j \in {indexed.job, oci_mem.job},
         Announced(j)' <=> Announced(j),
         (attempts[j] > 0)' <=> attempts[j] > 0,
         HeldUntaken(j)' <=> HeldUntaken(j)
  PROVE  JobStatus(j)' = JobStatus(j)
BY DEF JobStatus

\* A job that was displaced gives way.
LEMMA HeldGivesWay ==
  ASSUME LifeInv, NEW j \in Jobs, HeldUntaken(j), j # oci_mem.job, ~(attempts[j] > 0)
  PROVE  GivesWay(j, {})
<1>1. PICK r \in Runs : Untaken(r) /\ Job(r) = j
  BY DEF HeldUntaken, Untaken, Job
<1>2. j < nJobs \/ \E k \in Jobs : attempts[k] > 0 /\ k <= j
  BY <1>1 DEF LifeInv, HeldDisplaced
<1>3. /\ nJobs \in Nat /\ Jobs \subseteq Nat
      /\ \A k \in Nat : k # 0 /\ k <= nJobs => k \in Jobs
      /\ 0 \notin Jobs
  BY JobNumberTypes DEF LifeInv
<1>4. CASE j < nJobs
  <2>1. nJobs \in Jobs \ {j} /\ nJobs > j /\ ~(nJobs < j)
    BY <1>3, <1>4
  <2>2. JobStatus(nJobs) # "none"
    BY <1>3, <2>1, StatusFacts
  <2>3. QED
    BY <2>1, <2>2 DEF GivesWay
<1>5. ASSUME NEW k \in Jobs, attempts[k] > 0, k <= j PROVE GivesWay(j, {})
  <2>1. k \in Jobs \ {j} /\ ~(k > j) /\ JobStatus(k) \in {"taken", "published"}
    BY <1>3, <1>5, StatusFacts
  <2>2. QED
    BY <2>1 DEF GivesWay
<1>6. QED
  BY <1>2, <1>4, <1>5

\* Runs that end before they take the job they hold lose it, if it is in no entry;
\* every other job stays where it is.
LEMMA HoldersGone ==
  ASSUME LifeInv, NoNewHolder, UNCHANGED <<indexed, oci_mem, announced, nJobs, attempts>>
  PROVE  Lifecycle!Next
<1> DEFINE L == {j \in Jobs : /\ JobStatus(j) = "waiting" /\ j \notin {indexed.job, oci_mem.job}
                              /\ ~HeldUntaken(j)'}
<1>1. /\ \A j \in Jobs : HeldUntaken(j)' => HeldUntaken(j)
      /\ \A j \in Jobs : Announced(j)' <=> Announced(j)
  BY DEF NoNewHolder, HeldUntaken, Untaken, Job, Announced
<1>2. ASSUME NEW j \in L PROVE JobStatus(j) = "waiting" /\ GivesWay(j, {})
  <2>1. j <= nJobs /\ ~(attempts[j] > 0) /\ ~Announced(j) /\ JobStatus(j) = "waiting"
    BY StatusFacts
  <2>2. HeldUntaken(j)
    BY <2>1 DEF JobStatus
  <2>3. QED
    BY <2>1, <2>2, HeldGivesWay
<1>3. ASSUME NEW j \in Jobs PROVE JobStatus(j)' = IF j \in L THEN "lost" ELSE JobStatus(j)
  <2>0. nJobs \in Nat /\ j \in Nat
    BY EntryFacts
  <2>1. CASE j \in L
    <3>1. j <= nJobs /\ ~(attempts[j] > 0) /\ ~Announced(j)
      BY <2>1, StatusFacts
    <3>2. QED
      BY <1>1, <2>0, <2>1, <3>1 DEF JobStatus
  <2>2. CASE j \notin L
    BY <1>1, <2>0, <2>2 DEF JobStatus
  <2>3. QED
    BY <2>1, <2>2
<1> HIDE DEF L
<1>4. L \in SUBSET Jobs
  BY DEF L
<1>5. QED
  BY <1>2, <1>3, <1>4, LoseStep
\* A request is Submit of the next job, and the job of the same block that it
\* overwrites is lost to it.
LEMMA RequestLife ==
  ASSUME LifeInv, NEW who \in Users,
         \/ garble_standard_signed(who)
         \/ garble_and_strip_display_circuits_package_signed(who)
  PROVE  Lifecycle!Next
<1> DEFINE L == {j \in Jobs : j = indexed.job}
<1>0. PICK t \in Nat : t = nJobs + 1
  BY JobNumberTypes DEF LifeInv
<1>1. /\ UNCHANGED <<announced, attempts, oci_mem, pc, local>>
      /\ indexed'.job = t /\ nJobs' = t /\ nJobs < MaxJobs
  <2>1. indexed'.job = t /\ nJobs' = t /\ nJobs < MaxJobs
    BY <1>0, RequestWorker DEF LifeInv
  <2>2. QED
    BY <2>1 DEF garble_standard_signed, garble_and_strip_display_circuits_package_signed, Request
<1>2. /\ nJobs \in Nat /\ Jobs \subseteq Nat /\ oci_mem.job \in Nat /\ oci_mem.job <= nJobs
      /\ indexed.job \in {0, nJobs} /\ 0 \notin Jobs
      /\ \A r \in Runs : Job(r) \in Nat /\ Job(r) <= nJobs
  BY JobNumberTypes DEF LifeInv
<1>3. t \in Jobs
  BY <1>0, <1>1, <1>2, GarbleAssumption DEF Jobs
<1>4. \A j \in Jobs : (HeldUntaken(j)' <=> HeldUntaken(j)) /\ (Announced(j)' <=> Announced(j))
  BY <1>1 DEF HeldUntaken, Announced
<1>5. JobStatus(t) = "none" /\ JobStatus(t)' = "waiting"
  BY <1>0, <1>1, <1>2 DEF JobStatus
<1>6. \A i \in Jobs : i < t => JobStatus(i) # "none"
  BY <1>0, <1>2, StatusFacts
<1>7. \A j \in L : /\ j = nJobs /\ ~HeldUntaken(j) /\ ~(attempts[j] > 0) /\ ~Announced(j)
                   /\ j # oci_mem.job
  <2>1. \A j \in L : j = nJobs /\ ~(attempts[j] > 0) /\ ~Announced(j)
    BY <1>2, EntryFacts
  <2>2. \A j \in L : j # oci_mem.job
    BY <1>2 DEF LifeInv, WorkerInv, EntryInv
  <2>3. \A j \in L : ~HeldUntaken(j)
    BY DEF LifeInv, WorkerInv, RunInv, HeldUntaken, Untaken, Job
  <2>4. QED
    BY <2>1, <2>2, <2>3
<1>8. \A j \in L : JobStatus(j) = "waiting" /\ GivesWay(j, {t})
  <2>1. TAKE j \in L
  <2>2. JobStatus(j) = "waiting"
    BY <1>2, <1>7, StatusFacts
  <2>3. t \in Jobs \ {j} /\ ~(t < j)
    BY <1>0, <1>2, <1>3, <1>7
  <2>4. QED
    BY <2>2, <2>3 DEF GivesWay
<1>9. ASSUME NEW j \in Jobs
      PROVE  JobStatus(j)' = IF j \in L THEN "lost" ELSE IF j = t THEN "waiting" ELSE JobStatus(j)
  <2>1. CASE j \in L
    BY <1>0, <1>1, <1>2, <1>4, <1>7, <2>1 DEF JobStatus
  <2>2. CASE j \notin L /\ j # t
    <3>1. (j > nJobs' <=> j > nJobs) /\ j # indexed.job /\ j # indexed'.job
      BY <1>0, <1>1, <1>2, <2>2
    <3>2. QED
      BY <1>1, <1>4, <2>2, <3>1 DEF JobStatus
  <2>3. QED
    BY <1>0, <1>2, <1>5, <1>7, <2>1, <2>2
<1>10. L \in SUBSET (Jobs \ {t})
  BY <1>0, <1>2
<1> HIDE DEF L
<1>11. QED
  BY <1>3, <1>5, <1>6, <1>8, <1>9, <1>10, SubmitStep

\* The first callback of a job that is stored is Publish, another changes no status.
LEMMA CallbackLife ==
  ASSUME LifeInv, NEW tx \in pool, callback_new_garbled_and_strip_signed(tx)
  PROVE  Lifecycle!Next \/ \A j \in Jobs : JobStatus(j)' = JobStatus(j)
<1>1. UNCHANGED <<indexed, oci_mem, pc, local, nJobs, attempts>>
  BY CallbackLeaves DEF history
<1>2. announced' = announced \cup {<<tx.account, tx.message.pgarbled_cid>>}
  BY DEF callback_new_garbled_and_strip_signed
<1>3. PICK t \in Jobs : t = tx.message.pgarbled_cid.job /\ attempts[t] > 0
  <2>1. IsGarbled(tx.message.pgarbled_cid)
    BY DEF LifeInv, ChainInv, TxInv, Pair, callback_new_garbled_and_strip_signed
  <2>2. QED
    BY <2>1 DEF IsGarbled, LifeInv, TakenGarbled
<1>4. Announced(t)' /\ \A j \in Jobs \ {t} : Announced(j)' <=> Announced(j)
  <2>1. <<tx.account, tx.message.pgarbled_cid>>[2].job = t
    BY <1>3
  <2>2. \E e \in announced' : e[2].job = t
    BY <1>2, <2>1
  <2>3. \A j \in Jobs \ {t} : (\E e \in announced' : e[2].job = j)
                               <=> (\E e \in announced : e[2].job = j)
    BY <1>2, <2>1
  <2>4. QED
    BY <2>2, <2>3 DEF Announced
<1>5. \A j \in Jobs : HeldUntaken(j)' <=> HeldUntaken(j)
  BY <1>1 DEF HeldUntaken
<1>6. \A j \in Jobs \ {t} : JobStatus(j)' = JobStatus(j)
  BY <1>1, <1>4, <1>5 DEF JobStatus
<1>7. t <= nJobs /\ t \notin {indexed.job, oci_mem.job} /\ nJobs \in Nat /\ t \in Nat
  BY <1>3, EntryFacts
<1>8. JobStatus(t)' = "published" /\ JobStatus(t) \in {"taken", "published"}
  BY <1>1, <1>3, <1>4, <1>7, StatusFacts DEF JobStatus
<1>9. CASE JobStatus(t) = "taken"
  <2>1. \A j \in Jobs : JobStatus(j)' = IF j = t THEN "published" ELSE JobStatus(j)
    BY <1>6, <1>8
  <2>2. QED
    BY <1>9, <2>1, PublishStep
<1>10. CASE JobStatus(t) = "published"
  BY <1>6, <1>8, <1>10
<1>11. QED
  BY <1>8, <1>9, <1>10

\* The index write of a block displaces the job in the entry, which is lost to it
\* unless a run holds it.
LEMMA ImportBlockLife ==
  ASSUME LifeInv, ImportBlock
  PROVE  Lifecycle!Next
<1> DEFINE L == {j \in Jobs : j = oci_mem.job /\ indexed.block_number # 0 /\ ~HeldUntaken(j)}
<1>1. /\ UNCHANGED <<announced, attempts, nJobs, pc, local>> /\ indexed'.job = 0
      /\ oci_mem' = IF indexed.block_number = 0 THEN oci_mem ELSE indexed
  BY DEF ImportBlock, chain, history, DefaultIndexingData
<1>2. /\ nJobs \in Nat /\ Jobs \subseteq Nat /\ oci_mem.job \in Nat /\ oci_mem.job <= nJobs
      /\ indexed.job \in {0, nJobs} /\ 0 \notin Jobs
      /\ \A k \in Nat : k # 0 /\ k <= nJobs => k \in Jobs
  BY JobNumberTypes DEF LifeInv
<1>3. /\ indexed.block_number = 0 <=> indexed.job = 0
      /\ indexed.job # 0 => indexed.job # oci_mem.job
  BY DEF LifeInv, WorkerInv, EntryInv
<1>4. \A j \in Jobs : (HeldUntaken(j)' <=> HeldUntaken(j)) /\ (Announced(j)' <=> Announced(j))
  BY <1>1 DEF HeldUntaken, Announced
<1>5. \A j \in Jobs : j = oci_mem.job => ~(attempts[j] > 0) /\ ~Announced(j)
  BY EntryFacts
<1>6. ASSUME NEW j \in L PROVE JobStatus(j) = "waiting" /\ GivesWay(j, {})
  <2>1. JobStatus(j) = "waiting"
    BY <1>2, <1>5, StatusFacts
  <2>2. nJobs \in Jobs \ {j} /\ ~(nJobs < j)
    BY <1>2, <1>3
  <2>3. JobStatus(nJobs) # "none"
    BY <1>2, <2>2, StatusFacts
  <2>4. QED
    BY <2>1, <2>2, <2>3 DEF GivesWay
<1>7. ASSUME NEW j \in Jobs PROVE JobStatus(j)' = IF j \in L THEN "lost" ELSE JobStatus(j)
  <2>1. CASE j \in L
    <3>1. j \notin {indexed'.job, oci_mem'.job} /\ j <= nJobs /\ j \in Nat
      BY <1>1, <1>2, <1>3, <2>1
    <3>2. QED
      BY <1>1, <1>2, <1>4, <1>5, <2>1, <3>1 DEF JobStatus
  <2>2. CASE j = oci_mem.job /\ indexed.block_number # 0 /\ HeldUntaken(j)
    BY <1>1, <1>2, <1>4, <1>5, <2>2 DEF JobStatus
  <2>3. CASE j # oci_mem.job \/ indexed.block_number = 0
    <3>1. j \in {indexed'.job, oci_mem'.job} <=> j \in {indexed.job, oci_mem.job}
      BY <1>1, <1>2, <1>3, <2>3
    <3>2. j \notin L
      BY <2>3
    <3>3. QED
      BY <1>1, <1>4, <3>1, <3>2, StatusSame
  <2>4. QED
    BY <2>1, <2>2, <2>3
<1> HIDE DEF L
<1>8. L \in SUBSET Jobs
  BY DEF L
<1>9. QED
  BY <1>6, <1>7, <1>8, LoseStep

\* Reading the entry tells nothing new of a job: it waits there already.
LEMMA ReadJobLife ==
  ASSUME LifeInv, NEW r \in Runs, ReadJob(r), ~Return(r), NEW j \in Jobs
  PROVE  JobStatus(j)' = JobStatus(j)
<1>1. /\ UNCHANGED <<indexed, oci_mem, announced, attempts, nJobs>>
      /\ Job(r)' = oci_mem.job /\ Untaken(r)' /\ ~Untaken(r)
      /\ \A s \in Runs \ {r} : (Untaken(s)' <=> Untaken(s)) /\ Job(s)' = Job(s)
  BY ReadJobHolders DEF LifeInv
<1>2. CASE j = oci_mem.job
  BY <1>1, <1>2 DEF JobStatus
<1>3. CASE j # oci_mem.job
  <2>1. HeldUntaken(j)' <=> HeldUntaken(j)
    <3>1. HeldUntaken(j) <=> \E s \in Runs : Untaken(s) /\ Job(s) = j
      BY DEF HeldUntaken, Untaken, Job
    <3>2. HeldUntaken(j)' <=> \E s \in Runs : Untaken(s)' /\ Job(s)' = j
      BY DEF HeldUntaken, Untaken, Job
    <3>3. QED
      BY <1>1, <1>3, <3>1, <3>2
  <2>2. Announced(j)' <=> Announced(j)
    BY <1>1 DEF Announced
  <2>3. QED
    BY <1>1, <2>1, <2>2, StatusSame
<1>4. QED
  BY <1>2, <1>3

\* The first run that clears the slot takes its job; a later one that has read the
\* same job takes nothing.  Another job that stands in the entry is lost to it.
LEMMA ClearSlotLife ==
  ASSUME LifeInv, NEW r \in Runs, ClearSlot(r)
  PROVE  Lifecycle!Next
<1> DEFINE L == {j \in Jobs : j = oci_mem.job /\ j # Job(r) /\ ~HeldUntaken(j)}
<1>0. PICK t \in Jobs : t = Job(r)
  BY ClearSlotHolders DEF LifeInv
<1>1. /\ UNCHANGED <<indexed, announced, nJobs>> /\ oci_mem'.job = 0
      /\ t <= nJobs /\ t # indexed.job
      /\ \A j \in Jobs : attempts'[j] = IF j = t THEN attempts[j] + 1 ELSE attempts[j]
      /\ Untaken(r) /\ ~Untaken(r)'
      /\ \A s \in Runs : Untaken(s)' => Untaken(s) /\ Job(s)' = Job(s)
      /\ \A s \in Runs \ {r} : Untaken(s) => Untaken(s)' /\ Job(s)' = Job(s)
  BY <1>0, ClearSlotHolders DEF LifeInv, NoNewHolder
<1>2. /\ nJobs \in Nat /\ Jobs \subseteq Nat /\ oci_mem.job \in Nat /\ oci_mem.job <= nJobs
      /\ 0 \notin Jobs
      /\ \A j \in Jobs : attempts[j] \in Nat
  BY JobNumberTypes DEF LifeInv
<1>3. \A j \in Jobs \ {t} : HeldUntaken(j)' <=> HeldUntaken(j)
  <2>1. \A j \in Jobs : HeldUntaken(j) <=> \E s \in Runs : Untaken(s) /\ Job(s) = j
    BY DEF HeldUntaken, Untaken, Job
  <2>2. \A j \in Jobs : HeldUntaken(j)' <=> \E s \in Runs : Untaken(s)' /\ Job(s)' = j
    BY DEF HeldUntaken, Untaken, Job
  <2>3. QED
    BY <1>0, <1>1, <2>1, <2>2
<1>4. HeldUntaken(t)
  BY <1>0, <1>1 DEF HeldUntaken, Untaken, Job
<1>5. \A j \in Jobs : /\ j \in {indexed.job, oci_mem.job} => ~(attempts[j] > 0)
                      /\ Announced(j) => attempts[j] > 0
                      /\ Announced(j)' <=> Announced(j)
  BY <1>1, EntryFacts DEF Announced
<1>6. \A j \in Jobs : j = oci_mem.job => j # indexed.job
  BY <1>2 DEF LifeInv, WorkerInv, EntryInv
<1>7. JobStatus(t)' = IF Announced(t) THEN "published" ELSE "taken"
  BY <1>1, <1>2, <1>5 DEF JobStatus
<1>8. ASSUME NEW j \in Jobs, j # t
      PROVE  JobStatus(j)' = IF j \in L THEN "lost" ELSE JobStatus(j)
  <2>1. attempts'[j] = attempts[j] /\ (HeldUntaken(j)' <=> HeldUntaken(j)) /\ j # oci_mem'.job
    BY <1>1, <1>2, <1>3, <1>8
  <2>2. CASE j = oci_mem.job /\ ~HeldUntaken(j)
    <3>1. j \in L /\ ~(attempts[j] > 0) /\ ~Announced(j) /\ j # indexed.job /\ j <= nJobs
      BY <1>0, <1>2, <1>5, <1>6, <1>8, <2>2
    <3>2. QED
      BY <1>1, <1>2, <1>5, <2>1, <2>2, <3>1 DEF JobStatus
  <2>3. CASE j = oci_mem.job /\ HeldUntaken(j)
    BY <1>1, <1>2, <1>5, <2>1, <2>3 DEF JobStatus
  <2>4. CASE j # oci_mem.job
    BY <1>1, <1>5, <2>1, <2>4, StatusSame
  <2>5. QED
    BY <2>2, <2>3, <2>4
<1>9. L \in SUBSET (Jobs \ {t}) /\ \A j \in L : JobStatus(j) = "waiting"
  BY <1>0, <1>2, <1>5, StatusFacts
<1>10. CASE attempts[t] > 0
  <2>1. JobStatus(t) \in {"taken", "published"} /\ JobStatus(t)' = JobStatus(t)
    BY <1>1, <1>2, <1>5, <1>7, <1>10, StatusFacts DEF JobStatus
  <2>2. \A j \in L : GivesWay(j, {})
    BY <1>9, <2>1 DEF GivesWay
  <2>3. \A j \in Jobs : JobStatus(j)' = IF j \in L THEN "lost" ELSE JobStatus(j)
    BY <1>8, <1>9, <2>1
  <2> HIDE DEF L
  <2>4. QED
    BY <1>9, <2>2, <2>3, LoseStep
<1>11. CASE ~(attempts[t] > 0)
  <2>1. JobStatus(t) = "waiting" /\ JobStatus(t)' = "taken"
    BY <1>1, <1>4, <1>5, <1>7, <1>11, StatusFacts
  <2>2. \A j \in L : GivesWay(j, {t})
    BY <1>9 DEF GivesWay
  <2>3. \A j \in Jobs : JobStatus(j)' = IF j \in L THEN "lost"
                                        ELSE IF j = t THEN "taken" ELSE JobStatus(j)
    BY <1>8, <1>9, <2>1
  <2> HIDE DEF L
  <2>4. QED
    BY <1>9, <2>1, <2>2, <2>3, TakeStep
<1>12. QED
  BY <1>10, <1>11

\* Every step of the pallet is a step of JobLifecycle or moves no job.
LEMMA LifeStep ==
  ASSUME LifeInv, [Next]_vars
  PROVE  Lifecycle!Next \/ \A j \in Jobs : JobStatus(j)' = JobStatus(j)
<1>1. CASE \E who \in Users : \/ garble_standard_signed(who)
                              \/ garble_and_strip_display_circuits_package_signed(who)
  BY <1>1, RequestLife
<1>2. CASE \E tx \in pool : callback_new_garbled_and_strip_signed(tx)
  BY <1>2, CallbackLife
<1>3. CASE ImportBlock
  BY <1>3, ImportBlockLife
<1>4. CASE \/ NewDisplayPackage \/ LockTimeout \/ UNCHANGED vars
           \/ \E tx \in pool : callback_new_garbled_signed(tx) \/ callback_panics(tx)
  <2>1. UNCHANGED <<indexed, oci_mem, announced, nJobs, attempts, pc, local>>
    BY <1>4 DEF NewDisplayPackage, LockTimeout, vars, chain, history, callback_new_garbled_signed,
       callback_panics, Include
  <2>2. NoNewHolder
    BY <2>1 DEF NoNewHolder, Untaken, Job
  <2>3. QED
    BY <2>1, <2>2, HoldersGone
<1>5. ASSUME NEW r \in Runs, ReadJob(r), ~Return(r)
      PROVE  \A j \in Jobs : JobStatus(j)' = JobStatus(j)
  BY <1>5, ReadJobLife
<1>6. ASSUME NEW r \in Runs, ClearSlot(r) PROVE Lifecycle!Next
  BY <1>6, ClearSlotLife
<1>7. ASSUME NEW r \in Runs, RunStep(r), ~ClearSlot(r), ReadJob(r) => Return(r)
      PROVE  Lifecycle!Next
  BY <1>7, OtherRunStep, HoldersGone DEF LifeInv
<1>8. QED
  BY <1>1, <1>2, <1>3, <1>4, <1>5, <1>6, <1>7 DEF Next, Extrinsic

\* pallet-ocw-garble implements JobLifecycle, for every number of runs in flight,
\* whatever the pool does with callbacks: a request a run took never waits again,
\* is announced only if a run took it, and is lost before that only to another one.
THEOREM GarbleImplementsLifecycle == Spec => ImplementsLifecycle
<1>1. Init => LifeInv
  BY LifeInit
<1>2. LifeInv /\ [Next]_vars => LifeInv'
  BY WorkerStep, ChainStep, TakenStep, HeldStep DEF LifeInv
<1>3. Init => Lifecycle!Init
  BY GarbleAssumption DEF Init, Lifecycle!Init, JobStatus, Jobs
<1>4. LifeInv /\ [Next]_vars => [Lifecycle!Next]_([j \in Jobs |-> JobStatus(j)])
  BY LifeStep
<1>5. QED
  BY <1>1, <1>2, <1>3, <1>4, PTL DEF Spec, ImplementsLifecycle, Lifecycle!Spec
=============================================================================
