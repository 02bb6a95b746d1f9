# A TLA+ model of the off-chain worker demo

This project models the pallets of the Substrate off-chain worker demo: how a
job gets from an extrinsic through the off-chain storage to a worker run, from
there to a remote grpc-web service, and back on chain with a callback; and how
the one-time code that travels this way is checked in the end.

## 1. The system

| Part | State | Operations |
|---|---|---|
| `pallet-ocw-circuits` | `DisplaySkcdPackageValue` (the current "reference" package: message and pinpad circuit with their digit counts); one job entry and one lock entry in the node's off-chain storage | `submit_config_generic_signed`, `submit_config_display_circuits_package_signed`, the `offchain_worker` hook (`process_if_needed`, `call_grpc_*`, `finalize_grpc_call`), `callback_new_skcd_signed`, `callback_new_display_circuits_package_signed`, `get_display_circuits_package` |
| `pallet-ocw-garble` | `Nonce`, `AccountToPendingCircuitsMap` (at most 16 per account); a job entry and a lock entry of its own | `garble_standard_signed`, `garble_and_strip_display_circuits_package_signed`, the `offchain_worker` hook, `callback_new_garbled_signed`, `callback_new_garbled_and_strip_signed` |
| `pallet-tx-validation` | `CircuitServerMetadataMap`: account and message cid to message digits and pinpad permutation | `store_metadata` (and `store_metadata_aux`, called by `pallet-ocw-garble`), `check_input` |
| `pallet-mobile-registry` | a public key per account | `register_mobile` |
| `ocw-common` | none | `encode_body`, `decode_body` (grpc-web frames), `fetch_from_remote_grpc_web` |
| runtime | account nonces (Substrate) | `create_transaction` for callbacks; `construct_runtime` puts the two worker hooks into one call, circuits first |
| node | best block, transaction pool, keystore, off-chain storage, tasks | `command::run`, `new_partial`, `new_full`; starts a worker run per best block, applies off-chain index writes at import, makes the keys that sign callbacks |

How they interact:

* An extrinsic writes its job with `sp_io::offchain_index::set` to ONE fixed key
  (`derived_key` uses block number 0 always). The write reaches the off-chain
  storage when the block is imported.
* A worker run is started for a best block. Blocks come every 6 s, a run may make
  two calls of up to 10 s each in each hook, and the node does not wait: several
  runs are in flight, and a run that finds all threads of the node busy waits in
  their queue. Runs meet in the job entry, the lock entry and the transaction pool.
* The run reads the job, then takes the lock, clears the entry, calls the service
  and sends one callback per keystore account, with the account nonce of the
  state of the block it was started for.
* `pallet-ocw-garble` reads the reference package of `pallet-ocw-circuits` when a
  request comes in and writes to `pallet-tx-validation` when its callback is
  executed.

What is hard here: state read before the lock and used after it; clearing an
entry somebody else may have replaced; locks that expire under a slow run, and
guards that erase whoever's entry is there; panics (native code unwinds and
releases the lock, a wasm trap does not); restarts; nonces that are stale when a
callback is sent; three stores that one callback must keep consistent; a second
hook that starts when the first is done, up to 20 s late, and whole runs that start
late because they waited for a thread; bodies that break off
without an error. The list,
line by line, is `hazards` in `PROJECT.json`.

What makes the parts correct:

* circuits: a job is never worked on again once it was cleared, runs exclude each
  other, the lock is not left behind, every lost job is lost for a known reason,
  results are not replayed, the package pairs two circuits of one job, and a
  waiting job is eventually taken;
* garble: the digits that are checked are those the announced circuits show; the
  callback writes everything or nothing; no two requests share a seed;
* tx-validation: exactly the inputs that spell the message pass;
* ocw-common: what is framed is read back, what is decoded was sent, and the wait
  for a reply ends;
* both hooks: each pallet's lock outlives the calls it protects, and neither
  pallet's jobs starve;
* mobile-registry: events, entries and accepted calls stay in step;
* node: the workers always have their keys, and a node is either complete or on
  its way down.

## 2. Modules

| Module | Contents |
|---|---|
| `StorageLock` | the `BlockAndTime` storage lock of Substrate, as operators on a lock entry (external) |
| `OcwCircuits` | `pallet-ocw-circuits` with its worker runs and the node around them |
| `OcwGarble` | `pallet-ocw-garble`, composed with the operators of `TxValidation` (`TxV == INSTANCE TxValidation`) |
| `TxValidation` | `pallet-tx-validation` |
| `JobLifecycle` | abstract specification: what becomes of a job |
| `CircuitsLifecycle`, `GarbleLifecycle` | the refinement mappings from `OcwCircuits` and `OcwGarble` to `JobLifecycle` |
| `OcwCommon` | `ocw-common`: one grpc-web call |
| `OcwHooks` | both workers in one runtime call, with clocks |
| `MobileRegistry` | `pallet-mobile-registry` |
| `NodeService` | start-up and end of the node's process |
| `MC...` | instances for TLC |
| `OcwCircuitsProofs`, `CircuitsLifecycleProofs` | theorems about `OcwCircuits`: locking and jobs; results, counts and the refinement |
| `OcwGarbleProofs` | theorems about `OcwGarble` and its refinement |
| `TxValidationProofs`, `OcwCommonProofs`, `OcwHooksProofs`, `MobileRegistryProofs`, `NodeServiceProofs` | theorems about the module they are named after |

Operators whose comment starts with "Mutant" are deliberate mistakes: each is a
plausible bug of the definition that follows it, and the property it is listed
with under `mutants` must fail when it takes that definition's place.

### OcwCircuits

Chain variables are the state of the block being built. `ImportBlock` makes it
the best block: `bestNonce` takes the nonces, and `indexed`, the last off-chain
index write of the block, becomes the job entry `oci_mem`. A job is numbered by a
history variable; its cids are records that name the job they were made for, so
that a property can tell whose result is where.

A run is a program counter with local variables. A step ends where the next
access to shared state begins:

| `pc` | the run is about to | lines of `process_if_needed` |
|---|---|---|
| `started` | read the entry (`NothingToDo`, `ReadJob`) | 392-407 |
| `loaded` | try the lock (`try_lock`, `try_lock_fails`) | 418-426 |
| `locked` | clear the entry (`ClearSlot`) | 433 |
| `calling`, `calling_pinpad` | make a call (`call_grpc_*`) | 435-440 |
| `finalize` | send the callbacks (`send_signed_transaction`, `finalize_panics`, `finalize_error`) | 442 |
| `unlock` | drop the guard (`Unlock`) | 443 |

`Panic` is the end of a run by `unwrap` or `expect`: with the native executor the
guard is dropped on the way out, with wasm it is not. The wasm build has no
environment and calls `PLACEHOLDER_no_std`, which fails. `Crash` is a restart:
runs and pool are gone, the off-chain storage stays. The pool takes a callback
whose nonce is the account's next one; of two callbacks with the same nonce it
keeps the one with the higher priority, which without a tip is the shorter one
(Generic before Display), and the older of two equal ones.

Abstractions: verilog and circuit cids are model values and records; the two
bounding-box requests are the two parts of a display job; a user's extrinsic is
executed without going through the pool, but never overtakes a callback of the
same account that waits there; a callback comes from a worker run only (any
account may send one, and the code has a TODO about it); cids are as long as the
service makes them, so the 64-byte bound of the package is not hit.

### OcwGarble

The same worker, with less detail about pool and panics (any outcome) and more
about the data. A restart stops every run wherever it is, the run between its lock
and its clear included (`NodeStops`); the callbacks it loses are those that are
never included. The request draws message digits and a permutation, the service
garbles circuits that show given digits (`garbled` remembers which), and the
callback stores the digits. Every attempt has cids of its own, as garbling is
randomised. `PackageReady` is what the pallet sees of `pallet-ocw-circuits`.

### TxValidation

Digits are numbers, inputs are sequences of code points (what `chars()` yields).
`CheckResult` is what `check_input` returns for a stored package; `SpellsMessage`
says independently what the user does: touch, one after the other, keys that show
the digits of the message. `LogInfo` stands for the node's log level, because the
arguments of `log::info!` contain `expect`.

### JobLifecycle

A job is `none`, `waiting`, `taken`, `published` or `lost`. Jobs come in the order
of their numbers; a job is taken at most once and published only after that; a
waiting job is lost only if a later job was submitted or an earlier one was taken.
The mappings read the status off the state of the pallet: a job waits in the index
write, in the entry, or with a run that has read it and may still take it; it was
taken if a run made its calls. Doubled attempts and repeated callbacks are
stutters, and so is a restart that costs a run its taken job. What the mapping has
to get right is the run that holds a job which is no longer in the entry: the job
is not lost until that run fails to take the lock, and not taken until it clears.

### OcwCommon

Bytes are digits to the base `Base`, a message is its bytes. `encode_body` and
`decode_body` are written over bytes as in the code; the service's frames are put
together independently, by the protocol (`LengthBytes`, `Frame`). The call is a
small state machine: sending, waiting for headers, reading the body. `elapsed`
counts seconds; `Tick` does not pass a deadline that is due, and the body has
none. A body may break off after any byte. base64 is a tag on the body (`form`),
because all that matters is whether both sides agree on it; a base64 text that is
read as binary states a length of at least 0x2b2b2b2b and panics in `split_to`.
Compressed frames are left out (the request does not offer any encoding).

### OcwHooks

The run of a block goes through `HookOrder`. The node has a pool of threads for
these runtime calls (`Runs`); a block's run is given to the pool
(`ImportWithRun`) and waits in `queue` until a thread is free (`StartRun`), with
the number of its own block. A free thread takes it at once (`PoolBusy`). A block
may also come without a run of its own (`ImportWithoutRun`): the node imports in
bulk, or the queue is at its bound `MaxQueue`; the program's queue has none.

Clocks are relative: the ticks left to a call's deadline and to a lock's time
stamp, the distance of a lock's block deadline from the best block, and the age of
the block of a run that works or waits. So nothing but the number of submitted
jobs, the queue and the restarts is bounded. Read, lock and clear of a hook are one
step, because they take no time; how runs interleave inside is the subject of
`OcwCircuits`. A call takes any time up to its deadline (a stalling body is left
out: it would break every lock). A restart ends the runs, those that wait too, and
leaves the entries. `late[p]` remembers that a run took the lock of pallet `p`
after the tick of its block.

### MobileRegistry

A key is its length and a name. A panic undoes the extrinsic, an `Err` would not.

### NodeService

`phase` is the place in `command::run`, `new_partial` and `new_full`; a step ends
where the next `?` is, and each of them may return early (`new_partial_fails`,
`new_full_fails`). Tasks that were spawned may end at any time; the task
manager is looked at once `new_full` has returned. The accounts are those of the
two built-in chain specifications.

## 3. Runs

| Run | Checks | Instance |
|---|---|---|
| `circuits` | types, seven safety properties, and that `OcwCircuits` implements `JobLifecycle` | 2 runs, 2 jobs, 3 blocks, 1 restart, a signer that also submits; lock lives for 1 block |
| `circuits_liveness` | `PendingJobTaken` under `FairSpec` | 2 runs, 2 display jobs, 4 blocks, 1 restart, no signing account (callbacks take no part) |
| `circuits_twice`, `circuits_lost_result` | what comments of the pallet say and the code does not do | 2 runs, 2 jobs, 3 blocks, the real lock of 3 blocks |
| `garble` | types, end-to-end digits, all-or-nothing callback, seeds, and that `OcwGarble` implements `JobLifecycle` | 2 runs, 2 requests, 2 blocks, 2 keys, 1 digit, pending lists of 1 |
| `garble_requester` | whose pending list a package is filed in | as above |
| `txvalidation` | what passes `check_input` | 2 accounts, a short and an over-long cid, pinpads of 3 keys (one repeats a key, one is not utf8, one is too long), inputs of up to 2 code points, 2 verdicts on one entry |
| `common` | frames both ways; the wait for headers ends (`FairSpec`) | bytes of two values, five messages of 0 to 5 bytes, three trailers, two status codes, three content types or none, 12 s |
| `hooks` | both locks as long as no run starts late; `JobTaken` (`FairSpec`) | 2 threads, 2 waiting runs, 3 circuits jobs and 2 garble jobs, 1 restart, ticks of a little over 3 s: blocks of 2, calls and locks of 3, locks of 3 blocks; no bound on blocks or time |
| `hooks_garble_exclusive` | the lock of ocw-garble without a condition | as `hooks`, 1 waiting run, no restart |
| `mobile_registry` | entries, events, accepted calls | 2 accounts, 3 registrations each, keys of 0, 31, 32, 256 and 257 bytes |
| `node_service` | keys, completeness; a half node goes down (`FairSpec`) | every configuration, no bound |

Why the bounds are enough. Every disagreement between runs needs two of them: one
that is late and one that is not. Two jobs are an older and a newer one, which is
all the entry can confuse. Three blocks with a lock that lives for one leave room
for a run of block 1 to lose its lock to a run of block 3. The fourth block of
`circuits_liveness` leaves room for the case the property is about: the job of
block 1 is taken and its run traps, the second job is stored with block 2, and the
lock that was left behind expires for the run of block 3. One restart can happen
at every point. A pending list of one is full with the first package and
overflows with the second. A pinpad of two keys has two permutations and two
codes. With two values to a byte, a length of two or three already takes two bytes of the
header, and a length of four or more a third. In `hooks` two calls are as long as
three blocks and shorter than four, as 20 s are to 6 s; a run of two hooks with two
calls each is 12 ticks or six blocks long; while it lasts, a second thread runs the
hooks of later blocks, all of them or any selection, or is as busy as the first
while later runs wait. Three circuits jobs are what it takes to keep a thread busy
with the first and to have the second and the third meet.

### What the violated runs show

Each is recorded under `findings` with the comment it contradicts.

* `TwiceRunHandled`: the job is read before the lock is taken and not read again,
  so a doubled run repeats a finished job.
* `ResultIsPublished`: a run's nonce may be taken, the refusal is ignored and the
  job is gone. The run uses `FairSpec`, but the property is one of single steps.
* `PendingBelongsToRequester`: the job does not say who asked.
* `GarbleExclusive`: the ocw-garble lock is counted from the run's block, the hook
  starts up to 20 s later. `GarbleExclusiveUnlessLate` shows that it takes a run
  that starts its hook late. `CircuitsExclusiveUnlessLate` says the same of the first
  hook, which starts with its block unless its run has waited for a thread: then two
  calls (20 s) end before the fourth block (24 s).

Seen while modelling, visible in the definitions and not given a run of their own:

* with two threads the circuits lock can fail like the garble lock: both threads are
  busy for 20 s with a circuits job and a garble job, a run that waited meanwhile
  takes a second circuits job with the number of its old block, and works on while a
  run of a later block finds that lock expired. Without its premise
  `CircuitsExclusiveUnlessLate` fails within the bounds of `hooks`. The comment on
  `try_lock` is the same in both pallets (ocw-circuits, line 424), and the finding on
  the garble lock stands for both;
* the clear of the entry erases a job that was imported since the run read it
  (`ClearSlot`; the `clobbered` case of `NewestJobAccounted`), and "append" is a
  write to one key: `JobLifecycle` says that a job may be lost to another one;
* `check_input` leaves the entry in the map, although a comment asks for no retry
  (tx-validation, line 269), and panics on inputs for which `TxInvalidInputsGiven`
  is declared (`CheckResult`);
* the comment on the call's deadline says 5 s, the code 10 s (ocw-common, lines 74
  to 78);
* a comment calls `application/grpc-web-text` base64 (ocw-common, line 100), but
  only `application/grpc-web-text+proto` is decoded as such (`GrpcWebContentType`).

### Fairness

`FairSpec` assumes that blocks keep being imported, that time passes (a lock's
time stamp is over eventually), that some run is started again and again, and
that a run that is started goes on. The first three are what a node does; the
last rests on the deadline of the calls (`ocw-common`, line 78), which covers the
response headers. Reading the body has no deadline; a run that hangs there
outlives its lock, which another run then takes over, and is the `stolen` case of
the safety properties, but `PendingJobTaken` does not cover it. Fairness is per
kind of step, never per user: nobody has to submit anything, no callback has to
be included, and calls may fail or panic forever. `PendingJobTaken` asks for the
last restart to be over and for the blocks a left-behind lock needs to expire to
be within the block bound.

The `FairSpec` of `OcwCommon` lets time pass and the thread go on; the service
need not take the request, answer, or send a body. That of `OcwHooks` lets time
pass, blocks come and runs go on; of the blocks that come, some start a run (a
block may be skipped while the node imports in bulk, hence strong fairness of
`ImportWithRun`), and a free thread takes the run that waits longest. `JobTaken` rests on the bound on jobs in one way: every panic of
the circuits hook uses up a circuits job, so with finitely many of them the garble
hook gets its turn; under an endless supply of circuits jobs that all panic, it
would not. That of `NodeService` lets the start-up go on and the task manager be
polled; nobody has to start or stop the node, and no task has to end.

## 4. Proofs

Every safety invariant that a passing run checks is a theorem, and so are both
refinements of `JobLifecycle`. The theorems hold for every value of the constants:
every number of runs, jobs, blocks, restarts, accounts, keys, digits, message
lengths and clock periods. The runs show the same formulas on small instances.

Assumptions. The constants satisfy the named `ASSUME`s of their modules, which TLC
evaluates in the runs: that bounds are numbers, that `None` is no value of the type
it is the absence of (`NoneAssumption`), and that there are finitely many threads
and signing accounts (`FinitenessAssumption`, needed to count them). Two conditions
on the numbers are hypotheses of the theorems that need them, not assumptions:

* `SeedsDistinctHolds` assumes `MaxJobs <= NonceModulus`: after 2^64 requests the
  nonce of ocw-garble comes round;
* `CircuitsExclusiveUnlessLateHolds` and `GarbleExclusiveUnlessLateHolds` assume
  `LockOutlivesCalls`: two deadlines are less than the blocks of the lock and one
  more. The code's numbers are 2 * 10 s < (3 + 1) * 6 s. With a lock of one block
  less the properties fail (their mutant), so the condition is the reason they hold;
* `LongStampExcludes` assumes `2 * DEADLINE <= LOCK_TIMEOUT_EXPIRATION`, which the
  code's numbers do not satisfy: it is a statement about a repaired lock.

### OcwCircuits

* `TypeCorrect`. The types are not inductive: the digit counts a callback stores
  are numbers only because the callback was built from replies that had them.
  `TypeInv` adds that about the pool (`PoolHasDigits`) and that no job number is
  from the future (`JobNumbers`).
* `CalledJobIsGoneHolds`. That a run's job is in no entry is not inductive
  either: the clear removes what the entry holds, which may be a newer job.
  `JobInv` adds that the index write of the block being built is neither the job
  of the entry nor the job of any run past its read, so whatever is stored after
  the clear is a different job.
* `NewestJobAccountedHolds` follows the newest job from the index write to the
  entry and to the run that clears it; a clear of another run's job is the
  `clobbered` case.
* `MutualExclusionHolds`, `LockHasOwnerHolds`. `LockInv` says that, as long as no
  lock was taken over, a run in the locked part means that the lock is held. That
  makes `try_lock` exclude, and makes every way out of the locked part release the
  lock it took.
* `PackageFromOneJobHolds`. `ResultInv` says of every run, every callback in the
  pool and the package whose circuits they carry: a reply is of the run's own job,
  a callback of a job that was taken.
* `ImplementsLifecycleHolds`. One lemma per action says which abstract step it is,
  or that every job keeps its status. The abstract `lost` needs a reason, a later
  job or an earlier one that was taken; `HeldDisplaced` carries that reason for a
  job that has left the entry while a run still holds it.
* `AttemptsBoundedHolds`: attempts so far and runs that have read the job and may
  still take it are together no more than the threads (`AttemptsInv`), because a
  job is in the entry for reading only before its first attempt.
* `PublishedOncePerAttemptHolds`: every attempt pays for one event per signer;
  events deposited, callbacks waiting and callbacks a run may still send are
  together no more than that (`PublishInv`). Restarts, refused and replaced
  callbacks only make it less.

### OcwGarble

* `GarbleTypeCorrect`, `CallbackAllOrNothingHolds`: `WorkerInv` (entries, runs and
  attempts) and `ChainInv` (every callback carries a pair of circuits of one
  attempt that exist; the three stores agree).
* `PendingCodeIsCheckedHolds`: `DigitsInv` says that there is one assignment `D` of
  digits to jobs with which the entry, the index write, every run, every callback,
  every garbled circuit and every stored entry agree. `D` is not a variable of the
  model, so the invariant is an existential formula: a request extends `D`, and no
  other step changes it. That exactly one code passes follows from the pinpad being
  a permutation (`PinpadShowsAll`, `OneCode`).
* `SeedsDistinctHolds`: `SeedsInv`, the nonces drawn so far are below the next one.
* `GarbleImplementsLifecycle`: as for `OcwCircuits`, with `LifeInv`.

### TxValidation

`CheckResultOk`, `UniqueCode`, `TxTypeCorrect`, `PassesWhatSpellsMessageHolds`,
`OneCodePassesHolds`: `check_input` against `SpellsMessage` for all vectors with at
most ten keys. The bound of ten matters: on a longer pinpad the ASCII code 48 and
the raw position 48 would be two keys.

### OcwCommon

`CommonTypeCorrect`, `RequestIsReadBackHolds`, `DecodedIsReplyHolds`,
`GoodReplyDecodesHolds`. The argument has three layers. Four bytes spell a length in
one way (`get_u32_Injective`, `put_u32_Spells`), so `put_u32` writes the length the
protocol asks for. A frame has its length bytes and its payload in fixed places
(`FrameParts`), so two messages with one frame are equal (`FrameInjective`), and
`decode_frame` takes any body that begins like a frame for that frame's payload
(`DecodesFirstFrame`). A prefix of a reply with both frames is therefore decoded to
its own message or panics (`FullReplyDecodes`), and a reply with one frame or none
always panics, because it is never ten bytes longer than its payload
(`HalfReplyPanics`). A body cut inside its trailers is decoded, with the whole message.
`CallInv` follows one call through its phases: a body is only
read of a reply with status 200, and there is no result before it is read.

### OcwHooks

* `HooksTypeCorrect`. That a run is not older than its calls can make it is not
  inductive: `AgeInv` bounds the ticks since the run's block together with what is
  left of the current call and of the calls still to come. `QueueInv` does the same
  for a run that waits: at its place in the queue it is no older than the runs that
  have been before it can make it, and every thread is free in time.
* `CircuitsExclusiveUnlessLateHolds`, `GarbleExclusiveUnlessLateHolds`. `LockInv`: as
  long as no run has taken the lock of a pallet late, the lock entry is that of the
  run inside, and the run's calls end within two deadlines of its block. With
  `LockOutlivesCalls` the lock's block deadline is then not behind the best block
  (`OwnerIsYoung`), so no other run gets the lock (`NobodyCanLock`), the oldest
  ones included. The time stamp of the lock is not used at all.
* `LongStampExcludes` says what the time stamp would have to be: if it outlives two
  calls (20 s where the code has 10 s), both locked parts exclude without any
  condition on when a run starts. `StampInv`: the calls that are left to the run
  inside are no longer than what is left of the lock's time stamp.

### MobileRegistry and NodeService

`RegistryInv` is the conjunction of types and both properties. `KeysInv` says from
which phase on the keys are there, `StartInv` which tasks a phase has behind it and
that none of them has ended unless `failed` says so.

### Only model-checked

The four liveness properties (`PendingJobTaken`, `HeadersAwaitedFinitely`,
`JobTaken`, `NoHalfNode`): liveness under fairness is out of the prover's reach.
The violated runs are counterexamples and have nothing to prove.

## 5. Not modelled

* forks: a doubled or late run is there, but a block is never reverted;
* several nodes. Every node with the built-in seed signs as the same account and
  works on every job it imports; the second callback of a job is refused for its
  nonce or repeats the first, which is what a doubled run of one node does in
  `OcwCircuits`;
* the pool as seen by both pallets: `OcwGarble` lets a callback be refused at any
  time, so what is checked of it does not depend on it;
* bodies that stall, in `OcwHooks`;
* a callback that an account sends by itself, and in `OcwGarble` the extrinsic
  `store_metadata` of pallet-tx-validation (its lines 201 to 211), which is public: a
  signing account that sends it can replace the digits of its own pending packages.
  `PendingCodeIsChecked` and `CallbackAllOrNothing` hold of signing accounts that
  send neither. `TxValidation` does have both extrinsics, from any account;
* generated protobuf code (its sources are in a submodule), `rpc.rs`, telemetry,
  chain specifications from a file, keys inserted over RPC;
* the pallets and runtime APIs of Substrate: configuration of code that is not part
  of this repository.

## 6. Plan

The invariants and refinements of the runs are proved. What would add to them:

1. step properties as theorems of the form `[][A]_vars`: that a job's number of
   attempts, an account's pending list and the nonce only ever grow;
2. `OcwHooks` with a body that stalls, to state how long a lock would have to live
   if reading the body had a deadline;
3. forks: off-chain index writes of a block that is reverted.
