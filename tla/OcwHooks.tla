------------------------------ MODULE OcwHooks ------------------------------
(***************************************************************************)
(* The two workers together, with the clock.  For a best block the node    *)
(* makes one runtime call, which runs the hook of pallet-ocw-circuits and  *)
(* then the hook of pallet-ocw-garble: the second starts when the first    *)
(* has made its calls, and not at all when the first panics.  The node has *)
(* a fixed pool of threads for these calls; a run that finds them all busy *)
(* waits in the pool's queue, with the number of its own block.  Blocks    *)
(* come at a fixed pace, a call takes up to its deadline, and a lock lives *)
(* for a time and a number of blocks that its pallet chose for a hook that *)
(* starts with its block.                                                  *)
(*                                                                         *)
(* What OcwCircuits splits into steps to show how runs interleave (read    *)
(* the entry, take the lock, clear the entry) takes no time and is one     *)
(* step here.  Clocks and block numbers are relative (ticks that are left, *)
(* distance to the best block), so the model needs no bound on either.     *)
(* Calls end by their deadline: a body that stalls is left out.            *)
(***************************************************************************)
EXTENDS Integers, Sequences, FiniteSets

CONSTANTS
    Runs,                     \* threads of the node for worker runs
    MILLISECS_PER_BLOCK,      \* ticks from one block to the next (6 s)
    DEADLINE,                 \* ticks a call may take (10 s)
    LOCK_TIMEOUT_EXPIRATION,  \* ticks a lock lives for (10 s)
    LOCK_BLOCK_EXPIRATION,    \* blocks a lock lives for (3)
    MaxQueue,                 \* bound: runs that wait for a thread
    MaxJobs,                  \* bound: MaxJobs[p] jobs are submitted to pallet p
    MaxCrashes                \* bound: node restarts

Pallets == {"circuits", "garble"}

ASSUME HooksAssumption ==
    /\ {MILLISECS_PER_BLOCK, DEADLINE, LOCK_TIMEOUT_EXPIRATION} \subseteq Nat \ {0}
    /\ LOCK_BLOCK_EXPIRATION \in Nat
    /\ MaxJobs \in [Pallets -> Nat]
    /\ MaxCrashes \in Nat
    /\ MaxQueue \in Nat \ {0}
    /\ Runs # {}

VARIABLES
    sinceBlock,   \* ticks since the last block
    job,          \* job[p]: the entry of pallet p holds a job
    lock,         \* lock[p]: the lock entry of pallet p
    run,          \* run[r]: where the worker run of thread r is
    queue,        \* the runs that wait for a thread: the ages of their blocks, oldest first
    nJobs,        \* nJobs[p]: jobs submitted to pallet p so far
    late,         \* history: late[p]: a hook of pallet p took its lock after its block's tick
    crashes       \* node restarts so far

vars == <<sinceBlock, job, lock, run, queue, nJobs, late, crashes>>

\* construct_runtime: OcwCircuits before OcwGarble
HookOrder == <<"circuits", "garble">>

\* ticks that a run can take: two calls in each hook
Span == 2 * Len(HookOrder) * DEADLINE

\* blocks after which all ages and block deadlines look the same
Horizon ==
    LOCK_BLOCK_EXPIRATION + 1
        + (Span * (MaxQueue + 1) + LOCK_TIMEOUT_EXPIRATION) \div MILLISECS_PER_BLOCK

\* A lock entry: its block deadline, counted from the best block, and the ticks
\* until its time stamp (-1: it is over).
NoLock == [held |-> FALSE, ahead |-> 0, ticks |-> 0]

\* A run: the hook it is in, the calls it still has to end, the ticks to the
\* deadline of the current one, and the age of its block in blocks.
Idle == [at |-> "idle", hook |-> 1, calls |-> 0, left |-> 0, age |-> 0]
Started(age) == [Idle EXCEPT !.at = "entry", !.age = age]

Pallet(r) == HookOrder[run[r].hook]
Working(r, p) == run[r].at = "calling" /\ Pallet(r) = p

Init ==
    /\ sinceBlock = 0
    /\ job = [p \in Pallets |-> FALSE]
    /\ lock = [p \in Pallets |-> NoLock]
    /\ run = [r \in Runs |-> Idle]
    /\ queue = <<>>
    /\ nJobs = [p \in Pallets |-> 0]
    /\ late = [p \in Pallets |-> FALSE]
    /\ crashes = 0

-----------------------------------------------------------------------------
(* Time and blocks *)

Lower(n, floor) == IF n > floor THEN n - 1 ELSE floor

\* a thread that is free takes the next run of the queue at once
PoolBusy == queue # <<>> => \A r \in Runs : run[r].at # "idle"

\* Calls end, and hooks and waiting runs go on, before more time passes.
Tick ==
    /\ sinceBlock < MILLISECS_PER_BLOCK
    /\ PoolBusy
    /\ \A r \in Runs : run[r].at = "idle" \/ (run[r].at = "calling" /\ run[r].left > 0)
    /\ sinceBlock' = sinceBlock + 1
    /\ lock' = [p \in Pallets |->
                   IF lock[p].held THEN [lock[p] EXCEPT !.ticks = Lower(@, -1)] ELSE lock[p]]
    /\ run' = [r \in Runs |->
                  IF run[r].at = "idle" THEN run[r] ELSE [run[r] EXCEPT !.left = @ - 1]]
    /\ UNCHANGED <<job, queue, nJobs, late, crashes>>

\* the blocks of the lock of pallet p are over for every run
BlocksOver(p) ==
    /\ \A r \in Runs : lock[p].ahead + run[r].age < 0
    /\ \A i \in DOMAIN queue : lock[p].ahead + queue[i] < 0

\* The block deadline seen from the next block: how far back it is does not matter
\* once it is over for every run.
Further(p) == IF BlocksOver(p) THEN -Horizon ELSE Lower(lock[p].ahead, -Horizon)

\* A block with jobs for the pallets of P: the runs that work or wait are those
\* of a block further back.
ImportBlock(P) ==
    /\ sinceBlock = MILLISECS_PER_BLOCK
    /\ PoolBusy
    /\ \A r \in Runs : run[r].at # "entry"
    /\ sinceBlock' = 0
    /\ \A p \in P : nJobs[p] < MaxJobs[p]
    /\ nJobs' = [p \in Pallets |-> IF p \in P THEN nJobs[p] + 1 ELSE nJobs[p]]
    /\ job' = [p \in Pallets |-> job[p] \/ p \in P]
    /\ lock' = [p \in Pallets |->
                   IF lock[p].held THEN [lock[p] EXCEPT !.ahead = Further(p)] ELSE lock[p]]
    /\ run' = [r \in Runs |->
                  IF run[r].at = "idle" THEN run[r] ELSE [run[r] EXCEPT !.age = @ + 1]]
    /\ UNCHANGED <<late, crashes>>

Aged == [i \in DOMAIN queue |-> queue[i] + 1]

\* the run of the block is given to the pool of threads
ImportWithRun(P) ==
    /\ ImportBlock(P)
    /\ Len(queue) < MaxQueue
    /\ queue' = Append(Aged, 0)

\* the run of the block is skipped
ImportWithoutRun(P) ==
    /\ ImportBlock(P)
    /\ queue' = Aged

\* The node stops and starts again: the runs, and those that wait, are gone; job
\* and lock entries stay.
Crash ==
    /\ crashes < MaxCrashes
    /\ crashes' = crashes + 1
    /\ run' = [r \in Runs |-> Idle]
    /\ queue' = <<>>
    /\ UNCHANGED <<sinceBlock, job, lock, nJobs, late>>

-----------------------------------------------------------------------------
(* The hooks *)

\* Thread r is free: it makes the runtime call of the run that waits longest.
StartRun(r) ==
    /\ run[r].at = "idle" /\ queue # <<>>
    /\ run' = [run EXCEPT ![r] = Started(Head(queue))]
    /\ queue' = Tail(queue)
    /\ UNCHANGED <<sinceBlock, job, lock, nJobs, late, crashes>>

\* the run's block is beyond the lock's and the time stamp is over
CanLock(r, p) ==
    \/ ~lock[p].held
    \/ lock[p].ticks < 0 /\ lock[p].ahead + run[r].age < 0

\* Mutant: one block less.
LockOf_OneBlockLess(r) ==
    [held |-> TRUE, ahead |-> LOCK_BLOCK_EXPIRATION - 1 - run[r].age,
     ticks |-> LOCK_TIMEOUT_EXPIRATION]

\* with_block_and_time_deadline
LockOf(r) ==
    [held |-> TRUE, ahead |-> LOCK_BLOCK_EXPIRATION - run[r].age,
     ticks |-> LOCK_TIMEOUT_EXPIRATION]

\* the hook is over: the next one starts, or the run ends
NextHook(r) ==
    IF run[r].hook < Len(HookOrder)
    THEN [run[r] EXCEPT !.at = "entry", !.hook = @ + 1, !.calls = 0, !.left = 0]
    ELSE Idle

\* process_if_needed returns: there is no job, or another run has the lock
HookReturns(r) ==
    LET p == Pallet(r)
    IN  /\ run[r].at = "entry"
        /\ ~job[p] \/ ~CanLock(r, p)
        /\ run' = [run EXCEPT ![r] = NextHook(r)]
        /\ UNCHANGED <<sinceBlock, job, lock, queue, nJobs, late, crashes>>

\* Mutant: the job stays until its result is published.
TakeJob_KeepsJob(r) ==
    LET p == Pallet(r)
    IN  /\ run[r].at = "entry"
        /\ job[p] /\ CanLock(r, p)
        /\ lock' = [lock EXCEPT ![p] = LockOf(r)]
        /\ \E calls \in 1 .. 2 :
              run' = [run EXCEPT ![r].at = "calling", ![r].calls = calls, ![r].left = DEADLINE]
        /\ UNCHANGED <<sinceBlock, job, queue, nJobs, late, crashes>>

\* the lock is taken, the entry cleared, and the first of one or two calls made
TakeJob(r) ==
    LET p == Pallet(r)
    IN  /\ run[r].at = "entry"
        /\ job[p] /\ CanLock(r, p)
        /\ lock' = [lock EXCEPT ![p] = LockOf(r)]
        /\ job' = [job EXCEPT ![p] = FALSE]
        /\ \E calls \in 1 .. 2 :
              run' = [run EXCEPT ![r].at = "calling", ![r].calls = calls, ![r].left = DEADLINE]
        /\ late' = [late EXCEPT ![p] = @ \/ run[r].age > 0 \/ sinceBlock > 0]
        /\ UNCHANGED <<sinceBlock, queue, nJobs, crashes>>

\* Mutant: the deadline of the second call is added to that of the first.
CallAgain_AddsDeadline(r) ==
    /\ run[r].at = "calling" /\ run[r].calls = 2
    /\ run' = [run EXCEPT ![r].calls = 1, ![r].left = @ + DEADLINE]
    /\ UNCHANGED <<sinceBlock, job, lock, queue, nJobs, late, crashes>>

\* a call ends, with a reply or an error, and the second is made
CallAgain(r) ==
    /\ run[r].at = "calling" /\ run[r].calls = 2
    /\ run' = [run EXCEPT ![r].calls = 1, ![r].left = DEADLINE]
    /\ UNCHANGED <<sinceBlock, job, lock, queue, nJobs, late, crashes>>

\* the last call ends: finalize_grpc_call, and the guard erases the lock entry
Finish(r) ==
    /\ run[r].at = "calling" /\ run[r].calls = 1
    /\ lock' = [lock EXCEPT ![Pallet(r)] = NoLock]
    /\ run' = [run EXCEPT ![r] = NextHook(r)]
    /\ UNCHANGED <<sinceBlock, job, queue, nJobs, late, crashes>>

\* unwrap() and expect() in a call, or after both: the whole runtime call is
\* over, the hook after this one included.  Native code releases the lock.
Panic(r) ==
    /\ run[r].at = "calling"
    /\ \/ lock' = [lock EXCEPT ![Pallet(r)] = NoLock]
       \/ UNCHANGED lock
    /\ run' = [run EXCEPT ![r] = Idle]
    /\ UNCHANGED <<sinceBlock, job, queue, nJobs, late, crashes>>

RunStep(r) ==
    \/ StartRun(r)
    \/ HookReturns(r)
    \/ TakeJob(r)
    \/ CallAgain(r)
    \/ Finish(r)
    \/ Panic(r)

Next ==
    \/ Tick
    \/ Crash
    \/ \E P \in SUBSET Pallets : ImportWithRun(P) \/ ImportWithoutRun(P)
    \/ \E r \in Runs : RunStep(r)

Spec == Init /\ [][Next]_vars

\* Time passes, blocks come and some of them ask for a run, and a free thread and
\* the runs that are started go on.  Nobody has to submit a job, and every call may panic.
Fairness ==
    /\ WF_vars(Tick \/ \E P \in SUBSET Pallets : ImportWithRun(P) \/ ImportWithoutRun(P))
    /\ SF_vars(\E P \in SUBSET Pallets : ImportWithRun(P))
    /\ WF_vars(\E r \in Runs : RunStep(r))

FairSpec == Spec /\ Fairness

-----------------------------------------------------------------------------
(* Properties *)

\* Clocks and distances stay in their ranges: no run is older than two hooks of
\* two calls each, in it and in those that were before it in the queue, can make it.
TypeOK ==
    /\ sinceBlock \in 0 .. MILLISECS_PER_BLOCK
    /\ job \in [Pallets -> BOOLEAN]
    /\ \A p \in Pallets :
          /\ lock[p].ahead \in -Horizon .. LOCK_BLOCK_EXPIRATION
          /\ lock[p].ticks \in -1 .. LOCK_TIMEOUT_EXPIRATION
    /\ \A r \in Runs :
          /\ run[r].at \in {"idle", "entry", "calling"}
          /\ run[r].left \in 0 .. DEADLINE
          /\ run[r].age * MILLISECS_PER_BLOCK <= Span * (MaxQueue + 1)
    /\ Len(queue) <= MaxQueue
    /\ \A i \in DOMAIN queue : queue[i] * MILLISECS_PER_BLOCK <= Span * MaxQueue
    /\ \A p \in Pallets : nJobs[p] \in 0 .. MaxJobs[p]
    /\ late \in [Pallets -> BOOLEAN]
    /\ crashes \in 0 .. MaxCrashes

\* the runs that are in the locked part of pallet p
Inside(p) == {r \in Runs : Working(r, p)}

\* The lock of ocw-circuits holds as long as no run comes to its hook late, because
\* it waited for a thread: two calls end before a block comes whose run could find
\* the lock expired.  (2 * 10 s are less than 4 blocks of 6 s; the time stamp alone,
\* 10 s, would not do.)
CircuitsExclusiveUnlessLate == ~late["circuits"] => Cardinality(Inside("circuits")) <= 1

\* The lock of ocw-garble holds as long as no run comes to its hook late, because
\* it waited for a thread or the ocw-circuits hook of its own block made calls:
\* that, and the erased locks that follow from it, is the only way two runs get
\* into the locked part.
GarbleExclusiveUnlessLate == ~late["garble"] => Cardinality(Inside("garble")) <= 1

\* A job is taken, whatever the other pallet's hook does: although a panic of
\* the first hook costs the second its turn, every panic uses up a job of the
\* first, and a lock that a trap or a restart left behind expires.
JobTaken == \A p \in Pallets : job[p] ~> ~job[p]

\* "it is important to lock it before doing heavy computations or write
\* operations": one run at a time is in the locked part of ocw-garble.  Violated:
\* the lock is taken 20 s and more after the run's block, and its 3 blocks are
\* counted from that block.
GarbleExclusive == Cardinality(Inside("garble")) <= 1
=============================================================================
