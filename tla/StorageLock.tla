---------------------------- MODULE StorageLock ----------------------------
(***************************************************************************)
(* The off-chain storage lock both worker pallets build with               *)
(* StorageLock::<BlockAndTime<Self>>::with_block_and_time_deadline.  The   *)
(* lock is one entry of the node's persistent off-chain storage that holds *)
(* a deadline: a block number and a time stamp.  It belongs to Substrate,  *)
(* not to this repository; the operators state what the pallets rely on:   *)
(*   - try_lock is one atomic compare-and-set;                             *)
(*   - it succeeds when there is no entry, or when the stored deadline has *)
(*     passed in BOTH respects: the time stamp is over and the block the   *)
(*     caller runs in is greater than the stored block;                    *)
(*   - dropping the guard erases the entry, whoever wrote it.              *)
(* Time is abstracted to one bit, "the time stamp of the current entry is  *)
(* over", that the environment sets at any moment.                         *)
(***************************************************************************)
EXTENDS Naturals

CONSTANT LOCK_BLOCK_EXPIRATION    \* blocks a lock lives for, at least

ASSUME LockBlockExpirationAssumption == LOCK_BLOCK_EXPIRATION \in Nat

Lock == [held : BOOLEAN, block : Nat, timedOut : BOOLEAN]

NoLock == [held |-> FALSE, block |-> 0, timedOut |-> FALSE]

\* Mutant: the two expirations are swapped, 10000 blocks and 3 milliseconds.
LockOf_Swapped(b) == [held |-> TRUE, block |-> b + 10000, timedOut |-> FALSE]

\* the entry a run of block b writes
LockOf(b) == [held |-> TRUE, block |-> b + LOCK_BLOCK_EXPIRATION, timedOut |-> FALSE]

\* the deadline of entry l has passed for a run of block b
Expired(l, b) == l.timedOut /\ b > l.block

\* try_lock by a run of block b would succeed on entry l
CanLock(l, b) == ~l.held \/ Expired(l, b)

\* the ten seconds of entry l are over
TimedOut(l) == [l EXCEPT !.timedOut = TRUE]
=============================================================================
