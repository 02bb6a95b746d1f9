--------------------------- MODULE OcwHooksProofs ---------------------------
(***************************************************************************)
(* The locks of the two worker pallets against the clock, for every number *)
(* of threads and every choice of block time, deadline and expirations.    *)
(* A run is timed from the import of its block: AgeInv and QueueInv say    *)
(* how long ago that can be, in each hook and at each place of the pool's  *)
(* queue.  LockInv says that the lock entry of a hook that was entered     *)
(* with its block is the run's own and is not over for any run that could  *)
(* try it.  StampInv says what a longer time stamp would give.             *)
(***************************************************************************)
EXTENDS OcwHooks, TLAPS, FiniteSetTheorems

\* Two calls end before the first block whose run could find the lock expired.
\* (2 * 10 s < (3 + 1) * 6 s)
LockOutlivesCalls == 2 * DEADLINE < (LOCK_BLOCK_EXPIRATION + 1) * MILLISECS_PER_BLOCK

-----------------------------------------------------------------------------
(* Types and ages.                                                         *)

RunState == [at : {"idle", "entry", "calling"}, hook : {1, 2}, calls : {0, 1, 2},
             left : 0 .. DEADLINE, age : Nat]
LockEntry == [held : BOOLEAN, ahead : Int, ticks : -1 .. LOCK_TIMEOUT_EXPIRATION]

TypeInv ==
    /\ sinceBlock \in 0 .. MILLISECS_PER_BLOCK
    /\ job \in [Pallets -> BOOLEAN]
    /\ lock \in [Pallets -> LockEntry]
    /\ run \in [Runs -> RunState]
    /\ queue \in Seq(Nat)
    /\ \A p \in Pallets : nJobs[p] \in 0 .. MaxJobs[p]
    /\ late \in [Pallets -> BOOLEAN]
    /\ crashes \in 0 .. MaxCrashes

\* ticks since the block of a run in state s, t ticks after the last block
Elapsed(s, t) == s.age * MILLISECS_PER_BLOCK + t

\* ticks that the calls of the hook of a run in state s can still take
LeftInHook(s) == s.left + (s.calls - 1) * DEADLINE

\* ticks that a run in state s can still take
LeftInRun(s) ==
    IF s.at = "idle" THEN 0
    ELSE IF s.at = "entry" THEN 2 * (3 - s.hook) * DEADLINE
    ELSE LeftInHook(s) + 2 * (2 - s.hook) * DEADLINE

\* ticks after its block by which a run is over that has n runs before it
EndOf(n) == Span * (n + 1)

AgeOK(s, t) ==
    /\ s.at = "idle" => s = Idle
    /\ s.at = "calling" => s.calls \in {1, 2}
    /\ s.at # "idle" => Elapsed(s, t) + LeftInRun(s) <= EndOf(MaxQueue)

AgeInv == \A r \in Runs : AgeOK(run[r], sinceBlock)

\* A thread that becomes free in time takes the oldest run of the queue.
QueueInv ==
    /\ Len(queue) <= MaxQueue
    /\ \A i \in 1 .. Len(queue), r \in Runs :
          queue[i] * MILLISECS_PER_BLOCK + sinceBlock + LeftInRun(run[r]) <= EndOf(MaxQueue - i)

AheadInv == \A p \in Pallets : lock[p].ahead \in -Horizon .. LOCK_BLOCK_EXPIRATION

ClockInv == TypeInv /\ AgeInv /\ QueueInv /\ AheadInv

\* The constants, and the products of them that the proofs need.
LEMMA Numbers ==
  /\ MILLISECS_PER_BLOCK \in Nat /\ MILLISECS_PER_BLOCK >= 1
  /\ DEADLINE \in Nat /\ DEADLINE >= 1 /\ LOCK_TIMEOUT_EXPIRATION \in Nat
  /\ LOCK_BLOCK_EXPIRATION \in Nat /\ MaxCrashes \in Nat
  /\ MaxQueue \in Nat /\ MaxQueue >= 1
  /\ \A p \in Pallets : MaxJobs[p] \in Nat
  /\ Len(HookOrder) = 2 /\ HookOrder[1] = "circuits" /\ HookOrder[2] = "garble"
BY HooksAssumption DEF HookOrder

LEMMA SpanIs == Span = 4 * DEADLINE /\ Span \in Nat /\ Span >= 1
BY Numbers DEF Span

\* Where the ends of the runs of the queue are: a span apart.
LEMMA Ends ==
  ASSUME NEW n \in Nat
  PROVE  EndOf(n) \in Nat /\ Span <= EndOf(n) /\ EndOf(n + 1) = EndOf(n) + Span
<1>1. Span \in Nat
  BY SpanIs
<1>2. /\ Span * (n + 1) \in Nat /\ Span * (n + 1) = Span * n + Span
      /\ Span * n \in Nat /\ Span * (n + 1 + 1) = Span * (n + 1) + Span
  BY <1>1
<1>3. QED
  BY <1>1, <1>2 DEF EndOf

\* A run that starts by e has ended a span later.
LEMMA SumFits ==
  ASSUME NEW x \in Nat, NEW t \in Nat, NEW e \in Nat, NEW left \in 0 .. Span, x + t <= e
  PROVE  x + t + left <= e + Span
BY SpanIs

\* The run that is further back in the queue ends later.
LEMMA EndsGrow ==
  ASSUME NEW m \in Nat, NEW n \in Nat, m <= n
  PROVE  EndOf(m) <= EndOf(n)
<1>1. Span \in Nat
  BY SpanIs
<1>2. Span * (m + 1) <= Span * (n + 1)
  <2>1. PICK d \in Nat : n = m + d
    <3>1. n - m \in Nat /\ n = m + (n - m)
      OBVIOUS
    <3>2. QED
      BY <3>1
  <2>2. Span * (n + 1) = Span * (m + 1) + Span * d /\ Span * d \in Nat /\ Span * (m + 1) \in Nat
    BY <1>1, <2>1
  <2>3. QED
    BY <2>2
<1>3. QED
  BY <1>2 DEF EndOf

\* A block later, the run is as much older as blocks are apart.
LEMMA OneBlockLater ==
  ASSUME NEW a \in Nat
  PROVE  /\ (a + 1) * MILLISECS_PER_BLOCK = a * MILLISECS_PER_BLOCK + MILLISECS_PER_BLOCK
         /\ a * MILLISECS_PER_BLOCK \in Nat
BY Numbers

\* An age in blocks that fits a number of ticks.
LEMMA AgeFits ==
  ASSUME NEW a \in Nat, NEW x \in Nat, NEW y \in Nat, a * MILLISECS_PER_BLOCK <= x
  PROVE  a <= (x + y) \div MILLISECS_PER_BLOCK
<1> DEFINE M == MILLISECS_PER_BLOCK
           q == (x + y) \div M
<1>1. M \in Nat /\ M >= 1
  BY Numbers
<1>2. q \in Nat /\ x + y < (q + 1) * M
  BY <1>1
<1> HIDE DEF q, M
<1>3. a * M < (q + 1) * M
  BY <1>1, <1>2 DEF M
<1>4. ASSUME a >= q + 1 PROVE FALSE
  <2>1. a * M >= (q + 1) * M
    BY <1>1, <1>2, <1>4
  <2>2. QED
    BY <1>1, <1>2, <1>3, <2>1
<1>5. QED
  BY <1>2, <1>4 DEF q, M

LEMMA HorizonType ==
  /\ Horizon \in Nat /\ Horizon >= LOCK_BLOCK_EXPIRATION + 1
  /\ Horizon = LOCK_BLOCK_EXPIRATION + 1
                 + (EndOf(MaxQueue) + LOCK_TIMEOUT_EXPIRATION) \div MILLISECS_PER_BLOCK
  /\ (EndOf(MaxQueue) + LOCK_TIMEOUT_EXPIRATION) \div MILLISECS_PER_BLOCK \in Nat
<1>1. EndOf(MaxQueue) \in Nat
  BY Ends, Numbers
<1>2. (EndOf(MaxQueue) + LOCK_TIMEOUT_EXPIRATION) \div MILLISECS_PER_BLOCK \in Nat
  BY <1>1, Numbers
<1>3. Horizon = LOCK_BLOCK_EXPIRATION + 1
                 + (EndOf(MaxQueue) + LOCK_TIMEOUT_EXPIRATION) \div MILLISECS_PER_BLOCK
  BY DEF Horizon, EndOf
<1>4. QED
  BY <1>2, <1>3, Numbers

LEMMA HorizonIsNat == Horizon \in Nat
BY HorizonType

\* The fields of a run, the time it can still take, and the bound of its age.
LEMMA AgeBounds ==
  ASSUME NEW s \in RunState, NEW t \in Nat, AgeOK(s, t)
  PROVE  /\ s.age \in Nat /\ s.left \in 0 .. DEADLINE /\ s.hook \in {1, 2}
         /\ s.calls \in {0, 1, 2} /\ s.at \in {"idle", "entry", "calling"}
         /\ Elapsed(s, t) \in Nat /\ s.age * MILLISECS_PER_BLOCK \in Nat
         /\ LeftInRun(s) \in 0 .. Span
         /\ s.age * MILLISECS_PER_BLOCK <= EndOf(MaxQueue)
<1>1. /\ s.age \in Nat /\ s.left \in 0 .. DEADLINE /\ s.hook \in {1, 2}
      /\ s.calls \in {0, 1, 2} /\ s.at \in {"idle", "entry", "calling"}
  BY Numbers DEF RunState
<1>2. s.age * MILLISECS_PER_BLOCK \in Nat /\ Elapsed(s, t) \in Nat
      /\ s.age * MILLISECS_PER_BLOCK <= Elapsed(s, t)
  BY <1>1, OneBlockLater DEF Elapsed
<1>3. EndOf(MaxQueue) \in Nat
  BY Ends, Numbers
<1>4. LeftInRun(s) \in 0 .. Span
  <2>1. CASE s.at = "idle"
    BY <2>1, SpanIs DEF LeftInRun
  <2>2. CASE s.at = "entry"
    <3>1. LeftInRun(s) = 2 * (3 - s.hook) * DEADLINE
      BY <2>2 DEF LeftInRun
    <3>2. QED
      BY <3>1, <1>1, SpanIs, Numbers
  <2>3. CASE s.at = "calling"
    <3>1. /\ LeftInRun(s) = s.left + (s.calls - 1) * DEADLINE + 2 * (2 - s.hook) * DEADLINE
          /\ s.calls \in {1, 2}
      BY <2>3 DEF LeftInRun, LeftInHook, AgeOK
    <3>2. (s.calls - 1) * DEADLINE \in 0 .. DEADLINE
      BY <3>1, Numbers
    <3>3. 2 * (2 - s.hook) * DEADLINE \in 0 .. 2 * DEADLINE
      BY <1>1, Numbers
    <3>4. QED
      BY <3>1, <3>2, <3>3, <1>1, SpanIs, Numbers
  <2>4. QED
    BY <1>1, <2>1, <2>2, <2>3
<1>5. CASE s.at = "idle"
  <2>1. s.age = 0
    BY <1>5 DEF AgeOK, Idle
  <2>2. QED
    BY <1>1, <1>2, <1>3, <1>4, <2>1, Numbers
<1>6. CASE s.at # "idle"
  <2>1. Elapsed(s, t) + LeftInRun(s) <= EndOf(MaxQueue)
    BY <1>6 DEF AgeOK
  <2>2. LeftInRun(s) >= 0 /\ LeftInRun(s) \in Int
    BY <1>4, SpanIs
  <2>3. s.age * MILLISECS_PER_BLOCK <= EndOf(MaxQueue)
    BY <1>2, <1>3, <2>1, <2>2
  <2>4. QED
    BY <1>1, <1>2, <1>4, <2>3
<1>7. QED
  BY <1>5, <1>6

\* The states a run starts and ends in.
LEMMA RunEnds ==
  /\ Idle \in RunState /\ Idle.at = "idle" /\ LeftInRun(Idle) = 0 /\ \A t : AgeOK(Idle, t)
  /\ \A a \in Nat : /\ Started(a) \in RunState /\ Started(a).at = "entry"
                    /\ Started(a).age = a /\ LeftInRun(Started(a)) = Span
<1>1. 0 \in 0 .. DEADLINE
  BY Numbers
<1>2. Idle \in RunState
  BY <1>1 DEF Idle, RunState
<1>3. Idle.at = "idle" /\ LeftInRun(Idle) = 0 /\ \A t : AgeOK(Idle, t)
  BY DEF AgeOK, Idle, LeftInRun
<1>4. ASSUME NEW a \in Nat
      PROVE  /\ Started(a) \in RunState /\ Started(a).at = "entry"
             /\ Started(a).age = a /\ LeftInRun(Started(a)) = Span
  <2>1. /\ Started(a) \in RunState /\ Started(a).at = "entry" /\ Started(a).age = a
        /\ Started(a).hook = 1
    BY <1>1 DEF Started, Idle, RunState
  <2>2. LeftInRun(Started(a)) = 2 * (3 - Started(a).hook) * DEADLINE
    BY <2>1 DEF LeftInRun
  <2>3. 2 * (3 - Started(a).hook) * DEADLINE = Span
    BY <2>1, SpanIs, Numbers
  <2>4. QED
    BY <2>1, <2>2, <2>3
<1>5. QED
  BY <1>2, <1>3, <1>4

LEMMA ClockInit == Init => ClockInv
<1> SUFFICES ASSUME Init PROVE ClockInv
  OBVIOUS
<1>1. 0 \in -1 .. LOCK_TIMEOUT_EXPIRATION /\ 0 \in 0 .. MILLISECS_PER_BLOCK
      /\ (\A p \in Pallets : 0 \in 0 .. MaxJobs[p]) /\ 0 \in 0 .. MaxCrashes
      /\ 0 \in -Horizon .. LOCK_BLOCK_EXPIRATION
  BY Numbers, HorizonType
<1>2. NoLock \in LockEntry
  BY <1>1 DEF NoLock, LockEntry
<1>3. TypeInv
  BY <1>1, <1>2, RunEnds DEF Init, TypeInv
<1>4. AgeInv
  BY RunEnds DEF Init, AgeInv
<1>5. AheadInv
  BY <1>1 DEF Init, AheadInv, NoLock
<1>6. QueueInv
  BY Numbers DEF Init, QueueInv
<1>7. QED
  BY <1>3, <1>4, <1>5, <1>6 DEF ClockInv

\* A run that goes on, later or not, has less before it.
LEMMA GoesOn ==
  ASSUME NEW e \in RunState, NEW t \in Nat, AgeOK(e, t), e.at # "idle",
         NEW s \in RunState, NEW u \in Nat, s.at # "idle",
         s.at = "calling" => s.calls \in {1, 2},
         Elapsed(s, u) + LeftInRun(s) <= Elapsed(e, t) + LeftInRun(e)
  PROVE  AgeOK(s, u)
<1>1. Elapsed(e, t) + LeftInRun(e) <= EndOf(MaxQueue) /\ EndOf(MaxQueue) \in Nat
  BY Ends, Numbers DEF AgeOK
<1>2. Elapsed(e, t) \in Nat /\ LeftInRun(e) \in Int
  BY AgeBounds, SpanIs
<1>3. Elapsed(s, u) \in Nat
  BY OneBlockLater DEF Elapsed, RunState
<1>4. LeftInRun(s) \in Int
  BY Numbers DEF LeftInRun, LeftInHook, RunState
<1>5. Elapsed(s, u) + LeftInRun(s) <= EndOf(MaxQueue)
  BY <1>1, <1>2, <1>3, <1>4
<1>6. QED
  BY <1>5 DEF AgeOK

\* The hook after this one, or none: a run may go on to it when the hook is over.
LEMMA NextHookState ==
  ASSUME ClockInv, NEW r \in Runs,
         \/ run[r].at = "entry"
         \/ run[r].at = "calling" /\ run[r].calls = 1
  PROVE  /\ NextHook(r) \in RunState /\ AgeOK(NextHook(r), sinceBlock)
         /\ LeftInRun(NextHook(r)) <= LeftInRun(run[r])
         /\ NextHook(r).at # "calling"
<1> DEFINE s == run[r]
           n == [s EXCEPT !.at = "entry", !.hook = @ + 1, !.calls = 0, !.left = 0]
<1>1. s \in RunState /\ AgeOK(s, sinceBlock) /\ sinceBlock \in Nat
  BY Numbers DEF ClockInv, TypeInv, AgeInv
<1>2. /\ s.age \in Nat /\ s.left \in 0 .. DEADLINE /\ s.hook \in {1, 2}
      /\ Elapsed(s, sinceBlock) \in Nat /\ LeftInRun(s) \in 0 .. Span
  BY <1>1, AgeBounds
<1>3. CASE s.hook = 1
  <2>1. NextHook(r) = n
    BY <1>3, Numbers DEF NextHook
  <2>2. n.at = "entry" /\ n.hook = 2 /\ n.age = s.age /\ n \in RunState
    <3>1. 0 \in 0 .. DEADLINE /\ s.hook + 1 = 2
      BY <1>3, Numbers
    <3>2. n = [s EXCEPT !.at = "entry", !.hook = 2, !.calls = 0, !.left = 0]
      BY <3>1
    <3>3. QED
      BY <1>1, <3>1, <3>2 DEF RunState
  <2>3. Elapsed(n, sinceBlock) = Elapsed(s, sinceBlock)
    BY <2>2 DEF Elapsed
  <2> HIDE DEF n
  <2>4. LeftInRun(n) = 2 * DEADLINE
    BY <2>2, Numbers DEF LeftInRun
  <2>5. LeftInRun(s) >= 2 * DEADLINE
    <3>1. CASE s.at = "entry"
      BY <1>3, <3>1, Numbers DEF LeftInRun
    <3>2. CASE s.at = "calling" /\ s.calls = 1
      BY <1>2, <1>3, <3>2, Numbers DEF LeftInRun, LeftInHook
    <3>3. QED
      BY <3>1, <3>2
  <2>6. LeftInRun(n) <= LeftInRun(s)
    BY <1>2, <2>4, <2>5, SpanIs, Numbers
  <2>7. Elapsed(n, sinceBlock) + LeftInRun(n) <= Elapsed(s, sinceBlock) + LeftInRun(s)
    BY <1>2, <2>3, <2>4, <2>6, SpanIs, Numbers
  <2>8. AgeOK(n, sinceBlock)
    <3>1. s.at # "idle" /\ n.at # "idle" /\ n.at # "calling"
      BY <2>2
    <3>2. QED
      BY <1>1, <2>2, <2>7, <3>1, GoesOn
  <2>9. QED
    BY <2>1, <2>2, <2>6, <2>8
<1>4. CASE s.hook = 2
  <2>1. NextHook(r) = Idle
    BY <1>4, Numbers DEF NextHook
  <2>2. 0 <= LeftInRun(s)
    BY <1>2, SpanIs
  <2>3. QED
    BY <2>1, <2>2, RunEnds
<1>5. QED
  BY <1>2, <1>3, <1>4

\* A step of one run that keeps to its time.
LEMMA OneRunMoves ==
  ASSUME ClockInv, NEW r \in Runs, NEW s \in RunState, AgeOK(s, sinceBlock),
         LeftInRun(s) <= LeftInRun(run[r]),
         run' = [run EXCEPT ![r] = s], sinceBlock' = sinceBlock, queue' = queue
  PROVE  run' \in [Runs -> RunState] /\ queue' \in Seq(Nat) /\ AgeInv' /\ QueueInv'
<1>1. run \in [Runs -> RunState] /\ queue \in Seq(Nat)
  BY DEF ClockInv, TypeInv
<1>2. run' \in [Runs -> RunState]
  BY <1>1
<1>3. \A q \in Runs : run'[q] = IF q = r THEN s ELSE run[q]
  BY <1>1
<1>4. ASSUME NEW q \in Runs PROVE AgeOK(run'[q], sinceBlock')
  BY <1>3 DEF ClockInv, AgeInv
<1>5. ASSUME NEW i \in 1 .. Len(queue), NEW q \in Runs
      PROVE  queue[i] * MILLISECS_PER_BLOCK + sinceBlock + LeftInRun(run'[q])
                 <= EndOf(MaxQueue - i)
  <2>1. queue[i] * MILLISECS_PER_BLOCK + sinceBlock + LeftInRun(run[q]) <= EndOf(MaxQueue - i)
    BY DEF ClockInv, QueueInv
  <2>2. LeftInRun(run'[q]) <= LeftInRun(run[q])
    <3>1. LeftInRun(run[q]) \in 0 .. Span
      BY <1>1, AgeBounds, Numbers DEF ClockInv, AgeInv, TypeInv
    <3>2. LeftInRun(run[q]) <= LeftInRun(run[q])
      BY <3>1, SpanIs
    <3>3. QED
      BY <1>3, <3>2
  <2>3. /\ LeftInRun(run[q]) \in Int /\ LeftInRun(run'[q]) \in Int
        /\ queue[i] * MILLISECS_PER_BLOCK + sinceBlock \in Nat
    <3>1. /\ run[q] \in RunState /\ AgeOK(run[q], sinceBlock) /\ sinceBlock \in Nat
      BY Numbers DEF ClockInv, TypeInv, AgeInv
    <3>2. run'[q] \in RunState /\ AgeOK(run'[q], sinceBlock)
      BY <1>2, <1>4
    <3>3. queue[i] * MILLISECS_PER_BLOCK \in Nat
      <4>1. queue[i] \in Nat
        BY <1>1
      <4>2. QED
        BY <4>1, OneBlockLater
    <3>4. QED
      BY <3>1, <3>2, <3>3, AgeBounds, SpanIs
  <2>4. MaxQueue - i \in Nat
    BY Numbers DEF ClockInv, QueueInv
  <2>5. EndOf(MaxQueue - i) \in Nat
    BY <2>4, Ends
  <2>6. QED
    BY <2>1, <2>2, <2>3, <2>5
<1>6. QED
  BY <1>1, <1>2, <1>4, <1>5 DEF ClockInv, AgeInv, QueueInv

\* The run in the first of its calls, and in the second.
Taken(r, calls) == [run[r] EXCEPT !.at = "calling", !.calls = calls, !.left = DEADLINE]
Again(r) == [run[r] EXCEPT !.calls = 1, !.left = DEADLINE]

\* The hook takes the job: two calls from its start.
LEMMA TakenState ==
  ASSUME ClockInv, NEW r \in Runs, run[r].at = "entry", NEW calls \in 1 .. 2
  PROVE  LET s == Taken(r, calls) IN
         /\ s \in RunState /\ AgeOK(s, sinceBlock) /\ LeftInRun(s) <= LeftInRun(run[r])
         /\ s.at = "calling" /\ s.hook = run[r].hook /\ s.age = run[r].age
         /\ s.calls = calls /\ s.left = DEADLINE /\ LeftInHook(s) \in 0 .. 2 * DEADLINE
<1> DEFINE e == run[r]
           s == Taken(r, calls)
<1>1. e \in RunState /\ AgeOK(e, sinceBlock) /\ sinceBlock \in Nat
  BY Numbers DEF ClockInv, TypeInv, AgeInv
<1>2. e.hook \in {1, 2} /\ Elapsed(e, sinceBlock) \in Nat
  BY <1>1, AgeBounds
<1>3. DEADLINE \in 0 .. DEADLINE /\ calls \in {1, 2}
  BY Numbers
<1>4. /\ s \in RunState /\ s.at = "calling" /\ s.hook = e.hook /\ s.age = e.age
      /\ s.calls = calls /\ s.left = DEADLINE
  BY <1>1, <1>3 DEF RunState, Taken
<1>5. Elapsed(s, sinceBlock) = Elapsed(e, sinceBlock)
  BY <1>4 DEF Elapsed
<1> HIDE DEF s
<1>6. LeftInHook(s) \in 0 .. 2 * DEADLINE
  BY <1>3, <1>4, Numbers DEF LeftInHook
<1>7. LeftInRun(s) = LeftInHook(s) + 2 * (2 - e.hook) * DEADLINE
      /\ LeftInRun(e) = 2 * (3 - e.hook) * DEADLINE
  BY <1>4 DEF LeftInRun
<1>8. LeftInRun(s) <= LeftInRun(e) /\ LeftInRun(s) \in Int /\ LeftInRun(e) \in Int
  BY <1>2, <1>6, <1>7, Numbers
<1>9. AgeOK(s, sinceBlock)
  <2>1. Elapsed(s, sinceBlock) + LeftInRun(s) <= Elapsed(e, sinceBlock) + LeftInRun(e)
    BY <1>2, <1>5, <1>8
  <2>2. e.at # "idle" /\ s.at # "idle"
    BY <1>4
  <2>3. QED
    BY <1>1, <1>3, <1>4, <2>1, <2>2, GoesOn
<1>10. QED
  BY <1>4, <1>6, <1>8, <1>9 DEF s

\* The second call is made when the first has ended.
LEMMA CallingAgain ==
  ASSUME ClockInv, NEW r \in Runs, run[r].at = "calling", run[r].calls = 2
  PROVE  LET s == Again(r) IN
         /\ s \in RunState /\ AgeOK(s, sinceBlock) /\ LeftInRun(s) <= LeftInRun(run[r])
         /\ s.at = "calling" /\ s.hook = run[r].hook /\ s.age = run[r].age
         /\ s.calls = 1 /\ s.left = DEADLINE
         /\ LeftInHook(s) <= LeftInHook(run[r]) /\ LeftInHook(s) \in Nat
         /\ LeftInHook(run[r]) \in Nat
<1> DEFINE e == run[r]
           s == Again(r)
<1>1. e \in RunState /\ AgeOK(e, sinceBlock) /\ sinceBlock \in Nat
  BY Numbers DEF ClockInv, TypeInv, AgeInv
<1>2. /\ e.hook \in {1, 2} /\ Elapsed(e, sinceBlock) \in Nat
      /\ e.left \in 0 .. DEADLINE
  BY <1>1, AgeBounds
<1>3. DEADLINE \in 0 .. DEADLINE
  BY Numbers
<1>4. /\ s \in RunState /\ s.at = "calling" /\ s.hook = e.hook /\ s.age = e.age
      /\ s.calls = 1 /\ s.left = DEADLINE
  BY <1>1, <1>3 DEF RunState, Again
<1>5. Elapsed(s, sinceBlock) = Elapsed(e, sinceBlock)
  BY <1>4 DEF Elapsed
<1> HIDE DEF s
<1>6. LeftInHook(s) <= LeftInHook(e) /\ LeftInHook(s) \in Nat /\ LeftInHook(e) \in Nat
  BY <1>2, <1>4, Numbers DEF LeftInHook
<1>7. LeftInRun(s) = LeftInHook(s) + 2 * (2 - e.hook) * DEADLINE
      /\ LeftInRun(e) = LeftInHook(e) + 2 * (2 - e.hook) * DEADLINE
  BY <1>4 DEF LeftInRun
<1>8. LeftInRun(s) <= LeftInRun(e) /\ LeftInRun(s) \in Int /\ LeftInRun(e) \in Int
  BY <1>2, <1>6, <1>7, Numbers
<1>9. AgeOK(s, sinceBlock)
  <2>1. Elapsed(s, sinceBlock) + LeftInRun(s) <= Elapsed(e, sinceBlock) + LeftInRun(e)
    BY <1>2, <1>5, <1>8
  <2>2. e.at # "idle" /\ s.at # "idle" /\ s.calls \in {1, 2}
    BY <1>4
  <2>3. QED
    BY <1>1, <1>4, <2>1, <2>2, GoesOn
<1>10. QED
  BY <1>4, <1>6, <1>8, <1>9 DEF s

\* A run in a call, a tick later, and in the next block.
Ticked(e) == [e EXCEPT !.left = @ - 1]
InNextBlock(e) == [e EXCEPT !.age = @ + 1]

\* A tick in a call.
LEMMA TickedState ==
  ASSUME NEW e \in RunState, NEW t \in Nat, AgeOK(e, t), e.at = "calling", e.left > 0
  PROVE  LET s == Ticked(e) IN
         /\ s \in RunState /\ AgeOK(s, t + 1)
         /\ s.at = "calling" /\ s.hook = e.hook /\ s.age = e.age
         /\ s.calls = e.calls /\ s.left = e.left - 1
         /\ Elapsed(s, t + 1) = Elapsed(e, t) + 1
         /\ LeftInHook(s) = LeftInHook(e) - 1 /\ LeftInHook(e) \in Int
         /\ LeftInRun(s) = LeftInRun(e) - 1
<1> DEFINE s == Ticked(e)
<1>1. /\ e.age \in Nat /\ e.left \in 0 .. DEADLINE /\ e.hook \in {1, 2} /\ e.calls \in {0, 1, 2}
      /\ Elapsed(e, t) \in Nat /\ e.age * MILLISECS_PER_BLOCK \in Nat
      /\ LeftInRun(e) \in 0 .. Span
  BY AgeBounds
<1>2. e.left - 1 \in 0 .. DEADLINE
  BY <1>1, Numbers
<1>3. /\ s \in RunState /\ s.at = "calling" /\ s.hook = e.hook /\ s.age = e.age
      /\ s.calls = e.calls /\ s.left = e.left - 1
  BY <1>2 DEF RunState, Ticked
<1> HIDE DEF s
<1>4. Elapsed(s, t + 1) = Elapsed(e, t) + 1
  BY <1>1, <1>3 DEF Elapsed
<1>5. LeftInHook(s) = LeftInHook(e) - 1 /\ LeftInHook(e) \in Int
  BY <1>1, <1>3, Numbers DEF LeftInHook
<1>6. LeftInRun(s) = LeftInHook(s) + 2 * (2 - e.hook) * DEADLINE
      /\ LeftInRun(e) = LeftInHook(e) + 2 * (2 - e.hook) * DEADLINE
  BY <1>3 DEF LeftInRun
<1>7. LeftInRun(s) = LeftInRun(e) - 1
  BY <1>1, <1>5, <1>6, Numbers
<1>8. AgeOK(s, t + 1)
  <2>1. Elapsed(s, t + 1) + LeftInRun(s) <= Elapsed(e, t) + LeftInRun(e)
    BY <1>1, <1>4, <1>7, SpanIs
  <2>2. e.at # "idle" /\ s.at # "idle" /\ s.calls \in {1, 2} /\ t + 1 \in Nat
    BY <1>3 DEF AgeOK
  <2>3. QED
    BY <1>3, <2>1, <2>2, GoesOn
<1>9. QED
  BY <1>3, <1>4, <1>5, <1>7, <1>8 DEF s

\* A block comes during a call: the time since the run's block is what it was.
LEMMA AgedState ==
  ASSUME NEW e \in RunState, AgeOK(e, MILLISECS_PER_BLOCK), e.at = "calling"
  PROVE  LET s == InNextBlock(e) IN
         /\ s \in RunState /\ AgeOK(s, 0)
         /\ s.at = "calling" /\ s.hook = e.hook /\ s.age = e.age + 1
         /\ s.calls = e.calls /\ s.left = e.left
         /\ Elapsed(s, 0) = Elapsed(e, MILLISECS_PER_BLOCK)
         /\ LeftInHook(s) = LeftInHook(e) /\ LeftInRun(s) = LeftInRun(e)
<1> DEFINE s == InNextBlock(e)
<1>1. /\ e.age \in Nat /\ Elapsed(e, MILLISECS_PER_BLOCK) \in Nat
      /\ LeftInRun(e) \in 0 .. Span
  BY AgeBounds, Numbers
<1>2. e.age + 1 \in Nat
  BY <1>1
<1>3. /\ s \in RunState /\ s.at = "calling" /\ s.hook = e.hook /\ s.age = e.age + 1
      /\ s.calls = e.calls /\ s.left = e.left
  BY <1>2 DEF RunState, InNextBlock
<1> HIDE DEF s
<1>4. Elapsed(s, 0) = Elapsed(e, MILLISECS_PER_BLOCK)
  BY <1>1, <1>3, OneBlockLater, Numbers DEF Elapsed
<1>5. LeftInHook(s) = LeftInHook(e) /\ LeftInRun(s) = LeftInRun(e)
  BY <1>3 DEF LeftInHook, LeftInRun
<1>6. AgeOK(s, 0)
  <2>1. Elapsed(s, 0) + LeftInRun(s) <= Elapsed(e, MILLISECS_PER_BLOCK) + LeftInRun(e)
    BY <1>1, <1>4, <1>5, SpanIs
  <2>2. e.at # "idle" /\ s.at # "idle" /\ s.calls \in {1, 2} /\ 0 \in Nat
    BY <1>3 DEF AgeOK
  <2>3. QED
    BY <1>3, <2>1, <2>2, GoesOn, Numbers
<1>7. QED
  BY <1>3, <1>4, <1>5, <1>6 DEF s

\* What Lower returns when it has room to count down.
LEMMA LowerBounds ==
  ASSUME NEW n \in Int, NEW floor \in Int, n >= floor
  PROVE  /\ Lower(n, floor) \in Int /\ Lower(n, floor) >= floor /\ Lower(n, floor) <= n
         /\ n > floor => Lower(n, floor) = n - 1
BY DEF Lower

\* A free thread takes the oldest run: the others move up.
LEMMA ClockStart ==
  ASSUME ClockInv, NEW r \in Runs, StartRun(r)
  PROVE  ClockInv'
<1> DEFINE s == Started(Head(queue))
<1>1. /\ run[r].at = "idle" /\ queue # <<>> /\ queue' = Tail(queue)
      /\ run' = [run EXCEPT ![r] = s]
      /\ UNCHANGED <<sinceBlock, job, lock, nJobs, late, crashes>>
  BY DEF StartRun
<1>2. /\ run \in [Runs -> RunState] /\ queue \in Seq(Nat) /\ sinceBlock \in Nat
      /\ LeftInRun(run[r]) = 0
  BY <1>1, Numbers DEF ClockInv, TypeInv, LeftInRun
<1>3. /\ Len(queue) >= 1 /\ Head(queue) = queue[1] /\ Head(queue) \in Nat
      /\ Tail(queue) \in Seq(Nat) /\ Len(Tail(queue)) = Len(queue) - 1
      /\ \A i \in 1 .. Len(queue) - 1 : Tail(queue)[i] = queue[i + 1]
  BY <1>1, <1>2
<1>4. s \in RunState /\ s.at = "entry" /\ s.age = Head(queue) /\ LeftInRun(s) = Span
  BY <1>3, RunEnds
<1>5. Len(queue) <= MaxQueue
  BY DEF ClockInv, QueueInv
<1>6. ASSUME NEW i \in 1 .. Len(queue)
      PROVE  /\ MaxQueue - i \in Nat /\ queue[i] * MILLISECS_PER_BLOCK \in Nat
             /\ queue[i] * MILLISECS_PER_BLOCK + sinceBlock <= EndOf(MaxQueue - i)
             /\ EndOf(MaxQueue - i + 1) = EndOf(MaxQueue - i) + Span
             /\ EndOf(MaxQueue - i) \in Nat
  <2>1. MaxQueue - i \in Nat /\ queue[i] \in Nat
    BY <1>2, <1>3, <1>5, Numbers
  <2>2. queue[i] * MILLISECS_PER_BLOCK \in Nat
    BY <2>1, OneBlockLater
  <2>3. queue[i] * MILLISECS_PER_BLOCK + sinceBlock + LeftInRun(run[r]) <= EndOf(MaxQueue - i)
    BY DEF ClockInv, QueueInv
  <2>4. EndOf(MaxQueue - i + 1) = EndOf(MaxQueue - i) + Span /\ EndOf(MaxQueue - i) \in Nat
    BY <2>1, Ends
  <2>5. queue[i] * MILLISECS_PER_BLOCK + sinceBlock <= EndOf(MaxQueue - i)
    BY <1>2, <2>2, <2>3
  <2>6. QED
    BY <2>1, <2>2, <2>4, <2>5
<1> HIDE DEF s
<1>7. AgeOK(s, sinceBlock)
  <2>1. 1 \in 1 .. Len(queue)
    BY <1>3
  <2>2. /\ queue[1] * MILLISECS_PER_BLOCK \in Nat
        /\ queue[1] * MILLISECS_PER_BLOCK + sinceBlock <= EndOf(MaxQueue - 1)
        /\ EndOf(MaxQueue - 1 + 1) = EndOf(MaxQueue - 1) + Span
        /\ EndOf(MaxQueue - 1) \in Nat
    BY <1>6, <2>1
  <2>3. EndOf(MaxQueue) = EndOf(MaxQueue - 1) + Span
    <3>1. MaxQueue - 1 + 1 = MaxQueue
      BY Numbers
    <3>2. QED
      BY <2>2, <3>1
  <2>4. Elapsed(s, sinceBlock) + LeftInRun(s) <= EndOf(MaxQueue)
    BY <1>2, <1>3, <1>4, <2>2, <2>3, SpanIs DEF Elapsed
  <2>5. QED
    BY <1>4, <2>4 DEF AgeOK
<1>8. \A q \in Runs : run'[q] = IF q = r THEN s ELSE run[q]
  BY <1>1, <1>2
<1>9. run' \in [Runs -> RunState] /\ AgeInv'
  <2>1. run' \in [Runs -> RunState]
    BY <1>1, <1>2, <1>4
  <2>2. \A q \in Runs : AgeOK(run'[q], sinceBlock)
    BY <1>7, <1>8 DEF ClockInv, AgeInv
  <2>3. QED
    BY <1>1, <2>1, <2>2 DEF AgeInv
<1>10. ASSUME NEW i \in 1 .. Len(Tail(queue)), NEW q \in Runs
       PROVE  Tail(queue)[i] * MILLISECS_PER_BLOCK + sinceBlock + LeftInRun(run'[q])
                  <= EndOf(MaxQueue - i)
  <2>1. i + 1 \in 1 .. Len(queue) /\ i \in 1 .. Len(queue) - 1 /\ i \in Nat
    BY <1>3, <1>2
  <2>2. Tail(queue)[i] = queue[i + 1]
    BY <1>3, <2>1
  <2>3. /\ queue[i + 1] * MILLISECS_PER_BLOCK \in Nat
        /\ queue[i + 1] * MILLISECS_PER_BLOCK + sinceBlock <= EndOf(MaxQueue - (i + 1))
        /\ EndOf(MaxQueue - (i + 1) + 1) = EndOf(MaxQueue - (i + 1)) + Span
        /\ EndOf(MaxQueue - (i + 1)) \in Nat
    BY <1>6, <2>1
  <2>4. MaxQueue - (i + 1) + 1 = MaxQueue - i
    BY <2>1, Numbers
  <2>5. EndOf(MaxQueue - i) = EndOf(MaxQueue - (i + 1)) + Span
    BY <2>3, <2>4
  <2>6. LeftInRun(run'[q]) \in 0 .. Span
    <3>1. run'[q] \in RunState /\ AgeOK(run'[q], sinceBlock)
      BY <1>1, <1>9 DEF AgeInv
    <3>2. QED
      BY <1>2, <3>1, AgeBounds
  <2>7. QED
    BY <1>2, <2>2, <2>3, <2>5, <2>6, SumFits
<1>11. QueueInv'
  <2>1. Len(Tail(queue)) <= MaxQueue
    BY <1>3, <1>5, <1>2, Numbers
  <2>2. QED
    BY <1>1, <1>10, <2>1 DEF QueueInv
<1>12. TypeInv'
  BY <1>1, <1>3, <1>9 DEF ClockInv, TypeInv
<1>13. AheadInv'
  BY <1>1 DEF ClockInv, AheadInv, Horizon, Span, HookOrder
<1>14. QED
  BY <1>9, <1>11, <1>12, <1>13 DEF ClockInv

LEMMA ClockTick == ClockInv /\ Tick => ClockInv'
<1> SUFFICES ASSUME ClockInv, Tick PROVE ClockInv'
  OBVIOUS
<1>1. /\ sinceBlock \in Nat /\ sinceBlock' = sinceBlock + 1
      /\ sinceBlock' \in 0 .. MILLISECS_PER_BLOCK
  BY Numbers DEF ClockInv, TypeInv, Tick
<1>2. ASSUME NEW r \in Runs
      PROVE  /\ run'[r] \in RunState /\ AgeOK(run'[r], sinceBlock')
             /\ run[r].at # "idle" => LeftInRun(run'[r]) = LeftInRun(run[r]) - 1
  <2>1. run[r] \in RunState /\ AgeOK(run[r], sinceBlock)
    BY DEF ClockInv, TypeInv, AgeInv
  <2>2. CASE run[r].at = "idle"
    <3>1. run'[r] = run[r] /\ run[r] = Idle
      BY <2>1, <2>2 DEF Tick, AgeOK
    <3>2. QED
      BY <2>2, <3>1, RunEnds
  <2>3. CASE run[r].at # "idle"
    <3>1. run[r].at = "calling" /\ run[r].left > 0 /\ run'[r] = Ticked(run[r])
      BY <2>3 DEF Tick, Ticked
    <3>2. QED
      BY <1>1, <2>1, <3>1, TickedState
  <2>4. QED
    BY <2>2, <2>3
<1>3. run' \in [Runs -> RunState] /\ AgeInv'
  <2>1. run' = [r \in Runs |-> run'[r]]
    BY DEF Tick
  <2>2. QED
    BY <1>2, <2>1 DEF AgeInv
<1>4. ASSUME NEW p \in Pallets
      PROVE  lock'[p] \in LockEntry /\ lock'[p].ahead = lock[p].ahead
  <2>1. /\ lock[p] \in LockEntry
        /\ lock'[p] = IF lock[p].held THEN [lock[p] EXCEPT !.ticks = Lower(@, -1)] ELSE lock[p]
    BY DEF ClockInv, TypeInv, Tick
  <2>2. lock[p].ticks \in -1 .. LOCK_TIMEOUT_EXPIRATION
    BY <2>1 DEF LockEntry
  <2>3. Lower(lock[p].ticks, -1) \in -1 .. LOCK_TIMEOUT_EXPIRATION
    BY <2>2, Numbers DEF Lower
  <2>4. CASE lock[p].held
    <3>1. lock'[p] = [lock[p] EXCEPT !.ticks = Lower(lock[p].ticks, -1)]
      BY <2>1, <2>4
    <3>2. QED
      BY <2>1, <2>3, <3>1 DEF LockEntry
  <2>5. CASE ~lock[p].held
    BY <2>1, <2>5
  <2>6. QED
    BY <2>4, <2>5
<1>5. lock' \in [Pallets -> LockEntry] /\ AheadInv'
  <2>1. lock' = [p \in Pallets |-> lock'[p]]
    BY DEF Tick
  <2>2. lock' \in [Pallets -> LockEntry]
    BY <1>4, <2>1
  <2>3. Horizon' = Horizon
    BY DEF Horizon, Span, HookOrder
  <2>4. QED
    BY <1>4, <2>2, <2>3 DEF ClockInv, AheadInv
<1>6. TypeInv'
  BY <1>1, <1>3, <1>5 DEF ClockInv, TypeInv, Tick
<1>7. QueueInv'
  <2>1. queue' = queue /\ queue \in Seq(Nat) /\ Len(queue) <= MaxQueue
    BY DEF ClockInv, TypeInv, QueueInv, Tick
  <2>2. ASSUME NEW i \in 1 .. Len(queue), NEW r \in Runs
        PROVE  queue[i] * MILLISECS_PER_BLOCK + sinceBlock' + LeftInRun(run'[r])
                   <= EndOf(MaxQueue - i)
    <3>1. queue # <<>>
      BY <2>1, <2>2
    <3>2. run[r].at # "idle"
      BY <3>1 DEF Tick, PoolBusy
    <3>3. LeftInRun(run'[r]) = LeftInRun(run[r]) - 1
      BY <1>2, <3>2
    <3>4. queue[i] * MILLISECS_PER_BLOCK + sinceBlock + LeftInRun(run[r]) <= EndOf(MaxQueue - i)
      BY DEF ClockInv, QueueInv
    <3>5. queue[i] * MILLISECS_PER_BLOCK \in Nat
      <4>1. queue[i] \in Nat
        BY <2>1
      <4>2. QED
        BY <4>1, OneBlockLater
    <3>6. LeftInRun(run[r]) \in 0 .. Span
      <4>1. run[r] \in RunState /\ AgeOK(run[r], sinceBlock)
        BY DEF ClockInv, TypeInv, AgeInv
      <4>2. QED
        BY <1>1, <4>1, AgeBounds
    <3>7. QED
      BY <1>1, <3>3, <3>4, <3>5, <3>6, SpanIs
  <2>3. QED
    BY <2>1, <2>2 DEF QueueInv
<1>8. QED
  BY <1>3, <1>5, <1>6, <1>7 DEF ClockInv

\* The queue of a block later, with or without the run of the block.
LEMMA ClockQueue ==
  ASSUME ClockInv, NEW P \in SUBSET Pallets, ImportBlock(P),
         \A r \in Runs : LeftInRun(run'[r]) = LeftInRun(run[r]),
         \/ queue' = Aged
         \/ Len(queue) < MaxQueue /\ queue' = Append(Aged, 0)
  PROVE  queue' \in Seq(Nat) /\ QueueInv'
<1> DEFINE n == Len(queue)
<1>1. /\ queue \in Seq(Nat) /\ n \in Nat /\ n <= MaxQueue
      /\ sinceBlock = MILLISECS_PER_BLOCK /\ sinceBlock' = 0
  BY DEF ClockInv, TypeInv, QueueInv, ImportBlock
<1>2. Aged \in Seq(Nat) /\ Len(Aged) = n /\ \A i \in 1 .. n : Aged[i] = queue[i] + 1
  <2>1. DOMAIN queue = 1 .. n /\ \A i \in 1 .. n : queue[i] + 1 \in Nat
    BY <1>1
  <2>2. Aged = [i \in 1 .. n |-> queue[i] + 1]
    BY <2>1 DEF Aged
  <2>3. Aged \in [1 .. n -> Nat] /\ \A i \in 1 .. n : Aged[i] = queue[i] + 1
    BY <2>1, <2>2
  <2>4. Aged \in Seq(Nat) /\ Len(Aged) = n
    BY <1>1, <2>1, <2>2
  <2>5. QED
    BY <2>3, <2>4
<1>3. /\ queue' \in Seq(Nat) /\ Len(queue') <= MaxQueue
      /\ \A i \in 1 .. n : queue'[i] = queue[i] + 1
      /\ \A i \in 1 .. Len(queue') : i <= n \/ (i = n + 1 /\ n + 1 <= MaxQueue /\ queue'[i] = 0)
  <2>1. CASE queue' = Aged
    BY <1>1, <1>2, <2>1
  <2>2. CASE n < MaxQueue /\ queue' = Append(Aged, 0)
    BY <1>1, <1>2, <2>2, Numbers
  <2>3. QED
    BY <2>1, <2>2
<1> HIDE DEF n
<1>4. ASSUME NEW i \in 1 .. Len(queue'), NEW r \in Runs
      PROVE  queue'[i] * MILLISECS_PER_BLOCK + sinceBlock' + LeftInRun(run'[r])
                 <= EndOf(MaxQueue - i)
  <2>1. LeftInRun(run'[r]) = LeftInRun(run[r]) /\ LeftInRun(run[r]) \in 0 .. Span
    <3>1. run[r] \in RunState /\ AgeOK(run[r], sinceBlock) /\ sinceBlock \in Nat
      BY Numbers DEF ClockInv, TypeInv, AgeInv
    <3>2. QED
      BY <3>1, AgeBounds
  <2>2. CASE i <= n
    <3>1. i \in 1 .. n /\ queue[i] \in Nat
      BY <1>1, <1>3, <2>2 DEF n
    <3>2. queue[i] * MILLISECS_PER_BLOCK + sinceBlock + LeftInRun(run[r]) <= EndOf(MaxQueue - i)
      BY <3>1 DEF ClockInv, QueueInv, n
    <3>3. queue'[i] * MILLISECS_PER_BLOCK = queue[i] * MILLISECS_PER_BLOCK + MILLISECS_PER_BLOCK
          /\ queue[i] * MILLISECS_PER_BLOCK \in Nat
      BY <1>3, <3>1, OneBlockLater
    <3>4. MaxQueue - i \in Nat
      BY <1>1, <2>2, Numbers DEF n
    <3>5. EndOf(MaxQueue - i) \in Nat
      BY <3>4, Ends
    <3>6. queue'[i] * MILLISECS_PER_BLOCK + 0 + LeftInRun(run'[r]) <= EndOf(MaxQueue - i)
      <4> DEFINE x == queue[i] * MILLISECS_PER_BLOCK
                 y == LeftInRun(run[r])
      <4>1. x \in Nat /\ y \in Int /\ x + MILLISECS_PER_BLOCK + y <= EndOf(MaxQueue - i)
        BY <1>1, <2>1, <3>2, <3>3, SpanIs
      <4>2. queue'[i] * MILLISECS_PER_BLOCK = x + MILLISECS_PER_BLOCK /\ LeftInRun(run'[r]) = y
        BY <2>1, <3>3
      <4> HIDE DEF x, y
      <4>3. (x + MILLISECS_PER_BLOCK) + 0 + y <= EndOf(MaxQueue - i)
        BY <3>5, <4>1, Numbers
      <4>4. QED
        BY <4>2, <4>3
    <3>7. QED
      BY <1>1, <3>6
  <2>3. CASE i = n + 1 /\ n + 1 <= MaxQueue /\ queue'[i] = 0
    <3>1. MaxQueue - i \in Nat
      BY <1>1, <2>3, Numbers
    <3>2. Span <= EndOf(MaxQueue - i) /\ EndOf(MaxQueue - i) \in Nat
      BY <3>1, Ends
    <3>3. queue'[i] * MILLISECS_PER_BLOCK = 0
      BY <2>3, Numbers
    <3>4. QED
      BY <1>1, <2>1, <3>2, <3>3, SpanIs
  <2>4. QED
    BY <1>3, <2>2, <2>3
<1>5. QED
  BY <1>3, <1>4 DEF QueueInv

LEMMA ClockImport ==
  ASSUME ClockInv, NEW P \in SUBSET Pallets, ImportBlock(P),
         \/ queue' = Aged
         \/ Len(queue) < MaxQueue /\ queue' = Append(Aged, 0)
  PROVE  ClockInv'
<1>1. /\ sinceBlock = MILLISECS_PER_BLOCK /\ sinceBlock' = 0
      /\ sinceBlock' \in 0 .. MILLISECS_PER_BLOCK
  BY Numbers DEF ClockInv, TypeInv, ImportBlock
<1>2. ASSUME NEW r \in Runs
      PROVE  /\ run'[r] \in RunState /\ AgeOK(run'[r], sinceBlock')
             /\ LeftInRun(run'[r]) = LeftInRun(run[r])
  <2>1. /\ run[r] \in RunState /\ AgeOK(run[r], sinceBlock) /\ run[r].at # "entry"
        /\ run'[r] = IF run[r].at = "idle" THEN run[r] ELSE [run[r] EXCEPT !.age = @ + 1]
    BY DEF ClockInv, TypeInv, AgeInv, ImportBlock
  <2>2. CASE run[r].at = "idle"
    <3>1. run'[r] = Idle /\ run[r] = Idle
      BY <2>1, <2>2 DEF AgeOK
    <3>2. QED
      BY <3>1, RunEnds
  <2>3. CASE run[r].at # "idle"
    <3>1. run[r].at = "calling"
      BY <2>1, <2>3 DEF RunState
    <3>2. run'[r] = InNextBlock(run[r])
      BY <2>1, <2>3 DEF InNextBlock
    <3>3. QED
      BY <1>1, <2>1, <3>1, <3>2, AgedState
  <2>4. QED
    BY <2>2, <2>3
<1>3. run' \in [Runs -> RunState] /\ AgeInv'
  <2>1. run' = [r \in Runs |-> run'[r]]
    BY DEF ImportBlock
  <2>2. QED
    BY <1>2, <2>1 DEF AgeInv
<1>4. ASSUME NEW p \in Pallets
      PROVE  lock'[p] \in LockEntry /\ lock'[p].ahead \in -Horizon .. LOCK_BLOCK_EXPIRATION
  <2>1. /\ lock[p] \in LockEntry /\ lock[p].ahead \in -Horizon .. LOCK_BLOCK_EXPIRATION
        /\ lock'[p] = IF lock[p].held THEN [lock[p] EXCEPT !.ahead = Further(p)]
                      ELSE lock[p]
    BY DEF ClockInv, TypeInv, AheadInv, ImportBlock
  <2>2. Lower(lock[p].ahead, -Horizon) \in -Horizon .. LOCK_BLOCK_EXPIRATION
    <3>1. /\ lock[p].ahead \in Int /\ -Horizon \in Int
          /\ lock[p].ahead >= -Horizon /\ lock[p].ahead <= LOCK_BLOCK_EXPIRATION
      BY <2>1, HorizonIsNat, Numbers
    <3>2. /\ Lower(lock[p].ahead, -Horizon) \in Int
          /\ Lower(lock[p].ahead, -Horizon) >= -Horizon
          /\ Lower(lock[p].ahead, -Horizon) <= lock[p].ahead
      BY <3>1, LowerBounds
    <3>3. QED
      BY <3>1, <3>2, Numbers
  <2>3. Further(p) \in -Horizon .. LOCK_BLOCK_EXPIRATION
    BY <2>2, HorizonIsNat, Numbers DEF Further
  <2>4. Further(p) \in Int
    BY <2>3, HorizonIsNat, Numbers
  <2>5. QED
    BY <2>1, <2>3, <2>4 DEF LockEntry
<1>5. lock' \in [Pallets -> LockEntry] /\ AheadInv'
  <2>1. lock' = [p \in Pallets |-> lock'[p]]
    BY DEF ImportBlock
  <2>2. lock' \in [Pallets -> LockEntry]
    BY <1>4, <2>1
  <2>3. Horizon' = Horizon
    BY DEF Horizon, Span, HookOrder
  <2>4. QED
    BY <1>4, <2>2, <2>3 DEF AheadInv
<1>6. (\A p \in Pallets : nJobs'[p] \in 0 .. MaxJobs[p]) /\ job' \in [Pallets -> BOOLEAN]
  <2>1. ASSUME NEW p \in Pallets
        PROVE  (IF p \in P THEN nJobs[p] + 1 ELSE nJobs[p]) \in 0 .. MaxJobs[p]
    <3>1. nJobs[p] \in 0 .. MaxJobs[p] /\ MaxJobs[p] \in Nat
      BY Numbers DEF ClockInv, TypeInv
    <3>2. p \in P => nJobs[p] < MaxJobs[p]
      BY DEF ImportBlock
    <3>3. QED
      BY <3>1, <3>2
  <2>2. nJobs' = [p \in Pallets |-> IF p \in P THEN nJobs[p] + 1 ELSE nJobs[p]]
        /\ job' = [p \in Pallets |-> job[p] \/ p \in P]
    BY DEF ImportBlock
  <2>3. \A p \in Pallets : nJobs'[p] \in 0 .. MaxJobs[p]
    BY <2>1, <2>2
  <2>4. job' \in [Pallets -> BOOLEAN]
    BY <2>2
  <2>5. QED
    BY <2>3, <2>4
<1>7. queue' \in Seq(Nat) /\ QueueInv'
  BY <1>2, ClockQueue
<1>8. TypeInv'
  BY <1>1, <1>3, <1>5, <1>6, <1>7 DEF ClockInv, TypeInv, ImportBlock
<1>9. QED
  BY <1>3, <1>5, <1>7, <1>8 DEF ClockInv

LEMMA ClockCrash == ClockInv /\ Crash => ClockInv'
<1> SUFFICES ASSUME ClockInv, Crash PROVE ClockInv'
  OBVIOUS
<1>1. crashes' \in 0 .. MaxCrashes
  BY Numbers DEF ClockInv, TypeInv, Crash
<1>2. run' \in [Runs -> RunState] /\ AgeInv'
  BY RunEnds DEF Crash, AgeInv
<1>3. TypeInv'
  BY <1>1, <1>2 DEF ClockInv, TypeInv, Crash
<1>4. AheadInv'
  BY DEF ClockInv, AheadInv, Crash, Horizon, Span, HookOrder
<1>5. QueueInv'
  BY Numbers DEF Crash, QueueInv
<1>6. QED
  BY <1>2, <1>3, <1>4, <1>5 DEF ClockInv

\* A step that writes one lock entry.
LEMMA OneLockMoves ==
  ASSUME ClockInv, NEW p \in Pallets, NEW l \in LockEntry,
         l.ahead \in -Horizon .. LOCK_BLOCK_EXPIRATION, lock' = [lock EXCEPT ![p] = l]
  PROVE  lock' \in [Pallets -> LockEntry] /\ AheadInv'
<1>1. lock \in [Pallets -> LockEntry]
  BY DEF ClockInv, TypeInv
<1>2. lock' \in [Pallets -> LockEntry]
  BY <1>1
<1>3. ASSUME NEW q \in Pallets PROVE lock'[q].ahead \in -Horizon .. LOCK_BLOCK_EXPIRATION
  <2>1. CASE q = p
    BY <1>1, <2>1
  <2>2. CASE q # p
    <3>1. lock'[q] = lock[q]
      BY <1>1, <2>2
    <3>2. QED
      BY <3>1 DEF ClockInv, AheadInv
  <2>3. QED
    BY <2>1, <2>2
<1>4. Horizon' = Horizon
  BY DEF Horizon, Span, HookOrder
<1>5. QED
  BY <1>2, <1>3, <1>4 DEF AheadInv

\* The two entries a run writes.
LEMMA LockEntries ==
  ASSUME ClockInv, NEW r \in Runs
  PROVE  /\ Pallet(r) \in Pallets
         /\ NoLock \in LockEntry /\ NoLock.ahead \in -Horizon .. LOCK_BLOCK_EXPIRATION
         /\ LockOf(r) \in LockEntry /\ LockOf(r).ahead \in -Horizon .. LOCK_BLOCK_EXPIRATION
         /\ LockOf(r).held = TRUE /\ LockOf(r).ahead = LOCK_BLOCK_EXPIRATION - run[r].age
         /\ LockOf(r).ticks = LOCK_TIMEOUT_EXPIRATION
<1>1. run[r] \in RunState /\ AgeOK(run[r], sinceBlock) /\ sinceBlock \in Nat
  BY Numbers DEF ClockInv, TypeInv, AgeInv
<1>2. /\ run[r].age \in Nat /\ run[r].hook \in {1, 2}
      /\ run[r].age * MILLISECS_PER_BLOCK <= EndOf(MaxQueue)
  BY <1>1, AgeBounds
<1>3. Pallet(r) \in Pallets
  BY <1>2, Numbers DEF Pallet, Pallets
<1>4. 0 \in -1 .. LOCK_TIMEOUT_EXPIRATION /\ 0 \in -Horizon .. LOCK_BLOCK_EXPIRATION /\ 0 \in Int
      /\ LOCK_TIMEOUT_EXPIRATION \in -1 .. LOCK_TIMEOUT_EXPIRATION
  BY Numbers, HorizonType
<1>5. NoLock \in LockEntry /\ NoLock.ahead \in -Horizon .. LOCK_BLOCK_EXPIRATION
  BY <1>4 DEF NoLock, LockEntry
<1>6. LOCK_BLOCK_EXPIRATION - run[r].age \in -Horizon .. LOCK_BLOCK_EXPIRATION
  <2>1. EndOf(MaxQueue) \in Nat
    BY Ends, Numbers
  <2>2. run[r].age <= (EndOf(MaxQueue) + LOCK_TIMEOUT_EXPIRATION) \div MILLISECS_PER_BLOCK
    BY <1>2, <2>1, AgeFits, Numbers
  <2>3. QED
    BY <1>2, <2>2, HorizonType, Numbers
<1>7. LOCK_BLOCK_EXPIRATION - run[r].age \in Int
  BY <1>2, Numbers
<1>8. QED
  BY <1>3, <1>4, <1>5, <1>6, <1>7 DEF LockOf, LockEntry

LEMMA ClockRunStep ==
  ASSUME ClockInv, NEW r \in Runs, RunStep(r)
  PROVE  ClockInv'
<1> DEFINE p == Pallet(r)
           Moves == run' \in [Runs -> RunState] /\ queue' \in Seq(Nat) /\ AgeInv' /\ QueueInv'
<1>1. /\ p \in Pallets
      /\ NoLock \in LockEntry /\ NoLock.ahead \in -Horizon .. LOCK_BLOCK_EXPIRATION
      /\ LockOf(r) \in LockEntry /\ LockOf(r).ahead \in -Horizon .. LOCK_BLOCK_EXPIRATION
  BY LockEntries
<1>2. run \in [Runs -> RunState] /\ job \in [Pallets -> BOOLEAN]
  BY DEF ClockInv, TypeInv
<1>3. UNCHANGED lock => (lock' \in [Pallets -> LockEntry] /\ AheadInv')
  BY DEF ClockInv, TypeInv, AheadInv, Horizon, Span, HookOrder
<1> HIDE DEF p
<1>4. CASE HookReturns(r)
  <2>1. Moves
    <3>1. /\ run[r].at = "entry" /\ run' = [run EXCEPT ![r] = NextHook(r)]
          /\ sinceBlock' = sinceBlock /\ queue' = queue
      BY <1>4 DEF HookReturns
    <3>2. QED
      BY <3>1, NextHookState, OneRunMoves
  <2>2. UNCHANGED lock
    BY <1>4 DEF HookReturns
  <2>3. QED
    BY <1>3, <1>4, <2>1, <2>2 DEF ClockInv, TypeInv, HookReturns
<1>5. CASE TakeJob(r)
  <2>1. /\ run[r].at = "entry" /\ sinceBlock' = sinceBlock /\ queue' = queue
        /\ lock' = [lock EXCEPT ![p] = LockOf(r)] /\ job' = [job EXCEPT ![p] = FALSE]
        /\ late' = [late EXCEPT ![p] = @ \/ run[r].age > 0 \/ sinceBlock > 0]
        /\ UNCHANGED <<nJobs, crashes>>
    BY <1>5 DEF TakeJob, p
  <2>2. PICK calls \in 1 .. 2 :
           run' = [run EXCEPT ![r].at = "calling", ![r].calls = calls, ![r].left = DEADLINE]
    BY <1>5 DEF TakeJob
  <2>3. Moves
    <3> DEFINE s == Taken(r, calls)
    <3>1. run' = [run EXCEPT ![r] = s]
      BY <1>2, <2>2 DEF Taken
    <3>2. s \in RunState /\ AgeOK(s, sinceBlock) /\ LeftInRun(s) <= LeftInRun(run[r])
      BY <2>1, TakenState
    <3> HIDE DEF s
    <3>3. QED
      BY <2>1, <3>1, <3>2, OneRunMoves
  <2>4. lock' \in [Pallets -> LockEntry] /\ AheadInv'
    BY <1>1, <2>1, OneLockMoves
  <2>5. job' \in [Pallets -> BOOLEAN]
    BY <1>2, <2>1
  <2>6. late' \in [Pallets -> BOOLEAN]
    BY <2>1 DEF ClockInv, TypeInv
  <2>7. QED
    BY <2>1, <2>3, <2>4, <2>5, <2>6 DEF ClockInv, TypeInv
<1>6. CASE CallAgain(r)
  <2>1. Moves
    <3> DEFINE s == Again(r)
    <3>1. /\ run[r].at = "calling" /\ run[r].calls = 2 /\ sinceBlock' = sinceBlock
          /\ run' = [run EXCEPT ![r] = s] /\ queue' = queue
      BY <1>2, <1>6 DEF CallAgain, Again
    <3>2. s \in RunState /\ AgeOK(s, sinceBlock) /\ LeftInRun(s) <= LeftInRun(run[r])
      BY <3>1, CallingAgain
    <3> HIDE DEF s
    <3>3. QED
      BY <3>1, <3>2, OneRunMoves
  <2>2. UNCHANGED lock
    BY <1>6 DEF CallAgain
  <2>3. QED
    BY <1>3, <1>6, <2>1, <2>2 DEF ClockInv, TypeInv, CallAgain
<1>7. CASE Finish(r)
  <2>1. /\ run[r].at = "calling" /\ run[r].calls = 1 /\ sinceBlock' = sinceBlock
        /\ run' = [run EXCEPT ![r] = NextHook(r)] /\ lock' = [lock EXCEPT ![p] = NoLock]
        /\ queue' = queue
    BY <1>7 DEF Finish, p
  <2>2. Moves
    BY <2>1, NextHookState, OneRunMoves
  <2>3. lock' \in [Pallets -> LockEntry] /\ AheadInv'
    BY <1>1, <2>1, OneLockMoves
  <2>4. QED
    BY <1>7, <2>2, <2>3 DEF ClockInv, TypeInv, Finish
<1>8. CASE Panic(r)
  <2>1. /\ sinceBlock' = sinceBlock /\ run' = [run EXCEPT ![r] = Idle] /\ queue' = queue
        /\ lock' = [lock EXCEPT ![p] = NoLock] \/ UNCHANGED lock
    BY <1>8 DEF Panic, p
  <2>2. LeftInRun(Idle) <= LeftInRun(run[r])
    <3>1. run[r] \in RunState /\ AgeOK(run[r], sinceBlock) /\ sinceBlock \in Nat
      BY Numbers DEF ClockInv, TypeInv, AgeInv
    <3>2. LeftInRun(run[r]) \in 0 .. Span
      BY <3>1, AgeBounds
    <3>3. QED
      BY <3>2, RunEnds, SpanIs
  <2>3. Moves
    BY <2>1, <2>2, RunEnds, OneRunMoves
  <2>4. lock' \in [Pallets -> LockEntry] /\ AheadInv'
    BY <1>1, <1>3, <2>1, OneLockMoves
  <2>5. QED
    BY <1>8, <2>3, <2>4 DEF ClockInv, TypeInv, Panic
<1>9. CASE StartRun(r)
  BY <1>9, ClockStart
<1>10. QED
  BY <1>4, <1>5, <1>6, <1>7, <1>8, <1>9 DEF RunStep

\* What the two kinds of import do to the queue.
LEMMA Imports ==
  ASSUME NEW P, ImportWithRun(P) \/ ImportWithoutRun(P)
  PROVE  /\ ImportBlock(P)
         /\ \/ queue' = Aged
            \/ Len(queue) < MaxQueue /\ queue' = Append(Aged, 0)
BY DEF ImportWithRun, ImportWithoutRun

LEMMA ClockStep == ClockInv /\ [Next]_vars => ClockInv'
<1> SUFFICES ASSUME ClockInv, [Next]_vars PROVE ClockInv'
  OBVIOUS
<1>1. CASE Tick
  BY <1>1, ClockTick
<1>2. CASE Crash
  BY <1>2, ClockCrash
<1>3. ASSUME NEW P \in SUBSET Pallets, ImportWithRun(P) \/ ImportWithoutRun(P)
      PROVE  ClockInv'
  BY <1>3, Imports, ClockImport
<1>4. ASSUME NEW r \in Runs, RunStep(r) PROVE ClockInv'
  BY <1>4, ClockRunStep
<1>5. CASE UNCHANGED vars
  BY <1>5 DEF vars, ClockInv, TypeInv, AgeInv, QueueInv, AheadInv, Horizon, Span, HookOrder
<1>6. QED
  BY <1>1, <1>2, <1>3, <1>4, <1>5 DEF Next

\* The clocks of the model stay in their ranges: no run is older than two hooks
\* of two calls each, in it and in the runs before it in the queue, can make it,
\* however the threads and the blocks interleave.
THEOREM HooksTypeCorrect == Spec => []TypeOK
<1>1. ClockInv => TypeOK
  <2> SUFFICES ASSUME ClockInv PROVE TypeOK
    OBVIOUS
  <2>1. ASSUME NEW r \in Runs
        PROVE  /\ run[r].at \in {"idle", "entry", "calling"} /\ run[r].left \in 0 .. DEADLINE
               /\ run[r].age * MILLISECS_PER_BLOCK <= Span * (MaxQueue + 1)
    <3>1. run[r] \in RunState /\ AgeOK(run[r], sinceBlock) /\ sinceBlock \in Nat
      BY Numbers DEF ClockInv, TypeInv, AgeInv
    <3>2. QED
      BY <3>1, AgeBounds DEF EndOf
  <2>2. \A p \in Pallets : lock[p].ticks \in -1 .. LOCK_TIMEOUT_EXPIRATION
    BY DEF ClockInv, TypeInv, LockEntry
  <2>3. ASSUME NEW i \in DOMAIN queue
        PROVE  queue[i] * MILLISECS_PER_BLOCK <= Span * MaxQueue
    <3>1. /\ queue \in Seq(Nat) /\ i \in 1 .. Len(queue) /\ Len(queue) <= MaxQueue
          /\ sinceBlock \in Nat /\ queue[i] \in Nat
      BY Numbers DEF ClockInv, TypeInv, QueueInv
    <3>2. PICK r \in Runs : TRUE
      BY HooksAssumption
    <3>3. queue[i] * MILLISECS_PER_BLOCK + sinceBlock + LeftInRun(run[r]) <= EndOf(MaxQueue - i)
      BY <3>1 DEF ClockInv, QueueInv
    <3>4. LeftInRun(run[r]) \in 0 .. Span
      <4>1. run[r] \in RunState /\ AgeOK(run[r], sinceBlock)
        BY DEF ClockInv, TypeInv, AgeInv
      <4>2. QED
        BY <3>1, <4>1, AgeBounds
    <3>5. MaxQueue - i \in Nat /\ MaxQueue - 1 \in Nat /\ MaxQueue - i <= MaxQueue - 1
      BY <3>1, Numbers
    <3>6. /\ EndOf(MaxQueue - i) \in Nat /\ EndOf(MaxQueue - 1) \in Nat
          /\ EndOf(MaxQueue - i) <= EndOf(MaxQueue - 1)
      BY <3>5, Ends, EndsGrow
    <3>7. EndOf(MaxQueue - 1) = Span * MaxQueue
      <4>1. MaxQueue - 1 + 1 = MaxQueue
        BY Numbers
      <4>2. QED
        BY <4>1 DEF EndOf
    <3>8. queue[i] * MILLISECS_PER_BLOCK \in Nat
      BY <3>1, OneBlockLater
    <3>9. queue[i] * MILLISECS_PER_BLOCK <= EndOf(MaxQueue - 1)
      BY <3>1, <3>3, <3>4, <3>6, <3>8, SpanIs
    <3>10. QED
      BY <3>7, <3>9
  <2>4. QED
    BY <2>1, <2>2, <2>3 DEF ClockInv, TypeInv, QueueInv, AheadInv, TypeOK
<1>2. QED
  BY <1>1, ClockInit, ClockStep, PTL DEF Spec

-----------------------------------------------------------------------------
(* Who works after a step.                                                 *)

OneInside(p) == \A q, r \in Runs : Working(q, p) /\ Working(r, p) => q = r

LEMMA WorkTick ==
  ASSUME ClockInv, Tick, NEW p \in Pallets, NEW r \in Runs, Working(r, p)'
  PROVE  /\ Working(r, p) /\ run[r].at = "calling" /\ run[r].left > 0
         /\ run'[r] = Ticked(run[r])
<1>1. run[r] \in RunState /\ AgeOK(run[r], sinceBlock) /\ sinceBlock \in Nat
  BY Numbers DEF ClockInv, TypeInv, AgeInv
<1>2. run[r].at = "calling" /\ run[r].left > 0 /\ run'[r] = Ticked(run[r])
  BY <1>1 DEF Tick, Working, Ticked
<1>3. run'[r].hook = run[r].hook
  BY <1>1, <1>2, TickedState
<1>4. QED
  BY <1>2, <1>3 DEF Working, Pallet, HookOrder

LEMMA WorkImport ==
  ASSUME ClockInv, NEW P \in SUBSET Pallets, ImportBlock(P), NEW p \in Pallets,
         NEW r \in Runs, Working(r, p)'
  PROVE  Working(r, p) /\ run[r].at = "calling" /\ run'[r] = InNextBlock(run[r])
<1>1. /\ run[r] \in RunState /\ AgeOK(run[r], sinceBlock) /\ run[r].at # "entry"
      /\ run'[r] = IF run[r].at = "idle" THEN run[r] ELSE [run[r] EXCEPT !.age = @ + 1]
      /\ sinceBlock = MILLISECS_PER_BLOCK
  BY DEF ClockInv, TypeInv, AgeInv, ImportBlock
<1>2. run[r].at = "calling" /\ run'[r] = InNextBlock(run[r])
  <2>1. run[r].at # "idle"
    BY <1>1 DEF Working
  <2>2. QED
    BY <1>1, <2>1 DEF RunState, InNextBlock
<1>3. run'[r].hook = run[r].hook
  BY <1>1, <1>2, AgedState
<1>4. QED
  BY <1>2, <1>3 DEF Working, Pallet, HookOrder

\* A run that moves leaves the others where they are.
LEMMA OthersStay ==
  ASSUME ClockInv, NEW r \in Runs, NEW s, run' = [run EXCEPT ![r] = s],
         NEW q \in Runs, NEW p
  PROVE  /\ q = r => run'[q] = s
         /\ q # r => run'[q] = run[q] /\ (Working(q, p)' <=> Working(q, p))
<1>1. run \in [Runs -> RunState]
  BY DEF ClockInv, TypeInv
<1>2. (q = r => run'[q] = s) /\ (q # r => run'[q] = run[q])
  BY <1>1
<1>3. QED
  BY <1>2 DEF Working, Pallet, HookOrder

\* A run that does not work after its step (it left the locked part, or was not
\* in it) may have erased the lock entry of the pallet it worked in, no other.
LEMMA LeavesOrStaysOut ==
  ASSUME ClockInv, NEW r \in Runs, NEW s, run' = [run EXCEPT ![r] = s], s.at # "calling",
         NEW p \in Pallets, OneInside(p), lock'[p] = lock[p] \/ Working(r, p)
  PROVE  /\ OneInside(p)'
         /\ \A q \in Runs : Working(q, p)' =>
                Working(q, p) /\ run'[q] = run[q] /\ lock'[p] = lock[p]
<1>1. ASSUME NEW q \in Runs, Working(q, p)'
      PROVE  q # r /\ Working(q, p) /\ run'[q] = run[q]
  <2>1. q # r
    <3>1. run'[r] = s
      BY OthersStay
    <3>2. run'[q].at = "calling"
      BY <1>1 DEF Working
    <3>3. QED
      BY <3>1, <3>2
  <2>2. QED
    BY <1>1, <2>1, OthersStay
<1>2. QED
  BY <1>1 DEF OneInside

\* The steps after which the run is not in a locked part.
LEMMA OutSteps ==
  ASSUME ClockInv, NEW r \in Runs,
         StartRun(r) \/ HookReturns(r) \/ Finish(r) \/ Panic(r)
  PROVE  \E s : /\ run' = [run EXCEPT ![r] = s] /\ s.at # "calling"
                /\ UNCHANGED <<sinceBlock, late>>
                /\ \A p \in Pallets : lock'[p] = lock[p] \/ Working(r, p)
<1>1. PICK s : /\ run' = [run EXCEPT ![r] = s] /\ s.at # "calling"
               /\ UNCHANGED <<sinceBlock, late>>
  <2>1. CASE HookReturns(r)
    BY <2>1, NextHookState DEF HookReturns
  <2>2. CASE Finish(r)
    BY <2>2, NextHookState DEF Finish
  <2>3. CASE Panic(r)
    BY <2>3, RunEnds DEF Panic
  <2>4. CASE StartRun(r)
    <3>1. Started(Head(queue)).at = "entry"
      BY DEF Started, Idle
    <3>2. QED
      BY <2>4, <3>1 DEF StartRun
  <2>5. QED
    BY <2>1, <2>2, <2>3, <2>4
<1>2. ASSUME NEW p \in Pallets PROVE lock'[p] = lock[p] \/ Working(r, p)
  <2>1. \/ UNCHANGED lock
        \/ run[r].at = "calling" /\ lock' = [lock EXCEPT ![Pallet(r)] = NoLock]
    BY DEF StartRun, HookReturns, Finish, Panic
  <2>2. lock \in [Pallets -> LockEntry]
    BY DEF ClockInv, TypeInv
  <2>3. QED
    BY <2>1, <2>2 DEF Working
<1>3. QED
  BY <1>1, <1>2

\* The run that takes the job works in its pallet, in the first of its calls.
LEMMA TakerWorks ==
  ASSUME ClockInv, NEW r \in Runs, TakeJob(r)
  PROVE  \E calls \in 1 .. 2 :
            /\ run' = [run EXCEPT ![r] = Taken(r, calls)] /\ run'[r] = Taken(r, calls)
            /\ run[r].at = "entry"
            /\ \A p : Working(r, p)' <=> p = Pallet(r)
            /\ \A p \in Pallets : lock'[p] = IF p = Pallet(r) THEN LockOf(r) ELSE lock[p]
<1>1. run[r].at = "entry" /\ lock' = [lock EXCEPT ![Pallet(r)] = LockOf(r)]
  BY DEF TakeJob
<1>2. PICK calls \in 1 .. 2 :
         run' = [run EXCEPT ![r].at = "calling", ![r].calls = calls, ![r].left = DEADLINE]
  BY DEF TakeJob
<1> DEFINE s == Taken(r, calls)
<1>3. run' = [run EXCEPT ![r] = s]
  BY <1>2 DEF ClockInv, TypeInv, Taken
<1>4. s.at = "calling" /\ s.hook = run[r].hook
  BY <1>1, TakenState
<1> HIDE DEF s
<1>5. run'[r] = s
  BY <1>3, OthersStay
<1>6. \A p : Working(r, p)' <=> p = Pallet(r)
  BY <1>4, <1>5 DEF Working, Pallet, HookOrder
<1>7. \A p \in Pallets : lock'[p] = IF p = Pallet(r) THEN LockOf(r) ELSE lock[p]
  BY <1>1 DEF ClockInv, TypeInv
<1>8. QED
  BY <1>1, <1>3, <1>5, <1>6, <1>7 DEF s

\* The run that makes its second call stays where it is.
LEMMA CallerStays ==
  ASSUME ClockInv, NEW r \in Runs, CallAgain(r)
  PROVE  /\ run[r].at = "calling" /\ run[r].calls = 2
         /\ UNCHANGED <<sinceBlock, lock, late>>
         /\ run'[r] = Again(r) /\ \A q \in Runs : q # r => run'[q] = run[q]
         /\ \A q \in Runs, p \in Pallets : Working(q, p)' <=> Working(q, p)
<1>1. /\ run[r].at = "calling" /\ run[r].calls = 2 /\ UNCHANGED <<sinceBlock, lock, late>>
      /\ run' = [run EXCEPT ![r] = Again(r)]
  BY DEF CallAgain, ClockInv, TypeInv, Again
<1>2. Again(r).at = "calling" /\ Again(r).hook = run[r].hook
  BY <1>1, CallingAgain
<1>3. run'[r] = Again(r) /\ \A q \in Runs : q # r => run'[q] = run[q]
  <2>1. run \in [Runs -> RunState]
    BY DEF ClockInv, TypeInv
  <2>2. QED
    BY <1>1, <2>1
<1>4. ASSUME NEW q \in Runs, NEW p \in Pallets PROVE Working(q, p)' <=> Working(q, p)
  <2>1. CASE q # r
    BY <1>1, <2>1, OthersStay
  <2>2. CASE q = r
    BY <1>1, <1>2, <1>3, <2>2 DEF Working, Pallet, HookOrder
  <2>3. QED
    BY <2>1, <2>2
<1>5. QED
  BY <1>1, <1>3, <1>4

\* No two runs inside: at most one.
LEMMA AtMostOne ==
  ASSUME NEW p, OneInside(p)
  PROVE  Cardinality(Inside(p)) <= 1
<1>1. CASE Inside(p) = {}
  BY <1>1, FS_EmptySet
<1>2. CASE Inside(p) # {}
  <2>1. PICK r \in Runs : Inside(p) = {r}
    BY <1>2 DEF Inside, OneInside
  <2>2. Cardinality({r}) = 1
    BY FS_Singleton
  <2>3. QED
    BY <2>1, <2>2
<1>3. QED
  BY <1>1, <1>2

-----------------------------------------------------------------------------
(* Exclusion by the lock's blocks.                                         *)

\* Run state s holds the lock l, t ticks after the last block: the entry is its
\* own, and its calls end within two deadlines of its block.
Owns(s, l, t) ==
    /\ l.held /\ l.ahead = LOCK_BLOCK_EXPIRATION - s.age
    /\ LeftInHook(s) + Elapsed(s, t) <= 2 * DEADLINE

LockHeld(p) == \A r \in Runs : Working(r, p) => Owns(run[r], lock[p], sinceBlock)

LockInv == \A p \in Pallets : ~late[p] => LockHeld(p) /\ OneInside(p)

\* A run that holds its lock is not so old that its lock has run out of blocks.
LEMMA OwnerIsYoung ==
  ASSUME LockOutlivesCalls, NEW s \in RunState, NEW t \in Nat, NEW l, AgeOK(s, t),
         s.at = "calling", Owns(s, l, t)
  PROVE  /\ s.age \in Nat /\ s.age <= LOCK_BLOCK_EXPIRATION
         /\ l.held /\ l.ahead \in Nat /\ l.ahead = LOCK_BLOCK_EXPIRATION - s.age
<1> DEFINE M == MILLISECS_PER_BLOCK
           L == LOCK_BLOCK_EXPIRATION
           a == s.age
<1>1. /\ a \in Nat /\ s.left \in 0 .. DEADLINE /\ Elapsed(s, t) \in Nat /\ a * M \in Nat
      /\ s.calls \in {1, 2}
  BY AgeBounds DEF AgeOK
<1>2. a * M <= Elapsed(s, t)
  BY <1>1, Numbers DEF Elapsed
<1>3. Elapsed(s, t) <= 2 * DEADLINE
  BY <1>1, Numbers DEF Owns, LeftInHook
<1>4. M \in Nat /\ M >= 1 /\ L \in Nat /\ 2 * DEADLINE < (L + 1) * M
  BY Numbers DEF LockOutlivesCalls
<1>5. a * M < (L + 1) * M
  BY <1>1, <1>2, <1>3, <1>4, Numbers
<1> HIDE DEF M, L, a
<1>6. ASSUME a >= L + 1 PROVE FALSE
  <2>1. a * M >= (L + 1) * M
    BY <1>1, <1>4, <1>6
  <2>2. QED
    BY <1>1, <1>4, <1>5, <2>1
<1>7. a \in Nat /\ a <= L
  BY <1>1, <1>4, <1>6
<1>8. l.held /\ l.ahead = L - a
  BY DEF Owns, L, a
<1>9. QED
  BY <1>4, <1>7, <1>8 DEF L, a

\* While a run works in the hook, the lock cannot be taken by a run whose block
\* is the best one.
LEMMA NobodyCanLock ==
  ASSUME LockOutlivesCalls, ClockInv, NEW p \in Pallets, LockHeld(p),
         NEW q \in Runs, Working(q, p), NEW r \in Runs, run[r].age = 0
  PROVE  ~CanLock(r, p)
<1>1. /\ run[q] \in RunState /\ AgeOK(run[q], sinceBlock) /\ sinceBlock \in Nat
      /\ run[q].at = "calling" /\ Owns(run[q], lock[p], sinceBlock)
  BY Numbers DEF ClockInv, TypeInv, AgeInv, LockHeld, Working
<1>2. lock[p].held /\ lock[p].ahead \in Nat
  BY <1>1, OwnerIsYoung
<1>3. QED
  BY <1>2 DEF CanLock

LEMMA LockInit == Init => LockInv
BY RunEnds DEF Init, LockInv, LockHeld, OneInside, Working

LEMMA LockTick == ClockInv /\ LockInv /\ Tick => LockInv'
<1> SUFFICES ASSUME ClockInv, LockInv, Tick, NEW p \in Pallets, ~late[p]'
             PROVE  LockHeld(p)' /\ OneInside(p)'
  BY DEF LockInv
<1>1. LockHeld(p) /\ OneInside(p)
  BY DEF LockInv, Tick
<1>2. sinceBlock \in Nat /\ sinceBlock' = sinceBlock + 1
  BY Numbers DEF ClockInv, TypeInv, Tick
<1>3. lock'[p].held = lock[p].held /\ lock'[p].ahead = lock[p].ahead
  <2>1. /\ lock[p] \in LockEntry
        /\ lock'[p] = IF lock[p].held THEN [lock[p] EXCEPT !.ticks = Lower(@, -1)] ELSE lock[p]
    BY DEF ClockInv, TypeInv, Tick
  <2>2. QED
    BY <2>1 DEF LockEntry
<1>4. ASSUME NEW r \in Runs, Working(r, p)'
      PROVE  Working(r, p) /\ Owns(run'[r], lock'[p], sinceBlock')
  <2>1. run[r] \in RunState /\ AgeOK(run[r], sinceBlock)
    BY DEF ClockInv, TypeInv, AgeInv
  <2>2. Working(r, p) /\ run[r].at = "calling" /\ run[r].left > 0 /\ run'[r] = Ticked(run[r])
    BY <1>4, WorkTick
  <2>3. /\ run'[r].age = run[r].age /\ Elapsed(run'[r], sinceBlock') = Elapsed(run[r], sinceBlock) + 1
        /\ LeftInHook(run'[r]) = LeftInHook(run[r]) - 1 /\ LeftInHook(run[r]) \in Int
    BY <1>2, <2>1, <2>2, TickedState
  <2>4. Owns(run[r], lock[p], sinceBlock)
    BY <1>1, <2>2 DEF LockHeld
  <2>5. Elapsed(run[r], sinceBlock) \in Nat
    BY <1>2, <2>1, AgeBounds
  <2>6. LeftInHook(run'[r]) + Elapsed(run'[r], sinceBlock')
           = LeftInHook(run[r]) + Elapsed(run[r], sinceBlock)
    BY <2>3, <2>5
  <2>7. QED
    BY <1>3, <2>2, <2>3, <2>4, <2>6 DEF Owns
<1>5. QED
  BY <1>1, <1>4 DEF LockHeld, OneInside

LEMMA LockImport ==
  ASSUME LockOutlivesCalls, ClockInv, LockInv, NEW P \in SUBSET Pallets, ImportBlock(P)
  PROVE  LockInv'
<1> SUFFICES ASSUME NEW p \in Pallets, ~late[p]'
             PROVE  LockHeld(p)' /\ OneInside(p)'
  BY DEF LockInv
<1>1. LockHeld(p) /\ OneInside(p)
  BY DEF LockInv, ImportBlock
<1>2. sinceBlock = MILLISECS_PER_BLOCK /\ sinceBlock' = 0 /\ MILLISECS_PER_BLOCK \in Nat
  BY Numbers DEF ImportBlock
<1>3. /\ lock[p] \in LockEntry
      /\ lock'[p] = IF lock[p].held THEN [lock[p] EXCEPT !.ahead = Further(p)] ELSE lock[p]
  BY DEF ClockInv, TypeInv, ImportBlock
<1>4. ASSUME NEW r \in Runs, Working(r, p)'
      PROVE  Working(r, p) /\ Owns(run'[r], lock'[p], sinceBlock')
  <2>1. run[r] \in RunState /\ AgeOK(run[r], sinceBlock)
    BY DEF ClockInv, TypeInv, AgeInv
  <2>2. Working(r, p) /\ run[r].at = "calling" /\ run'[r] = InNextBlock(run[r])
    BY <1>4, WorkImport
  <2>3. /\ run'[r].age = run[r].age + 1 /\ LeftInHook(run'[r]) = LeftInHook(run[r])
        /\ Elapsed(run'[r], sinceBlock') = Elapsed(run[r], sinceBlock)
    BY <1>2, <2>1, <2>2, AgedState
  <2>4. Owns(run[r], lock[p], sinceBlock)
    BY <1>1, <2>2 DEF LockHeld
  <2>5. /\ lock[p].held /\ lock[p].ahead \in Nat /\ run[r].age \in Nat
        /\ lock[p].ahead = LOCK_BLOCK_EXPIRATION - run[r].age
    BY <1>2, <2>1, <2>2, <2>4, OwnerIsYoung
  <2>6. lock'[p].held /\ lock'[p].ahead = lock[p].ahead - 1
    <3>1. ~BlocksOver(p)
      BY <2>5, Numbers DEF BlocksOver
    <3>2. Further(p) = lock[p].ahead - 1
      BY <2>5, <3>1, HorizonType, Numbers DEF Further, Lower
    <3>3. lock'[p] = [lock[p] EXCEPT !.ahead = lock[p].ahead - 1]
      BY <1>3, <2>5, <3>2
    <3>4. QED
      BY <1>3, <2>5, <3>3 DEF LockEntry
  <2>7. lock'[p].ahead = LOCK_BLOCK_EXPIRATION - run'[r].age
    BY <2>3, <2>5, <2>6, Numbers
  <2>8. QED
    BY <2>2, <2>3, <2>4, <2>6, <2>7 DEF Owns
<1>5. QED
  BY <1>1, <1>4 DEF LockHeld, OneInside

\* A restarted node has no runs.
LEMMA LockCrash == LockInv /\ Crash => LockInv'
<1> SUFFICES ASSUME Crash, NEW p \in Pallets PROVE LockHeld(p)' /\ OneInside(p)'
  BY DEF LockInv
<1>1. \A r \in Runs : ~Working(r, p)'
  BY RunEnds DEF Crash, Working
<1>2. QED
  BY <1>1 DEF LockHeld, OneInside

LEMMA LockTakeJob ==
  ASSUME LockOutlivesCalls, ClockInv, LockInv, NEW r \in Runs, TakeJob(r)
  PROVE  LockInv'
<1> DEFINE o == Pallet(r)
<1>1. /\ sinceBlock' = sinceBlock /\ CanLock(r, o)
      /\ late' = [late EXCEPT ![o] = @ \/ run[r].age > 0 \/ sinceBlock > 0]
  BY DEF TakeJob
<1>2. PICK calls \in 1 .. 2 :
         /\ run' = [run EXCEPT ![r] = Taken(r, calls)] /\ run'[r] = Taken(r, calls)
         /\ run[r].at = "entry"
         /\ \A p : Working(r, p)' <=> p = o
         /\ \A p \in Pallets : lock'[p] = IF p = o THEN LockOf(r) ELSE lock[p]
  BY TakerWorks
<1> DEFINE s == Taken(r, calls)
<1>3. s.age = run[r].age /\ LeftInHook(s) \in 0 .. 2 * DEADLINE
  BY <1>2, TakenState
<1>4. /\ o \in Pallets /\ LockOf(r).held = TRUE
      /\ LockOf(r).ahead = LOCK_BLOCK_EXPIRATION - run[r].age
  BY LockEntries
<1> HIDE DEF o
<1>5. SUFFICES ASSUME NEW p \in Pallets, ~late[p]'
               PROVE  LockHeld(p)' /\ OneInside(p)'
  BY DEF LockInv
<1>6. late \in [Pallets -> BOOLEAN]
  BY DEF ClockInv, TypeInv
<1>7. ~late[p] /\ (p = o => ~(run[r].age > 0) /\ ~(sinceBlock > 0))
  BY <1>1, <1>5, <1>6
<1>8. LockHeld(p) /\ OneInside(p)
  BY <1>7 DEF LockInv
<1>9. CASE p # o
  <2>1. lock'[p] = lock[p]
    BY <1>2, <1>9
  <2>2. ASSUME NEW q \in Runs, Working(q, p)'
        PROVE  Working(q, p) /\ Owns(run'[q], lock'[p], sinceBlock')
    <3>1. q # r
      BY <1>2, <1>9, <2>2
    <3>2. run'[q] = run[q] /\ Working(q, p)
      BY <1>2, <2>2, <3>1, OthersStay
    <3>3. QED
      BY <1>1, <1>8, <2>1, <3>2 DEF LockHeld
  <2>3. QED
    BY <1>8, <2>2 DEF LockHeld, OneInside
<1>10. CASE p = o
  <2>1. run[r].age = 0 /\ sinceBlock = 0
    <3>1. run[r].age \in Nat /\ sinceBlock \in Nat
      BY Numbers DEF ClockInv, TypeInv, RunState
    <3>2. QED
      BY <1>7, <1>10, <3>1
  <2>2. \A q \in Runs : ~Working(q, p)
    BY <1>1, <1>8, <1>10, <2>1, NobodyCanLock
  <2>3. \A q \in Runs : Working(q, p)' => q = r
    BY <1>2, <2>2, OthersStay
  <2>4. Owns(s, lock'[p], sinceBlock')
    <3>1. lock'[p] = LockOf(r)
      BY <1>2, <1>10
    <3>2. Elapsed(s, sinceBlock') = 0
      BY <1>1, <1>3, <2>1, Numbers DEF Elapsed
    <3>3. LeftInHook(s) + Elapsed(s, sinceBlock') <= 2 * DEADLINE
      BY <1>3, <3>2, Numbers
    <3>4. QED
      BY <1>3, <1>4, <3>1, <3>3 DEF Owns
  <2>5. QED
    BY <1>2, <2>3, <2>4 DEF LockHeld, OneInside
<1>11. QED
  BY <1>9, <1>10

LEMMA LockCallAgain ==
  ASSUME ClockInv, LockInv, NEW r \in Runs, CallAgain(r)
  PROVE  LockInv'
<1>1. /\ run[r].at = "calling" /\ run[r].calls = 2
      /\ UNCHANGED <<sinceBlock, lock, late>>
      /\ run'[r] = Again(r) /\ \A q \in Runs : q # r => run'[q] = run[q]
      /\ \A q \in Runs, p \in Pallets : Working(q, p)' <=> Working(q, p)
  BY CallerStays
<1>2. /\ Again(r).age = run[r].age
      /\ LeftInHook(Again(r)) <= LeftInHook(run[r]) /\ LeftInHook(Again(r)) \in Nat
      /\ LeftInHook(run[r]) \in Nat
  BY <1>1, CallingAgain
<1>3. SUFFICES ASSUME NEW p \in Pallets, ~late[p]'
               PROVE  LockHeld(p)' /\ OneInside(p)'
  BY DEF LockInv
<1>4. LockHeld(p) /\ OneInside(p)
  BY <1>1, <1>3 DEF LockInv
<1>5. ASSUME NEW q \in Runs, Working(q, p)'
      PROVE  Working(q, p) /\ Owns(run'[q], lock'[p], sinceBlock')
  <2>1. Working(q, p) /\ Owns(run[q], lock[p], sinceBlock)
    BY <1>1, <1>4, <1>5 DEF LockHeld
  <2>2. CASE q # r
    BY <1>1, <2>1, <2>2
  <2>3. CASE q = r
    <3>1. run[r] \in RunState /\ AgeOK(run[r], sinceBlock) /\ sinceBlock \in Nat
      BY Numbers DEF ClockInv, TypeInv, AgeInv
    <3>2. Elapsed(run[r], sinceBlock) \in Nat
      BY <3>1, AgeBounds
    <3>3. Elapsed(Again(r), sinceBlock) = Elapsed(run[r], sinceBlock)
      BY <1>2 DEF Elapsed
    <3>4. LeftInHook(run[r]) + Elapsed(run[r], sinceBlock) <= 2 * DEADLINE
      BY <2>1, <2>3 DEF Owns
    <3>5. LeftInHook(Again(r)) + Elapsed(Again(r), sinceBlock) <= 2 * DEADLINE
      BY <1>2, <3>2, <3>3, <3>4, Numbers
    <3>6. Owns(Again(r), lock[p], sinceBlock)
      BY <1>2, <2>1, <2>3, <3>5 DEF Owns
    <3>7. QED
      BY <1>1, <2>1, <2>3, <3>6
  <2>4. QED
    BY <2>2, <2>3
<1>6. QED
  BY <1>4, <1>5 DEF LockHeld, OneInside

LEMMA LockRunStep ==
  ASSUME LockOutlivesCalls, ClockInv, LockInv, NEW r \in Runs, RunStep(r)
  PROVE  LockInv'
<1>1. CASE TakeJob(r)
  BY <1>1, LockTakeJob
<1>2. CASE CallAgain(r)
  BY <1>2, LockCallAgain
<1>3. CASE StartRun(r) \/ HookReturns(r) \/ Finish(r) \/ Panic(r)
  <2>1. PICK s : /\ run' = [run EXCEPT ![r] = s] /\ s.at # "calling"
                 /\ UNCHANGED <<sinceBlock, late>>
                 /\ \A p \in Pallets : lock'[p] = lock[p] \/ Working(r, p)
    BY <1>3, OutSteps
  <2>2. ASSUME NEW p \in Pallets, ~late[p]' PROVE LockHeld(p)' /\ OneInside(p)'
    <3>1. LockHeld(p) /\ OneInside(p)
      BY <2>1, <2>2 DEF LockInv
    <3>2. /\ OneInside(p)'
          /\ \A q \in Runs : Working(q, p)' =>
                 Working(q, p) /\ run'[q] = run[q] /\ lock'[p] = lock[p]
      BY <2>1, <3>1, LeavesOrStaysOut
    <3>3. QED
      BY <2>1, <3>1, <3>2 DEF LockHeld
  <2>3. QED
    BY <2>2 DEF LockInv
<1>4. QED
  BY <1>1, <1>2, <1>3 DEF RunStep

LEMMA LockStep ==
  ASSUME LockOutlivesCalls
  PROVE  ClockInv /\ LockInv /\ [Next]_vars => LockInv'
<1> SUFFICES ASSUME ClockInv, LockInv, [Next]_vars PROVE LockInv'
  OBVIOUS
<1>1. CASE Tick
  BY <1>1, LockTick
<1>2. CASE Crash
  BY <1>2, LockCrash
<1>3. ASSUME NEW P \in SUBSET Pallets, ImportWithRun(P) \/ ImportWithoutRun(P)
      PROVE  LockInv'
  BY <1>3, Imports, LockImport
<1>4. ASSUME NEW r \in Runs, RunStep(r) PROVE LockInv'
  BY <1>4, LockRunStep
<1>5. CASE UNCHANGED vars
  BY <1>5 DEF vars, LockInv, LockHeld, OneInside, Owns, Working, Pallet, HookOrder
<1>6. QED
  BY <1>1, <1>2, <1>3, <1>4, <1>5 DEF Next

\* The lock of ocw-circuits keeps other runs out for as long as two calls may
\* take, until a run that waited for a thread takes it late: for every number of
\* threads, waiting runs, restarts and jobs, and every block time and deadline,
\* when the lock's blocks are longer than two calls.
THEOREM CircuitsExclusiveUnlessLateHolds ==
  ASSUME LockOutlivesCalls PROVE Spec => []CircuitsExclusiveUnlessLate
<1>1. ClockInv /\ LockInv => CircuitsExclusiveUnlessLate
  BY AtMostOne DEF LockInv, Pallets, CircuitsExclusiveUnlessLate
<1>2. QED
  BY <1>1, ClockInit, LockInit, ClockStep, LockStep, PTL DEF Spec

\* So does the lock of ocw-garble, until a run comes to it after waiting for a
\* thread or after the calls of the ocw-circuits hook: that is the only way two
\* runs get into its locked part.
THEOREM GarbleExclusiveUnlessLateHolds ==
  ASSUME LockOutlivesCalls PROVE Spec => []GarbleExclusiveUnlessLate
<1>1. ClockInv /\ LockInv => GarbleExclusiveUnlessLate
  BY AtMostOne DEF LockInv, Pallets, GarbleExclusiveUnlessLate
<1>2. QED
  BY <1>1, ClockInit, LockInit, ClockStep, LockStep, PTL DEF Spec

-----------------------------------------------------------------------------
(* Exclusion by the lock's time stamp.                                     *)

\* The time stamp of the lock of pallet p is not over before the calls are.
Stamped(p) ==
    \A r \in Runs : Working(r, p) =>
        lock[p].held /\ LeftInHook(run[r]) <= lock[p].ticks

StampInv == \A p \in Pallets : Stamped(p) /\ OneInside(p)

\* the calls that are left take at least no time
LEMMA LeftIsNat ==
  ASSUME ClockInv, NEW r \in Runs, run[r].at = "calling"
  PROVE  LeftInHook(run[r]) \in Nat
<1>1. run[r] \in RunState /\ AgeOK(run[r], sinceBlock)
  BY DEF ClockInv, TypeInv, AgeInv
<1>2. run[r].left \in 0 .. DEADLINE /\ run[r].calls \in {1, 2}
  BY <1>1 DEF RunState, AgeOK
<1>3. QED
  BY <1>2, Numbers DEF LeftInHook

LEMMA StampInit == Init => StampInv
BY RunEnds DEF Init, StampInv, Stamped, OneInside, Working

LEMMA StampTick == ClockInv /\ StampInv /\ Tick => StampInv'
<1> SUFFICES ASSUME ClockInv, StampInv, Tick, NEW p \in Pallets
             PROVE  Stamped(p)' /\ OneInside(p)'
  BY DEF StampInv
<1>1. Stamped(p) /\ OneInside(p)
  BY DEF StampInv
<1>2. /\ lock[p] \in LockEntry /\ sinceBlock \in Nat
      /\ lock'[p] = IF lock[p].held THEN [lock[p] EXCEPT !.ticks = Lower(@, -1)] ELSE lock[p]
  BY Numbers DEF ClockInv, TypeInv, Tick
<1>3. ASSUME NEW r \in Runs, Working(r, p)'
      PROVE  Working(r, p) /\ lock'[p].held /\ LeftInHook(run'[r]) <= lock'[p].ticks
  <2>1. run[r] \in RunState /\ AgeOK(run[r], sinceBlock)
    BY DEF ClockInv, TypeInv, AgeInv
  <2>2. Working(r, p) /\ run[r].at = "calling" /\ run[r].left > 0 /\ run'[r] = Ticked(run[r])
    BY <1>3, WorkTick
  <2>3. LeftInHook(run'[r]) = LeftInHook(run[r]) - 1
    BY <1>2, <2>1, <2>2, TickedState
  <2>4. LeftInHook(run[r]) \in Nat /\ LeftInHook(run'[r]) \in Nat
    <3>1. run'[r].at = "calling" /\ run'[r] \in RunState /\ AgeOK(run'[r], sinceBlock + 1)
      BY <1>2, <2>1, <2>2, TickedState
    <3>2. run'[r].left \in 0 .. DEADLINE /\ run'[r].calls \in {1, 2}
      BY <3>1 DEF RunState, AgeOK
    <3>3. LeftInHook(run'[r]) \in Nat
      BY <3>2, Numbers DEF LeftInHook
    <3>4. QED
      BY <2>2, <3>3, LeftIsNat
  <2>5. lock[p].held /\ LeftInHook(run[r]) <= lock[p].ticks
    BY <1>1, <2>2 DEF Stamped
  <2>6. lock'[p].held /\ lock'[p].ticks = lock[p].ticks - 1
    <3>1. lock[p].ticks \in -1 .. LOCK_TIMEOUT_EXPIRATION
      BY <1>2 DEF LockEntry
    <3>2. Lower(lock[p].ticks, -1) = lock[p].ticks - 1
      BY <2>3, <2>4, <2>5, <3>1, Numbers DEF Lower
    <3>3. lock'[p] = [lock[p] EXCEPT !.ticks = lock[p].ticks - 1]
      BY <1>2, <2>5, <3>2
    <3>4. QED
      BY <1>2, <2>5, <3>3 DEF LockEntry
  <2>7. lock[p].ticks \in Int
    BY <1>2, Numbers DEF LockEntry
  <2>8. QED
    BY <2>2, <2>3, <2>4, <2>5, <2>6, <2>7
<1>4. QED
  BY <1>1, <1>3 DEF Stamped, OneInside

LEMMA StampImport ==
  ASSUME ClockInv, StampInv, NEW P \in SUBSET Pallets, ImportBlock(P)
  PROVE  StampInv'
<1> SUFFICES ASSUME NEW p \in Pallets PROVE Stamped(p)' /\ OneInside(p)'
  BY DEF StampInv
<1>1. Stamped(p) /\ OneInside(p)
  BY DEF StampInv
<1>2. lock'[p].held = lock[p].held /\ lock'[p].ticks = lock[p].ticks
  <2>1. /\ lock[p] \in LockEntry
        /\ lock'[p] = IF lock[p].held THEN [lock[p] EXCEPT !.ahead = Further(p)] ELSE lock[p]
    BY DEF ClockInv, TypeInv, ImportBlock
  <2>2. QED
    BY <2>1 DEF LockEntry
<1>3. ASSUME NEW r \in Runs, Working(r, p)'
      PROVE  Working(r, p) /\ LeftInHook(run'[r]) = LeftInHook(run[r])
  <2>1. run[r] \in RunState /\ AgeOK(run[r], MILLISECS_PER_BLOCK)
    BY DEF ClockInv, TypeInv, AgeInv, ImportBlock
  <2>2. Working(r, p) /\ run[r].at = "calling" /\ run'[r] = InNextBlock(run[r])
    BY <1>3, WorkImport
  <2>3. QED
    BY <2>1, <2>2, AgedState
<1>4. QED
  BY <1>1, <1>2, <1>3 DEF Stamped, OneInside

LEMMA StampTakeJob ==
  ASSUME 2 * DEADLINE <= LOCK_TIMEOUT_EXPIRATION, ClockInv, StampInv, NEW r \in Runs, TakeJob(r)
  PROVE  StampInv'
<1> DEFINE o == Pallet(r)
<1>1. CanLock(r, o)
  BY DEF TakeJob
<1>2. PICK calls \in 1 .. 2 :
         /\ run' = [run EXCEPT ![r] = Taken(r, calls)] /\ run'[r] = Taken(r, calls)
         /\ run[r].at = "entry"
         /\ \A p : Working(r, p)' <=> p = o
         /\ \A p \in Pallets : lock'[p] = IF p = o THEN LockOf(r) ELSE lock[p]
  BY TakerWorks
<1>3. /\ LeftInHook(run'[r]) \in 0 .. 2 * DEADLINE
      /\ LockOf(r).held = TRUE /\ LockOf(r).ticks = LOCK_TIMEOUT_EXPIRATION
  BY <1>2, TakenState, LockEntries
<1> HIDE DEF o
<1>4. SUFFICES ASSUME NEW p \in Pallets PROVE Stamped(p)' /\ OneInside(p)'
  BY DEF StampInv
<1>5. Stamped(p) /\ OneInside(p)
  BY DEF StampInv
<1>6. CASE p # o
  <2>1. ASSUME NEW q \in Runs, Working(q, p)'
        PROVE  Working(q, p) /\ run'[q] = run[q] /\ lock'[p] = lock[p]
    <3>1. q # r
      BY <1>2, <1>6, <2>1
    <3>2. QED
      BY <1>2, <1>6, <2>1, <3>1, OthersStay
  <2>2. QED
    BY <1>5, <2>1 DEF Stamped, OneInside
<1>7. CASE p = o
  <2>1. \A q \in Runs : ~Working(q, p)
    <3>1. SUFFICES ASSUME NEW q \in Runs, Working(q, p) PROVE FALSE
      OBVIOUS
    <3>2. lock[p].held /\ LeftInHook(run[q]) <= lock[p].ticks
      BY <1>5, <3>1 DEF Stamped
    <3>3. LeftInHook(run[q]) \in Nat
      BY <3>1, LeftIsNat DEF Working
    <3>4. lock[p].ticks \in Int /\ lock[p].ticks < 0
      BY <1>1, <1>7, <3>2, Numbers DEF CanLock, ClockInv, TypeInv, LockEntry
    <3>5. QED
      BY <3>2, <3>3, <3>4
  <2>2. \A q \in Runs : Working(q, p)' => q = r
    BY <1>2, <2>1, OthersStay
  <2>3. lock'[p] = LockOf(r)
    BY <1>2, <1>7
  <2>4. lock'[p].held /\ LeftInHook(run'[r]) <= lock'[p].ticks
    BY <1>3, <2>3, Numbers
  <2>5. QED
    BY <2>2, <2>4 DEF Stamped, OneInside
<1>8. QED
  BY <1>6, <1>7

LEMMA StampRunStep ==
  ASSUME 2 * DEADLINE <= LOCK_TIMEOUT_EXPIRATION, ClockInv, StampInv, NEW r \in Runs, RunStep(r)
  PROVE  StampInv'
<1>1. CASE TakeJob(r)
  BY <1>1, StampTakeJob
<1>2. CASE CallAgain(r)
  <2>1. /\ run[r].at = "calling" /\ run[r].calls = 2 /\ lock' = lock
        /\ run'[r] = Again(r) /\ \A q \in Runs : q # r => run'[q] = run[q]
        /\ \A q \in Runs, p \in Pallets : Working(q, p)' <=> Working(q, p)
    BY <1>2, CallerStays
  <2>2. /\ LeftInHook(Again(r)) <= LeftInHook(run[r]) /\ LeftInHook(Again(r)) \in Nat
        /\ LeftInHook(run[r]) \in Nat
    BY <2>1, CallingAgain
  <2>3. ASSUME NEW p \in Pallets, NEW q \in Runs, Working(q, p)'
        PROVE  lock'[p].held /\ LeftInHook(run'[q]) <= lock'[p].ticks
    <3>1. lock[p].held /\ LeftInHook(run[q]) <= lock[p].ticks /\ lock[p].ticks \in Int
      BY <2>1, <2>3, Numbers DEF StampInv, Stamped, ClockInv, TypeInv, LockEntry
    <3>2. CASE q # r
      BY <2>1, <3>1, <3>2
    <3>3. CASE q = r
      BY <2>1, <2>2, <3>1, <3>3
    <3>4. QED
      BY <3>2, <3>3
  <2>4. QED
    BY <2>1, <2>3 DEF StampInv, Stamped, OneInside
<1>3. CASE StartRun(r) \/ HookReturns(r) \/ Finish(r) \/ Panic(r)
  <2>1. PICK s : /\ run' = [run EXCEPT ![r] = s] /\ s.at # "calling"
                 /\ \A p \in Pallets : lock'[p] = lock[p] \/ Working(r, p)
    BY <1>3, OutSteps
  <2>2. ASSUME NEW p \in Pallets PROVE Stamped(p)' /\ OneInside(p)'
    <3>1. Stamped(p) /\ OneInside(p)
      BY DEF StampInv
    <3>2. /\ OneInside(p)'
          /\ \A q \in Runs : Working(q, p)' =>
                 Working(q, p) /\ run'[q] = run[q] /\ lock'[p] = lock[p]
      BY <2>1, <3>1, LeavesOrStaysOut
    <3>3. QED
      BY <3>1, <3>2 DEF Stamped
  <2>3. QED
    BY <2>2 DEF StampInv
<1>4. QED
  BY <1>1, <1>2, <1>3 DEF RunStep

LEMMA StampStep ==
  ASSUME 2 * DEADLINE <= LOCK_TIMEOUT_EXPIRATION
  PROVE  ClockInv /\ StampInv /\ [Next]_vars => StampInv'
<1> SUFFICES ASSUME ClockInv, StampInv, [Next]_vars PROVE StampInv'
  OBVIOUS
<1>1. CASE Tick
  BY <1>1, StampTick
<1>2. CASE Crash
  <2>1. \A r \in Runs, p \in Pallets : ~Working(r, p)'
    BY <1>2, RunEnds DEF Crash, Working
  <2>2. QED
    BY <2>1 DEF StampInv, Stamped, OneInside
<1>3. ASSUME NEW P \in SUBSET Pallets, ImportWithRun(P) \/ ImportWithoutRun(P)
      PROVE  StampInv'
  BY <1>3, Imports, StampImport
<1>4. ASSUME NEW r \in Runs, RunStep(r) PROVE StampInv'
  BY <1>4, StampRunStep
<1>5. CASE UNCHANGED vars
  BY <1>5 DEF vars, StampInv, Stamped, OneInside, Working, Pallet, HookOrder
<1>6. QED
  BY <1>1, <1>2, <1>3, <1>4, <1>5 DEF Next

\* A lock whose time stamp outlives two calls would keep other runs out of both
\* locked parts, whenever a run comes to its hook: LOCK_TIMEOUT_EXPIRATION would
\* have to be 20 s where it is 10 s.
THEOREM LongStampExcludes ==
  ASSUME 2 * DEADLINE <= LOCK_TIMEOUT_EXPIRATION
  PROVE  Spec => [](Cardinality(Inside("circuits")) <= 1 /\ GarbleExclusive)
<1>1. StampInv => Cardinality(Inside("circuits")) <= 1 /\ GarbleExclusive
  BY AtMostOne DEF StampInv, Pallets, GarbleExclusive
<1>2. QED
  BY <1>1, ClockInit, StampInit, ClockStep, StampStep, PTL DEF Spec
=============================================================================
