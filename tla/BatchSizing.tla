---------------------------- MODULE BatchSizing ----------------------------
(***************************************************************************)
(* How many policies a host gets at once and when a slow host gets none:   *)
(* the pure helpers at the head of cluster/work-queue.ts, in integers.     *)
(* Times are milliseconds.  A measurement of 0 is one that is missing or   *)
(* not positive, which the helpers treat alike.                            *)
(***************************************************************************)
EXTENDS Integers, FiniteSetsExt

CONSTANTS              \* the environment variables of cluster/dispatcher.ts
  DEFAULT_PREFETCH_DEPTH,             \* 2 unless set
  RUST_COMPACT_PREFETCH_DEPTH,        \* 4 unless set
  WARMUP_MAX_BATCH_SIZE,              \* 16 unless set
  SLOW_HOST_TAIL_CUTOFF_MULTIPLIER,   \* 4 unless set
  SLOW_HOST_TAIL_WORK_MULTIPLIER      \* 4 unless set

(* readPositiveIntEnv lets any positive integer through.  A cutoff of 1    *)
(* makes the fastest host slow: then nobody is fed in the tail.            *)
ASSUME BatchSizingAssumption ==
  /\ {DEFAULT_PREFETCH_DEPTH, RUST_COMPACT_PREFETCH_DEPTH, WARMUP_MAX_BATCH_SIZE,
      SLOW_HOST_TAIL_WORK_MULTIPLIER} \subseteq Nat \ {0}
  /\ SLOW_HOST_TAIL_CUTOFF_MULTIPLIER \in Nat \ {0, 1}

HINT_BASELINE_TRIAL_COUNT == 2000
MAX_BATCH_SIZE == 25
RUST_COMPACT_MAX_BATCH_SIZE == 400
TAIL_STEAL_THRESHOLD == 16

TypeScript == "typescript"
Shadow == "rust-native-compact-shadow"
Compact == "rust-native-compact"
Runtimes == {TypeScript, Shadow, Compact}

AtLeastOne(n) == Max({1, n})

TargetInFlightBatchesForRuntime(runtime) ==
  IF runtime = Compact THEN RUST_COMPACT_PREFETCH_DEPTH ELSE DEFAULT_PREFETCH_DEPTH

TargetBatchWallClockMsForRuntime(runtime) == IF runtime = Compact THEN 15000 ELSE 5000

MaxBatchSizeForRuntime(runtime, workers, freeSlots) ==
  LET slots == AtLeastOne(Min({AtLeastOne(workers), freeSlots}))
  IN  CASE runtime = Compact -> Min({RUST_COMPACT_MAX_BATCH_SIZE, slots * 32})
        [] runtime = Shadow  -> Min({100, slots * 8})
        [] OTHER             -> Min({MAX_BATCH_SIZE, slots * 4})

(* pumpDispatch's own cap for a host that has completed nothing yet.       *)
WarmupMaxBatchSize(workers) == AtLeastOne(Min({WARMUP_MAX_BATCH_SIZE, workers * 2}))

(* Mutant: batches are not cut to one in the tail. *)
RecommendedBatchSizeNoTail(hint, measured, remaining, trials, maxBatch, target) ==
  Min({AtLeastOne(maxBatch), AtLeastOne(remaining),
       AtLeastOne(target \div (IF measured > 0 THEN measured ELSE hint))})

(* What fits the target time, from the measurement if there is one, else   *)
(* from the class's hint scaled to the trials (by no less than 1/20).      *)
RecommendedBatchSize(hint, measured, remaining, trials, maxBatch, target) ==
  LET scaled == Max({HINT_BASELINE_TRIAL_COUNT \div 20, trials})
      inTime == IF measured > 0 THEN target \div measured
                ELSE (target * HINT_BASELINE_TRIAL_COUNT) \div (hint * scaled)
  IN  IF remaining <= TAIL_STEAL_THRESHOLD THEN 1
      ELSE Min({AtLeastOne(inTime), AtLeastOne(maxBatch), remaining})

ReserveWorkerSlotsForBatch(workers, target, n) ==
  LET share == (AtLeastOne(workers) + target - 1) \div target
  IN  Min({AtLeastOne(n), AtLeastOne(share)})

(* With little left, a host slower than the fastest by the cutoff gets no  *)
(* more.                                                                   *)
ShouldThrottleSlowHostForTail(ms, fastest, pending, size, depth) ==
  /\ ms > 0 /\ fastest > 0
  /\ ms >= fastest * SLOW_HOST_TAIL_CUTOFF_MULTIPLIER
  /\ pending <= Max({TAIL_STEAL_THRESHOLD, size * depth * SLOW_HOST_TAIL_WORK_MULTIPLIER})
=============================================================================
