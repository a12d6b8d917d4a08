# Verification of the policy-mining cluster and of the engine's year

The repository is a retirement planner. Two of its parts carry most of its
control: the policy-mining cluster, in which a dispatcher hands thousands of
candidate policies to hosts on the local network and to browsers, and a corpus
writer keeps their results through crashes; and the engine, whose trial walks a
household year by year through contributions, withdrawals, taxes and Roth
conversions. These modules model both. Paths are relative to the repository's
root: `cluster/host.ts` is the cluster's host, `src/utils.ts` the engine.

## 1. Inventory

### 1.1 The parts modelled

| Part | Code | State it keeps | Operations |
|---|---|---|---|
| Work queue | `cluster/work-queue.ts` | pending list (kept reversed), in-flight batches, attempts per policy, dead letters, counters | `assignBatch`, `completeBatch`, `requeueBatch`, `requeueAllForPeer` |
| Batch sizing and pump | `cluster/work-queue.ts`, `pumpDispatch` in `cluster/dispatcher.ts` | none of its own; reads the peers' measurements | `recommendedBatchSize`, the caps per runtime, `reserveWorkerSlotsForBatch`, `shouldThrottleSlowHostForTail`, the two dispatch loops |
| Dispatcher | `cluster/dispatcher.ts` | peers with their in-flight ids, slot reservations, cooldowns, quarantine; at most one active session with its stage; the crashed session found at boot | one handler per message, the stale sweep, the 1 Hz failsafe pump, shutdown |
| Corpus writer | `cluster/corpus-writer.ts` | per open session: descriptor, count, best so far, unsynced appends; on disk: `manifest.json`, `evaluations.jsonl`, `summary.json` | open (fresh or resumed), append, close, the boot scan |
| Host | `cluster/host.ts` | active session, busy flags, primed sessions per slot, pending runs, local queue, reported in-flight ids | batch and session messages, worker replies, reconnect |
| Worker | `cluster/host-worker.ts` | primed sessions, cancelled runs | prime, unprime, run, cancel |
| Browser client | `src/cluster-client.ts` | the one `socket`, heartbeat and reconnect timers, `intentionallyClosed`, active session, in-flight ids | `connect`, `disconnect`, `reconnect`, `setDispatcherUrl`; socket events; dispatcher messages |
| Browser miner pool | `src/policy-miner-pool.ts`, `src/policy-miner.worker.ts` | slots with their current request, queue, pending requests; per worker the primed sessions | prime, unprime, run a batch, cancel, worker error |
| One trial of the engine | `simulatePath` in `src/utils.ts` with `tax-engine.ts`, `healthcare-premium-engine.ts`, `contribution-engine.ts`, `retirement-rules.ts` in `src/` | four accounts, the health savings account, guardrail cut, price index, MAGI history, failure year | one year: contribute, grow, withdraw in a closed loop with the bill, convert, reimburse, fund the gap, close |

Controllers (a browser tab, `cluster/start-session.ts`), hosts and the dispatcher
exchange JSON messages over WebSockets (`src/mining-protocol.ts`). The dispatcher
calls queue and corpus writer directly. Host and browser exchange messages with
their workers by `postMessage`. A worker evaluates a policy with the engine,
which shares no state with the cluster.

### 1.2 What is hard in them

* **Two books of one fact.** The queue knows which batch is out with whom, and so
  does each `Peer` (`inFlightBatchIds`, `inFlightSlotReservations`); a dozen
  handlers update both.
* **Late messages.** A stale peer is swept while its socket is only asked to
  close, so its answers may still be handled, by a `Peer` that has left `peers`.
* **Restarted numbering.** The fine stage and a resumed session have new queues
  under an old session id, and number batches from 1 again.
* **Crashes.** The dispatcher can die between the append and `completeBatch`,
  inside a write, or while it closes the session. Syncs are batched.
* **Local queueing.** A host accepts batches for which every slot is busy, and
  drains that queue re-entrantly from finished batches.
* **Progress.** A session ends only if some event pumps after its last batch was
  answered, given back or given up; near the tail, slow hosts get nothing.
* **One variable, several sockets.** Every socket of the browser client has its
  own listeners, and all act on the one `socket`.
* **Money in several places at once.** A forced distribution is a withdrawal and
  a deposit, a windfall a deposit and an income, a conversion a withdrawal for
  the tax and a transfer for the accounts. The bill depends on the withdrawals
  that pay it, and jumps at cliffs; the passes that chase it are cut off.

`PROJECT.json` lists these hazards one by one, at their lines, with the
properties that would catch each going wrong.

### 1.3 Correctness, part by part

* queue: no policy lost or in two places; attempts bounded; numbers add up;
  returned policies go first; ids not reused; every queue drains;
* sizing and pump: the handouts are those of the loops; a second pump is a no-op;
  depth and slot limits hold; the throttle never holds back every host;
* dispatcher: both books agree; counted means on disk; one record per policy;
  completed means everything covered; a closed session is final; a crashed one is
  held; the fine stage covers the survivors; a session with a usable host ends;
* corpus: what is skipped on resume is readable; no duplicates; the best is the
  best; loss is bounded; a summary is backed by records;
* host: every assigned batch is in one place; merged results are whole; a busy
  slot has a run; no unprimed run; every batch is answered that no crashed worker
  leaves stuck;
* browser: no request is lost or run twice; no unprimed run; every batch is
  answered but the one a worker that did not load keeps; the client ends up
  connected unless it was stopped;
* engine: money is conserved over a year; the Roth account reconciles; the bill is
  that of everything withdrawn and converted; the required distribution is taken;
  each funding pass closes in on its gap, or empties the accounts.

### 1.4 The rest of the repository

The headless controller, the single-machine miner, policy enumeration and
ranking, caches and stores, the spending ledger, the spend solver, the Rust port
of the engine, UI, ingestion scripts. `PROJECT.json` has each with its status
and, where not modelled, the reason; section 8 says more.

## 2. Modules

| Module | Models | Uses |
|---|---|---|
| `PolicyLedger` | what the queue promises, without batches, hosts or order | |
| `WorkQueueOps` | class `WorkQueue` as data: one operator per method | |
| `WorkQueue` | that class under an arbitrary legal caller | `WorkQueueOps`, `PolicyLedger` (refinement) |
| `DispatchPump` | which batches a run of `pumpDispatch` may hand out | `WorkQueueOps` |
| `BatchSizing` | the sizing helpers, on integers | |
| `PumpLoop` | `pumpDispatch` as two nested loops, compared with `DispatchPump` | `DispatchPump`, `BatchSizing` |
| `Dispatcher` | every handler, the stages, crashes and boots | `DispatchPump` |
| `Corpus` | the session's files and the writer | |
| `Host` | host main thread, worker threads, and the dispatcher as one host sees it | |
| `MinerPool` | the browser's worker pool and its workers, as data | |
| `ClusterClient` | the browser's sockets, timers and session, on its pool | `MinerPool` |
| `Withdrawal` | what a year computes: bill, withdrawals, conversions | |
| `YearCycle` | one trial, step by step through its years | `Withdrawal` |
| `WorkQueueLemmas`, `WorkQueueProofs` | proofs about the queue | `WorkQueue` |
| `DispatcherProofs` | proofs about handouts, the dispatcher and the pump's loops | `Dispatcher`, `PumpLoop`, `WorkQueueLemmas`, `CommonLemmas` |
| `CommonLemmas` | extremes of finite sets, induction up to a bound, existence of a recursive function on 0..n, lists, what a worker has primed after its messages | |
| `CorpusProofs` | proofs about the files | `Corpus`, `CommonLemmas` |
| `HostProofs` | proofs about the host and its workers | `Host`, `CommonLemmas` |
| `ClusterClientProofs` | proofs about the browser's pool | `ClusterClient`, `CommonLemmas` |
| `YearCycleProofs` | proofs about the year | `YearCycle` |
| `MC...` | the constants' values for TLC | |

Operators whose comment begins with *Mutant* are wrong versions of the operator
that follows them. No specification uses them: they exist to show that a
property notices the bug.

### 2.1 WorkQueueOps and WorkQueue

A queue is a record with the class's fields. A batch id `${sessionId}-b${seq}` is
its `seq`. The pending list is in handout order; the code keeps the reverse and
pops from the end. `evaluated` is history: the policies `evaluatedCount` counted.
`requeueAllForPeer` runs `requeueBatch` over the peer's batches oldest first;
`Requeue(q, S, ...)` gives the result of that loop at once (the newest batch ends
up at the head), which keeps the module free of recursion, so that the theorem
prover can use it.

### 2.2 DispatchPump, BatchSizing and PumpLoop

The pump loops over hosts by name and hands out batches while a host has depth
and slots. `DispatchPump` describes one run declaratively: a function from the
position of each batch's last policy to the host that gets it, with the
conditions under which the loops would produce exactly that. The sizes of the
batches and the number of pending policies at which a slow host is held back are
free there, within what the helpers can return: batches of one in the tail, no
throttle above `TailBudget`, and never every host throttled. `BatchSizing` has
the helpers themselves, in milliseconds and policies, and `PumpLoop` writes the
two loops with them. A state of `PumpLoop` is one call of the pump: the queue, the
host records, who is dispatchable, the measurements and the trials; its step pumps.
Each loop is a recursive function, over the hosts in name order and over the turns
of the `while`; a turn of the `while` either ends it or fills one of the host's
`depth` places, so `depth` turns are enough. `PumpMatchesLoop` says that what the
loops hand out is allowed by `DispatchPump`, with the same batches, ids and
reservations. It is proved for every call (`IsCall`), and `LoopsPump` carries it into
the dispatcher: wherever the model pumps, so may the code. So the dispatcher's runs and
proofs, which use only `DispatchPump`, do not depend on measurements.
`PumpLoopAssumption` ties the abstract parameters to the code's: a host's depth is
that of its engine, `TailStart` is the constant of the tail, and `LargestBatch` and
`TailBudget` are at least what the caps and the throttle of its engine come to.

### 2.3 Dispatcher

Node runs a handler to completion, so each handler is one action, the
`pumpDispatch` at its end included: `Pump` produces the successor state. Exceptions
are the two places where the process can die inside the handler with a visible
difference: after an append (`CrashAfterAppend`) and inside the writer (module
`Corpus`). Correspondence:

| Code | Action |
|---|---|
| `handleRegister` (host) | `Register` |
| `handleDisconnect` | `Disconnect`, and via `Leave` the sweep |
| `sweepStalePeers` | `SweepStale`, then `SocketCloses` when its socket does |
| `handleStartSession` | `StartFresh`, `StartResumed`, `ResumeFails` |
| `handleCancelSession` | `Cancel` |
| `handleBatchResult` | `FullResult`, `ShortResult`, `AppendThrows`, `IgnoredResult` |
| `handleBatchNack` | `Nack`, `IgnoredNack` |
| `transitionToFineStage`, `endSession` | part of `Pump` |
| heartbeat, failsafe interval | `FailsafePump`; `CooldownEnds` is a cooldown that runs out |
| boot | `Crash`, `CrashAfterAppend` (`Reboot`) |

`owed` is the set of assignments hosts have not answered. An answer is handled
once. A swept peer's assignments stay in `owed` until its socket closes, a
disconnected one's are gone. A reconnect is a registration of another element of
`Peer`, because the dispatcher generates a fresh peer id per registration. The
corpus is, per session, a count of records per policy and stage, which is what
the dispatcher's properties need; `Corpus` has the files.

### 2.4 Corpus

A file is a sequence of lines, each a policy or `Broken` (does not parse), each
with or without its newline; `durable` is how many have reached the disk.
`AppendTo` glues what is appended to an unended line, as the bytes would be.
`PartialAppends` are the files a kill in the middle of an append may leave.
`LosePower` cuts the file after any record behind what was synced and may undo
`summary.json` and `manifest.json`, which the code never syncs. The file is
written with one `appendFileSync` per batch; a kill between the record boundaries
of that write is in `PartialAppends`.

### 2.5 Host

`main` is the main thread, with the ordered inbox of every worker; `worker` is
what each thread has read. One action is a handler up to its first `await`
together with what a reply resumes: nothing else runs in between, as the
continuation is a microtask. The dispatcher appears as its numbering, its
outstanding batches and whether it is in the coarse stage. The acknowledgement of
a result is handled together with the result; a dropped link loses both. A
TypeScript worker reads no message while it evaluates (`Interleaves = FALSE`), the
Rust runtimes do (`TRUE`).

### 2.6 MinerPool and ClusterClient

`MinerPool` is a record with the pool's queue, pending requests and slots and each
worker's inbox, and one operator per function. A run never returns to the
worker's event loop, so it is its message at the head of the inbox, and a `cancel`
is read only after the run it names has answered: the comment "workers drain their
current policy first" (`src/policy-miner-pool.ts:359`) describes something finer
than what happens.

`ClusterClient` has one action per event the browser delivers. Sockets are kept
apart, each with its readyState and the dispatcher's peer for it; `client.socket`
is the one the code holds. `CloseEvent` is the close listener, which acts on
`client` whichever socket closed. `Socket` bounds how many exist at one time: with
one, a call that would open a second socket beside a closing one waits or is left
out. Backoff delays are a timer that may fire at any time. The
client's messages as a controller (`startSession`, `cancelSession`) are left out:
they change the dispatcher's state, not the client's.

### 2.7 Withdrawal and YearCycle

`simulatePath` is sequential; what varies is the household's schedule, the market,
windfalls, the deferrals elected, inflation and the strategy. The phases of a year
follow the body of its loop:

| Phase | Action | Code in `src/utils.ts` |
|---|---|---|
| `open` | `OpenYear` | guardrail decision, payroll contributions, required distribution, returns, windfall, base income |
| `loop` | `ClosedLoopPass` | one pass of the closed loop: `withdrawForNeed`, the bill, damping, oscillation |
| `convert` | `Convert` | `applyProactiveRothConversion` |
| `medical` | `PayFromHsa` | `calculateHsaOffsetForYear`, the bill of the year |
| `fund` | `FundGap`, `CloseYear` | supplemental withdrawals with their refreshed bill; surplus or gap |
| `closed` | `NextYear` | next iteration, unless the trial failed |

Money is in whole units and MAGI in quarters of one, since a withdrawal from the
taxable account realises a quarter of it as gain. The reductions: one tax rate
above a deduction instead of brackets, one cliff per healthcare rule, premiums
that do not grow, market returns in quarters. The taxable part of the benefits keeps its two tiers, and
the order of buckets, the ceilings, the forced distribution, the proportional rule, the
conversion's candidates and disqualifications, the damping and the stop conditions are
those of the code; the score that picks among the candidates is left open, so
that every candidate, or none, may be converted. Shares of the proportional rule
and damped needs that are not whole are rounded either way. Spending schedules,
travel years and home sales are left out: they only change inputs.

## 3. Runs that pass

Every run explores its whole state space.

| Run | Question | Instance |
|---|---|---|
| `work_queue` | is the queue right and does it implement the ledger under any order of calls, and does it drain | 3 policies, 2 peers, batches of at most 2, 2 attempts, 1 prior record, 1 uncounted requeue |
| `pump_loop` | are the loops' handouts among the allowed ones; is a second pump a no-op | the code's constants; 3 hosts: compact (5 workers, depth 4), TypeScript (3, depth 2), shadow (5, depth 2); lists of 0, 17, 20 and 90 policies; 500, 1999 or 2000 ms per policy or unmeasured; 200 or 2000 trials; every warmup state and set of dispatchable hosts |
| `dispatcher_single` | do queue, per-host books and corpus agree in single-stage sessions | 2 policies, 2 registrations, 2 sessions, 2 faults, late answers, failing disk |
| `dispatcher_stages` | does the fine stage cover the survivors, and does a session with a usable host end | 3 policies of which 2 survive, 2 hosts, 1 session, 1 fault |
| `corpus_safety` | is what the dispatcher relies on there after kills and power losses | 4 policies, 1 infeasible and 2 tied on spend, batches of at most 2, sync every 2 appends, 3 crashes |
| `host_safety` | is every batch held once, every slot freed, every run primed, through session changes and a reconnect | 2 workers, batches of 1 and 3 policies, depth 2, queue 1, 2 sessions, 1 drop or restart |
| `host_fair` | is a batch with a failed slice never reported as whole, and is every batch answered that no crashed worker leaves stuck | 2 stages with 1 renumbering, two batches of 1 policy and one of 2, depth 3, queue 2, 3 assignments, 1 failing or crashing run, workers that read while they run |
| `year_cycle` | do the accounts explain the wealth, does the bill match, does each funding pass close in on its gap | 3 years (last of work; marketplace cover; distributions, Medicare and care), 5 strategies with all four withdrawal rules, 3 opening balances, 2 markets, with or without a windfall, 2 elections, 4 passes of either kind |
| `browser` | is every request held once and answered, every run primed, and is the client connected in the end | 2 workers of which 1 may not load, depth 2, 2 sessions, 2 batches, 2 calls, 1 drop, 1 rejection |

**Why these bounds reach the interesting cases.** Two attempts and batches of two
are the least for which a batch holds policies at different numbers of attempts,
and is dropped in part. Three policies allow two batches out and one policy
waiting, so a sweep must order several. `dispatcher_single` allows, in one
behaviour: a sweep, a late answer, a new owner of the same policies, and a crash
with a resume, or two crashes. Two registrations are enough for a batch to move
from one host to another. A sync every second append lets one append be lost, and
a third crash lets the file be lost, resumed and lost again. With two workers, a
batch of three is sliced in 2 + 1 and a second batch must queue. A queue of one is
full when cancelled runs of the first session hold both slots and the second session
sends two batches, and the second of them is nacked. In `host_fair` two batches of one
fill the slots and a pair queues, or the pair is sliced over both and a batch queues
behind it, with one slice failed or its worker gone. In `pump_loop`
17 policies are one above the tail, 20 go through it, 90 are more than the caps of
all three engines together; 1999 and 2000 are on both sides of a cutoff of 4 times
500. In `year_cycle` the bill crosses both cliffs inside the closed loop, need
flips sign twice, passes run out, supplemental funding takes several passes, and
balances run empty. `TaxDivisor` is 8 in `year_cycle`, a marginal rate of a half and
more, above the code's brackets, and `MaxFundingPasses` is 4: together they make
the funding passes run out with a gap that would take more of them, which the
code's 12 reach at lower rates with larger gaps. The third year looks back at the first for Medicare.

**What the bounds leave out.** `dispatcher_stages` has no late answers and
`dispatcher_single` no coarse stage: with both, a late coarse answer is written in
the fine stage (section 6). `corpus_safety` has no torn writes, because with them
`CreditedIsReadable` fails (section 5). No run of the host combines a drop with a
renumbering; section 6 says what happens then. `MaxUncounted` bounds the
requeues that count no failure: a host that reports lack of capacity for ever can
keep a policy in play for ever, and `Terminates` would not hold without that
bound. `MaxPasses` is 4 where the code has 10: both ends of the loop occur. `browser` has one
socket, so the calls that open a second one beside a closing one are not in it:
`browser_retry` has them, and shows what they do. The replaced-session branch of
`start_session` (`src/cluster-client.ts:528`) is not reached in `browser`, because the
dispatcher ends a session before it starts another; `SessionsAreFound` is proved of it
all the same. With the two policies of `dispatcher_single`, `CapacityRespected` can
fail mostly on a host that is not warmed up yet; its bound in general is
`CapacityAlways`.

Deadlock checking is off in these runs since every one of them has legitimate
ends: a drained queue, a torn manifest, the end of a trial, used-up bounds.

## 4. Fairness

* `WorkQueue!FairSpec`: the dispatcher pumps after every event and once a second,
  and a batch that is out is answered, nacked or swept with its peer, which is
  stale after 30 silent heartbeat intervals; so handing out, and getting back, are
  each weakly fair. Which answer comes is free: the fairness is on their
  disjunction. Uncounted requeues have none.
* `Dispatcher!FairSpec`: the failsafe interval fires every second, a cooldown is a
  timer, and a connected host keeps answering (`AnswersFully`: if it is asked long
  enough). `SessionEnds` further assumes that finally a live, unquarantined host
  stays. Its pool is not empty in the instance: a dispatchable host with no
  workers, or one that never answers its first batch, keeps `needsWarmup` true
  and idles the warmed hosts, which is a hazard of the list and not excluded by
  the code.
* `Host!FairSpec`: a worker thread that lives reads its messages and ends its
  runs. There is no fairness for connections, the dispatcher or failures.
  `EveryBatchIsAnswered` is therefore about the end of a behaviour: what is
  outstanding then is answered, or is `Stuck` by a crash (section 6).
* `ClusterClient!FairSpec`: timers fire, a connection attempt and a closing
  handshake come to an end, the dispatcher answers a registration and sweeps a
  peer that sends no heartbeats, and workers read their messages and end their
  runs. There is none for the user's calls, sessions or failures. With
  one socket at a time this is enough; with several it is not, as `browser_retry`
  shows.

## 5. Disagreements the runs show

Each is a run that TLC must find violated.

* `corpus_torn_line`: `evaluations.jsonl` is opened for append on resume "so
  post-resume writes continue cleanly" (`cluster/corpus-writer.ts:166`), without
  ending a torn last line. The first record appended is glued to the fragment and
  lost, while its policy counts as evaluated.
* `year_windfall`: `CALIBRATION_WORKPLAN.md:259` says of a windfall, which is
  deposited in cash and counted as income, "not double-counting; functionally
  correct", and expects the cash to stay at the deposit. But what the year does
  not spend of its income is deposited as surplus (`src/utils.ts:5271`), so what it
  does not spend of the windfall is in cash twice: all of it, when other income covers
  the spending. The theorem
  `EveryYearIsAccounted` gives the amount in general.
* `browser_retry`: `reconnect()` ("Explicit retry", `src/cluster-client.ts:131`)
  closes the socket and opens another. The close event of the first then clears
  the timers and sets `socket` to null (`src/cluster-client.ts:405`), which is by
  then the second. A third is opened; the second sends no heartbeats, is swept,
  and its close takes the third down; and so on.

## 6. Further disagreements met while modelling

No run is kept for these; they were seen while translating the code and can be
shown by adding the property.

In the cluster:

* `transitionToFineStage` says the new queue "won't reuse coarse batch ids even
  though the sessionId is shared" (`cluster/dispatcher.ts:1611-1613`). It does: its
  numbering restarts. A coarse answer of a swept peer that arrives in the fine stage
  completes a fine batch and is written to the corpus. `TwoStage` and `LateAnswers`
  both TRUE show it.
* `snapshot()` counts in-flight *batches* (`cluster/work-queue.ts:592`) where its
  comment says the numbers add up in policies (`cluster/work-queue.ts:306`).
  `CountsAddUp` is the version that holds.
* "It just runs the batch at whatever trialCount the dispatcher specified"
  (`cluster/dispatcher.ts:1438-1439`): neither host nor worker reads the batch's trial
  count (`cluster/host.ts:1347`), and the coarse stage runs at the full one.
* The worker's error handler intends to "surface it so the dispatcher can
  reassign" (`cluster/host.ts:336-337`) and only marks the slot busy. The run's batch
  is never answered, while heartbeats go on. So are the batches behind it: the queue is
  drained only when a batch finishes (`cluster/host.ts:1421`), so a batch that queued
  behind a half-crashed one waits for ever although the other slice's worker is free
  again. "When the 1st batch's result is sent, drainPendingBatchQueue() picks the 2nd up
  immediately" (`cluster/host.ts:1301-1302`), but it never is. `Stuck` says which batches those are.
* After a reconnect the slot of a crashed worker, "permanently busy"
  (`cluster/host.ts:338-339`), is free again (`cluster/host.ts:1017`).
* After a drop *and* a renumbering, the reply of an abandoned run resolves a new
  run of the same id (`cluster/host.ts:361`), against "safe to drop"
  (`cluster/host.ts:363-364`).
* `handleCancelSession` empties the host's queue (`cluster/host.ts:1271`) but leaves
  the ids in `inFlightBatchIds`.
* A failed append logs "requeueing batch" (`cluster/dispatcher.ts:1789`) and requeues
  nothing: the batch stays with its host until that disconnects.
* A quarantine "for the rest of the session" (`cluster/dispatcher.ts:163`) ends with
  the registration: a reconnect makes a new `Peer` (`cluster/dispatcher.ts:970`).
* The boot scan for a resumable session uses the default directory
  (`cluster/dispatcher.ts:2376`), sessions are written under `CLUSTER_DATA_ROOT`.
* `CLUSTER_SLOW_HOST_TAIL_CUTOFF_MULTIPLIER=1` is accepted
  (`cluster/dispatcher.ts:217-222`). It makes the fastest host slow, so the tail is
  never dispatched; `BatchSizingAssumption` excludes it.
* A controller that adopted another controller's session cancels it on SIGINT
  (`cluster/start-session.ts:497`).

In the browser:

* A rejected registration publishes `error` with its reason, and the close event
  that follows overwrites the state with `disconnected` (`src/cluster-client.ts:469`).
  `disconnect()` with only a reconnect timer pending clears the timer and leaves the
  state `error`.
* `handleError` frees the slot of a worker that did not load
  (`src/policy-miner-pool.ts:308`): the next queued request goes there and is never
  answered, nor rejected by `cancelMinerSession`, which only empties the queue. Each such
  worker strands one request. `RequestsHeld` says that its slot holds it and that no
  worker runs it, `BatchesAnswered` excepts it and no other.

In the engine:

* The Roth deferral goes to the Roth account and is not subtracted from the wages
  that pay the year's spending (`src/utils.ts:4765`, `4880`): it is money from
  nowhere. `EveryYearIsAccounted` proves it is exactly the deferral.
* A trial may fail with money in its accounts. A funding pass pays the tax of the pass
  before it, so a gap *g* at a marginal rate *r* has left *g r*^12 when the twelve
  passes (`src/utils.ts:5234`) run out, which is above the cent that counts as failure
  (`src/utils.ts:5281`) for gaps of some thousands at rates of a third. `year_cycle`
  reaches such ends; `PassesConverge` is what each pass does guarantee.
* Reverse waterfall "bypasses the planner-enhanced ACA/IRMAA logic by design"
  (`src/utils.ts:2353-2358`): it bypasses the order only, and stays under the ceilings.
* After two sign flips the loop "takes the midpoint" (`src/utils.ts:5062-5074`), which
  is never evaluated: the year goes with the attempt of the pass before.
* The ceiling that keeps withdrawals below the marketplace cliff grows with prices
  (`src/utils.ts:2276`), the cliff at which the premium is charged does not.
* The guardrail divides assets of the year by spending in today's money
  (`src/utils.ts:4720`).
* `CALIBRATION_WORKPLAN.md:241` describes the health savings account as folded into
  the pretax account; the engine keeps it apart (`src/utils.ts:4603`).

## 7. Proofs

TLAPS proves 17,354 obligations in eight modules, for every value of the constants
that meets the assumptions.

| Modules | Obligations | Theorems (property) |
|---|---|---|
| `WorkQueueLemmas`, `WorkQueueProofs` | 1,811 | `Invariance`, `TypeCorrect` (`TypeOK`), `Conservation` (`PoliciesConserved`), `AttemptBudget` (`AttemptsWithinBudget`), `CountsAgree` (`CountsAddUp`), `FreshBatchIds`, `AbandonedGoFirst` (`ReturnedGoFirst`), `Refinement` (`ImplementsLedger`) |
| `DispatcherProofs` | 6,173 | `LoopsMatchHandouts` (`PumpMatchesLoop`), `PumpingTwiceIsPumpingOnce` (`PumpIsIdempotent`), `LoopsPump`, `LoopsFeedEverySession`, `DispatcherTypes` (`TypeOK`), `BooksAgreeAlways` (`IndexAgrees`), `CountedIsOnDisk` (`EvaluatedOnDisk`), `OneRecordOfEach` (`OneRecordEach`), `CompletedSessionsCoverAll` (`CompletedCoversAll`), `FineStageIsOverSurvivors` (`FineCoversSurvivors`), `UnfinishedSessionsAreHeld` (`UnfinishedIsHeld`), `ClosedSessionsStay` (`ClosedIsFinal`), `CapacityAlways` (`CapacityRespected`) |
| `CommonLemmas`, `CorpusProofs` | 1,767 | `TypeCorrect` (`TypeOK`), `RunningBestIsBest` (`BestIsBest`), `RecordedOnce` (`NoDuplicates`), `CreditedPoliciesAreReadable` (`CreditedIsReadable`), `SummaryCountsRecords` (`SummaryIsBacked`), `SyncedRecordsStay` (`LossIsBounded`) |
| `HostProofs` | 4,166 | `HostTypes` (`TypeOK`), `AssignedAreHeld` (`AssignedIsHeld`), `RunsFindPrimed` (`RunsArePrimed`), `BusyIsRunning` (`BusyCountsRuns`), `ResultsAlwaysWhole` (`ResultsAreWhole`) |
| `YearCycleProofs` | 2,022 | `TypeCorrect`, `EveryYearIsAccounted`, `MoneyIsConserved` (`MoneyConserved`), `RothIsReconciled` (`RothReconciles`), `RmdIsAlwaysTaken` (`RmdIsTaken`), `BillIsOfTheYear` (`BillMatchesYear`), `FundingPassesConverge` (`PassesConverge`) |
| `ClusterClientProofs` | 1,415 | `RequestsAreHeld` (`RequestsHeld`), `SessionsAreFound` (`RunsFindTheirSession`), `QueueIsOfSession` |

The assumptions are the named `ASSUME`s of the modules; TLC evaluates each of them
in every run whose module extends it. The notable ones: the policies are finitely
many and enumerated once each (the enumerator's ids are unique), the attempt
budget is at least 1, hosts have different names, nothing loses more than all of it.

**The queue.** No single property is inductive. That a policy is in one place
after a requeue needs the outstanding batches to be disjoint and free of
repetitions; that the counters agree needs both, and that a policy is given up
once; that ids are fresh needs every outstanding id to be at most `nextBatchSeq`.
`QueueInv` is their conjunction, with the type. It is an operator on a queue, so
`WorkQueueLemmas` proves once per method that the method keeps it, and the
dispatcher's proofs use the same lemmas. The hardest part is `Listing`, the order in
which a swept peer's policies come back: `RequeueOrderTotal` shows that the order is
total on the policies returned, `ListingExists` that such a listing exists. The
refinement maps a policy to its place (`StatusIsPlace`) and its failures to its
attempts, less one while it is out; each method is one ledger step over the batch's
policies. `AbandonedGoFirst` is about a step: an assignment cuts a prefix off the
pending list, a requeue stacks a listing in front of it, and in a list without
repetitions (`QueueInv`) both keep every position in order.

**The dispatcher.** Every handler that changes what is out ends in a pump, so the
argument is about what a pump is given. `Ready` says that a session, the host records, the
messages under way and the corpus fit together: `QueueInv` of the queue; the hosts'
books are the queue's; what the stage has counted is on disk and what it has yet to do is
not; a message about a batch still out agrees with the book; only the running session is
unfinished and not superseded. `DispatcherProofs` first shows of a handout, for every cut of the
pending list, that its batches are consecutive pieces with fresh, distinct ids
(by counting the cuts up to each), so that `HandOut` keeps `QueueInv`. `PumpOutcome`
then shows that a pump of `Ready` things, through a change of stage, a handout or the
end of the session, ends `Ready` or `Idle`. Each handler's lemma has only to make
things `Ready` before it pumps. `DInv` is the two over the variables.

`CapacityAlways` carries the bound itself: the last batch a pump hands to a host found
fewer slots reserved than the host has workers (`HasRoom`) and reserves at most
`BatchShare`; the reservations of one handout are counted as a set of pairs, so that
those of a host are the union of the old and the new ones. A host without workers
counts as having one for its share, as in the code.

The theorems assume `NoLateCoarse == ~(TwoStage /\ LateAnswers)`. The code gets that
combination wrong (section 6): a coarse answer that outlives its stage is taken for a
fine one, and `CountedIsOnDisk` among others is false there.

**The pump's loops.** `LoopsMatchHandouts` follows the loops turn by turn. `Feeding`
says how far a pump has come: the handout so far is one that `HandOut` and `Reserve`
turn into the queue and the records at this point (`Carried`); each batch went to the
first host in name order that could get one when it was cut, at a size the tail allows
(`Served`); a host that was held back is slow, and its limit is at most `TailBudget`
(`HeldBack`); and every host visited so far can get no more (`Sated`). Three things need
an argument. *A host visited stays sated:* later turns only lengthen the handout, give
nothing to it, and shorten what is pending, so a host that was throttled is under its limit
still. *What is held back is held back by a limit:* the throttle compares what is
pending with the size planned for it, which changes from turn to turn, but a planned
size is at most the host's cap, so no throttle reaches above `TailBudget`, and in the
tail a size is 1 and the comparison only gets tighter as the queue drains. *Somebody
is fed:* the host with the least measurement is not slow, because a slow one takes
longer than the fastest by the cutoff, which is assumed to be above 1.
A host's books and slots are counted along the way (each turn adds one new id and its
reservation), which matches the `while` loop's checks with `HasRoom`. For
`PumpingTwiceIsPumpingOnce` the final state of the first pump is the start of the second,
and each host is visited again: it is full, or unmeasured with its batch out, or, held
back at a time when more was pending, held back again. `ReadyIsCall` shows that what a
handler pumps is a call in this sense, since the hosts' books are the queue's; hence
`LoopsPump`, and for the states between two handlers `LoopsFeedEverySession`.

**The corpus.** `FileInv` (what is readable is what the dispatcher takes for
recorded; appends since the last sync are counted; no text twice) holds always, and
gives `RecordedOnce` even with torn writes. `CleanInv` (every line parses; what is
credited is readable; what a summary counts is synced) needs `~TornWrites`, as
`corpus_torn_line` shows, and gives the others. `RunningBestIsBest` follows the
recursive scan of the file and the comparison in `appendEvaluations`: the function the
scan builds exists (`RecursiveFunction`), and after each line its value is least
among the feasible records so far.

**The host.** `HInv` relates what the main thread has, what is on its way and what the
workers have read. *Priming:* an inbox, with the sessions its worker has read so far,
is in order if every run in it finds its session primed by the messages before it, and
every session the main thread believes primed is so in the end; posting at the end and
reading at the front keep that, and a reset that forgets what was primed only asks
for less. *Books:* the slices of a batch that came back and the runs still waited for
are as many as its parts, which is why the last reply, and only it, ends the batch.
*Places:* an outstanding batch is in the queue, being run, or answered, and in one
of them; the queue holds outstanding batches of the active session, each once; what
else is being run or answered is of sessions that ended; without a connection nothing is
held. `Drain` is a recursive function over the queue; `DrainStates` unfolds it once,
into states that each take up the next batch, and the invariants are carried along
it. `AssignedAreHeld`, `RunsFindPrimed` and `HostTypes` follow.

`BusyIsRunning` needs more: `SInv` says where the runs are. A run waited for is at
one slot at most, once, in its inbox or being worked on (`Unique`). While every worker
lives it is at a slot, and the slot is busy with it alone (`Filled`). A run that is at a
worker and not waited for was given up with its connection, so its batch is not
outstanding and its id not handed out again (`Known`). `Known` fails when a connection
is lost *and* batches are renumbered: the given-up run's reply then frees the slot of
another run (section 6). The theorem's hypothesis, `MaxDrops = 0 \/ MaxRenumberings = 0`,
excludes exactly that; with one of each allowed, TLC finds two slots and runs that do not
match in a behaviour of 17 states.

`ResultsAlwaysWhole` rests on `Unique` and `Known`, which a crashed worker leaves alone.
`WInv` says of a batch that is being run and outstanding that every slice that came back
without failure, and every run of it at a worker or in an inbox, is the slice of the
outstanding policies under its own part number; a slice that is replied is therefore
the slice of that part. When as many parts are done as there are, they are all the
parts, and `SlicesJoin` shows that the slices of any list, cut into any number of
parts and put one after the other, are the list (`StartsGrow`: each slice begins where the
one before it ends). The hypothesis is the same and as necessary: with one lost connection
and one renumbering TLC finds a result with another batch's evaluations in it.

**The year.** Conservation is not inductive: in the middle of a year the withdrawals
are neither in the accounts nor spent. `YearInv` says for each phase what accounts,
attempt, health savings account and income add up to, what the tax inputs report, and
that the distribution was taken; `HistoryInv` keeps the MAGI history in step with
the year. `YearCycleProofs` first shows of every way to draw on the accounts that the
attempt after it `Continues` the one before: the same total held, the same Roth sum, pretax and
taxable withdrawals matched by the tax inputs. The invariant carries the windfall
twice and the Roth deferral once too often, because the code does; in years
without them `MoneyConserved` follows. `FundingPassesConverge` follows a pass through its
withdrawals, bucket by bucket: what they report to the tax is at most what they took, so
income grows by at most that and the taxable benefits by at most three quarters more, and the
tax, rounded once, by 7/`TaxDivisor` of it and a unit; and a pass that could not take its
whole gap found every bucket empty in turn.

**The browser.** `CInv` is about the pool, the session the client is active in and what
the dispatcher has handed out so far; sockets and timers do not enter it. An inbox is in
order in the host's sense (the lemmas are shared), and holds the run of its slot's request,
once (`Inboxes`). A request waits or is current, in one place, and is pending exactly then;
what waits is of the active session (`Holders`, `Pending`). Nothing waits while a worker is
idle (`Full`), because `tryDispatchAcrossPool` runs after whatever frees a slot and
takes every idle slot in turn: `after` is unfolded slot by slot, and each one either stays
idle because the queue has run empty or becomes busy. A batch that comes in is not pending:
the dispatcher numbers the batches of a session upwards and sessions too (`Fresh`), so
the runs of a session that was given up, which go on occupying slots and pending, never
name a new batch. `QueueIsOfSession` has no run of its own: it says why
`cancelMinerSession` may reject all that waits without looking at its session.

**Model-checked only:**

- `WindfallCountedOnce` and the two other properties of section 5, which TLC refutes.
- All liveness, which is beyond the prover.

## 8. What is not modelled

Left out of the modelled parts because it cannot matter to these properties:
progress broadcasts, listing endpoints, metrics, log lines, the wire format, decision
traces. Left out because the code cannot reach it: the host's engine-version branch
during a run, and its fallback for a slot that vanished after it was found free. A graceful
shutdown of the dispatcher is `Cancel` followed by `Crash`. A throwing message
handler ends the process and is a `Crash`. Left out though the code can reach it: hosts
of another build, which `hostDispatchBlockedReason` never feeds
(`cluster/dispatcher.ts:316-322`): they are not in `Peer`. An append that throws after part of
its chunk with the process alive (a disk that fills up): `AppendThrows` writes nothing, and
`Corpus` writes part of a chunk only when the process is killed, so records that the
requeue would write again are not covered by `OneRecordEach` and `NoDuplicates`. A
WebSocket constructor that throws on a malformed address
(`src/cluster-client.ts:349-357`). A failing `fdatasync` is swallowed by the code
and taken as successful here (see the hazard list).

Of the other parts, in the order in which they would be worth modelling:

1. The host's supervisor: reconnect backoff, auto-update decision, the launcher
   that rolls back, the headless controller with an adopted session.
2. The single-machine mining loop (`src/policy-miner.ts`) and its IndexedDB corpus.
3. The parts of the trial before and after the year loop: schedules, home sale,
   long-term-care draws, the percentiles over trials.
4. Matching of transactions in the spending feed; caches keyed by fingerprints.

Out of reach or of little use: the numerical side of the engines in TypeScript and Rust
(real-valued, with random draws; the repository's parity tests cover it), the spend
solver's searches over it, rendering, mail and CSV ingestion, deployment files.
The UI is most of the repository's lines and keeps no protocol state.

## 9. Running

In this directory:

    tlc -workers 2 -config MCDispatcher.cfg MCDispatcher
    tlapm DispatcherProofs.tla

`PROJECT.json` names every run, the source lines of every definition, and for each
property of a passing run a mutant that it catches.
