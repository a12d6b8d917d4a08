-------------------------------- MODULE Host --------------------------------
(***************************************************************************)
(* A host of the policy-mining cluster (cluster/host.ts): the batches its  *)
(* dispatcher assigns, the local queue for those that find every slot      *)
(* busy, the fan-out of a batch over the worker threads, and what the      *)
(* workers (cluster/host-worker.ts) make of the messages they are posted.  *)
(* A handler of the host's main thread runs to its first await, and what   *)
(* a worker's reply resumes runs right after it: one action each.          *)
(*                                                                         *)
(* The dispatcher is reduced to what one host sees of it (module           *)
(* Dispatcher has the rest): the session it runs, the numbering of its     *)
(* batches and which of them it counts as outstanding here.  It reacts to  *)
(* an answer when its ack arrives; a lost connection loses both.           *)
(***************************************************************************)
EXTENDS Integers, Sequences, FiniteSets, SequencesExt

CONSTANTS
  WorkerCount,        \* HOST_WORKER_COUNT
  MAX_QUEUE_DEPTH,    \* 4 in the code
  Depth,              \* batches the dispatcher keeps outstanding here
  Batches,            \* the policy lists a batch may have
  TwoStage,           \* whether sessions have a coarse stage
  Interleaves,        \* whether a worker reads messages during a run
  MaxSessions, MaxSeq, MaxDrops, MaxRenumberings, MaxFaults  \* bounds of the model

ASSUME HostAssumption ==
  /\ WorkerCount \in Nat \ {0} /\ MAX_QUEUE_DEPTH \in Nat /\ Depth \in Nat \ {0}
  /\ \A ps \in Batches : ps \in Seq(Range(ps)) /\ ps # <<>> /\ IsInjective(ps)
  /\ TwoStage \in BOOLEAN /\ Interleaves \in BOOLEAN
  /\ {MaxSessions, MaxSeq, MaxDrops, MaxRenumberings, MaxFaults} \subseteq Nat

Slot == 1 .. WorkerCount

VARIABLES
  main,     \* the host's main thread
  worker,   \* the worker threads
  link,     \* whether host and dispatcher are connected
  dispatch, \* the dispatcher as this host sees it
  used      \* how much of each bound is used up

hostVars == <<main, worker, link, dispatch, used>>

Nothing == [x \in {} |-> x]
Without(f, x) == [y \in DOMAIN f \ {x} |-> f[y]]
With(f, x, v) == [y \in DOMAIN f \cup {x} |-> IF y = x THEN v ELSE f[y]]
LesserOf(a, b) == IF a < b THEN a ELSE b

(* main: the active session (0 for none), the slots' busy flags and        *)
(* primedSessionIds, pendingRuns, the batches being run, pendingBatchQueue,*)
(* inFlightBatchIds, the messages posted to each worker and not read yet,  *)
(* and the answers on their way to the dispatcher.                         *)
IdleMain ==
  [ active |-> 0, busy |-> [w \in Slot |-> FALSE], primedIds |-> [w \in Slot |-> {}],
    pending |-> {}, running |-> Nothing, queue |-> <<>>, inFlight |-> {},
    inbox |-> [w \in Slot |-> <<>>], answers |-> {} ]

FreshWorker == [alive |-> TRUE, primed |-> {}, cancelled |-> {}, runs |-> {}]

Init ==
  /\ main = IdleMain
  /\ worker = [w \in Slot |-> FreshWorker]
  /\ link = "down"
  /\ dispatch = [session |-> 0, coarse |-> FALSE, seq |-> 0, outstanding |-> Nothing]
  /\ used = [sessions |-> 0, drops |-> 0, renumberings |-> 0, faults |-> 0]
-----------------------------------------------------------------------------
(* The main thread's helpers, from one main state to another.              *)

Free(h) == {w \in Slot : ~h.busy[w]}
PostAll(h, W, msg) ==
  [h EXCEPT !.inbox = [w \in Slot |-> IF w \in W THEN Append(@[w], msg) ELSE @[w]]]

Prime(s) == [kind |-> "prime", session |-> s]
Unprime(s) == [kind |-> "unprime", session |-> s]
CancelRun(r) == [kind |-> "cancel", run |-> r]
Run(r, ps) == [kind |-> "run", run |-> r, policies |-> ps]
RunId(id, i) == [session |-> id[1], batch |-> id, part |-> i]
Nack(id, reason) == [id |-> id, kind |-> reason, evaluations |-> <<>>]

(* Mutant: the flags are set for every slot, the message goes to free ones.*)
PrimeFreeSlots(h, s) ==
  LET W == {w \in Free(h) : s \notin h.primedIds[w]}
  IN  [PostAll(h, W, Prime(s)) EXCEPT !.primedIds = [w \in Slot |-> @[w] \cup {s}]]

(* primeAllSlotsForSession.                                                *)
PrimeAllSlots(h, s) ==
  LET W == {w \in Slot : s \notin h.primedIds[w]}
  IN  [PostAll(h, W, Prime(s)) EXCEPT !.primedIds = [w \in Slot |-> @[w] \cup {s}]]

UnprimeAllSlots(h, s) ==
  LET W == {w \in Slot : s \in h.primedIds[w]}
  IN  [PostAll(h, W, Unprime(s)) EXCEPT !.primedIds = [w \in Slot |-> @[w] \ {s}]]

(* Every pending run is cancelled at every worker: only the one that has   *)
(* the run acts on it.                                                     *)
CancelAllInFlight(h) ==
  LET cancels == [i \in 1 .. Cardinality(h.pending) |->
                    CancelRun(SetToSeq(h.pending)[i])]
  IN  [h EXCEPT !.inbox = [w \in Slot |-> @[w] \o cancels]]

(* partitionPolicies: n contiguous slices, the first ones longer by one.   *)
PartitionPolicies(ps, n) ==
  LET base == Len(ps) \div n
      extra == Len(ps) % n
      start(i) == (i - 1) * base + LesserOf(i - 1, extra)
  IN  [i \in 1 .. n |-> SubSeq(ps, start(i) + 1, start(i + 1))]

(* handleBatchAssign from its slot check on, with a free slot: priming,    *)
(* and runBatchOnPool, which hands slice k to the k-th free slot.          *)
StartBatch(h, b) ==
  LET primed  == PrimeAllSlots(h, b.id[1])
      n       == LesserOf(Len(b.policies), Cardinality(Free(h)))
      rank(w) == Cardinality({v \in Free(h) : v <= w})
      slots   == {w \in Free(h) : rank(w) <= n}
      slices  == PartitionPolicies(b.policies, n)
      run(w)  == RunId(b.id, IF n = 1 THEN 0 ELSE rank(w))
  IN  [primed EXCEPT
         !.inFlight = @ \cup {b.id},
         !.pending  = @ \cup {run(w) : w \in slots},
         !.running  = With(@, b.id, [parts |-> n, done |-> Nothing]),
         !.busy     = [w \in Slot |-> @[w] \/ w \in slots],
         !.inbox    = [w \in Slot |-> IF w \in slots
                         THEN Append(@[w], Run(run(w), slices[rank(w)])) ELSE @[w]]]

(* handleBatchAssign: a batch of another session is turned away; one that  *)
(* finds every slot busy waits, if there is room.                          *)
HandleBatchAssign(h, b) ==
  IF h.active # b.id[1]
  THEN [h EXCEPT !.answers = @ \cup {Nack(b.id, "no_active_session")}]
  ELSE IF Free(h) # {} THEN StartBatch(h, b)
  ELSE IF Len(h.queue) >= MAX_QUEUE_DEPTH
  THEN [h EXCEPT !.answers = @ \cup {Nack(b.id, "host_no_free_slots")}]
  ELSE [h EXCEPT !.queue = Append(@, b), !.inFlight = @ \cup {b.id}]

(* Mutant: the batch taken up stays in the queue. *)
DrainPeeks(h) ==
  IF h.queue = <<>> \/ Free(h) = {} THEN h
  ELSE HandleBatchAssign([h EXCEPT !.inFlight = @ \ {Head(h.queue).id}], Head(h.queue))

(* drainPendingBatchQueue: queued batches are taken up while a slot is     *)
(* free; state[k] is what k of them leave behind.                          *)
Drain(h) ==
  LET state[k \in 0 .. Len(h.queue)] ==
        IF k = 0 THEN h
        ELSE LET b == h.queue[k]
             IN  HandleBatchAssign(
                   [state[k - 1] EXCEPT !.queue = Tail(@), !.inFlight = @ \ {b.id}], b)
      last == CHOOSE k \in 0 .. Len(h.queue) :
                /\ k = Len(h.queue) \/ Free(state[k]) = {}
                /\ \A j \in 0 .. k - 1 : Free(state[j]) # {}
  IN  state[last]

(* The merged result of a batch whose slices have all come back.           *)
Answer(h, id) ==
  LET b == h.running[id]
      slice(i) == b.done[IF b.parts = 1 THEN 0 ELSE i]
  IN  [ id |-> id,
        kind |-> IF \A i \in DOMAIN b.done : b.done[i].ok THEN "result" ELSE "partial",
        evaluations |-> FlattenSeq([i \in 1 .. b.parts |-> slice(i).evaluations]) ]

(* Mutants: a failed slice is overlooked; the queue is left alone. *)
FinishBatchOverlooksFailure(h, id) ==
  Drain([h EXCEPT !.running = Without(@, id),
                  !.answers = @ \cup {[Answer(h, id) EXCEPT !.kind = "result"]}])

FinishBatchLeavesQueue(h, id) ==
  [h EXCEPT !.running = Without(@, id), !.answers = @ \cup {Answer(h, id)}]

(* finalize with every slice answered, and the rest of handleBatchAssign:  *)
(* the merged result is sent, as a partial failure if a slice failed, and  *)
(* the queue drained.                                                      *)
FinishBatch(h, id) ==
  Drain([h EXCEPT !.running = Without(@, id), !.answers = @ \cup {Answer(h, id)}])

(* handleWorkerMessage: slot w replies to run r.                           *)
HandleReply(h, w, r, ok, evaluations) ==
  IF r \notin h.pending THEN h
  ELSE LET answered == [h EXCEPT
             !.pending = @ \ {r},
             !.busy[w] = FALSE,
             !.running[r.batch].done =
               With(@, r.part, [ok |-> ok, evaluations |-> evaluations])]
       IN  IF Cardinality(DOMAIN answered.running[r.batch].done)
                = answered.running[r.batch].parts
           THEN FinishBatch(answered, r.batch) ELSE answered

(* handleStartSession: a session still active is unprimed first.           *)
HandleStartSession(h, s) ==
  [(IF h.active # 0 THEN UnprimeAllSlots(h, h.active) ELSE h) EXCEPT !.active = s]

HandleCancelSession(h, s) ==
  IF h.active # s THEN h
  ELSE [UnprimeAllSlots(CancelAllInFlight(h), s) EXCEPT !.queue = <<>>, !.active = 0]

(* Mutant: slots stay busy until their worker replies. *)
ResetKeepsSlots(h) ==
  [CancelAllInFlight(h) EXCEPT
     !.active = 0, !.primedIds = [w \in Slot |-> {}],
     !.pending = {}, !.running = Nothing, !.queue = <<>>, !.inFlight = {}, !.answers = {}]

(* resetPeerScopedState when the socket closed: runs are given up, every   *)
(* slot is taken for free.                                                 *)
ResetPeerScopedState(h) ==
  [CancelAllInFlight(h) EXCEPT
     !.active = 0, !.busy = [w \in Slot |-> FALSE], !.primedIds = [w \in Slot |-> {}],
     !.pending = {}, !.running = Nothing, !.queue = <<>>, !.inFlight = {}, !.answers = {}]
-----------------------------------------------------------------------------
(* Connection and dispatcher *)

(* register and welcome; a session that is live is announced.              *)
Connect ==
  /\ link = "down"
  /\ link' = "up"
  /\ main' = IF dispatch.session # 0 THEN HandleStartSession(main, dispatch.session)
             ELSE main
  /\ UNCHANGED <<worker, dispatch, used>>

(* The socket closes at both ends: the dispatcher requeues, the host drops *)
(* what it holds.                                                          *)
Disconnect ==
  /\ link = "up" /\ used.drops < MaxDrops
  /\ link' = "down"
  /\ used' = [used EXCEPT !.drops = @ + 1]
  /\ main' = ResetPeerScopedState(main)
  /\ dispatch' = [dispatch EXCEPT !.outstanding = Nothing]
  /\ UNCHANGED worker

(* The host process dies and is started again.                             *)
HostRestarts ==
  /\ used.drops < MaxDrops
  /\ used' = [used EXCEPT !.drops = @ + 1]
  /\ main' = IdleMain
  /\ worker' = [w \in Slot |-> FreshWorker]
  /\ link' = "down"
  /\ dispatch' = [dispatch EXCEPT !.outstanding = Nothing]

(* The dispatcher starts a session and tells the host.                     *)
StartSession ==
  LET s == used.sessions + 1
  IN  /\ dispatch.session = 0 /\ used.sessions < MaxSessions
      /\ used' = [used EXCEPT !.sessions = s]
      /\ dispatch' = [ session |-> s, coarse |-> TwoStage, seq |-> 0,
                       outstanding |-> Nothing ]
      /\ main' = IF link = "up" THEN HandleStartSession(main, s) ELSE main
      /\ UNCHANGED <<worker, link>>

(* It ends the session, cancelled or completed.                            *)
EndSession ==
  /\ dispatch.session # 0
  /\ dispatch' = [dispatch EXCEPT !.session = 0, !.outstanding = Nothing]
  /\ main' = IF link = "up" THEN HandleCancelSession(main, dispatch.session) ELSE main
  /\ UNCHANGED <<worker, link, used>>

(* It numbers batches from 1 again within the session: the fine stage gets *)
(* a queue of its own, and so does a session resumed after a crash.        *)
Renumber ==
  /\ dispatch.session # 0 /\ dispatch.outstanding = Nothing
  /\ dispatch.coarse \/ link = "down"
  /\ used.renumberings < MaxRenumberings
  /\ used' = [used EXCEPT !.renumberings = @ + 1]
  /\ dispatch' = [dispatch EXCEPT !.coarse = FALSE, !.seq = 0]
  /\ UNCHANGED <<main, worker, link>>

OutstandingPolicies ==
  UNION {Range(dispatch.outstanding[id].policies) : id \in DOMAIN dispatch.outstanding}

(* It assigns a batch, and batch_assign arrives.                           *)
Assign(ps) ==
  LET b == [id |-> <<dispatch.session, dispatch.seq + 1>>, policies |-> ps]
  IN  /\ link = "up" /\ dispatch.session # 0
      /\ Cardinality(DOMAIN dispatch.outstanding) < Depth
      /\ dispatch.seq < MaxSeq
      /\ Range(ps) \cap OutstandingPolicies = {}
      /\ dispatch' = [dispatch EXCEPT !.seq = @ + 1, !.outstanding = With(@, b.id, b)]
      /\ main' = HandleBatchAssign(main, b)
      /\ UNCHANGED <<worker, link, used>>

(* It handles an answer; a result is acked, a nack is not.                 *)
ReceiveAnswer(a) ==
  /\ dispatch' = [dispatch EXCEPT !.outstanding = Without(@, a.id)]
  /\ main' = [main EXCEPT
                !.answers = @ \ {a},
                !.inFlight = IF a.kind \in {"result", "partial"} THEN @ \ {a.id} ELSE @]
  /\ UNCHANGED <<worker, link, used>>
-----------------------------------------------------------------------------
(* Workers *)

(* A worker reads its next message; a run of a session it does not know is *)
(* answered with an error at once.                                         *)
ReadMessage(w) ==
  /\ worker[w].alive /\ main.inbox[w] # <<>>
  /\ Interleaves \/ worker[w].runs = {}
  /\ LET m == Head(main.inbox[w])
         h == [main EXCEPT !.inbox[w] = Tail(@)]
         unknown == m.kind = "run" /\ m.run.session \notin worker[w].primed
     IN  /\ worker' =
              CASE m.kind = "prime"   -> [worker EXCEPT ![w].primed = @ \cup {m.session}]
                [] m.kind = "unprime" -> [worker EXCEPT ![w].primed = @ \ {m.session}]
                [] m.kind = "cancel"  -> [worker EXCEPT ![w].cancelled = @ \cup {m.run}]
                [] OTHER -> [worker EXCEPT ![w].cancelled = @ \ {m.run},
                                           ![w].runs = IF unknown THEN @ ELSE @ \cup {m}]
         /\ main' = IF unknown THEN HandleReply(h, w, m.run, FALSE, <<>>) ELSE h
  /\ UNCHANGED <<link, dispatch, used>>

(* A run ends with all its evaluations.                                    *)
FinishRun(w, m) ==
  /\ worker' = [worker EXCEPT ![w].runs = @ \ {m}]
  /\ main' = HandleReply(main, w, m.run, TRUE, m.policies)
  /\ UNCHANGED <<link, dispatch, used>>

(* It ends early, with the first k: cancelled, or the engine threw.        *)
StopRun(w, m, k) ==
  /\ \/ m.run \in worker[w].cancelled /\ UNCHANGED used
     \/ /\ used.faults < MaxFaults
        /\ used' = [used EXCEPT !.faults = @ + 1]
  /\ worker' = [worker EXCEPT ![w].runs = @ \ {m}, ![w].cancelled = @ \ {m.run}]
  /\ main' = HandleReply(main, w, m.run, FALSE, SubSeq(m.policies, 1, k))
  /\ UNCHANGED <<link, dispatch>>

(* A worker thread crashes: its slot is marked busy.                       *)
WorkerCrashes(w) ==
  /\ worker[w].alive
  /\ used.faults < MaxFaults
  /\ used' = [used EXCEPT !.faults = @ + 1]
  /\ worker' = [worker EXCEPT ![w] = [FreshWorker EXCEPT !.alive = FALSE]]
  /\ main' = [main EXCEPT !.busy[w] = TRUE, !.inbox[w] = <<>>]
  /\ UNCHANGED <<link, dispatch>>
-----------------------------------------------------------------------------
DispatcherActs ==
  \/ StartSession \/ EndSession \/ Renumber
  \/ \E ps \in Batches : Assign(ps)
  \/ \E a \in main.answers : ReceiveAnswer(a)

Runs(w) ==
  \E m \in worker[w].runs :
    FinishRun(w, m) \/ \E k \in 0 .. Len(m.policies) - 1 : StopRun(w, m, k)
WorkerActs(w) == ReadMessage(w) \/ Runs(w) \/ WorkerCrashes(w)

Next ==
  \/ Connect \/ Disconnect \/ HostRestarts
  \/ DispatcherActs
  \/ \E w \in Slot : WorkerActs(w)

Spec == Init /\ [][Next]_hostVars

(* A worker thread that lives reads its messages and ends its runs.        *)
FairSpec == Spec /\ \A w \in Slot : WF_hostVars(ReadMessage(w) \/ Runs(w))
-----------------------------------------------------------------------------
(* Properties *)

(* The fields of the main thread, the link and the dispatcher hold what    *)
(* their declarations say, what a batch being run waits for included.      *)
(* inFlight and what the worker threads hold are left open.                *)
TypeOK ==
  /\ main.active \in 0 .. MaxSessions
  /\ main.busy \in [Slot -> BOOLEAN]
  /\ main.primedIds \in [Slot -> SUBSET (1 .. MaxSessions)]
  /\ {r.batch : r \in main.pending} = DOMAIN main.running
  /\ \A id \in DOMAIN main.running :
       DOMAIN main.running[id].done \subseteq 0 .. main.running[id].parts
  /\ Len(main.queue) <= MAX_QUEUE_DEPTH
  /\ \A w \in Slot : \A i \in DOMAIN main.inbox[w] :
       main.inbox[w][i].kind \in {"prime", "unprime", "cancel", "run"}
  /\ \A a \in main.answers :
       a.kind \in {"result", "partial", "no_active_session", "host_no_free_slots"}
  /\ link \in {"up", "down"}
  /\ \A w \in Slot : worker[w].alive \in BOOLEAN
  /\ used.sessions \in 0 .. MaxSessions
  /\ dispatch.coarse \in BOOLEAN
  /\ dispatch.session \in 0 .. MaxSessions /\ dispatch.seq \in 0 .. MaxSeq

Current(id) == dispatch.session # 0 /\ id \in DOMAIN dispatch.outstanding

(* Every batch the dispatcher counts as outstanding here is in exactly one *)
(* place: waiting in the queue once, being run, or answered and on its     *)
(* way.  Fan-out, draining, cancels and reconnects lose none and answer    *)
(* none twice.                                                             *)
AssignedIsHeld ==
  \A id \in DOMAIN dispatch.outstanding :
    Cardinality({i \in DOMAIN main.queue : main.queue[i].id = id})
      + (IF id \in DOMAIN main.running THEN 1 ELSE 0)
      + Cardinality({a \in main.answers : a.id = id}) = 1

(* A result that reports no failure has the evaluations of the batch's own *)
(* policies, all of them, in their order, however the batch was sliced and *)
(* in whatever order the slices came back.                                 *)
ResultsAreWhole ==
  \A a \in main.answers : Current(a.id) /\ a.kind = "result" =>
    a.evaluations = dispatch.outstanding[a.id].policies

(* As many slots are busy as runs are pending, until a worker crashes: a   *)
(* slot not freed is capacity lost until the host is restarted.            *)
BusyCountsRuns ==
  (\A w \in Slot : worker[w].alive) =>
    Cardinality({w \in Slot : main.busy[w]}) = Cardinality(main.pending)

(* A worker never meets a run of a session it was not primed for: prime,   *)
(* unprime and run reach it in an order that works out, through sessions   *)
(* that replace each other and reconnects that forget what was primed.     *)
RunsArePrimed ==
  \A w \in Slot : worker[w].alive /\ main.inbox[w] # <<>> =>
    LET m == Head(main.inbox[w])
    IN  m.kind = "run" => m.run.session \in worker[w].primed

Answered(id) == id \notin DOMAIN dispatch.outstanding \/ \E a \in main.answers : a.id = id

(* A run that no living worker has been posted or is at: its thread        *)
(* crashed, and nothing in the host will ever settle it.                   *)
LostRun(r) ==
  \A w \in Slot : worker[w].alive =>
    /\ \A m \in worker[w].runs : m.run # r
    /\ \A i \in DOMAIN main.inbox[w] :
         main.inbox[w][i].kind = "run" => main.inbox[w][i].run # r
LosesRun(id) == \E r \in main.pending : r.batch = id /\ LostRun(r)

(* A batch is stuck if a run of its own is lost, or if it is queued and    *)
(* every batch being run has lost a run (one at least is being run, or no  *)
(* worker lives): the queue is drained only when a batch finishes          *)
(* (host.ts:1421), so it waits even with a living worker free.             *)
Stuck(id) ==
  \/ LosesRun(id)
  \/ /\ \E i \in DOMAIN main.queue : main.queue[i].id = id
     /\ main.running # Nothing \/ \A w \in Slot : ~worker[w].alive
     /\ \A other \in DOMAIN main.running : LosesRun(other)

(* Every batch outstanding here is answered or given up by the dispatcher, *)
(* whatever fails or crashes on the way, but for those a crashed worker    *)
(* leaves stuck for good, in the sense above: a batch next to a half-      *)
(* crashed one, or queued behind one while another can still finish, is    *)
(* answered.  (Sessions, batches and faults are bounded, so what is never  *)
(* answered is outstanding in the end.)                                    *)
EveryBatchIsAnswered ==
  <>[](\A id \in DOMAIN dispatch.outstanding : Answered(id) \/ Stuck(id))
=============================================================================
