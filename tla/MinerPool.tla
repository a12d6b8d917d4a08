------------------------------ MODULE MinerPool ------------------------------
(***************************************************************************)
(* The browser's pool of policy-miner workers (src/policy-miner-pool.ts)   *)
(* and the workers themselves (src/policy-miner.worker.ts): one request    *)
(* per batch, a queue shared by all slots, sessions primed in every        *)
(* worker.  Operators from one pool to another, for the module that owns   *)
(* the pool.                                                               *)
(*                                                                         *)
(* A run never returns to the worker's event loop (evaluatePolicy awaits   *)
(* nothing that does), so the worker reads no message until its run is     *)
(* over: a run is its message at the head of the inbox, and a `cancel` is  *)
(* read when the run it names has answered.  It is left out.               *)
(***************************************************************************)
EXTENDS Integers, Sequences, FiniteSets, SequencesExt

CONSTANTS
  Worker,     \* the worker slots
  NoRequest   \* what an idle slot has

(* queue: queuedRequests.  pending: pendingByRequestId.  current: each      *)
(* slot's currentRequestId, NoRequest when it is not busy.  inbox: messages *)
(* posted and not handled.  primed: the worker's primedSessions.  loaded:   *)
(* the workers that handled a message.  broken: those whose script did not  *)
(* load; nothing ever handles their messages, which are not kept here.      *)
EmptyPool ==
  [ queue |-> <<>>, pending |-> {}, current |-> [w \in Worker |-> NoRequest],
    inbox |-> [w \in Worker |-> <<>>], primed |-> [w \in Worker |-> {}],
    loaded |-> {}, broken |-> {} ]

Prime(s) == [kind |-> "prime", session |-> s]
Unprime(s) == [kind |-> "unprime", session |-> s]
Run(r) == [kind |-> "run", request |-> r]

PostToAll(pool, m) ==
  [pool EXCEPT !.inbox = [w \in Worker |-> IF w \in pool.broken THEN <<>> ELSE Append(@[w], m)]]

PrimeMinerSession(pool, s) == PostToAll(pool, Prime(s))
UnprimeMinerSession(pool, s) == PostToAll(pool, Unprime(s))

(* dispatchQueued: an idle slot takes up the head of the queue.             *)
DispatchQueued(pool, w) ==
  IF pool.current[w] # NoRequest \/ pool.queue = <<>> THEN pool
  ELSE [pool EXCEPT !.queue = Tail(@), !.current[w] = Head(pool.queue),
                    !.inbox[w] = IF w \in pool.broken THEN <<>>
                                 ELSE Append(@, Run(Head(pool.queue)))]

(* Mutant: only the first slot is tried.                                    *)
TryDispatchFirst(pool) == DispatchQueued(pool, CHOOSE w \in Worker : TRUE)

(* tryDispatchAcrossPool: every idle slot in turn; after[k] is what k of    *)
(* them leave behind.                                                       *)
TryDispatchAcrossPool(pool) ==
  LET order == SetToSeq(Worker)
      after[k \in 0 .. Len(order)] ==
        IF k = 0 THEN pool ELSE DispatchQueued(after[k - 1], order[k])
  IN  after[Len(order)]

RunPolicyBatch(pool, r) ==
  TryDispatchAcrossPool([pool EXCEPT !.queue = Append(@, r), !.pending = @ \cup {r}])

(* Mutant: requests that wait are left waiting.                             *)
CancelKeepsQueue(pool) == pool

(* cancelMinerSession: what waits is rejected; a slot stays busy until its  *)
(* worker answers.                                                          *)
CancelMinerSession(pool) ==
  [pool EXCEPT !.queue = <<>>, !.pending = @ \ Range(pool.queue)]

(* The worker handles prime and unprime.                                    *)
HandlesSession(pool, w) ==
  LET m == Head(pool.inbox[w])
  IN  [pool EXCEPT !.inbox[w] = Tail(@), !.loaded = @ \cup {w},
                   !.primed[w] = IF m.kind = "prime" THEN @ \cup {m.session}
                                 ELSE @ \ {m.session}]

(* Mutant: a slot that answered takes up nothing.                           *)
AnsweredAndIdle(pool, w) ==
  [pool EXCEPT !.inbox[w] = Tail(@), !.pending = @ \ {pool.current[w]}, !.current[w] = NoRequest]

(* It ends a run, with every evaluation, with an error after some of them,  *)
(* or at once when the session is not primed; handleMessage settles the     *)
(* request and gives the slot its next one.                                 *)
Answered(pool, w) ==
  DispatchQueued([pool EXCEPT !.inbox[w] = Tail(@), !.pending = @ \ {pool.current[w]},
                              !.current[w] = NoRequest], w)

(* handleError: the script of the worker failed to load, and never will;    *)
(* its request is rejected and the slot given the next one.                 *)
FailsToLoad(pool, w) ==
  DispatchQueued([pool EXCEPT !.pending = @ \ {pool.current[w]}, !.current[w] = NoRequest,
                              !.inbox[w] = <<>>, !.broken = @ \cup {w}], w)
-----------------------------------------------------------------------------
IsRun(m) == m.kind = "run"

(* How many runs of request r are with the worker of slot w.                *)
RunsOf(pool, w, r) ==
  Cardinality({i \in DOMAIN pool.inbox[w] : pool.inbox[w][i] = Run(r)})
=============================================================================
