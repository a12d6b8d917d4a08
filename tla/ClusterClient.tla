---------------------------- MODULE ClusterClient ----------------------------
(***************************************************************************)
(* The browser's cluster client (src/cluster-client.ts) on top of its      *)
(* worker pool (module MinerPool): the sockets it opens, its reconnect     *)
(* timer, the session it is host for, and the batches it is assigned.      *)
(* One action per event the browser delivers: a call by the user, an event *)
(* of a socket, a timer, a message of a worker.  What a handler's promises *)
(* resume runs before the next event, in the same action.                  *)
(*                                                                         *)
(* Every socket has its own listeners, but all of them act on the one      *)
(* `socket` the client holds: the close listener sets it to null whichever *)
(* socket closed.  So the sockets are kept apart here.                     *)
(*                                                                         *)
(* The dispatcher (module Dispatcher has the rest) is reduced to what this *)
(* peer sees of it: which sockets are registered, the session it runs, the *)
(* batches outstanding with each registration, and the sweep of the ones   *)
(* that send no heartbeat.                                                 *)
(***************************************************************************)
EXTENDS MinerPool

CONSTANTS
  Socket,        \* sockets that may exist at one time
  Depth,         \* batches the dispatcher keeps outstanding with a host
  MaxCalls, MaxDrops, MaxRejections, MaxSessions, MaxSeq, MaxBroken  \* bounds

Request == [session : 1 .. MaxSessions, batch : 1 .. MaxSeq]

ASSUME ClusterClientAssumption ==
  /\ Worker # {} /\ IsFiniteSet(Worker) /\ NoRequest \notin Request
  /\ Socket # {} /\ Socket \subseteq Nat \ {0} /\ IsFiniteSet(Socket)
  /\ Depth \in Nat \ {0}
  /\ {MaxCalls, MaxDrops, MaxRejections, MaxSessions, MaxSeq, MaxBroken} \subseteq Nat

VARIABLES
  client,   \* the snapshot's state and the client's own variables
  sockets,  \* every WebSocket, and the dispatcher's end of it
  pool,     \* the worker pool
  session,  \* the session the dispatcher runs, 0 for none
  used      \* how much of each bound is used up

clientVars == <<client, sockets, pool, session, used>>

(* phase is the readyState; registered and outstanding are the             *)
(* dispatcher's peer for this socket.                                      *)
Closed == [phase |-> "closed", registered |-> FALSE, outstanding |-> {}]

Init ==
  /\ client = [ state |-> "idle", socket |-> 0, welcomed |-> FALSE,
                intentionallyClosed |-> FALSE, reconnectTimer |-> FALSE,
                heartbeatTimer |-> FALSE, activeSession |-> 0 ]
  /\ sockets = [s \in Socket |-> Closed]
  /\ pool = EmptyPool
  /\ session = 0
  /\ used = [calls |-> 0, drops |-> 0, rejections |-> 0, sessions |-> 0, seq |-> 0]

Spend(bound) == used' = [used EXCEPT ![bound] = @ + 1]

IsOpen(s) == s # 0 /\ sockets[s].phase = "open"
Closable(k, s) == s # 0 /\ k[s].phase \in {"connecting", "open"}
-----------------------------------------------------------------------------
(* Sockets *)

(* socket?.close(): the socket closes later, with an event of its own.     *)
Close(k, s) == IF Closable(k, s) THEN [k EXCEPT ![s].phase = "closing"] ELSE k

CloseCurrent == Close(sockets, client.socket)

(* openSocket, from client c and sockets k: nothing if the current socket  *)
(* is open or opening, and a new one otherwise, with a socket that is      *)
(* still closing next to it.  A constructor that throws (a malformed       *)
(* address) is left out.                                                   *)
OpenSocket(c, k) ==
  IF Closable(k, c.socket)
  THEN /\ client' = [c EXCEPT !.intentionallyClosed = FALSE]
       /\ sockets' = k
  ELSE LET new == {s \in Socket : k[s].phase = "closed"}
           s   == CHOOSE s \in new : \A t \in new : s <= t
       IN  /\ new # {}
           /\ client' = [c EXCEPT !.state = "connecting", !.welcomed = FALSE, !.socket = s,
                                  !.intentionallyClosed = FALSE]
           /\ sockets' = [k EXCEPT ![s].phase = "connecting"]

(* The open event: `register` is sent.  The welcome comes later.           *)
SocketOpens(s) ==
  /\ sockets[s].phase = "connecting"
  /\ sockets' = [sockets EXCEPT ![s].phase = "open"]
  /\ UNCHANGED <<client, pool, session, used>>

(* Giving a session up: what waits is rejected, every worker unprimed.     *)
GiveUp(p, s) == IF s = 0 THEN p ELSE UnprimeMinerSession(CancelMinerSession(p), s)

(* Mutant: the timer is not set.                                           *)
CloseEventForgetsTimer(s) ==
  /\ client' = [client EXCEPT
       !.socket = 0, !.heartbeatTimer = FALSE, !.activeSession = 0, !.reconnectTimer = FALSE,
       !.state = IF client.intentionallyClosed THEN "disconnected" ELSE "error",
       !.welcomed = @ /\ ~client.intentionallyClosed]
  /\ sockets' = [sockets EXCEPT ![s] = Closed]
  /\ pool' = GiveUp(pool, client.activeSession)
  /\ UNCHANGED session

(* The close listener, whichever socket it is of, and the dispatcher's end *)
(* of that socket: the session is given up, and a reconnect scheduled      *)
(* unless the user closed.  The answers of rejected requests find no       *)
(* socket.                                                                 *)
CloseEvent(s) ==
  /\ client' = [client EXCEPT
       !.socket = 0, !.heartbeatTimer = FALSE, !.activeSession = 0,
       !.reconnectTimer = ~client.intentionallyClosed,
       !.state = IF client.intentionallyClosed THEN "disconnected" ELSE "error",
       !.welcomed = @ /\ ~client.intentionallyClosed]
  /\ sockets' = [sockets EXCEPT ![s] = Closed]
  /\ pool' = GiveUp(pool, client.activeSession)
  /\ UNCHANGED session

(* The closing handshake ends.                                             *)
CloseCompletes(s) ==
  /\ sockets[s].phase = "closing"
  /\ CloseEvent(s)
  /\ UNCHANGED used

(* A registration that sends no heartbeat: startHeartbeat's interval sends *)
(* on the current socket only.                                             *)
Unheard(s) ==
  /\ sockets[s].registered /\ sockets[s].phase = "open"
  /\ ~(client.heartbeatTimer /\ client.welcomed /\ client.socket = s)

(* The connection is lost, the attempt fails, or the dispatcher closes the *)
(* connection in its sweep (sweepStalePeers).                              *)
ConnectionLost(s) ==
  /\ sockets[s].phase \in {"connecting", "open"}
  /\ IF Unheard(s) THEN UNCHANGED used ELSE used.drops < MaxDrops /\ Spend("drops")
  /\ CloseEvent(s)

(* scheduleReconnect's timer, and that of setDispatcherUrl.                *)
TimerFires ==
  /\ client.reconnectTimer
  /\ OpenSocket([client EXCEPT !.reconnectTimer = FALSE], sockets)
  /\ UNCHANGED <<pool, session, used>>
-----------------------------------------------------------------------------
(* The user's calls *)

Call == used.calls < MaxCalls /\ Spend("calls") /\ UNCHANGED <<pool, session>>

Connect == Call /\ OpenSocket(client, sockets)

Disconnect ==
  /\ Call
  /\ client' = [client EXCEPT !.intentionallyClosed = TRUE, !.reconnectTimer = FALSE,
                              !.heartbeatTimer = FALSE]
  /\ sockets' = CloseCurrent

Reconnect ==
  /\ Call
  /\ OpenSocket([client EXCEPT !.reconnectTimer = FALSE], CloseCurrent)

(* setDispatcherUrl with another address while connected or connecting.    *)
SetDispatcherUrl ==
  /\ Call
  /\ Closable(sockets, client.socket)
  /\ client' = [client EXCEPT !.intentionallyClosed = FALSE, !.reconnectTimer = TRUE]
  /\ sockets' = CloseCurrent
-----------------------------------------------------------------------------
(* Messages of the dispatcher *)

(* handleStartSession and handleCancelSession.                             *)
HandleStartSession(c, p, s) ==
  PrimeMinerSession(IF c.activeSession \notin {0, s} THEN GiveUp(p, c.activeSession) ELSE p, s)

(* It registers the peer: `welcome`, and the session if one is running.    *)
Welcome(s) ==
  LET c == [client EXCEPT !.state = "connected", !.welcomed = TRUE, !.heartbeatTimer = TRUE]
  IN  /\ IsOpen(s) /\ ~sockets[s].registered
      /\ sockets' = [sockets EXCEPT ![s].registered = TRUE]
      /\ client' = IF session = 0 THEN c ELSE [c EXCEPT !.activeSession = session]
      /\ pool' = IF session = 0 THEN pool ELSE HandleStartSession(c, pool, session)
      /\ UNCHANGED <<session, used>>

(* It rejects the peer: register_rejected closes the current socket, and   *)
(* the client does not try again.                                          *)
RegisterRejected(s) ==
  /\ IsOpen(s) /\ ~sockets[s].registered
  /\ used.rejections < MaxRejections /\ Spend("rejections")
  /\ client' = [client EXCEPT !.state = "error", !.intentionallyClosed = TRUE]
  /\ sockets' = CloseCurrent
  /\ UNCHANGED <<pool, session>>

Listening == {s \in Socket : IsOpen(s) /\ sockets[s].registered}

StartSession ==
  /\ session = 0 /\ used.sessions < MaxSessions
  /\ session' = used.sessions + 1
  /\ used' = [used EXCEPT !.sessions = @ + 1, !.seq = 0]
  /\ client' = IF Listening = {} THEN client ELSE [client EXCEPT !.activeSession = session']
  /\ pool' = IF Listening = {} THEN pool ELSE HandleStartSession(client, pool, session')
  /\ UNCHANGED sockets

(* The session ends, cancelled or completed.  The dispatcher forgets what  *)
(* was outstanding; the client does if cancel_session reaches it.          *)
EndSession ==
  /\ session # 0
  /\ session' = 0
  /\ sockets' = [s \in Socket |-> [sockets[s] EXCEPT !.outstanding = {}]]
  /\ IF Listening # {} /\ client.activeSession = session
     THEN /\ client' = [client EXCEPT !.activeSession = 0]
          /\ pool' = GiveUp(pool, session)
     ELSE UNCHANGED <<client, pool>>
  /\ UNCHANGED used

(* sendBatchResult and sendNack use the current socket, if it is open; the *)
(* dispatcher takes the answer off its books, or finds nothing to take.    *)
AnswerTo(k, r) ==
  IF IsOpen(client.socket)
  THEN [s \in Socket |-> [k[s] EXCEPT !.outstanding = @ \ {r}]] ELSE k

(* batch_assign: a batch of another session is nacked, another one becomes *)
(* a request of the pool.                                                  *)
BatchAssign(s) ==
  LET r == [session |-> session, batch |-> used.seq + 1]
      k == [sockets EXCEPT ![s].outstanding = @ \cup {r}]
  IN  /\ session # 0 /\ sockets[s].registered
      /\ Cardinality(sockets[s].outstanding) < Depth
      /\ used.seq < MaxSeq /\ Spend("seq")
      /\ IF IsOpen(s) /\ client.activeSession = session
         THEN sockets' = k /\ pool' = RunPolicyBatch(pool, r)
         ELSE sockets' = (IF IsOpen(s) THEN AnswerTo(k, r) ELSE k) /\ UNCHANGED pool
      /\ UNCHANGED <<client, session>>
-----------------------------------------------------------------------------
(* Workers *)

Alive(w) == w \notin pool.broken /\ pool.inbox[w] # <<>>

ReadsSession(w) ==
  /\ Alive(w) /\ ~IsRun(Head(pool.inbox[w]))
  /\ pool' = HandlesSession(pool, w)
  /\ UNCHANGED <<client, sockets, session, used>>

(* A run ends and handleBatchAssign resumes: the result goes out, whatever *)
(* connection the batch came by.                                           *)
EndsRun(w) ==
  /\ Alive(w) /\ IsRun(Head(pool.inbox[w]))
  /\ pool' = Answered(pool, w)
  /\ sockets' = AnswerTo(sockets, pool.current[w])
  /\ UNCHANGED <<client, session, used>>

(* A worker that has not handled anything yet turns out not to load.       *)
WorkerFails(w) ==
  /\ w \notin pool.broken \cup pool.loaded /\ Cardinality(pool.broken) < MaxBroken
  /\ pool.inbox[w] # <<>>
  /\ pool' = FailsToLoad(pool, w)
  /\ sockets' = IF pool.current[w] = NoRequest THEN sockets ELSE AnswerTo(sockets, pool.current[w])
  /\ UNCHANGED <<client, session, used>>
-----------------------------------------------------------------------------
SocketActs(s) ==
  \/ SocketOpens(s) \/ Welcome(s) \/ RegisterRejected(s)
  \/ CloseCompletes(s) \/ ConnectionLost(s) \/ BatchAssign(s)
WorkerActs(w) == ReadsSession(w) \/ EndsRun(w) \/ WorkerFails(w)
UserCalls == Connect \/ Disconnect \/ Reconnect \/ SetDispatcherUrl

Next ==
  \/ UserCalls \/ TimerFires \/ StartSession \/ EndSession
  \/ \E s \in Socket : SocketActs(s)
  \/ \E w \in Worker : WorkerActs(w)

Spec == Init /\ [][Next]_clientVars

(* Timers fire, a connection attempt and a closing handshake come to their *)
(* end, the dispatcher answers a registration and sweeps, workers work.    *)
FairSpec ==
  /\ Spec
  /\ WF_clientVars(TimerFires)
  /\ \A s \in Socket : /\ WF_clientVars(SocketOpens(s)) /\ WF_clientVars(CloseCompletes(s))
                       /\ WF_clientVars(Welcome(s)) /\ WF_clientVars(Unheard(s) /\ ConnectionLost(s))
  /\ \A w \in Worker : WF_clientVars(ReadsSession(w) \/ EndsRun(w))
-----------------------------------------------------------------------------
(* Properties *)

(* Every request not yet settled waits in the queue once or is the one of  *)
(* exactly one busy slot; no worker has a run of it but that slot's, which *)
(* has exactly one; and none waits while a slot is idle.  Cancels,         *)
(* reconnects and replies to requests of an earlier connection lose none   *)
(* and run none twice.  A worker that did not load has no run at all: its  *)
(* slot, given up by handleError with the request it had, takes the next   *)
(* one like any other (policy-miner-pool.ts:308-320) and keeps it unrun,   *)
(* for nothing tells the pool again.                                       *)
RequestsHeld ==
  /\ \A r \in pool.pending :
       LET slots == {w \in Worker : pool.current[w] = r}
       IN  /\ Cardinality({i \in DOMAIN pool.queue : pool.queue[i] = r}) + Cardinality(slots) = 1
           /\ \A w \in Worker : RunsOf(pool, w, r) = IF w \in slots \ pool.broken THEN 1 ELSE 0
  /\ \A w \in Worker : pool.current[w] \in pool.pending \cup {NoRequest}
  /\ Range(pool.queue) \subseteq pool.pending
  /\ pool.queue # <<>> => \A w \in Worker : pool.current[w] # NoRequest

(* A worker never meets a run of a session it was not primed for: the      *)
(* prime, unprime and run messages of sessions that replace each other,    *)
(* and of one session announced again on every connection, reach it in an  *)
(* order that works out.                                                   *)
RunsFindTheirSession ==
  \A w \in Worker : Alive(w) /\ IsRun(Head(pool.inbox[w])) =>
    Head(pool.inbox[w]).request.session \in pool.primed[w]

(* Once the network is quiet and the user is done, the client is connected *)
(* and stays so, unless it is stopped: no lost connection and no failed    *)
(* attempt leaves it without a socket and without a timer.  What stops it  *)
(* is disconnect() or a rejected registration, both of which set           *)
(* intentionallyClosed until the user calls again                          *)
(* (cluster-client.ts:469-478, 744-748).  It holds of one socket at a time *)
(* and fails when a retry opens a second one beside a closing one.         *)
StaysConnected ==
  <>[](client.state = "connected" \/ client.intentionallyClosed \/ client.state = "idle")

(* A batch assigned to the browser is answered, or its connection closed,  *)
(* or its session ended; a batch waiting behind the abandoned runs of an   *)
(* earlier connection too.  Only the slot of a worker that did not load    *)
(* keeps one.                                                              *)
BatchesAnswered ==
  \A s \in Socket, r \in Request :
    r \in sockets[s].outstanding ~>
      r \notin sockets[s].outstanding \/ \E w \in pool.broken : pool.current[w] = r
=============================================================================
