----------------------------- MODULE Dispatcher -----------------------------
(***************************************************************************)
(* The dispatcher of the policy-mining cluster (cluster/dispatcher.ts):    *)
(* peers that come and go, at most one active session, its work queue and  *)
(* its stages, and what every message handler does to them.  Node runs a   *)
(* handler to completion, so a handler is one action, the pump at its end  *)
(* included.                                                               *)
(*                                                                         *)
(* The corpus is a count of records per policy (module Corpus has the      *)
(* files), a host is the set of assignments it may still answer.  A peer   *)
(* is one registration: a machine that reconnects gets a new peer id.      *)
(***************************************************************************)
EXTENDS DispatchPump

CONSTANTS
  Enumeration,          \* the policies start_session enumerates, in order
  TwoStage,             \* whether the session config has a coarseStage
  Survivor,             \* policies whose coarse result clears the threshold
  INCOMPLETE_RESULT_QUARANTINE_THRESHOLD,  \* 2 in the code
  LateAnswers,          \* whether a swept peer's socket may still deliver
  DiskFails,            \* whether an append to the corpus may throw
  MaxSessions,          \* bound of the model: fresh sessions
  MaxFaults             \* bound of the model: nacks, short results, crashes, ...

ASSUME DispatcherAssumption ==
  /\ Enumeration \in Seq(Policy) /\ IsInjective(Enumeration)
  /\ Range(Enumeration) = Policy
  /\ TwoStage \in BOOLEAN /\ LateAnswers \in BOOLEAN /\ DiskFails \in BOOLEAN
  /\ Survivor \subseteq Policy
  /\ INCOMPLETE_RESULT_QUARANTINE_THRESHOLD \in Nat \ {0}
  /\ MaxSessions \in Nat /\ MaxFaults \in Nat

VARIABLES
  status,       \* each peer's registration: new, live, swept or gone
  host,         \* what the dispatcher keeps per live host
  session,      \* activeSession
  resumable,    \* the crashed session held for resume, 0 for none
  corpus,       \* per session: what is on disk
  owed,         \* assignments sent and not answered yet
  nextSession,  \* the id of the next fresh session
  faults        \* how much of MaxFaults is used up

dispatcherVars ==
  <<status, host, session, resumable, corpus, owed, nextSession, faults>>

SessionId == 1 .. MaxSessions
NoSession == [id |-> 0]   \* activeSession = null
NoSlots == [b \in {} |-> 0]
FreshHost == [reserved |-> NoSlots, warmed |-> FALSE, incomplete |-> 0, cooling |-> FALSE]

(* History: givenUp names the policies that were dropped, refused tells    *)
(* that the session's files could not be opened for a resume.              *)
NoCorpus == [ opened |-> FALSE, refused |-> FALSE, summary |-> "none", givenUp |-> {},
              full   |-> [p \in Policy |-> 0],
              coarse |-> [p \in Policy |-> 0] ]

(* The members of K in the order of s: what a filter over an array keeps.  *)
Precedes(s) ==
  {pr \in Range(s) \X Range(s) :
     \E i, j \in DOMAIN s : i < j /\ pr[1] = s[i] /\ pr[2] = s[j]}
KeepOnly(s, K) == Listing(Range(s) \cap K, Precedes(s))

(* A session that starts over the given policies.  built, prior and        *)
(* givenUp are history: what the queue was built over, what a resume       *)
(* counted, what earlier stages dropped.                                   *)
NewSession(id, stage, policies, prior) ==
  [ id |-> id, stage |-> stage, queue |-> NewQueue(policies, prior),
    buffer |-> <<>>, built |-> Range(policies), prior |-> prior,
    givenUp |-> {} ]

Live == {p \in Peer : status[p] = "live"}

(* A host whose build differs from the dispatcher's is never dispatchable: *)
(* such hosts are left out of Peer.                                        *)
Quarantined(h, p) == h[p].incomplete >= INCOMPLETE_RESULT_QUARANTINE_THRESHOLD
Dispatchable(h, live) == {p \in live : ~Quarantined(h, p) /\ ~h[p].cooling}
Keeps(set) == [p \in Policy |-> IF p \in set THEN 1 ELSE 0]
-----------------------------------------------------------------------------
Init ==
  /\ status = [p \in Peer |-> "new"]
  /\ host = [p \in Peer |-> FreshHost]
  /\ session = NoSession
  /\ resumable = 0
  /\ corpus = [s \in SessionId |-> NoCorpus]
  /\ owed = {}
  /\ nextSession = 1
  /\ faults = 0

(* endSession, from session s, host records h and corpus c.                *)
EndSession(s, h, c, state, live) ==
  /\ session' = NoSession
  /\ corpus' = [c EXCEPT ![s.id].summary = state,
                         ![s.id].givenUp = @ \cup s.givenUp \cup Dropped(s.queue)]
  /\ host' = [p \in Peer |-> IF p \in live THEN [h[p] EXCEPT !.reserved = NoSlots]
                                           ELSE h[p]]

(* Mutant: the coarse stage is over when nothing is pending. *)
StageDoneEarly(s) == s.stage = "coarse" /\ s.queue.pending = <<>>

(* transitionToFineStage, when a coarse queue has nothing left.            *)
StageDone(s) == s.stage = "coarse" /\ IsComplete(s.queue)
FineSession(s) ==
  LET survivors == KeepOnly(s.buffer, Survivor)
  IN  [s EXCEPT !.stage = "fine", !.queue = NewQueue(survivors, 0), !.buffer = <<>>,
                !.built = Range(survivors), !.prior = 0,
                !.givenUp = @ \cup Dropped(s.queue)]

(* The stage's measurements are forgotten with it. *)
Unmeasured(h, live) ==
  [p \in Peer |-> IF p \in live THEN [h[p] EXCEPT !.warmed = FALSE] ELSE h[p]]

(* What a host owes for batch b of queue q. *)
Assignment(s, q, b) ==
  [ peer |-> q.inFlight[b].peer, session |-> s.id, batch |-> b,
    policies |-> q.inFlight[b].policies, coarse |-> s.stage = "coarse" ]

(* pumpDispatch, from session s, host records h, messages m and corpus c,  *)
(* with the given peers connected: what a handler leaves behind is what    *)
(* the pump at its end makes of it.                                        *)
Pump(s, h, m, c, live) ==
  \E s1 \in {IF StageDone(s) THEN FineSession(s) ELSE s},
     h1 \in {IF StageDone(s) THEN Unmeasured(h, live) ELSE h} :
    IF IsComplete(s1.queue)
    THEN /\ EndSession(s1, h1, c, "completed", live)
         /\ owed' = m
    ELSE \E to \in Handouts(s1.queue, h1, Dispatchable(h1, live)) :
           LET q == HandOut(s1.queue, to)
           IN  /\ session' = [s1 EXCEPT !.queue = q]
               /\ host' = Reserve(s1.queue, h1, Dispatchable(h1, live), to)
               /\ corpus' = c
               /\ owed' = m \cup {Assignment(s1, q, b) : b \in NewBatches(s1.queue, to)}
-----------------------------------------------------------------------------
(* Connections *)

(* handleRegister: a new host is told of the session and fed.              *)
Register(p) ==
  /\ status[p] = "new"
  /\ status' = [status EXCEPT ![p] = "live"]
  /\ IF session = NoSession
     THEN UNCHANGED <<host, session, corpus, owed>>
     ELSE Pump(session, host, owed, corpus, Live \cup {p})
  /\ UNCHANGED <<resumable, nextSession, faults>>

(* Mutant: handleDisconnect forgets the peer's batches. *)
LeaveForgetsBatches(p, m) ==
  LET h == [host EXCEPT ![p] = FreshHost]
  IN  /\ host' = h /\ owed' = m
      /\ UNCHANGED <<session, corpus>>

(* handleDisconnect: the peer's batches go back, and only then a pump.     *)
(* Nobody reads the record of a peer that left `peers`.                    *)
Leave(p, m) ==
  LET h == [host EXCEPT ![p] = FreshHost]
  IN  IF session # NoSession /\ BatchesOf(session.queue, p) # {}
      THEN Pump([session EXCEPT !.queue = RequeueAllForPeer(@, p)], h, m, corpus,
                Live \ {p})
      ELSE /\ host' = h /\ owed' = m
           /\ UNCHANGED <<session, corpus>>

(* A live peer's socket closes: what it had not delivered is lost.         *)
Disconnect(p) ==
  /\ status[p] = "live"
  /\ status' = [status EXCEPT ![p] = "gone"]
  /\ Leave(p, {a \in owed : a.peer # p})
  /\ UNCHANGED <<resumable, nextSession, faults>>

(* sweepStalePeers: a silent peer is treated as gone, but its socket is    *)
(* only closing, and a message it still delivers reaches its handler.      *)
SweepStale(p) ==
  /\ LateAnswers
  /\ status[p] = "live"
  /\ status' = [status EXCEPT ![p] = "swept"]
  /\ Leave(p, owed)
  /\ UNCHANGED <<resumable, nextSession, faults>>

(* The socket of a swept peer closes: handleDisconnect knows it no more.   *)
SocketCloses(p) ==
  /\ status[p] = "swept"
  /\ status' = [status EXCEPT ![p] = "gone"]
  /\ owed' = {a \in owed : a.peer # p}
  /\ UNCHANGED <<host, session, resumable, corpus, nextSession, faults>>
-----------------------------------------------------------------------------
(* Session lifecycle *)

(* The hosts when a session starts: measurements and penalties are reset.  *)
ResetHosts ==
  [p \in Peer |-> IF p \in Live THEN [FreshHost EXCEPT !.reserved = host[p].reserved]
                                ELSE host[p]]

(* Mutant: a session on disk is not looked for. *)
StartFreshAlways ==
  /\ session = NoSession
  /\ nextSession \in SessionId
  /\ Enumeration # <<>>
  /\ nextSession' = nextSession + 1
  /\ Pump(NewSession(nextSession, IF TwoStage THEN "coarse" ELSE "single", Enumeration, 0),
          ResetHosts, owed, [corpus EXCEPT ![nextSession].opened = TRUE], Live)
  /\ UNCHANGED <<status, resumable, faults>>

(* handleStartSession with nothing to resume.                              *)
StartFresh ==
  /\ session = NoSession
  /\ resumable = 0
  /\ nextSession \in SessionId
  /\ Enumeration # <<>>
  /\ nextSession' = nextSession + 1
  /\ Pump(NewSession(nextSession, IF TwoStage THEN "coarse" ELSE "single", Enumeration, 0),
          ResetHosts, owed, [corpus EXCEPT ![nextSession].opened = TRUE], Live)
  /\ UNCHANGED <<status, resumable, faults>>

OnDisk(s) == {p \in Policy : corpus[s].full[p] + corpus[s].coarse[p] > 0}
LinesOnDisk(s) ==
  Cardinality(UNION {{p} \X (1 .. corpus[s].full[p] + corpus[s].coarse[p]) : p \in Policy})

(* Mutant: a resumed session starts over. *)
StartResumedStartsOver ==
  /\ session = NoSession
  /\ resumable # 0
  /\ resumable' = 0
  /\ Pump(NewSession(resumable, "single", Enumeration, LinesOnDisk(resumable)),
          ResetHosts, owed, corpus, Live)
  /\ UNCHANGED <<status, nextSession, faults>>

(* handleStartSession when the boot scan found a crashed session: what is  *)
(* on disk is skipped and the rest runs in one stage.                      *)
StartResumed ==
  LET remaining == KeepOnly(Enumeration, Policy \ OnDisk(resumable))
  IN  /\ session = NoSession
      /\ resumable # 0
      /\ resumable' = 0
      /\ Pump(NewSession(resumable, "single", remaining, LinesOnDisk(resumable)),
              ResetHosts, owed, corpus, Live)
      /\ UNCHANGED <<status, nextSession, faults>>

(* The resumed session's files cannot be opened: the entry is spent.       *)
ResumeFails ==
  /\ DiskFails /\ faults < MaxFaults
  /\ session = NoSession
  /\ resumable # 0
  /\ resumable' = 0
  /\ corpus' = [corpus EXCEPT ![resumable].refused = TRUE]
  /\ faults' = faults + 1
  /\ UNCHANGED <<status, host, session, owed, nextSession>>

(* handleCancelSession, from any peer that knows the session's id.         *)
Cancel ==
  /\ session # NoSession
  /\ EndSession(session, host, corpus, "cancelled", Live)
  /\ UNCHANGED <<status, resumable, owed, nextSession, faults>>

(* The dispatcher dies and boots again: connections and memory are lost,   *)
(* and the boot scan picks the newest session with a manifest and no       *)
(* summary.  A write in progress leaves the corpus c.                      *)
Reboot(c) ==
  LET unfinished == {s \in SessionId : c[s].opened /\ c[s].summary = "none"}
  IN  /\ faults < MaxFaults
      /\ faults' = faults + 1
      /\ status' = [p \in Peer |-> IF status[p] = "new" THEN "new" ELSE "gone"]
      /\ host' = [p \in Peer |-> FreshHost]
      /\ session' = NoSession
      /\ resumable' = Max({0} \cup unfinished)
      /\ corpus' = c
      /\ owed' = {}
      /\ UNCHANGED nextSession

Crash == Reboot(corpus)
-----------------------------------------------------------------------------
(* Answers.  E is the set of policies a result has evaluations for.        *)

(* Mutant: the session of a message is not compared. *)
AddressedToAny(a) == session # NoSession

Addressed(a) == session # NoSession /\ a.session = session.id
Outstanding(a) == Addressed(a) /\ a.batch \in DOMAIN session.queue.inFlight
Expected(a) == Len(session.queue.inFlight[a.batch].policies)
Evaluations(a, E) == KeepOnly(a.policies, E)

(* The sender's record, changed by f only while the sender is in `peers`.  *)
Sender(a, rec) == [host EXCEPT ![a.peer] = IF status[a.peer] = "live" THEN rec ELSE @]
Without(a) ==
  LET r == host[a.peer].reserved IN Restrict(r, DOMAIN r \ {a.batch})

(* What the corpus holds after the evaluations of a were appended.         *)
Appended(a, E) ==
  LET f == corpus[a.session]
  IN  [corpus EXCEPT ![a.session] =
         IF a.coarse
         THEN [f EXCEPT !.coarse = [p \in Policy |-> f.coarse[p] + Keeps(E)[p]]]
         ELSE [f EXCEPT !.full   = [p \in Policy |-> f.full[p] + Keeps(E)[p]]]]

(* handleBatchResult of another session, or of a batch no longer known.    *)
IgnoredResult(a) ==
  /\ ~Outstanding(a)
  /\ owed' = owed \ {a}
  /\ UNCHANGED <<status, host, session, resumable, corpus, nextSession, faults>>

(* Mutant: a short result is accepted. *)
ShortResultAccepted(a, E) ==
  LET s == [session EXCEPT !.queue = CompleteBatch(@, a.batch)]
      h == Sender(a, [host[a.peer] EXCEPT !.reserved = Without(a), !.cooling = TRUE])
  IN  /\ faults < MaxFaults
      /\ Outstanding(a) /\ Cardinality(E) # Expected(a)
      /\ faults' = faults + 1
      /\ Pump(s, h, owed \ {a}, corpus, Live)
      /\ UNCHANGED <<status, resumable, nextSession>>

(* handleBatchResult with the wrong number of evaluations: the batch goes  *)
(* back uncounted, and a host that does it again is quarantined.           *)
ShortResult(a, E) ==
  LET h == Sender(a, [host[a.peer] EXCEPT
                        !.reserved = Without(a), !.cooling = TRUE,
                        !.incomplete = LesserOf(@ + 1, INCOMPLETE_RESULT_QUARANTINE_THRESHOLD)])
      s == [session EXCEPT !.queue = RequeueBatch(@, a.batch, FALSE)]
  IN  /\ faults < MaxFaults
      /\ Outstanding(a) /\ Cardinality(E) # Expected(a)
      /\ faults' = faults + 1
      /\ Pump(s, h, owed \ {a}, corpus, Live)
      /\ UNCHANGED <<status, resumable, nextSession>>

(* Mutants: the disk is forgotten; the peer's index keeps the batch.       *)
FullResultUnwritten(a, E) ==
  LET s == [session EXCEPT !.queue = CompleteBatch(@, a.batch),
              !.buffer = IF session.stage = "coarse" THEN @ \o Evaluations(a, E) ELSE @]
      h == Sender(a, [host[a.peer] EXCEPT !.reserved = Without(a), !.warmed = TRUE])
  IN  /\ Outstanding(a) /\ Cardinality(E) = Expected(a)
      /\ Pump(s, h, owed \ {a}, corpus, Live)
      /\ UNCHANGED <<status, resumable, nextSession, faults>>

FullResultKeepsIndex(a, E) ==
  LET s == [session EXCEPT !.queue = CompleteBatch(@, a.batch),
              !.buffer = IF session.stage = "coarse" THEN @ \o Evaluations(a, E) ELSE @]
      h == Sender(a, [host[a.peer] EXCEPT !.warmed = TRUE])
      c == IF session.stage = "coarse" THEN corpus ELSE Appended(a, E)
  IN  /\ Outstanding(a) /\ Cardinality(E) = Expected(a)
      /\ Pump(s, h, owed \ {a}, c, Live)
      /\ UNCHANGED <<status, resumable, nextSession, faults>>

(* handleBatchResult with as many evaluations as the batch has policies:   *)
(* kept in memory in the coarse stage, otherwise on disk before the queue  *)
(* hears of it.                                                            *)
FullResult(a, E) ==
  LET s == [session EXCEPT !.queue = CompleteBatch(@, a.batch),
              !.buffer = IF session.stage = "coarse" THEN @ \o Evaluations(a, E) ELSE @]
      h == Sender(a, [host[a.peer] EXCEPT !.reserved = Without(a), !.warmed = TRUE])
      c == IF session.stage = "coarse" THEN corpus ELSE Appended(a, E)
  IN  /\ Outstanding(a) /\ Cardinality(E) = Expected(a)
      /\ Pump(s, h, owed \ {a}, c, Live)
      /\ UNCHANGED <<status, resumable, nextSession, faults>>

(* The append throws before anything is written: the handler returns.  An  *)
(* append that throws after part of its chunk (a disk that fills up) is    *)
(* not modelled.                                                           *)
AppendThrows(a, E) ==
  /\ DiskFails /\ faults < MaxFaults
  /\ Outstanding(a) /\ Cardinality(E) = Expected(a)
  /\ session.stage # "coarse"
  /\ faults' = faults + 1
  /\ owed' = owed \ {a}
  /\ UNCHANGED <<status, host, session, resumable, corpus, nextSession>>

(* The dispatcher dies between the append and the rest of the handler.     *)
CrashAfterAppend(a, E) ==
  /\ Outstanding(a) /\ Cardinality(E) = Expected(a)
  /\ session.stage # "coarse"
  /\ Reboot(Appended(a, E))

(* handleBatchNack: counted as a failure unless the host had no free slot. *)
Nack(a, capacity) ==
  LET q == IF a.batch \in DOMAIN session.queue.inFlight
           THEN RequeueBatch(session.queue, a.batch, ~capacity) ELSE session.queue
      h == Sender(a, [host[a.peer] EXCEPT !.reserved = Without(a), !.cooling = TRUE])
  IN  /\ faults < MaxFaults
      /\ Addressed(a)
      /\ faults' = faults + 1
      /\ Pump([session EXCEPT !.queue = q], h, owed \ {a}, corpus, Live)
      /\ UNCHANGED <<status, resumable, nextSession>>

(* A nack of another session is ignored without an answer.                 *)
IgnoredNack(a) ==
  /\ ~Addressed(a)
  /\ owed' = owed \ {a}
  /\ UNCHANGED <<status, host, session, resumable, corpus, nextSession, faults>>
-----------------------------------------------------------------------------
(* Time *)

(* A host's pumpCooldownUntilMs passes.                                    *)
CooldownEnds(p) ==
  /\ status[p] = "live" /\ host[p].cooling
  /\ host' = [host EXCEPT ![p].cooling = FALSE]
  /\ UNCHANGED <<status, session, resumable, corpus, owed, nextSession, faults>>

(* The 1 Hz failsafe tick, and a heartbeat of a host with a free slot.     *)
FailsafePump ==
  /\ session # NoSession
  /\ Pump(session, host, owed, corpus, Live)
  /\ UNCHANGED <<status, resumable, nextSession, faults>>
-----------------------------------------------------------------------------
Answer(a) ==
  \/ \E E \in SUBSET Range(a.policies) :
       ShortResult(a, E) \/ FullResult(a, E) \/ AppendThrows(a, E) \/ CrashAfterAppend(a, E)
  \/ \E capacity \in BOOLEAN : Nack(a, capacity)
  \/ IgnoredResult(a) \/ IgnoredNack(a)

Next ==
  \/ \E p \in Peer : \/ Register(p) \/ Disconnect(p) \/ SweepStale(p)
                     \/ SocketCloses(p) \/ CooldownEnds(p)
  \/ StartFresh \/ StartResumed \/ ResumeFails \/ Cancel \/ Crash
  \/ \E a \in owed : Answer(a)
  \/ FailsafePump

Spec == Init /\ [][Next]_dispatcherVars

(* A host answers what it was sent, in full if it is asked long enough.    *)
AnswersFully(p) ==
  \E a \in owed : /\ a.peer = p
                 /\ (IgnoredResult(a) \/ FullResult(a, Range(a.policies)))

(* The tick fires every second, cooldowns are a second long, and a         *)
(* connected host keeps answering.                                         *)
FairSpec ==
  /\ Spec
  /\ WF_dispatcherVars(FailsafePump)
  /\ \A p \in Peer : /\ WF_dispatcherVars(CooldownEnds(p))
                     /\ WF_dispatcherVars(AnswersFully(p))
-----------------------------------------------------------------------------
(* Properties *)

(* Every variable holds what its declaration says.                         *)
TypeOK ==
  /\ status \in [Peer -> {"new", "live", "swept", "gone"}]
  /\ host \in [Peer -> [ reserved : {host[p].reserved : p \in Peer},
                        warmed : BOOLEAN, cooling : BOOLEAN,
                        incomplete : 0 .. INCOMPLETE_RESULT_QUARANTINE_THRESHOLD ]]
  /\ \A p \in Peer : \A b \in DOMAIN host[p].reserved :
       b \in Nat /\ host[p].reserved[b] \in Nat
  /\ session # NoSession =>
       /\ session.id \in SessionId /\ session.id < nextSession
       /\ session.stage \in {"single", "coarse", "fine"}
       /\ QueueTypeOK(session.queue)
       /\ session.buffer \in Seq(Policy)
       /\ session.built \subseteq Policy /\ session.prior \in Nat
       /\ session.givenUp \subseteq Policy
  /\ resumable \in 0 .. MaxSessions
  /\ corpus \in [SessionId -> [ opened : BOOLEAN, refused : BOOLEAN, givenUp : SUBSET Policy,
                                summary : {"none", "completed", "cancelled"},
                                full : [Policy -> Nat], coarse : [Policy -> Nat] ]]
  /\ owed \subseteq [ peer : Peer, session : SessionId, batch : Nat,
                      policies : Seq(Policy), coarse : BOOLEAN ]
  /\ nextSession \in 1 .. MaxSessions + 1
  /\ faults \in 0 .. MaxFaults

(* The dispatcher keeps two books of outstanding batches: the queue's, and *)
(* per host inFlightBatchIds with its slot reservations.  They agree, and  *)
(* no batch is out with a peer that left: a leaked entry would starve a    *)
(* host for the rest of the session, a leaked batch would never end it.    *)
IndexAgrees ==
  /\ session = NoSession => \A p \in Peer : host[p].reserved = NoSlots
  /\ session # NoSession =>
       /\ \A b \in DOMAIN session.queue.inFlight : session.queue.inFlight[b].peer \in Live
       /\ \A p \in Live : DOMAIN host[p].reserved = BatchesOf(session.queue, p)

(* A host has at most its prefetch depth outstanding, a host that          *)
(* completed nothing in this stage at most one batch, and the slots        *)
(* reserved on a host exceed its workers by less than one batch's share,   *)
(* across warmup, depth changes, stages and repeated pumps.                *)
CapacityRespected ==
  \A p \in Live :
    /\ Cardinality(DOMAIN host[p].reserved) <= IF host[p].warmed THEN Depth[p] ELSE 1
    /\ SlotsReserved(host, p) < Workers[p] + BatchShare(p, Depth[p])

(* What the queue counts as evaluated is in the corpus: "we do this BEFORE *)
(* marking the batch complete" (handleBatchResult), whatever crashes or    *)
(* fails in between.                                                       *)
EvaluatedOnDisk ==
  session # NoSession /\ session.stage # "coarse" =>
    \A p \in session.queue.evaluated : corpus[session.id].full[p] > 0

(* No policy is recorded twice in one session, though batches are requeued *)
(* while an earlier answer may still arrive, and crashed sessions resume   *)
(* over the same file.                                                     *)
OneRecordEach ==
  \A s \in SessionId, p \in Policy : corpus[s].full[p] + corpus[s].coarse[p] <= 1

(* A session whose summary says completed has a record of every policy it  *)
(* enumerated, unless the policy was given up or screened out.             *)
CompletedCoversAll ==
  \A s \in SessionId : corpus[s].summary = "completed" =>
    \A p \in Policy : \/ corpus[s].full[p] > 0
                      \/ p \in corpus[s].givenUp
                      \/ TwoStage /\ p \notin Survivor

(* The fine stage runs over exactly the survivors: every policy whose      *)
(* coarse result clears the threshold and that was not given up.           *)
FineCoversSurvivors ==
  session # NoSession /\ session.stage = "fine" =>
    session.built = Survivor \ session.givenUp

(* A session that crashed is either being resumed or held for resume until *)
(* a controller asks again: its finished work is never orphaned, except    *)
(* when the files could not be opened, which spends the entry.             *)
UnfinishedIsHeld ==
  \A s \in SessionId : corpus[s].opened /\ corpus[s].summary = "none" =>
    s = resumable \/ (session # NoSession /\ s = session.id) \/ corpus[s].refused

(* Nothing is written to a session after its summary, whatever arrives     *)
(* late for it.                                                            *)
ClosedIsFinal ==
  [][ \A s \in SessionId : corpus[s].summary # "none" => corpus'[s] = corpus[s] ]_dispatcherVars

(* A session that keeps a usable host ends, whatever was nacked, lost or   *)
(* given up on the way: the pump misses no wake-up.                        *)
SessionEnds ==
  <>[](\E p \in Live : ~Quarantined(host, p)) => (session # NoSession ~> session = NoSession)
=============================================================================
