---------------------------- MODULE PolicyLedger ----------------------------
(***************************************************************************)
(* What the mining work queue promises, without saying how it keeps it.    *)
(*                                                                         *)
(* Every policy of a session is waiting, out on some host, done, or        *)
(* dropped.  It is finished at most once, and it is dropped only when      *)
(* MaxAttempts handouts of it failed.  A handout the host merely had no    *)
(* room for is not a failure.  Batches, hosts and the order in which       *)
(* policies are handed out do not appear here: module WorkQueue, which has *)
(* them, is shown to implement this specification.                         *)
(***************************************************************************)
EXTENDS Naturals

CONSTANTS
  Policy,        \* the policies of one session
  MaxAttempts    \* failed handouts after which a policy is given up, at least 1

VARIABLES
  status,        \* where each policy is
  failures       \* failed handouts of a policy still in play

ledgerVars == <<status, failures>>

Status == {"waiting", "out", "done", "dropped"}

LedgerTypeOK ==
  /\ status \in [Policy -> Status]
  /\ failures \in [Policy -> 0 .. MaxAttempts - 1]

LedgerInit ==
  /\ status = [p \in Policy |-> "waiting"]
  /\ failures = [p \in Policy |-> 0]

(* Every policy of S moves from one status to another. *)
Move(S, from, to) ==
  /\ \A p \in S : status[p] = from
  /\ status' = [p \in Policy |-> IF p \in S THEN to ELSE status[p]]

HandOut(S) ==
  /\ Move(S, "waiting", "out")
  /\ UNCHANGED failures

Finish(S) ==
  /\ Move(S, "out", "done")
  /\ failures' = [p \in Policy |-> IF p \in S THEN 0 ELSE failures[p]]

GiveBack(S) ==
  /\ Move(S, "out", "waiting")
  /\ UNCHANGED failures

(* A failed handout: the last one a policy is allowed drops it. *)
Fail(S) ==
  LET exhausted == {p \in S : failures[p] + 1 >= MaxAttempts}
  IN  /\ \A p \in S : status[p] = "out"
      /\ status' = [p \in Policy |->
                      IF p \in exhausted THEN "dropped"
                      ELSE IF p \in S THEN "waiting" ELSE status[p]]
      /\ failures' = [p \in Policy |->
                      IF p \in exhausted THEN 0
                      ELSE IF p \in S THEN failures[p] + 1 ELSE failures[p]]

LedgerNext ==
  \E S \in SUBSET Policy : HandOut(S) \/ Finish(S) \/ GiveBack(S) \/ Fail(S)

LedgerSpec == LedgerInit /\ [][LedgerNext]_ledgerVars
=============================================================================
