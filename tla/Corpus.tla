------------------------------- MODULE Corpus -------------------------------
(***************************************************************************)
(* The files of one mining session (cluster/corpus-writer.ts): its         *)
(* manifest, evaluations.jsonl and summary, the writer's entry in          *)
(* openSessions, and what process kills and power losses leave on disk.    *)
(* The caller is the dispatcher: it opens the session fresh or resumes it, *)
(* appends results of policies not recorded yet, and closes it.            *)
(*                                                                         *)
(* A line is what stands between two newlines: the record of a policy, or  *)
(* something JSON.parse refuses.  Only the last line may lack its newline. *)
(***************************************************************************)
EXTENDS Integers, Sequences, SequencesExt

CONSTANTS
  Policy,
  Spend, Wealth,                \* what a policy's evaluation ranks by
  Feasible,                     \* policies that clear the threshold
  Broken,                       \* a line that does not parse
  CORPUS_FSYNC_EVERY_BATCHES,   \* 8 in the code
  TornWrites,                   \* whether a kill may tear a write inside a record
  PowerLoss,                    \* whether unsynced writes may be lost
  MaxBatch,                     \* bound of the model: evaluations per append
  MaxCrashes                    \* bound of the model

None == "none"      \* the file does not exist, or there is no best yet

ASSUME CorpusAssumption ==
  /\ Spend \in [Policy -> Nat] /\ Wealth \in [Policy -> Nat]
  /\ Feasible \subseteq Policy
  /\ Broken \notin Policy /\ None \notin Policy
  /\ CORPUS_FSYNC_EVERY_BATCHES \in Nat \ {0}
  /\ TornWrites \in BOOLEAN /\ PowerLoss \in BOOLEAN
  /\ MaxBatch \in Nat \ {0} /\ MaxCrashes \in Nat

VARIABLES
  manifest,   \* manifest.json: none, torn or whole
  lines,      \* evaluations.jsonl as the operating system holds it
  durable,    \* how many of the lines have reached the disk
  summary,    \* summary.json
  writer,     \* the session's entry in openSessions, NotOpen without one
  credited,   \* policies the running dispatcher takes for recorded (history)
  chunks,     \* lines written by each append since the last sync (history)
  crashes     \* how much of MaxCrashes is used up

corpusVars == <<manifest, lines, durable, summary, writer, credited, chunks, crashes>>

NoSummary == [state |-> None, best |-> None, evaluated |-> {}]
NotOpen == [open |-> FALSE, count |-> 0, best |-> None, unsynced |-> 0]

Line(text, ended) == [text |-> text, ended |-> ended]
Readable(file) == {file[i].text : i \in DOMAIN file} \ {Broken}

(* The ranking of feasible candidates.                                     *)
IsBetterFeasible(p, best) ==
  /\ p \in Feasible
  /\ \/ best \notin Feasible
     \/ Spend[p] > Spend[best]
     \/ Spend[p] = Spend[best] /\ Wealth[p] > Wealth[best]

Better(best, p) ==
  IF p \in Feasible /\ (best = None \/ IsBetterFeasible(p, best)) THEN p ELSE best
BestOf(records, best) ==
  LET upto[i \in 0 .. Len(records)] ==
        IF i = 0 THEN best ELSE Better(upto[i - 1], records[i])
  IN  upto[Len(records)]

(* The count and the best of the lines that parse.                         *)
ScanExistingEvaluations(file) ==
  LET seeded[i \in 0 .. Len(file)] ==
        IF i = 0 THEN [count |-> 0, best |-> None]
        ELSE IF file[i].text = Broken THEN seeded[i - 1]
        ELSE [count |-> seeded[i - 1].count + 1, best |-> Better(seeded[i - 1].best, file[i].text)]
  IN  seeded[Len(file)]

(* Mutants: records are not separated, and the last one has no newline. *)
AppendToUnseparated(file, records) ==
  file \o [i \in DOMAIN records |-> Line(records[i], FALSE)]

AppendToUnended(file, records) ==
  LET new == [i \in DOMAIN records |-> Line(records[i], i < Len(records))]
  IN  IF file = <<>> \/ Last(file).ended THEN file \o new
      ELSE Front(file) \o <<Line(Broken, Len(records) > 1)>> \o Tail(new)

(* What appending the records to a file makes of it: what follows a line   *)
(* without newline becomes part of that line.                              *)
AppendTo(file, records) ==
  LET new == [i \in DOMAIN records |-> Line(records[i], TRUE)]
  IN  IF file = <<>> \/ Last(file).ended THEN file \o new
      ELSE Front(file) \o <<Line(Broken, TRUE)>> \o Tail(new)

(* What a kill during that append may leave: some whole records, and of    *)
(* the next one nothing, a fragment, or all but its newline.               *)
TornEnd(file) == Front(file) \o <<[Last(file) EXCEPT !.ended = FALSE]>>
PartialAppends(file, records) ==
  LET after(k) == IF k = 0 THEN file ELSE AppendTo(file, SubSeq(records, 1, k))
  IN  {after(k) : k \in 0 .. Len(records)} \cup
      IF TornWrites
      THEN UNION {{TornEnd(AppendTo(after(k), <<text>>)) : text \in {Broken, records[k + 1]}} :
                    k \in 0 .. Len(records) - 1}
      ELSE {}
-----------------------------------------------------------------------------
Init ==
  /\ manifest = None
  /\ lines = <<>>
  /\ durable = 0
  /\ summary = NoSummary
  /\ writer = NotOpen
  /\ credited = {}
  /\ chunks = <<>>
  /\ crashes = 0

(* openSessionForWrite for a fresh session.                                *)
OpenFresh ==
  /\ ~writer.open
  /\ manifest = None
  /\ manifest' = "whole"
  /\ writer' = [NotOpen EXCEPT !.open = TRUE]
  /\ UNCHANGED <<lines, durable, summary, credited, chunks, crashes>>

(* findResumableSessions: a manifest that parses, and no summary.          *)
IsResumable == manifest = "whole" /\ summary = NoSummary

(* Mutants: the best is not seeded; recorded policies are not skipped.     *)
ResumeUnseeded ==
  /\ ~writer.open
  /\ IsResumable
  /\ writer' = [NotOpen EXCEPT !.open = TRUE]
  /\ credited' = Readable(lines)
  /\ UNCHANGED <<manifest, lines, durable, summary, chunks, crashes>>

ResumeSkipsNothing ==
  /\ ~writer.open
  /\ IsResumable
  /\ LET seeded == ScanExistingEvaluations(lines)
     IN  writer' = [open |-> TRUE, count |-> seeded.count, best |-> seeded.best, unsynced |-> 0]
  /\ credited' = {}
  /\ UNCHANGED <<manifest, lines, durable, summary, chunks, crashes>>

(* The boot scan and openSessionForWrite with `resume`: the dispatcher     *)
(* skips what the scan could parse, and the writer starts from its count   *)
(* and its best.                                                           *)
Resume ==
  /\ ~writer.open
  /\ IsResumable
  /\ LET seeded == ScanExistingEvaluations(lines)
     IN  writer' = [open |-> TRUE, count |-> seeded.count, best |-> seeded.best, unsynced |-> 0]
  /\ credited' = Readable(lines)
  /\ UNCHANGED <<manifest, lines, durable, summary, chunks, crashes>>

(* Mutant: a batch is synced only when the writer has time. *)
AppendSyncsRarely(records, elapsed) ==
  LET file == AppendTo(lines, records)
  IN  /\ writer.open
      /\ lines' = file
      /\ writer' = [writer EXCEPT
                      !.count = @ + Len(records), !.best = BestOf(records, @),
                      !.unsynced = IF elapsed THEN 0 ELSE @ + 1]
      /\ durable' = IF elapsed THEN Len(file) ELSE durable
      /\ chunks' = IF elapsed THEN <<>> ELSE Append(chunks, Len(records))
      /\ credited' = credited \cup ToSet(records)
      /\ UNCHANGED <<manifest, summary, crashes>>

(* appendEvaluations, the sync every few batches or seconds included.      *)
AppendEvaluations(records, elapsed) ==
  LET file  == AppendTo(lines, records)
      syncs == elapsed \/ writer.unsynced + 1 >= CORPUS_FSYNC_EVERY_BATCHES
  IN  /\ writer.open
      /\ lines' = file
      /\ writer' = [writer EXCEPT
                      !.count = @ + Len(records), !.best = BestOf(records, @),
                      !.unsynced = IF syncs THEN 0 ELSE @ + 1]
      /\ durable' = IF syncs THEN Len(file) ELSE durable
      /\ chunks' = IF syncs THEN <<>> ELSE Append(chunks, Len(records))
      /\ credited' = credited \cup ToSet(records)
      /\ UNCHANGED <<manifest, summary, crashes>>

(* Mutant: nothing is synced before the summary is written. *)
CloseUnsynced(state) ==
  /\ writer.open
  /\ chunks' = <<>>
  /\ summary' = [state |-> state, best |-> writer.best, evaluated |-> credited]
  /\ writer' = NotOpen
  /\ UNCHANGED <<manifest, lines, durable, credited, crashes>>

(* closeSessionWithStats: sync, then the summary.  `evaluated` is history. *)
Close(state) ==
  /\ writer.open
  /\ durable' = Len(lines)
  /\ chunks' = <<>>
  /\ summary' = [state |-> state, best |-> writer.best, evaluated |-> credited]
  /\ writer' = NotOpen
  /\ UNCHANGED <<manifest, lines, credited, crashes>>
-----------------------------------------------------------------------------
(* Failures.  The process is gone; the files are as given. *)

Stop(file, safe) ==
  /\ crashes < MaxCrashes
  /\ crashes' = crashes + 1
  /\ writer' = NotOpen
  /\ lines' = file
  /\ durable' = safe
  /\ credited' = {}
  /\ chunks' = <<>>

(* A kill while the manifest is written, between two calls.                *)
KillInOpen ==
  /\ ~writer.open /\ manifest = None
  /\ manifest' = "torn"
  /\ Stop(lines, durable)
  /\ UNCHANGED summary

Kill ==
  /\ writer.open
  /\ Stop(lines, durable)
  /\ UNCHANGED <<manifest, summary>>

(* A kill while the summary is written: it exists, so the session is never *)
(* resumed.                                                                *)
KillInClose ==
  /\ writer.open
  /\ Stop(lines, Len(lines))
  /\ summary' = [NoSummary EXCEPT !.state = "torn"]
  /\ UNCHANGED manifest

(* A kill inside an append.                                                *)
KillInAppend(records) ==
  /\ writer.open
  /\ \E file \in PartialAppends(lines, records) : Stop(file, durable)
  /\ UNCHANGED <<manifest, summary>>

(* The machine loses power: lines not synced may be gone, and so may the   *)
(* summary and the manifest, which are never synced.                       *)
LosePower ==
  /\ PowerLoss
  /\ manifest = "whole"
  /\ \E n \in durable .. Len(lines) : Stop(SubSeq(lines, 1, n), n)
  /\ manifest' \in {manifest, "torn"}
  /\ summary' \in {summary, NoSummary}

Remaining == Policy \ credited
Batches == {records \in SeqOf(Remaining, MaxBatch) :
              records # <<>> /\ \A i, j \in DOMAIN records :
                                  records[i] = records[j] => i = j}

Next ==
  \/ OpenFresh \/ Resume \/ KillInOpen \/ KillInClose \/ Kill \/ LosePower
  \/ \E records \in Batches :
       KillInAppend(records)
         \/ \E elapsed \in BOOLEAN : AppendEvaluations(records, elapsed)
  \/ \E state \in {"completed", "cancelled"} : Close(state)

Spec == Init /\ [][Next]_corpusVars
-----------------------------------------------------------------------------
(* Properties *)

(* Every variable holds what its declaration says; only the last line of   *)
(* the file may lack a newline.                                            *)
TypeOK ==
  /\ manifest \in {None, "torn", "whole"}
  /\ \A i \in DOMAIN lines : /\ lines[i].text \in Policy \cup {Broken}
                             /\ lines[i].ended \in BOOLEAN
                             /\ i < Len(lines) => lines[i].ended
  /\ durable \in 0 .. Len(lines)
  /\ summary \in [ state : {None, "torn", "completed", "cancelled"}, best : Policy \cup {None},
                   evaluated : SUBSET Policy ]
  /\ writer \in [ open : BOOLEAN, count : Nat, best : Policy \cup {None}, unsynced : Nat ]
  /\ credited \subseteq Policy
  /\ crashes \in 0 .. MaxCrashes

(* What the dispatcher takes for recorded can be read back: a resumed      *)
(* session never skips a policy whose record is not there, and "post-      *)
(* resume writes continue cleanly" (openSessionForWrite).                  *)
CreditedIsReadable == writer.open => credited \subseteq Readable(lines)

(* Resuming skips no more than is there: no policy is recorded twice.      *)
NoDuplicates ==
  \A i, j \in DOMAIN lines :
    lines[i].text = lines[j].text /\ lines[i].text # Broken => i = j

(* The running best, kept append by append and seeded by a scan on resume, *)
(* is a best record of the file: no readable record ranks above it.        *)
BestIsBest ==
  writer.open =>
    /\ writer.best = None => Readable(lines) \cap Feasible = {}
    /\ writer.best # None =>
         /\ writer.best \in Readable(lines) \cap Feasible
         /\ \A p \in Readable(lines) : ~IsBetterFeasible(p, writer.best)

(* "A crash may lose the last few unsynced batch appends" (the header      *)
(* comment): fewer than CORPUS_FSYNC_EVERY_BATCHES of them are unsynced,   *)
(* and a record that is synced stays readable whatever happens, also when  *)
(* a later process appends behind what a crash left.                       *)
Synced == {lines[i].text : i \in 1 .. durable} \ {Broken}
LossIsBounded ==
  /\ [](writer.open => Len(chunks) < CORPUS_FSYNC_EVERY_BATCHES)
  /\ [][Synced \subseteq Synced']_corpusVars

(* A summary is written last: once it exists, every policy it counts has a *)
(* readable record, through power losses too.                              *)
SummaryIsBacked == summary.evaluated \subseteq Readable(lines)
=============================================================================
