---------------------------- MODULE LearnerProofs ----------------------------
(***************************************************************************)
(* Proofs about Learner: the rows' references, one receipt per completed   *)
(* job, the stride of the cadence, and the console as an authority log.    *)
(* All four rest on two locks: whoever fits has the learner's lock, so no  *)
(* receipt appears behind its snapshot, and whoever writes a version has   *)
(* the console's, so the version it read is the one that serves.           *)
(* And about Evidence: the budget law on any recorded gate, by what the    *)
(* loop over the ranked list has kept after each entry.                    *)
(***************************************************************************)
EXTENDS Learner, Evidence, ProofBasics, FiniteSetTheorems, TLAPS

Serving == {v \in DOMAIN configs : configs[v].active}

(* What a pending fit may rely on.                                         *)
Ahead(n) ==
    /\ n >= MinDispositions
    /\ \A m \in DOMAIN receipts :
          receipts[m].eligible >= MinDispositions
          => n >= receipts[m].eligible + SignalStride

FitOK(s) ==
    /\ s.kind \in {"manual", "background", "due"}
    /\ s.job \in DOMAIN retrainJobs \cup {None}
    /\ s.eligible \in Nat /\ s.incumbent \in DOMAIN configs
    /\ s.rest.pc \in {"wait", "done", "jobs"}
    /\ s.rest.pc = "jobs" => s.rest.todo \subseteq DOMAIN retrainJobs
    /\ s.called /\ s.kind = "due" => Ahead(s.eligible)

AtOK(p) ==
    /\ at[p].pc = "jobs" => at[p].todo \subseteq DOMAIN retrainJobs
    /\ at[p].pc = "error" => at[p].job \in DOMAIN retrainJobs
    /\ at[p].pc = "fit" => learnerLock = p /\ FitOK(at[p])

WorkersOK == DOMAIN at = Retrainer /\ \A p \in Retrainer : AtOK(p)

RequestOK(q) ==
    /\ q.tap \in Tap
    /\ \/ q.reason = "human_control"
       \/ q.reason = "learner_proposal" /\ q.version \in DOMAIN configs

DeskOK(c) ==
    /\ console[c].pc = "sent" => RequestOK(console[c])
    /\ console[c].pc = "write" =>
          /\ RequestOK(console[c]) /\ controlLock = c
          /\ Serving = {console[c].active} /\ ~Journaled(console[c].tap)

ConsoleOK ==
    /\ \E v : Serving = {v}
    /\ DOMAIN console = Console /\ \A c \in Console : DeskOK(c)

(* The most evidence a receipt has seen is somewhere in the log.           *)
SomeReceiptIsMost ==
    receipts = <<>> \/ \E k \in DOMAIN receipts :
        \A m \in DOMAIN receipts : receipts[m].eligible <= receipts[k].eligible

LearnerInv ==
    /\ LearnerTypes /\ WorkersOK /\ ConsoleOK
    /\ JobsFitOnce /\ DueFitsStride /\ SomeReceiptIsMost

-----------------------------------------------------------------------------
(* What a step that leaves most tables alone keeps.                        *)

LEMMA NoneIsNobody ==
    None \notin RetrainJobId \cup Retrainer \cup Console
BY LearnerAssumption DEF None, Retrainer

Grow ==
    /\ DOMAIN configs \subseteq DOMAIN configs'
    /\ DOMAIN retrainJobs \subseteq DOMAIN retrainJobs'

LEMMA FitKept ==
    ASSUME NEW s, FitOK(s), Grow, UNCHANGED receipts
    PROVE  FitOK(s)'
BY DEF FitOK, Ahead, Grow

LEMMA WorkersKept ==
    ASSUME WorkersOK, Grow, UNCHANGED <<receipts, at, learnerLock>>
    PROVE  WorkersOK'
<1>1. ASSUME NEW p \in Retrainer PROVE AtOK(p)'
  <2>1. AtOK(p)
    BY DEF WorkersOK
  <2>2. at[p].pc = "fit" => FitOK(at[p])'
    BY <2>1, FitKept DEF AtOK
  <2> QED
    BY <2>1, <2>2 DEF AtOK, Grow
<1> QED
  BY <1>1 DEF WorkersOK

(* One process moves.                                                      *)
LEMMA WorkerMoves ==
    ASSUME WorkersOK, Grow, UNCHANGED receipts, NEW p \in Retrainer,
           DOMAIN at' = DOMAIN at, \A q \in Retrainer \ {p} : at'[q] = at[q],
           \A q \in Retrainer \ {p} : at[q].pc = "fit" => learnerLock' = q,
           AtOK(p)'
    PROVE  WorkersOK'
<1>1. ASSUME NEW q \in Retrainer \ {p} PROVE AtOK(q)'
  <2>1. AtOK(q)
    BY DEF WorkersOK
  <2>2. at[q].pc = "fit" => FitOK(at[q])'
    BY <2>1, FitKept DEF AtOK
  <2> QED
    BY <2>1, <2>2 DEF AtOK, Grow
<1> QED
  BY <1>1 DEF WorkersOK

(* Only evidence arrives or leaves, or nothing does.                       *)
LEMMA EvidenceStep ==
    ASSUME LearnerInv, UNCHANGED <<receipts, retrainJobs, at, learnerLock, scorerVars>>,
           signals' \in Nat, withdrawn' \in 0 .. signals'
    PROVE  LearnerInv'
<1>1. LearnerTypes'
  BY DEF LearnerInv, LearnerTypes, scorerVars, ReceiptRow, ActivationRow, AdoptionRows
<1>2. WorkersOK'
  BY WorkersKept DEF LearnerInv, Grow, scorerVars
<1>3. ConsoleOK'
  BY DEF LearnerInv, ConsoleOK, DeskOK, RequestOK, Serving, Journaled, scorerVars
<1>4. JobsFitOnce' /\ DueFitsStride' /\ SomeReceiptIsMost'
  BY DEF LearnerInv, JobsFitOnce, DueFitsStride, SomeReceiptIsMost
<1> QED
  BY <1>1, <1>2, <1>3, <1>4 DEF LearnerInv

(* Only processes move.                                                    *)
LEMMA ProcessStep ==
    ASSUME LearnerInv, UNCHANGED <<receipts, retrainJobs, evidenceVars, scorerVars>>, WorkersOK'
    PROVE  LearnerInv'
<1>1. LearnerTypes'
  BY DEF LearnerInv, LearnerTypes, scorerVars, evidenceVars, ReceiptRow, ActivationRow,
         AdoptionRows
<1>2. ConsoleOK'
  BY DEF LearnerInv, ConsoleOK, DeskOK, RequestOK, Serving, Journaled, scorerVars
<1>3. JobsFitOnce' /\ DueFitsStride' /\ SomeReceiptIsMost'
  BY DEF LearnerInv, JobsFitOnce, DueFitsStride, SomeReceiptIsMost
<1> QED
  BY <1>1, <1>2, <1>3 DEF LearnerInv

(* Only requests of the console move.                                      *)
LEMMA DeskStep ==
    ASSUME LearnerInv, UNCHANGED <<learningVars, configs, activations, adoptions>>,
           DOMAIN console' = Console, \A c \in Console : DeskOK(c)'
    PROVE  LearnerInv'
<1>1. LearnerTypes'
  BY DEF LearnerInv, LearnerTypes, learningVars, evidenceVars, ReceiptRow, ActivationRow,
         AdoptionRows
<1>2. WorkersOK'
  BY WorkersKept DEF LearnerInv, Grow, learningVars
<1>3. ConsoleOK'
  BY DEF LearnerInv, ConsoleOK, Serving
<1>4. JobsFitOnce' /\ DueFitsStride' /\ SomeReceiptIsMost'
  BY DEF LearnerInv, JobsFitOnce, DueFitsStride, SomeReceiptIsMost, learningVars
<1> QED
  BY <1>1, <1>2, <1>3, <1>4 DEF LearnerInv

-----------------------------------------------------------------------------
(* The version that serves.                                                *)

LEMMA ActiveIsStored ==
    ASSUME ConsoleOK
    PROVE  ActiveVersion \in DOMAIN configs /\ Serving = {ActiveVersion}
<1>1. PICK v : Serving = {v}
  BY DEF ConsoleOK
<1>2. \E u \in DOMAIN configs : configs[u].active
  BY <1>1 DEF Serving
<1>3. ActiveVersion \in DOMAIN configs /\ configs[ActiveVersion].active
  BY <1>2 DEF ActiveVersion
<1> QED
  BY <1>1, <1>3 DEF Serving

-----------------------------------------------------------------------------
(* The cadence cursor is the most evidence above the floor, so a fit that  *)
(* is due at its snapshot is ahead of every receipt.                       *)

LEMMA ReceiptsAreCounted ==
    ASSUME LearnerTypes, NEW k \in DOMAIN receipts
    PROVE  receipts[k].eligible \in Nat /\ receipts[k] \in ReceiptRow
<1>1. receipts[k] \in ReceiptRow
  BY DEF LearnerTypes
<1> QED
  BY <1>1 DEF ReceiptRow

LEMMA DueIsAhead ==
    ASSUME LearnerTypes, SomeReceiptIsMost, BackgroundDue
    PROVE  Ahead(Eligible)
<1>1. Eligible \in Nat /\ MinDispositions \in Nat /\ SignalStride \in Nat
  BY LearnerAssumption DEF LearnerTypes, Eligible
<1>2. ASSUME NEW m \in DOMAIN receipts, receipts[m].eligible >= MinDispositions
      PROVE  Eligible >= receipts[m].eligible + SignalStride
  <2>1. receipts # <<>>
    OBVIOUS
  <2>2. PICK k \in DOMAIN receipts :
            \A n \in DOMAIN receipts : receipts[n].eligible <= receipts[k].eligible
    BY <2>1 DEF SomeReceiptIsMost
  <2>3. receipts[m].eligible \in Nat /\ receipts[k].eligible \in Nat
    BY ReceiptsAreCounted
  <2>4. receipts[m].eligible <= receipts[k].eligible
    BY <2>2
  <2>5. receipts[k].eligible \in CadenceCursor
    BY <2>2, <2>3, <2>4, <1>1, <1>2 DEF CadenceCursor
  <2>6. Eligible >= receipts[k].eligible + SignalStride
    BY <2>5 DEF BackgroundDue
  <2> QED
    BY <2>3, <2>4, <2>6, <1>1
<1> QED
  BY <1>2 DEF Ahead, BackgroundDue

-----------------------------------------------------------------------------
(* Steps of the workers and of the requests that retrain.                  *)

LEMMA FitHoldsLock ==
    ASSUME LearnerInv, NEW p \in Retrainer, at[p].pc = "fit"
    PROVE  learnerLock = p /\ FitOK(at[p])
BY DEF LearnerInv, WorkersOK, AtOK

LEMMA NobodyElseFits ==
    ASSUME LearnerInv, NEW p \in Retrainer, at[p].pc = "fit", NEW q \in Retrainer \ {p}
    PROVE  at[q].pc # "fit"
BY FitHoldsLock

LEMMA FreeMeansNoFit ==
    ASSUME LearnerInv, LearnerLockFree, NEW q \in Retrainer
    PROVE  at[q].pc # "fit"
BY FitHoldsLock, NoneIsNobody DEF LearnerLockFree

LEMMA WakeStep ==
    ASSUME LearnerInv, NEW i \in Instance, Wake(i)
    PROVE  LearnerInv'
<1>1. i \in Retrainer /\ WorkersOK
  BY DEF Retrainer, LearnerInv
<1>2. UNCHANGED <<receipts, retrainJobs, evidenceVars, scorerVars, learnerLock>>
  BY DEF Wake
<1>3. /\ DOMAIN at' = DOMAIN at /\ \A q \in Retrainer \ {i} : at'[q] = at[q]
      /\ at'[i] = [pc |-> "jobs", todo |-> Pending]
  BY <1>1 DEF Wake, WorkersOK
<1>4. AtOK(i)'
  BY <1>2, <1>3 DEF AtOK, Pending
<1>5. \A q \in Retrainer \ {i} : at[q].pc = "fit" => learnerLock' = q
  BY <1>2, FitHoldsLock
<1>6. WorkersOK'
  BY <1>1, <1>2, <1>3, <1>4, <1>5, WorkerMoves DEF Grow, scorerVars
<1> QED
  BY <1>2, <1>6, ProcessStep

LEMMA TakeTriggerStep ==
    ASSUME LearnerInv, NEW i \in Instance, TakeTrigger(i)
    PROVE  LearnerInv'
<1>1. i \in Retrainer /\ WorkersOK
  BY DEF Retrainer, LearnerInv
<1>2. UNCHANGED <<receipts, retrainJobs, evidenceVars, scorerVars, learnerLock>>
  BY DEF TakeTrigger
<1>3. /\ DOMAIN at' = DOMAIN at /\ \A q \in Retrainer \ {i} : at'[q] = at[q]
      /\ at'[i].pc \in {"wait", "compact"}
  BY <1>1 DEF TakeTrigger, WorkersOK, Waiting
<1>4. AtOK(i)'
  BY <1>3 DEF AtOK
<1>5. \A q \in Retrainer \ {i} : at[q].pc = "fit" => learnerLock' = q
  BY <1>2, FitHoldsLock
<1>6. WorkersOK'
  BY <1>1, <1>2, <1>3, <1>4, <1>5, WorkerMoves DEF Grow, scorerVars
<1> QED
  BY <1>2, <1>6, ProcessStep

LEMMA BeginStep ==
    ASSUME LearnerInv, NEW p \in Retrainer, NEW kind \in {"manual", "background", "due"},
           NEW job \in DOMAIN retrainJobs \cup {None}, NEW rest,
           rest.pc \in {"wait", "done", "jobs"},
           rest.pc = "jobs" => rest.todo \subseteq DOMAIN retrainJobs,
           Begin(p, kind, job, rest)
    PROVE  LearnerInv'
<1>0. PICK s : s = Snapshot(kind, job, rest)
  OBVIOUS
<1>1. WorkersOK /\ LearnerTypes /\ ConsoleOK /\ SomeReceiptIsMost
  BY DEF LearnerInv
<1>2. UNCHANGED <<receipts, retrainJobs, evidenceVars, scorerVars>> /\ learnerLock' = p
  BY DEF Begin
<1>3. /\ DOMAIN at' = DOMAIN at /\ \A q \in Retrainer \ {p} : at'[q] = at[q]
      /\ at'[p] = s
  BY <1>0, <1>1 DEF Begin, WorkersOK
<1>4. /\ s.pc = "fit" /\ s.kind = kind /\ s.job = job /\ s.rest = rest
      /\ s.eligible = Eligible /\ s.incumbent = ActiveVersion
      /\ s.called /\ kind = "due" => BackgroundDue
  BY <1>0 DEF Snapshot
<1>5. Eligible \in Nat
  BY <1>1 DEF LearnerTypes, Eligible
<1>6. ActiveVersion \in DOMAIN configs
  BY <1>1, ActiveIsStored
<1>7. s.called /\ kind = "due" => Ahead(Eligible)
  BY <1>1, <1>4, DueIsAhead
<1>8. FitOK(s)
  BY <1>4, <1>5, <1>6, <1>7 DEF FitOK
<1>9. Grow
  BY <1>2 DEF Grow, scorerVars
<1>10. FitOK(s)'
  BY <1>2, <1>8, <1>9, FitKept
<1>11. AtOK(p)'
  BY <1>2, <1>3, <1>4, <1>10 DEF AtOK
<1>12. \A q \in Retrainer \ {p} : at[q].pc = "fit" => learnerLock' = q
  BY FreeMeansNoFit DEF Begin
<1>13. WorkersOK'
  BY <1>1, <1>2, <1>3, <1>9, <1>11, <1>12, WorkerMoves
<1> QED
  BY <1>2, <1>13, ProcessStep

LEMMA BeginJobStep ==
    ASSUME LearnerInv, NEW i \in Instance, BeginJob(i)
    PROVE  LearnerInv'
<1>1. i \in Retrainer /\ AtOK(i)
  BY DEF Retrainer, LearnerInv, WorkersOK
<1>2. PICK j \in at[i].todo : Begin(i, "manual", j, [pc |-> "jobs", todo |-> at[i].todo \ {j}])
  BY DEF BeginJob
<1>3. at[i].todo \subseteq DOMAIN retrainJobs
  BY <1>1 DEF AtOK, BeginJob
<1>4. PICK rest : rest = [pc |-> "jobs", todo |-> at[i].todo \ {j}]
  OBVIOUS
<1>5. rest.pc = "jobs" /\ rest.todo \subseteq DOMAIN retrainJobs
  BY <1>3, <1>4
<1>6. Begin(i, "manual", j, rest)
  BY <1>2, <1>4
<1> QED
  BY <1>1, <1>2, <1>3, <1>5, <1>6, BeginStep

LEMMA BeginCompactStep ==
    ASSUME LearnerInv, NEW i \in Instance, BeginCompact(i)
    PROVE  LearnerInv'
<1>1. i \in Retrainer
  BY DEF Retrainer
<1>2. PICK rest : rest = Waiting
  OBVIOUS
<1>3. rest.pc = "wait"
  BY <1>2 DEF Waiting
<1>4. Begin(i, "background", None, rest)
  BY <1>2 DEF BeginCompact
<1> QED
  BY <1>1, <1>3, <1>4, BeginStep

LEMMA BeginRequestStep ==
    ASSUME LearnerInv, NEW h \in Handler, NEW kind \in {"manual", "due"}, BeginRequest(h, kind)
    PROVE  LearnerInv'
<1>1. h \in Retrainer
  BY DEF Retrainer
<1>2. PICK rest : rest = [pc |-> "done"]
  OBVIOUS
<1>3. rest.pc = "done"
  BY <1>2
<1>4. Begin(h, kind, None, rest)
  BY <1>2 DEF BeginRequest
<1> QED
  BY <1>1, <1>3, <1>4, BeginStep

LEMMA NoFitStep ==
    ASSUME LearnerInv, NEW p \in Retrainer, NoFit(p)
    PROVE  LearnerInv'
<1>1. WorkersOK /\ at[p].pc = "fit"
  BY DEF LearnerInv, NoFit
<1>2. UNCHANGED <<receipts, retrainJobs, evidenceVars, scorerVars>>
  BY DEF NoFit
<1>3. /\ DOMAIN at' = DOMAIN at /\ \A q \in Retrainer \ {p} : at'[q] = at[q]
      /\ at'[p] = at[p].rest
  BY <1>1 DEF NoFit, WorkersOK
<1>4. FitOK(at[p])
  BY <1>1, FitHoldsLock
<1>5. AtOK(p)'
  BY <1>2, <1>3, <1>4 DEF AtOK, FitOK
<1>6. \A q \in Retrainer \ {p} : at[q].pc = "fit" => learnerLock' = q
  BY <1>1, NobodyElseFits
<1>7. WorkersOK'
  BY <1>1, <1>2, <1>3, <1>5, <1>6, WorkerMoves DEF Grow, scorerVars
<1> QED
  BY <1>2, <1>7, ProcessStep

LEMMA RaiseStep ==
    ASSUME LearnerInv, NEW p \in Retrainer, Raise(p)
    PROVE  LearnerInv'
<1>1. WorkersOK /\ at[p].pc = "fit"
  BY DEF LearnerInv, Raise
<1>2. UNCHANGED <<receipts, retrainJobs, evidenceVars, scorerVars>>
  BY DEF Raise
<1>3. /\ DOMAIN at' = DOMAIN at /\ \A q \in Retrainer \ {p} : at'[q] = at[q]
      /\ \/ at'[p].pc = "error" /\ at'[p].job = at[p].job /\ at[p].job # None
         \/ at'[p].pc \in {"wait", "done"}
  BY <1>1 DEF Raise, WorkersOK, Waiting
<1>4. at[p].job \in DOMAIN retrainJobs \cup {None}
  BY <1>1, FitHoldsLock DEF FitOK
<1>5. AtOK(p)'
  BY <1>2, <1>3, <1>4 DEF AtOK
<1>6. \A q \in Retrainer \ {p} : at[q].pc = "fit" => learnerLock' = q
  BY <1>1, NobodyElseFits
<1>7. WorkersOK'
  BY <1>1, <1>2, <1>3, <1>5, <1>6, WorkerMoves DEF Grow, scorerVars
<1> QED
  BY <1>2, <1>7, ProcessStep

LEMMA RestartStep ==
    ASSUME LearnerInv, NEW i \in Instance, Restart(i)
    PROVE  LearnerInv'
<1>1. i \in Retrainer /\ WorkersOK
  BY DEF Retrainer, LearnerInv
<1>2. UNCHANGED <<receipts, retrainJobs, evidenceVars, scorerVars>>
  BY DEF Restart
<1>3. /\ DOMAIN at' = DOMAIN at /\ \A q \in Retrainer \ {i} : at'[q] = at[q]
      /\ at'[i].pc = "wait"
  BY <1>1 DEF Restart, WorkersOK, Waiting
<1>4. AtOK(i)'
  BY <1>3 DEF AtOK
<1>5. \A q \in Retrainer \ {i} : at[q].pc = "fit" => learnerLock' = q
  BY FitHoldsLock DEF Restart
<1>6. WorkersOK'
  BY <1>1, <1>2, <1>3, <1>4, <1>5, WorkerMoves DEF Grow, scorerVars
<1> QED
  BY <1>2, <1>6, ProcessStep

-----------------------------------------------------------------------------
(* The job table changes and the receipts do not.                          *)

LEMMA JobTableStep ==
    ASSUME LearnerInv, UNCHANGED <<receipts, evidenceVars, scorerVars>>,
           DOMAIN retrainJobs \subseteq DOMAIN retrainJobs',
           DOMAIN retrainJobs' \subseteq RetrainJobId,
           retrainJobs' \in [DOMAIN retrainJobs' -> JobState],
           \A j \in DOMAIN retrainJobs' :
              \/ j \in DOMAIN retrainJobs
                 /\ (retrainJobs'[j] = "completed" <=> retrainJobs[j] = "completed")
              \/ j \notin DOMAIN retrainJobs /\ retrainJobs'[j] # "completed",
           WorkersOK'
    PROVE  LearnerInv'
<1>1. LearnerTypes'
  <2>1. ReceiptRow \subseteq ReceiptRow' /\ ActivationRow' = ActivationRow
    BY DEF ReceiptRow, ActivationRow, scorerVars
  <2>2. receipts \in Seq(ReceiptRow')
    BY <2>1, SeqWiden DEF LearnerInv, LearnerTypes
  <2> QED
    BY <2>1, <2>2
    DEF LearnerInv, LearnerTypes, scorerVars, evidenceVars, AdoptionRows
<1>2. ConsoleOK'
  BY DEF LearnerInv, ConsoleOK, DeskOK, RequestOK, Serving, Journaled, scorerVars
<1>3. JobsFitOnce'
  <2>1. ASSUME NEW j \in DOMAIN retrainJobs'
        PROVE  Cardinality({k \in DOMAIN receipts : receipts[k].job = j})
               = IF retrainJobs'[j] = "completed" THEN 1 ELSE 0
    <3>1. CASE j \in DOMAIN retrainJobs
      BY <3>1 DEF LearnerInv, JobsFitOnce
    <3>2. CASE j \notin DOMAIN retrainJobs
      <4>1. j # None
        BY NoneIsNobody
      <4>2. \A k \in DOMAIN receipts : receipts[k].job # j
        BY <3>2, <4>1, ReceiptsAreCounted DEF LearnerInv, ReceiptRow
      <4>3. {k \in DOMAIN receipts : receipts[k].job = j} = {}
        BY <4>2
      <4> QED
        BY <3>2, <4>3, FS_EmptySet
    <3> QED
      BY <3>1, <3>2
  <2> QED
    BY <2>1 DEF JobsFitOnce
<1>4. DueFitsStride' /\ SomeReceiptIsMost'
  BY DEF LearnerInv, DueFitsStride, SomeReceiptIsMost
<1> QED
  BY <1>1, <1>2, <1>3, <1>4 DEF LearnerInv

LEMMA SubmitJobStep ==
    ASSUME LearnerInv, NEW j \in RetrainJobId, SubmitJob(j)
    PROVE  LearnerInv'
<1>1. UNCHANGED <<receipts, evidenceVars, scorerVars, at, learnerLock>>
  BY DEF SubmitJob
<1>2. LearnerTypes /\ WorkersOK
  BY DEF LearnerInv
<1>3. /\ DOMAIN retrainJobs' = DOMAIN retrainJobs \cup {j} /\ j \notin DOMAIN retrainJobs
      /\ \A i \in DOMAIN retrainJobs : retrainJobs'[i] = retrainJobs[i]
      /\ retrainJobs'[j] = "pending"
  BY DEF SubmitJob
<1>4. retrainJobs' \in [DOMAIN retrainJobs' -> JobState]
  BY <1>2 DEF SubmitJob, LearnerTypes, JobState
<1>5. WorkersOK'
  BY <1>1, <1>2, <1>3, WorkersKept DEF Grow, scorerVars
<1> QED
  BY <1>1, <1>2, <1>3, <1>4, <1>5, JobTableStep DEF LearnerTypes

LEMMA RecordErrorStep ==
    ASSUME LearnerInv, NEW i \in Instance, RecordError(i)
    PROVE  LearnerInv'
<1>1. UNCHANGED <<receipts, evidenceVars, scorerVars, learnerLock>>
  BY DEF RecordError
<1>2. LearnerTypes /\ WorkersOK /\ i \in Retrainer
  BY DEF LearnerInv, Retrainer
<1>3. PICK j \in DOMAIN retrainJobs : j = at[i].job
  BY <1>2 DEF WorkersOK, AtOK, RecordError
<1>4. retrainJobs' = [retrainJobs EXCEPT ![j] =
                         IF retrainJobs[j] = "completed" THEN "completed" ELSE "failed"]
  BY <1>3 DEF RecordError, FailedUnlessDone
<1>5. /\ DOMAIN retrainJobs' = DOMAIN retrainJobs
      /\ retrainJobs' \in [DOMAIN retrainJobs' -> JobState]
      /\ \A k \in DOMAIN retrainJobs :
            retrainJobs'[k] = "completed" <=> retrainJobs[k] = "completed"
  BY <1>2, <1>4 DEF LearnerTypes, JobState
<1>6. /\ DOMAIN at' = DOMAIN at /\ \A q \in Retrainer \ {i} : at'[q] = at[q]
      /\ at'[i].pc = "wait"
  BY <1>2 DEF RecordError, WorkersOK, Waiting
<1>7. AtOK(i)'
  BY <1>6 DEF AtOK
<1>8. \A q \in Retrainer \ {i} : at[q].pc = "fit" => learnerLock' = q
  BY <1>1, FitHoldsLock
<1>9. WorkersOK'
  BY <1>1, <1>2, <1>5, <1>6, <1>7, <1>8, WorkerMoves DEF Grow, scorerVars
<1> QED
  BY <1>1, <1>2, <1>5, <1>9, JobTableStep DEF LearnerTypes

-----------------------------------------------------------------------------
(* A fit lands: one more receipt, its winner stored, its job completed.    *)

Lands(s, r) ==
    /\ FitOK(s) /\ s.called /\ Serializes(s)
    /\ r.kind = s.kind /\ r.job = s.job /\ r.eligible = s.eligible
    /\ r.incumbent = s.incumbent
    /\ r.verdict \in {"insufficient_data", "not_better", "proposed"}
    /\ r \in [kind : {s.kind}, job : {s.job}, eligible : {s.eligible},
              verdict : {r.verdict}, incumbent : {s.incumbent}, challenger : {r.challenger}]
    /\ receipts' = Append(receipts, r) /\ configs' = WithChallenger(r.challenger)
    /\ retrainJobs' = Settled(s)
    /\ UNCHANGED <<evidenceVars, activations, adoptions, controlLock, console>>

LEMMA LandReads ==
    ASSUME LearnerInv, NEW p \in Retrainer, Land(p)
    PROVE  \E s, r : s = at[p] /\ Lands(s, r)
<1>1. at[p].pc = "fit" /\ at[p].called /\ Serializes(at[p])
  BY DEF Land
<1>2. PICK verdict \in Verdicts(at[p]) :
          /\ receipts' = Append(receipts, Receipt(at[p], verdict))
          /\ configs' = WithChallenger(Receipt(at[p], verdict).challenger)
  BY DEF Land
<1>3. PICK s : s = at[p]
  OBVIOUS
<1>4. PICK r : r = Receipt(s, verdict)
  OBVIOUS
<1>5. verdict \in {"insufficient_data", "not_better", "proposed"}
  BY <1>2 DEF Verdicts
<1>6. FitOK(s)
  BY <1>1, <1>3, FitHoldsLock
<1>7. /\ r.kind = s.kind /\ r.job = s.job /\ r.eligible = s.eligible
      /\ r.incumbent = s.incumbent /\ r.verdict = verdict
      /\ r \in [kind : {s.kind}, job : {s.job}, eligible : {s.eligible},
                verdict : {r.verdict}, incumbent : {s.incumbent}, challenger : {r.challenger}]
  BY <1>4 DEF Receipt
<1>8. /\ retrainJobs' = Settled(s)
      /\ UNCHANGED <<evidenceVars, activations, adoptions, controlLock, console>>
  BY <1>3 DEF Land
<1>9. receipts' = Append(receipts, r) /\ configs' = WithChallenger(r.challenger)
  BY <1>2, <1>3, <1>4
<1> QED
  BY <1>1, <1>3, <1>5, <1>6, <1>7, <1>8, <1>9 DEF Lands

LEMMA LandConfigs ==
    ASSUME LearnerTypes, NEW s, NEW r, Lands(s, r)
    PROVE  /\ DOMAIN configs \subseteq DOMAIN configs'
           /\ configs' \in [DOMAIN configs' -> ConfigRow]
           /\ Serving' = Serving
           /\ r.challenger \in DOMAIN configs' \cup {None}
<1>1. CASE r.challenger = None \/ r.challenger \in DOMAIN configs
  BY <1>1 DEF Lands, WithChallenger, LearnerTypes, Serving
<1>2. CASE ~(r.challenger = None \/ r.challenger \in DOMAIN configs)
  <2>1. /\ DOMAIN configs' = DOMAIN configs \cup {r.challenger}
        /\ \A v \in DOMAIN configs : configs'[v] = configs[v]
        /\ configs'[r.challenger] = [active |-> FALSE, learner |-> TRUE, control |-> FALSE]
        /\ configs' = [v \in DOMAIN configs' |-> configs'[v]]
    BY <1>2 DEF Lands, WithChallenger
  <2>2. \A v \in DOMAIN configs' : configs'[v] \in ConfigRow
    <3>1. \A v \in DOMAIN configs : configs[v] \in ConfigRow
      BY DEF LearnerTypes
    <3>2. [active |-> FALSE, learner |-> TRUE, control |-> FALSE] \in ConfigRow
      BY DEF ConfigRow
    <3> QED
      BY <2>1, <3>1, <3>2
  <2>3. Serving' = Serving
    BY <1>2, <2>1 DEF Serving
  <2> QED
    BY <2>1, <2>2, <2>3
<1> QED
  BY <1>1, <1>2

LEMMA LandJobs ==
    ASSUME LearnerTypes, NEW s, NEW r, Lands(s, r)
    PROVE  /\ DOMAIN retrainJobs' = DOMAIN retrainJobs
           /\ retrainJobs' \in [DOMAIN retrainJobs' -> JobState]
           /\ \A j \in DOMAIN retrainJobs :
                 IF j = s.job THEN retrainJobs[j] = "pending" /\ retrainJobs'[j] = "completed"
                 ELSE retrainJobs'[j] = retrainJobs[j]
<1>1. None \notin DOMAIN retrainJobs
  BY NoneIsNobody DEF LearnerTypes
<1>2. s.job \in DOMAIN retrainJobs \cup {None}
  BY DEF Lands, FitOK
<1>3. CASE s.job = None
  BY <1>1, <1>3 DEF Lands, Settled, LearnerTypes
<1>4. CASE s.job # None
  BY <1>2, <1>4 DEF Lands, Settled, Serializes, LearnerTypes, JobState
<1> QED
  BY <1>3, <1>4

LEMMA LandTypes ==
    ASSUME LearnerTypes, NEW s, NEW r, Lands(s, r)
    PROVE  LearnerTypes' /\ r \in ReceiptRow'
<1>1. /\ DOMAIN configs \subseteq DOMAIN configs'
      /\ configs' \in [DOMAIN configs' -> ConfigRow]
      /\ r.challenger \in DOMAIN configs' \cup {None}
  BY LandConfigs
<1>2. /\ DOMAIN retrainJobs' = DOMAIN retrainJobs
      /\ retrainJobs' \in [DOMAIN retrainJobs' -> JobState]
  BY LandJobs
<1>3. ReceiptRow \subseteq ReceiptRow' /\ ActivationRow \subseteq ActivationRow'
  BY <1>1, <1>2 DEF ReceiptRow, ActivationRow
<1>4. /\ s.kind \in {"manual", "background", "due"} /\ s.job \in DOMAIN retrainJobs \cup {None}
      /\ s.eligible \in Nat /\ s.incumbent \in DOMAIN configs
      /\ r.verdict \in {"insufficient_data", "not_better", "proposed"}
  BY DEF Lands, FitOK
<1>5. r \in ReceiptRow'
  BY <1>1, <1>2, <1>4 DEF Lands, ReceiptRow
<1>6. /\ receipts' \in Seq(ReceiptRow')
      /\ DOMAIN receipts \subseteq DOMAIN receipts'
  BY <1>3, <1>5, AppendFacts DEF LearnerTypes, Lands
<1>7. activations' \in Seq(ActivationRow')
  BY <1>3, SeqWiden DEF LearnerTypes, Lands
<1>8. adoptions' \in AdoptionRows'
  BY <1>6 DEF LearnerTypes, Lands, AdoptionRows
<1>9. signals' \in Nat /\ withdrawn' \in 0 .. signals'
  BY DEF LearnerTypes, Lands, evidenceVars
<1> QED
  BY <1>1, <1>2, <1>5, <1>6, <1>7, <1>8, <1>9 DEF LearnerTypes

LEMMA LandCounts ==
    ASSUME LearnerInv, NEW s, NEW r, Lands(s, r)
    PROVE  JobsFitOnce'
<1>1. LearnerTypes /\ JobsFitOnce
  BY DEF LearnerInv
<1>2. /\ DOMAIN receipts' = DOMAIN receipts \cup {Len(receipts) + 1}
      /\ Len(receipts) + 1 \notin DOMAIN receipts
      /\ \A k \in DOMAIN receipts : receipts'[k] = receipts[k]
      /\ receipts'[Len(receipts) + 1] = r /\ r.job = s.job
  BY <1>1, LandTypes, AppendFacts DEF LearnerTypes, Lands
<1>3. ASSUME NEW j \in DOMAIN retrainJobs'
      PROVE  Cardinality({k \in DOMAIN receipts' : receipts'[k].job = j})
             = IF retrainJobs'[j] = "completed" THEN 1 ELSE 0
  <2>1. j \in DOMAIN retrainJobs
    BY <1>1, LandJobs
  <2>2. CASE j = s.job
    <3>1. retrainJobs[j] = "pending" /\ retrainJobs'[j] = "completed"
      BY <1>1, <2>1, <2>2, LandJobs
    <3>2. Cardinality({k \in DOMAIN receipts : receipts[k].job = j}) = 0
      BY <1>1, <2>1, <3>1 DEF JobsFitOnce
    <3>3. IsFiniteSet({k \in DOMAIN receipts : receipts[k].job = j})
      <4>1. IsFiniteSet(DOMAIN receipts)
        BY <1>1, FS_Interval DEF LearnerTypes
      <4> QED
        BY <4>1, FS_Subset
    <3>4. {k \in DOMAIN receipts : receipts[k].job = j} = {}
      BY <3>2, <3>3, FS_EmptySet
    <3>5. {k \in DOMAIN receipts' : receipts'[k].job = j} = {Len(receipts) + 1}
      BY <1>2, <2>2, <3>4
    <3> QED
      BY <3>1, <3>5, FS_Singleton
  <2>3. CASE j # s.job
    <3>1. {k \in DOMAIN receipts' : receipts'[k].job = j}
          = {k \in DOMAIN receipts : receipts[k].job = j}
      BY <1>2, <2>3
    <3> QED
      BY <1>1, <2>1, <2>3, <3>1, LandJobs DEF JobsFitOnce
  <2> QED
    BY <2>2, <2>3
<1> QED
  BY <1>3 DEF JobsFitOnce

LEMMA LandStride ==
    ASSUME LearnerInv, NEW s, NEW r, Lands(s, r)
    PROVE  DueFitsStride' /\ SomeReceiptIsMost'
<1>1. LearnerTypes /\ DueFitsStride /\ SomeReceiptIsMost
  BY DEF LearnerInv
<1>2. /\ DOMAIN receipts = 1 .. Len(receipts) /\ Len(receipts) \in Nat
      /\ DOMAIN receipts' = DOMAIN receipts \cup {Len(receipts) + 1}
      /\ \A k \in DOMAIN receipts : receipts'[k] = receipts[k]
      /\ receipts'[Len(receipts) + 1] = r
  BY <1>1, LandTypes, AppendFacts DEF LearnerTypes, Lands
<1>3. r.kind = "due" => Ahead(r.eligible)
  BY DEF Lands, FitOK
<1>4. r.eligible \in Nat /\ \A k \in DOMAIN receipts : receipts[k].eligible \in Nat
  BY <1>1, ReceiptsAreCounted DEF Lands, FitOK
<1>5. DueFitsStride'
  <2>1. ASSUME NEW k \in DOMAIN receipts', receipts'[k].kind = "due"
        PROVE  /\ receipts'[k].eligible >= MinDispositions
               /\ \A m \in 1 .. k - 1 :
                     receipts'[m].eligible >= MinDispositions
                     => receipts'[k].eligible >= receipts'[m].eligible + SignalStride
    <3>1. CASE k \in DOMAIN receipts
      <4>1. \A m \in 1 .. k - 1 : m \in DOMAIN receipts
        BY <1>2, <3>1
      <4> QED
        BY <1>1, <1>2, <2>1, <3>1, <4>1 DEF DueFitsStride
    <3>2. CASE k = Len(receipts) + 1
      <4>1. \A m \in 1 .. k - 1 : m \in DOMAIN receipts
        BY <1>2, <3>2
      <4> QED
        BY <1>2, <1>3, <2>1, <3>2, <4>1 DEF Ahead
    <3> QED
      BY <1>2, <3>1, <3>2
  <2> QED
    BY <2>1 DEF DueFitsStride
<1>6. SomeReceiptIsMost'
  <2>1. CASE receipts = <<>>
    <3>1. DOMAIN receipts' = {Len(receipts) + 1}
      BY <1>2, <2>1
    <3>2. \A m \in DOMAIN receipts' : receipts'[m].eligible <= r.eligible
      <4>1. \A m \in DOMAIN receipts' : receipts'[m] = r
        BY <1>2, <3>1
      <4> QED
        BY <1>4, <4>1
    <3> QED
      BY <1>2, <3>2 DEF SomeReceiptIsMost
  <2>2. CASE receipts # <<>>
    <3>1. PICK k \in DOMAIN receipts :
              \A m \in DOMAIN receipts : receipts[m].eligible <= receipts[k].eligible
      BY <1>1, <2>2 DEF SomeReceiptIsMost
    <3>2. CASE receipts[k].eligible <= r.eligible
      <4>1. \A m \in DOMAIN receipts' : receipts'[m].eligible <= r.eligible
        BY <1>2, <1>4, <3>1, <3>2
      <4> QED
        BY <1>2, <4>1 DEF SomeReceiptIsMost
    <3>3. CASE r.eligible <= receipts[k].eligible
      <4>1. \A m \in DOMAIN receipts' : receipts'[m].eligible <= receipts'[k].eligible
        BY <1>2, <1>4, <3>1, <3>3
      <4> QED
        BY <1>2, <4>1 DEF SomeReceiptIsMost
    <3> QED
      BY <1>4, <3>2, <3>3
  <2> QED
    BY <2>1, <2>2
<1> QED
  BY <1>5, <1>6

LEMMA LandStep ==
    ASSUME LearnerInv, NEW p \in Retrainer, Land(p)
    PROVE  LearnerInv'
<1>1. PICK s, r : s = at[p] /\ Lands(s, r)
  BY LandReads
<1>2. LearnerTypes /\ WorkersOK /\ ConsoleOK /\ at[p].pc = "fit"
  BY DEF LearnerInv, Land
<1>3. DOMAIN configs \subseteq DOMAIN configs' /\ Serving' = Serving
  BY <1>1, <1>2, LandConfigs
<1>4. DOMAIN retrainJobs' = DOMAIN retrainJobs
  BY <1>1, <1>2, LandJobs
<1>5. WorkersOK'
  <2>1. DOMAIN at' = Retrainer /\ \A q \in Retrainer \ {p} : at'[q] = at[q]
    BY <1>2 DEF Land, WorkersOK
  <2>2. at'[p] = s.rest
    BY <1>1, <1>2 DEF Land, WorkersOK
  <2>3. AtOK(p)'
    BY <1>1, <1>4, <2>2 DEF AtOK, Lands, FitOK
  <2>4. ASSUME NEW q \in Retrainer \ {p} PROVE AtOK(q)'
    <3>1. AtOK(q) /\ at[q].pc # "fit"
      BY <1>2, NobodyElseFits DEF WorkersOK
    <3> QED
      BY <1>4, <2>1, <3>1 DEF AtOK
  <2> QED
    BY <2>1, <2>3, <2>4 DEF WorkersOK
<1>6. ConsoleOK'
  <2>1. UNCHANGED <<console, controlLock, activations>>
    BY <1>1 DEF Lands
  <2> QED
    BY <1>2, <1>3, <2>1 DEF ConsoleOK, DeskOK, RequestOK, Journaled
<1> QED
  BY <1>1, <1>2, <1>5, <1>6, LandTypes, LandCounts, LandStride DEF LearnerInv

-----------------------------------------------------------------------------
(* Steps of the console.                                                   *)

LEMMA DeskKept ==
    ASSUME LearnerInv, UNCHANGED <<configs, activations>>, NEW c \in Console,
           console'[c] = console[c], console[c].pc = "write" => controlLock' = controlLock
    PROVE  DeskOK(c)'
<1>1. DeskOK(c)
  BY DEF LearnerInv, ConsoleOK
<1> QED
  BY <1>1 DEF DeskOK, RequestOK, Serving, Journaled

LEMMA SendForceStep ==
    ASSUME LearnerInv, NEW c \in Console, NEW tap \in Tap, SendForce(c, tap)
    PROVE  LearnerInv'
<1>1. /\ UNCHANGED <<learningVars, configs, activations, adoptions, controlLock>>
      /\ DOMAIN console = Console
  BY DEF SendForce, LearnerInv, ConsoleOK
<1>2. /\ DOMAIN console' = Console /\ \A d \in Console \ {c} : console'[d] = console[d]
      /\ console'[c].pc = "sent" /\ console'[c].tap = tap
      /\ console'[c].reason = "human_control"
  BY <1>1 DEF SendForce
<1>3. DeskOK(c)'
  BY <1>2 DEF DeskOK, RequestOK
<1>4. \A d \in Console \ {c} : DeskOK(d)'
  BY <1>1, <1>2, DeskKept
<1> QED
  BY <1>1, <1>2, <1>3, <1>4, DeskStep

LEMMA SendActivateStep ==
    ASSUME LearnerInv, NEW c \in Console, NEW tap \in Tap, NEW v \in DOMAIN configs,
           SendActivate(c, tap, v)
    PROVE  LearnerInv'
<1>1. /\ UNCHANGED <<learningVars, configs, activations, adoptions, controlLock>>
      /\ DOMAIN console = Console
  BY DEF SendActivate, LearnerInv, ConsoleOK
<1>2. /\ DOMAIN console' = Console /\ \A d \in Console \ {c} : console'[d] = console[d]
      /\ console'[c].pc = "sent" /\ console'[c].tap = tap
      /\ console'[c].reason = "learner_proposal" /\ console'[c].version = v
  BY <1>1 DEF SendActivate
<1>3. DeskOK(c)'
  BY <1>1, <1>2 DEF DeskOK, RequestOK
<1>4. \A d \in Console \ {c} : DeskOK(d)'
  BY <1>1, <1>2, DeskKept
<1> QED
  BY <1>1, <1>2, <1>3, <1>4, DeskStep

LEMMA ConsoleReadStep ==
    ASSUME LearnerInv, NEW c \in Console, ConsoleRead(c)
    PROVE  LearnerInv'
<1>1. /\ UNCHANGED <<learningVars, configs, activations, adoptions>>
      /\ DOMAIN console = Console /\ ConsoleOK /\ RequestOK(console[c])
      /\ Serving = {ActiveVersion}
  BY ActiveIsStored DEF ConsoleRead, LearnerInv, ConsoleOK, DeskOK
<1>2. \A d \in Console : console[d].pc # "write"
  BY <1>1, NoneIsNobody DEF ConsoleOK, DeskOK, ConsoleRead, ControlLockFree
<1>3. DOMAIN console' = Console /\ \A d \in Console \ {c} : console'[d] = console[d]
  BY <1>1 DEF ConsoleRead
<1>4. DeskOK(c)'
  <2>1. CASE Journaled(console[c].tap) \/ ~Accepts(console[c])
    <3>1. console'[c].pc = "rest"
      BY <1>1, <2>1 DEF ConsoleRead, Resting
    <3> QED
      BY <3>1 DEF DeskOK
  <2>2. CASE ~(Journaled(console[c].tap) \/ ~Accepts(console[c]))
    <3>1. /\ console'[c].pc = "write" /\ console'[c].tap = console[c].tap
          /\ console'[c].reason = console[c].reason
          /\ console'[c].version = console[c].version
          /\ console'[c].active = ActiveVersion /\ controlLock' = c
      BY <1>1, <2>2 DEF ConsoleRead
    <3>2. Serving' = {console'[c].active}
      BY <1>1, <3>1 DEF Serving
    <3>3. ~Journaled(console[c].tap)'
      BY <1>1, <2>2, <3>1 DEF Journaled
    <3>4. RequestOK(console[c])'
      BY <1>1, <3>1 DEF RequestOK
    <3> QED
      BY <3>1, <3>2, <3>3, <3>4 DEF DeskOK
  <2> QED
    BY <2>1, <2>2
<1>5. \A d \in Console \ {c} : DeskOK(d)'
  BY <1>1, <1>2, <1>3, DeskKept
<1> QED
  BY <1>1, <1>3, <1>4, <1>5, DeskStep

LEMMA ConsoleDiesStep ==
    ASSUME LearnerInv, NEW c \in Console, ConsoleDies(c)
    PROVE  LearnerInv'
<1>1. /\ UNCHANGED <<learningVars, configs, activations, adoptions>>
      /\ DOMAIN console = Console /\ ConsoleOK
  BY DEF ConsoleDies, LearnerInv, ConsoleOK
<1>2. \A d \in Console \ {c} : console[d].pc # "write"
  BY <1>1 DEF ConsoleOK, DeskOK, ConsoleDies
<1>3. /\ DOMAIN console' = Console /\ \A d \in Console \ {c} : console'[d] = console[d]
      /\ console'[c].pc = "rest"
  BY <1>1 DEF ConsoleDies, Resting
<1>4. DeskOK(c)'
  BY <1>3 DEF DeskOK
<1>5. \A d \in Console \ {c} : DeskOK(d)'
  BY <1>1, <1>2, <1>3, DeskKept
<1> QED
  BY <1>1, <1>3, <1>4, <1>5, DeskStep

(* A write hands over from the version that serves.                        *)
Writes(q) ==
    /\ RequestOK(q) /\ Serving = {q.active} /\ ~Journaled(q.tap)
    /\ configs' = Switched(q)
    /\ activations' = Append(activations, [tap |-> q.tap, version |-> q.version,
                                           previous |-> q.active, reason |-> q.reason])
    /\ adoptions' = Adopted(q)

LEMMA WriteReads ==
    ASSUME LearnerInv, NEW c \in Console, ConsoleWrite(c)
    PROVE  \E q : q = console[c] /\ Writes(q)
<1>1. PICK q : q = console[c]
  OBVIOUS
<1>2. q.pc = "write" /\ DeskOK(c)
  BY <1>1 DEF ConsoleWrite, LearnerInv, ConsoleOK
<1> QED
  BY <1>1, <1>2 DEF ConsoleWrite, DeskOK, Writes

LEMMA WriteConfigs ==
    ASSUME LearnerTypes, NEW q, Writes(q)
    PROVE  /\ DOMAIN configs' = DOMAIN configs \cup {q.version}
           /\ configs' \in [DOMAIN configs' -> ConfigRow]
           /\ q.active \in DOMAIN configs
           /\ Serving' = {q.version}
<1>1. q.active \in DOMAIN configs /\ \A v \in DOMAIN configs : configs[v] \in ConfigRow
  BY DEF Writes, Serving, LearnerTypes
<1>2. TargetRow(q) \in ConfigRow /\ TargetRow(q).active = TRUE
  <2>1. configs[IF q.reason = "human_control" THEN q.active ELSE q.version].learner \in BOOLEAN
    BY <1>1 DEF Writes, RequestOK, ConfigRow
  <2>2. (q.reason = "human_control" \/ configs[q.version].control) \in BOOLEAN
    OBVIOUS
  <2> QED
    BY <2>1, <2>2 DEF TargetRow, ConfigRow
<1>3. /\ DOMAIN configs' = DOMAIN configs \cup {q.version}
      /\ configs' = [v \in DOMAIN configs' |-> configs'[v]]
      /\ configs'[q.version] = TargetRow(q)
      /\ \A v \in DOMAIN configs \ {q.version} :
            configs'[v] = IF v = q.active THEN [configs[v] EXCEPT !.active = FALSE] ELSE configs[v]
  BY DEF Writes, Switched
<1>4. \A v \in DOMAIN configs \ {q.version} : configs'[v] \in ConfigRow /\ ~configs'[v].active
  <2> SUFFICES ASSUME NEW v \in DOMAIN configs \ {q.version}
               PROVE  configs'[v] \in ConfigRow /\ ~configs'[v].active
    OBVIOUS
  <2>1. configs[v] \in ConfigRow
    BY <1>1
  <2>2. CASE v = q.active
    <3>1. configs'[v] = [configs[v] EXCEPT !.active = FALSE]
      BY <1>3, <2>2
    <3> QED
      BY <2>1, <3>1 DEF ConfigRow
  <2>3. CASE v # q.active
    <3>1. configs'[v] = configs[v]
      BY <1>3, <2>3
    <3>2. v \notin Serving
      BY <2>3 DEF Writes
    <3> QED
      BY <2>1, <3>1, <3>2 DEF Serving
  <2> QED
    BY <2>2, <2>3
<1>5. \A v \in DOMAIN configs' : configs'[v] \in ConfigRow
  BY <1>2, <1>3, <1>4
<1>6. Serving' = {q.version}
  BY <1>2, <1>3, <1>4 DEF Serving
<1> QED
  BY <1>1, <1>3, <1>5, <1>6

LEMMA WriteTypes ==
    ASSUME LearnerTypes, NEW q, Writes(q), UNCHANGED learningVars
    PROVE  LearnerTypes'
<1>1. /\ DOMAIN configs' = DOMAIN configs \cup {q.version}
      /\ configs' \in [DOMAIN configs' -> ConfigRow]
      /\ q.active \in DOMAIN configs
  BY WriteConfigs
<1>2. UNCHANGED <<receipts, retrainJobs, signals, withdrawn>>
  BY DEF learningVars, evidenceVars
<1>3. ReceiptRow \subseteq ReceiptRow' /\ ActivationRow \subseteq ActivationRow'
  BY <1>1, <1>2 DEF ReceiptRow, ActivationRow
<1>4. receipts' \in Seq(ReceiptRow')
  BY <1>2, <1>3, SeqWiden DEF LearnerTypes
<1>5. activations' \in Seq(ActivationRow')
  <2>1. [tap |-> q.tap, version |-> q.version, previous |-> q.active, reason |-> q.reason]
        \in ActivationRow'
    BY <1>1 DEF ActivationRow, Writes, RequestOK
  <2> QED
    BY <1>3, <2>1, AppendFacts DEF LearnerTypes, Writes
<1>6. adoptions' \in AdoptionRows'
  <2>1. CASE q.reason = "human_control"
    BY <1>2, <2>1 DEF Writes, Adopted, LearnerTypes, AdoptionRows
  <2>2. CASE q.reason # "human_control"
    <3> DEFINE new == {k \in DOMAIN receipts : receipts[k].challenger = q.version}
    <3>1. PICK S \in SUBSET DOMAIN receipts : adoptions \in [S -> Tap]
      BY DEF LearnerTypes, AdoptionRows
    <3>2. adoptions' = [k \in S \cup new |-> IF k \in S THEN adoptions[k] ELSE q.tap]
      BY <2>2, <3>1 DEF Writes, Adopted
    <3>3. adoptions' \in [S \cup new -> Tap]
      BY <3>1, <3>2 DEF Writes, RequestOK
    <3>4. S \cup new \in SUBSET DOMAIN receipts
      BY <3>1
    <3> QED
      BY <1>2, <3>3, <3>4 DEF AdoptionRows
  <2> QED
    BY <2>1, <2>2
<1> QED
  BY <1>1, <1>2, <1>4, <1>5, <1>6 DEF LearnerTypes

LEMMA ConsoleWriteStep ==
    ASSUME LearnerInv, NEW c \in Console, ConsoleWrite(c)
    PROVE  LearnerInv'
<1>1. PICK q : q = console[c] /\ Writes(q)
  BY WriteReads
<1>2. LearnerTypes /\ WorkersOK /\ ConsoleOK /\ UNCHANGED learningVars
  BY DEF LearnerInv, ConsoleWrite
<1>3. DOMAIN configs' = DOMAIN configs \cup {q.version} /\ Serving' = {q.version}
  BY <1>1, <1>2, WriteConfigs
<1>4. LearnerTypes'
  BY <1>1, <1>2, WriteTypes
<1>5. WorkersOK'
  BY <1>2, <1>3, WorkersKept DEF Grow, learningVars
<1>6. ConsoleOK'
  <2>1. /\ DOMAIN console' = Console /\ \A d \in Console \ {c} : console'[d] = console[d]
        /\ console'[c].pc = "rest"
    BY <1>2 DEF ConsoleWrite, ConsoleOK, Resting
  <2>2. ASSUME NEW d \in Console \ {c} PROVE DeskOK(d)'
    <3>1. DeskOK(d) /\ DeskOK(c) /\ console[c].pc = "write"
      BY <1>2 DEF ConsoleOK, ConsoleWrite
    <3>2. console[d].pc # "write"
      BY <3>1 DEF DeskOK
    <3> QED
      BY <1>3, <2>1, <3>1, <3>2 DEF DeskOK, RequestOK
  <2>3. DeskOK(c)'
    BY <2>1 DEF DeskOK
  <2> QED
    BY <1>3, <2>1, <2>2, <2>3 DEF ConsoleOK
<1>7. JobsFitOnce' /\ DueFitsStride' /\ SomeReceiptIsMost'
  BY <1>2 DEF LearnerInv, JobsFitOnce, DueFitsStride, SomeReceiptIsMost, learningVars
<1> QED
  BY <1>4, <1>5, <1>6, <1>7 DEF LearnerInv

-----------------------------------------------------------------------------
(* The invariant.                                                          *)

LEMMA LearnerStarts ==
    ASSUME LearnerInit
    PROVE  LearnerInv
<1>1. LearnerTypes
  <2>1. configs \in [DOMAIN configs -> ConfigRow]
    BY DEF LearnerInit, ConfigRow
  <2>2. DOMAIN retrainJobs = {} /\ retrainJobs \in [DOMAIN retrainJobs -> JobState]
    BY DEF LearnerInit
  <2>3. receipts \in Seq(ReceiptRow) /\ activations \in Seq(ActivationRow)
    BY DEF LearnerInit
  <2>4. adoptions \in AdoptionRows
    <3>1. adoptions \in [{} -> Tap] /\ {} \in SUBSET DOMAIN receipts
      BY DEF LearnerInit
    <3> QED
      BY <3>1 DEF AdoptionRows
  <2> QED
    BY <2>1, <2>2, <2>3, <2>4 DEF LearnerTypes, LearnerInit
<1>2. WorkersOK
  BY DEF LearnerInit, WorkersOK, AtOK, Waiting
<1>3. Serving = {Base}
  BY DEF LearnerInit, Serving
<1>4. ConsoleOK
  BY <1>3 DEF LearnerInit, ConsoleOK, DeskOK, Resting
<1>5. JobsFitOnce /\ DueFitsStride /\ SomeReceiptIsMost
  BY DEF LearnerInit, JobsFitOnce, DueFitsStride, SomeReceiptIsMost
<1> QED
  BY <1>1, <1>2, <1>4, <1>5 DEF LearnerInv

(* Requests that only insert evidence and notify, and the stuttering step. *)
LEMMA NotifyingSteps ==
    ASSUME LearnerInv,
           \/ \E j \in RetrainJobId, i \in Instance : NotifyJob(j, i) \/ Poll(j, i)
           \/ \E t \in Trigger, i \in Instance : Compaction(t, i)
           \/ Signal \/ Annotate \/ UNCHANGED learnerVars
    PROVE  LearnerInv'
<1>1. UNCHANGED <<receipts, retrainJobs, at, learnerLock, scorerVars>>
  BY DEF NotifyJob, Poll, Compaction, Signal, Annotate, learnerVars, learningVars
<1>2. signals \in Nat /\ withdrawn \in 0 .. signals
  BY DEF LearnerInv, LearnerTypes
<1>3. signals' \in Nat /\ withdrawn' \in 0 .. signals'
  BY <1>2
  DEF NotifyJob, Poll, Compaction, Signal, Annotate, learnerVars, learningVars, evidenceVars
<1> QED
  BY <1>1, <1>3, EvidenceStep

LEMMA LearnerKeeps ==
    ASSUME LearnerInv, [LearnerNext]_learnerVars
    PROVE  LearnerInv'
<1>1. CASE \E j \in RetrainJobId : SubmitJob(j)
  BY <1>1, SubmitJobStep
<1>2. CASE \/ \E j \in RetrainJobId, i \in Instance : NotifyJob(j, i) \/ Poll(j, i)
           \/ \E t \in Trigger, i \in Instance : Compaction(t, i)
           \/ Signal \/ Annotate \/ UNCHANGED learnerVars
  BY <1>2, NotifyingSteps
<1>3. CASE \E i \in Instance : WorkerStep(i) \/ Restart(i)
  BY <1>3, WakeStep, BeginJobStep, TakeTriggerStep, BeginCompactStep, RecordErrorStep, RestartStep
  DEF WorkerStep
<1>4. CASE \E h \in Handler, kind \in {"manual", "due"} : BeginRequest(h, kind)
  BY <1>4, BeginRequestStep
<1>5. CASE \E p \in Retrainer : RetrainStep(p)
  BY <1>5, NoFitStep, LandStep, RaiseStep DEF RetrainStep
<1>6. CASE \E c \in Console : ConsoleStep(c)
  BY <1>6, SendForceStep, SendActivateStep, ConsoleReadStep, ConsoleWriteStep, ConsoleDiesStep
  DEF ConsoleStep
<1> QED
  BY <1>1, <1>2, <1>3, <1>4, <1>5, <1>6 DEF LearnerNext

LEMMA LearnerInvHolds == LearnerSpec => []LearnerInv
<1>1. LearnerInit => LearnerInv
  BY LearnerStarts
<1>2. LearnerInv /\ [LearnerNext]_learnerVars => LearnerInv'
  BY LearnerKeeps
<1> QED
  BY <1>1, <1>2, PTL DEF LearnerSpec

-----------------------------------------------------------------------------
(* The rows that retrains and the console write name only versions, jobs   *)
(* and receipts that are stored: the foreign keys of learner_run,          *)
(* optimization_run, scorer_activation and optimization_run_adoption never *)
(* fail a commit.                                                          *)
THEOREM LearnerTypesHold == LearnerSpec => []LearnerTypes
<1>1. LearnerInv => LearnerTypes
  BY DEF LearnerInv
<1> QED
  BY <1>1, LearnerInvHolds, PTL

(* Any number of workers, crashes and errors: a job is completed exactly   *)
(* when one receipt was written for it (run_pending_jobs, _retrain).       *)
THEOREM JobsFitOnceHolds == LearnerSpec => []JobsFitOnce
<1>1. LearnerInv => JobsFitOnce
  BY DEF LearnerInv
<1> QED
  BY <1>1, LearnerInvHolds, PTL

(* Any floor and any stride: a fit the cadence asked for has a full stride *)
(* of evidence over every earlier fit above the floor (_background_due).   *)
THEOREM DueFitsStrideHolds == LearnerSpec => []DueFitsStride
<1>1. LearnerInv => DueFitsStride
  BY DEF LearnerInv
<1> QED
  BY <1>1, LearnerInvHolds, PTL

(* A step that writes no activation leaves the serving version alone.      *)
LEMMA OthersStutter ==
    ASSUME LearnerInv, [LearnerNext]_learnerVars, ~ \E c \in Console : ConsoleWrite(c)
    PROVE  UNCHANGED <<Serving, activations>>
<1>1. CASE \E p \in Retrainer : Land(p)
  <2>1. PICK p \in Retrainer : Land(p)
    BY <1>1
  <2>2. PICK s, r : Lands(s, r)
    BY <2>1, LandReads
  <2> QED
    BY <2>2, LandConfigs DEF LearnerInv, Lands
<1>2. CASE ~ \E p \in Retrainer : Land(p)
  <2>1. UNCHANGED <<configs, activations>>
    <3>1. CASE UNCHANGED learnerVars
      BY <3>1 DEF learnerVars, scorerVars
    <3>2. CASE \/ \E j \in RetrainJobId : SubmitJob(j)
               \/ \E j \in RetrainJobId, i \in Instance : NotifyJob(j, i) \/ Poll(j, i)
               \/ \E t \in Trigger, i \in Instance : Compaction(t, i)
               \/ Signal \/ Annotate
      BY <3>2 DEF SubmitJob, NotifyJob, Poll, Compaction, Signal, Annotate, scorerVars
    <3>3. CASE \E i \in Instance : WorkerStep(i) \/ Restart(i)
      BY <3>3 DEF WorkerStep, Wake, BeginJob, BeginCompact, TakeTrigger, RecordError, Restart,
                  Begin, scorerVars
    <3>4. CASE \E h \in Handler, kind \in {"manual", "due"} : BeginRequest(h, kind)
      BY <3>4 DEF BeginRequest, Begin, scorerVars
    <3>5. CASE \E p \in Retrainer : RetrainStep(p)
      BY <1>2, <3>5 DEF RetrainStep, NoFit, Raise, scorerVars
    <3>6. CASE \E c \in Console : ConsoleStep(c)
      BY <3>6 DEF ConsoleStep, SendForce, SendActivate, ConsoleRead, ConsoleDies
    <3> QED
      BY <3>1, <3>2, <3>3, <3>4, <3>5, <3>6 DEF LearnerNext
  <2> QED
    BY <2>1 DEF Serving
<1> QED
  BY <1>1, <1>2

LEMMA WriteHandsOver ==
    ASSUME LearnerInv, NEW c \in Console, ConsoleWrite(c)
    PROVE  Authority!LogNext
<1>1. PICK q : q = console[c] /\ Writes(q)
  BY WriteReads
<1>2. PICK e : e = [tap |-> q.tap, version |-> q.version,
                    previous |-> q.active, reason |-> q.reason]
  OBVIOUS
<1>3. e.tap = q.tap /\ e.version = q.version /\ e.previous = q.active
  BY <1>2
<1>4. activations' = Append(activations, e)
  BY <1>1, <1>2 DEF Writes
<1>5. /\ Len(activations') = Len(activations) + 1
      /\ activations'[Len(activations')] = e
  BY <1>4, AppendFacts DEF LearnerInv, LearnerTypes
<1>6. \A k \in DOMAIN activations : activations[k].tap # e.tap
  BY <1>1, <1>3 DEF Writes, Journaled
<1>7. {v \in DOMAIN configs : configs[v].active} = {e.previous}
  BY <1>1, <1>3 DEF Writes, Serving
<1>8. {v \in DOMAIN configs : configs[v].active}' = {e.version}
  BY <1>1, <1>3, WriteConfigs DEF LearnerInv, Serving
<1> QED
  BY <1>4, <1>5, <1>6, <1>7, <1>8 DEF Authority!LogNext, Authority!HandOver

(* The console and the retrains implement the authority log, for any       *)
(* number of requests: one version serves, every activation hands over     *)
(* from it and a tap activates once (create_scorer_config,                 *)
(* activate_proposal).                                                     *)
THEOREM ConsoleIsAuthority == LearnerSpec => ImplementsScorerLog
<1>1. LearnerInit => Authority!LogInit
  BY DEF LearnerInit, Authority!LogInit
<1>2. LearnerInv /\ [LearnerNext]_learnerVars
      => [Authority!LogNext]_<<{v \in DOMAIN configs : configs[v].active}, activations>>
  BY OthersStutter, WriteHandsOver DEF Serving
<1> QED
  BY <1>1, <1>2, LearnerInvHolds, PTL DEF LearnerSpec, ImplementsScorerLog, Authority!LogSpec

-----------------------------------------------------------------------------
(* The loop, as FoldLeft unfolds: on a prefix of the ranking.              *)
Walks(pool, seq, start, g) ==
    g = [s \in SUBSET DOMAIN seq |->
            IF s = {} THEN start ELSE Considered(pool, g[s \ {Max(s)}], seq[Max(s)])]
WalkOf(pool, seq, start) == CHOOSE g : Walks(pool, seq, start, g)

Start(pool, share) ==
    [left |-> Budget(pool, share), selected |-> <<>>, unselected |-> <<>>, cuts |-> {}]
RegularRank(pool) == Ranked(pool, OfKind(pool, "regular"))

LEMMA LoopIsWalk ==
    ASSUME NEW pool, NEW share
    PROVE  Loop(pool, share)
           = WalkOf(pool, RegularRank(pool), Start(pool, share))[DOMAIN RegularRank(pool)]
BY DEF Loop, FoldLeft, MapThenFoldSet, WalkOf, Walks, Start, RegularRank

LEMMA MaxIsLargest ==
    ASSUME NEW n \in Nat, NEW s \in SUBSET (1 .. n), s # {}
    PROVE  Max(s) \in s /\ \A y \in s : y <= Max(s)
<1>1. \E x \in s : \A y \in s : x >= y
  BY LargestExists
<1> QED
  BY <1>1 DEF Max

LEMMA MaxChooses ==
    ASSUME NEW n \in Nat, NEW ch, ch = [s \in (SUBSET (1 .. n)) \ {{}} |-> Max(s)]
    PROVE  LastFirst(n, ch)
<1>1. Chooses(1 .. n, ch)
  BY MaxIsLargest DEF Chooses
<1>2. ASSUME NEW k \in 1 .. n PROVE ch[1 .. k] = k
  <2>0. k \in Nat /\ 1 \in 1 .. k /\ 1 .. k \subseteq 1 .. n
    OBVIOUS
  <2>1. 1 .. k \in (SUBSET (1 .. n)) \ {{}} /\ 1 .. k \in SUBSET (1 .. k) /\ 1 .. k # {}
    BY <2>0
  <2>2. Max(1 .. k) \in 1 .. k /\ \A y \in 1 .. k : y <= Max(1 .. k)
    BY <2>0, <2>1, MaxIsLargest
  <2>3. Max(1 .. k) = k
    BY <2>2
  <2> QED
    BY <2>1, <2>3
<1> QED
  BY <1>1, <1>2 DEF LastFirst

States(pool) == [left : Int, selected : Seq(DOMAIN pool), unselected : Seq(DOMAIN pool),
                 cuts : SUBSET DOMAIN pool]

LEMMA ConsideredTyped ==
    ASSUME NEW pool \in Seq(Memory), NEW state \in States(pool), NEW i \in DOMAIN pool
    PROVE  Considered(pool, state, i) \in States(pool)
<1>1. pool[i] \in Memory
  OBVIOUS
<1>2. pool[i].cost \in Nat /\ pool[i].score \in Int
  BY <1>1 DEF Memory
<1>3. Append(state.selected, i) \in Seq(DOMAIN pool) /\ Append(state.unselected, i) \in Seq(DOMAIN pool)
  BY AppendFacts DEF States
<1>4. CASE pool[i].score >= Tau /\ Fits(state, pool[i].cost)
  <2>1. PICK l, q : l = state.left - pool[i].cost /\ q = Append(state.selected, i)
    OBVIOUS
  <2>2. Considered(pool, state, i) = [state EXCEPT !.left = l, !.selected = q]
    BY <1>4, <2>1 DEF Considered
  <2>3. l \in Int /\ q \in Seq(DOMAIN pool)
    BY <1>2, <1>3, <2>1 DEF States
  <2> QED
    BY <2>2, <2>3 DEF States
<1>5. CASE ~(pool[i].score >= Tau /\ Fits(state, pool[i].cost))
  <2>1. PICK c : c = IF pool[i].score >= Tau THEN state.cuts \cup {i} ELSE state.cuts
    OBVIOUS
  <2>2. Considered(pool, state, i)
        = [state EXCEPT !.unselected = Append(state.unselected, i), !.cuts = c]
    BY <1>5, <2>1 DEF Considered
  <2>3. c \in SUBSET DOMAIN pool
    BY <2>1 DEF States
  <2> QED
    BY <1>3, <2>2, <2>3 DEF States
<1> QED
  BY <1>4, <1>5

(* The states the loop goes through.                                       *)
Trace(pool, seq, start, h) ==
    /\ h \in [0 .. Len(seq) -> States(pool)]
    /\ h[0] = start
    /\ \A k \in 1 .. Len(seq) : h[k] = Considered(pool, h[k - 1], seq[k])

LEMMA LoopHasTrace ==
    ASSUME NEW pool \in Seq(Memory), NEW seq \in Seq(DOMAIN pool), NEW start \in States(pool)
    PROVE  \E h : Trace(pool, seq, start, h) /\ WalkOf(pool, seq, start)[DOMAIN seq] = h[Len(seq)]
<1>1. PICK n \in Nat : n = Len(seq) /\ DOMAIN seq = 1 .. n
  OBVIOUS
<1> DEFINE V == States(pool)
           ch == [s \in (SUBSET (1 .. n)) \ {{}} |-> Max(s)]
           step == [k \in 1 .. n |-> [v \in V |-> Considered(pool, v, seq[k])]]
<1>2. \A k \in 1 .. n : seq[k] \in DOMAIN pool
  BY <1>1
<1>3. step \in [1 .. n -> [V -> V]]
  <2> HIDE DEF V
  <2>1. \A k \in 1 .. n : \A v \in V : Considered(pool, v, seq[k]) \in V
    BY <1>2, ConsideredTyped DEF V
  <2> QED
    BY <2>1
<1>4. \A s \in (SUBSET (1 .. n)) \ {{}} : ch[s] = Max(s) /\ Max(s) \in s
  BY MaxIsLargest
<1>5. \A k \in 1 .. n : \A v \in V : step[k][v] = Considered(pool, v, seq[k])
  OBVIOUS
<1>6. ch = [s \in (SUBSET (1 .. n)) \ {{}} |-> Max(s)] /\ start \in V
  OBVIOUS
<1> HIDE DEF V, ch, step
<1>7. LastFirst(n, ch) /\ Chooses(1 .. n, ch) /\ IsFiniteSet(1 .. n)
  <2>1. LastFirst(n, ch)
    BY <1>6, MaxChooses
  <2>2. IsFiniteSet(1 .. n)
    BY <1>1, FS_Interval
  <2>3. Chooses(1 .. n, ch)
    BY <2>1 DEF LastFirst
  <2> QED
    BY <2>1, <2>2, <2>3
<1>8. PICK g \in [SUBSET (1 .. n) -> V], h \in [0 .. n -> V] :
              Folds(1 .. n, ch, start, step, g) /\ Goes(n, start, step, h) /\ h[n] = g[1 .. n]
  <2>1. Traced(n, V, start, step, ch)
    BY <1>3, <1>6, <1>7, FoldTrace
  <2> QED
    BY <2>1 DEF Traced
<1>9. /\ g[{}] = start
      /\ \A s \in (SUBSET (1 .. n)) \ {{}} : g[s] = Considered(pool, g[s \ {Max(s)}], seq[Max(s)])
  <2>1. ASSUME NEW s \in (SUBSET (1 .. n)) \ {{}}
        PROVE  g[s] = Considered(pool, g[s \ {Max(s)}], seq[Max(s)])
    <3>1. g[s] = step[Max(s)][g[s \ {Max(s)}]]
      BY <1>4, <1>8 DEF Folds
    <3>2. Max(s) \in 1 .. n /\ s \ {Max(s)} \in SUBSET (1 .. n)
      BY <1>4
    <3>3. g[s \ {Max(s)}] \in V
      BY <1>8, <3>2
    <3> QED
      BY <1>5, <3>1, <3>2, <3>3
  <2> QED
    BY <1>8, <2>1 DEF Folds
<1>10. Walks(pool, seq, start, g)
  <2>1. \A s \in SUBSET (1 .. n) :
           g[s] = IF s = {} THEN start ELSE Considered(pool, g[s \ {Max(s)}], seq[Max(s)])
    BY <1>9
  <2> QED
    BY <1>1, <1>8, <2>1 DEF Walks
<1>11. PICK w : w = WalkOf(pool, seq, start)
  OBVIOUS
<1>12. Walks(pool, seq, start, w)
  BY <1>10, <1>11 DEF WalkOf
<1>13. Alike(1 .. n, ch, g, w)
  <2>1. /\ w[{}] = start
        /\ \A s \in (SUBSET (1 .. n)) \ {{}} : w[s] = Considered(pool, w[s \ {Max(s)}], seq[Max(s)])
    BY <1>1, <1>12 DEF Walks
  <2>2. \A s \in (SUBSET (1 .. n)) \ {{}} : g[s \ {ch[s]}] = w[s \ {ch[s]}] => g[s] = w[s]
    BY <1>4, <1>9, <2>1
  <2> QED
    BY <1>9, <2>1, <2>2 DEF Alike
<1>14. \A s \in SUBSET (1 .. n) : g[s] = w[s]
  <2>1. PICK D : D = 1 .. n
    OBVIOUS
  <2>2. IsFiniteSet(D) /\ Chooses(D, ch) /\ Alike(D, ch, g, w)
    BY <1>7, <1>13, <2>1
  <2>3. \A s \in SUBSET D : g[s] = w[s]
    BY <2>2, FoldUnique
  <2> QED
    BY <2>1, <2>3
<1>15. \A k \in 1 .. n : h[k] = Considered(pool, h[k - 1], seq[k])
  <2> SUFFICES ASSUME NEW k \in 1 .. n PROVE h[k] = Considered(pool, h[k - 1], seq[k])
    OBVIOUS
  <2>1. h[k] = step[k][h[k - 1]] /\ k - 1 \in 0 .. n
    BY <1>8 DEF Goes
  <2> QED
    BY <1>5, <1>8, <2>1
<1>16. Trace(pool, seq, start, h)
  BY <1>1, <1>8, <1>15 DEF Trace, V, Goes
<1> QED
  BY <1>1, <1>8, <1>11, <1>14, <1>16

Taken(pool, state, i) == pool[i].score >= Tau /\ Fits(state, pool[i].cost)

LEMMA RangeAppend ==
    ASSUME NEW S, NEW s \in Seq(S), NEW x \in S
    PROVE  Range(Append(s, x)) = Range(s) \cup {x}
<1>1. /\ DOMAIN Append(s, x) = DOMAIN s \cup {Len(s) + 1}
      /\ Len(s) + 1 \notin DOMAIN s
      /\ \A k \in DOMAIN s : Append(s, x)[k] = s[k]
      /\ Append(s, x)[Len(s) + 1] = x
  BY AppendFacts
<1> QED
  BY <1>1 DEF Range

Costs(pool) == [i \in DOMAIN pool |-> pool[i].cost]
Seen(seq, k) == {seq[m] : m \in 1 .. k}

(* What the loop has kept after k memories: the budget is not overspent,   *)
(* whatever was cut is dearer than what is left of it, and every relevant  *)
(* memory passed over did not fit beside the selected ones before it.      *)
LoopOK(pool, seq, budget, k, state) ==
    /\ state.left = budget - Total(Costs(pool), Range(state.selected)) /\ state.left >= 0
    /\ Range(state.selected) \subseteq {i \in Seen(seq, k) : pool[i].score >= Tau}
    /\ \A i \in state.cuts : pool[i].cost > state.left
    /\ \A m \in 1 .. k :
          pool[seq[m]].score >= Tau /\ seq[m] \notin Range(state.selected)
          => pool[seq[m]].cost + Total(Costs(pool), Range(state.selected) \cap Seen(seq, m - 1))
             > budget

LEMMA PoolCosts ==
    ASSUME NEW pool \in Seq(Memory)
    PROVE  /\ IsFiniteSet(DOMAIN pool) /\ Amounts(Costs(pool), DOMAIN pool)
           /\ \A i \in DOMAIN pool : /\ Costs(pool)[i] = pool[i].cost /\ pool[i].cost \in Nat
                                     /\ pool[i].score \in Int /\ i \in Nat
<1>1. PICK n \in Nat : DOMAIN pool = 1 .. n
  OBVIOUS
<1>2. IsFiniteSet(1 .. n)
  BY FS_Interval
<1>3. \A i \in DOMAIN pool : pool[i] \in Memory
  OBVIOUS
<1>4. \A i \in DOMAIN pool : pool[i].cost \in Nat /\ pool[i].score \in Int /\ i \in Nat
  BY <1>1, <1>3 DEF Memory
<1> QED
  BY <1>1, <1>2, <1>4 DEF Costs, Amounts

LEMMA CostsInsert ==
    ASSUME NEW pool \in Seq(Memory), NEW D \in SUBSET DOMAIN pool, NEW i \in (DOMAIN pool) \ D
    PROVE  /\ Total(Costs(pool), D) \in Nat
           /\ Total(Costs(pool), D \cup {i}) = Costs(pool)[i] + Total(Costs(pool), D)
<1>1. PICK S, c : S = DOMAIN pool /\ c = Costs(pool)
  OBVIOUS
<1>2. IsFiniteSet(S) /\ Amounts(c, S)
  BY <1>1, PoolCosts
<1>3. \A U \in SUBSET S : \A x \in S \ U :
         Total(c, U) \in Nat /\ Total(c, U \cup {x}) = c[x] + Total(c, U)
  BY <1>2, TotalInsert, Zenon
<1> QED
  BY <1>1, <1>3, Zenon

LEMMA StillDearer == \A q, p \in Nat : \A l \in Int : q > l => q > l - p
OBVIOUS

Distinct(seq, n) == \A m, l \in 1 .. n : seq[m] = seq[l] => m = l

LEMMA LoopStep ==
    ASSUME NEW pool \in Seq(Memory), NEW n \in Nat, NEW seq \in [1 .. n -> DOMAIN pool],
           Distinct(seq, n),
           NEW budget \in Int, NEW k \in 1 .. n, NEW state \in States(pool),
           LoopOK(pool, seq, budget, k - 1, state),
           NEW next, next = Considered(pool, state, seq[k])
    PROVE  LoopOK(pool, seq, budget, k, next)
<1>0. PICK i, D, E, c : /\ i = seq[k] /\ D = Range(state.selected)
                        /\ E = Range(next.selected) /\ c = Costs(pool)
  OBVIOUS
<1>1. i \in DOMAIN pool /\ pool[i].cost \in Nat /\ pool[i].score \in Int /\ c[i] = pool[i].cost
  BY <1>0, PoolCosts
<1>2. IsFiniteSet(DOMAIN pool) /\ Amounts(c, DOMAIN pool)
  BY <1>0, PoolCosts
<1>3. D \in SUBSET DOMAIN pool /\ state.left \in Int
  BY <1>0 DEF States, Range
<1>4. Seen(seq, k) = Seen(seq, k - 1) \cup {i}
  BY <1>0 DEF Seen
<1>5. i \notin Seen(seq, k - 1) /\ \A m \in 1 .. k : i \notin Seen(seq, m - 1)
  BY <1>0 DEF Seen, Distinct
<1>6. D \subseteq Seen(seq, k - 1) /\ i \notin D
  BY <1>0, <1>5 DEF LoopOK
<1>7. Total(c, D) \in Nat /\ Total(c, D \cup {i}) = c[i] + Total(c, D)
  <2>1. D \in SUBSET DOMAIN pool /\ i \in (DOMAIN pool) \ D
    BY <1>1, <1>3, <1>6
  <2> QED
    BY <1>0, <2>1, CostsInsert, Zenon
<1>8. state.left = budget - Total(c, D) /\ state.left >= 0
  BY <1>0 DEF LoopOK
<1>9. \A m \in 1 .. k : E \subseteq D \cup {i} /\ D \subseteq E
                        => E \cap Seen(seq, m - 1) = D \cap Seen(seq, m - 1)
  BY <1>5
<1>10. \A m \in 1 .. k - 1 :
          pool[seq[m]].score >= Tau /\ seq[m] \notin D
          => pool[seq[m]].cost + Total(c, D \cap Seen(seq, m - 1)) > budget
  BY <1>0 DEF LoopOK
<1>11. \A j \in state.cuts : j \in DOMAIN pool /\ pool[j].cost > state.left /\ pool[j].cost \in Nat
  BY PoolCosts DEF LoopOK, States
<1>12. \A j \in D : j \in Seen(seq, k - 1) /\ pool[j].score >= Tau
  BY <1>0 DEF LoopOK
<1>13. CASE Taken(pool, state, i)
  <2>1. next.left = state.left - pool[i].cost /\ next.cuts = state.cuts /\ E = D \cup {i}
    <3>1. next = Considered(pool, state, i)
      BY <1>0
    <3>2. PICK l, q : l = state.left - pool[i].cost /\ q = Append(state.selected, i)
      OBVIOUS
    <3>3. next = [state EXCEPT !.left = l, !.selected = q]
      BY <1>13, <3>1, <3>2 DEF Considered, Taken
    <3>4. next.left = l /\ next.selected = q /\ next.cuts = state.cuts /\ state.selected \in Seq(DOMAIN pool)
      BY <3>3 DEF States
    <3>5. Range(q) = Range(state.selected) \cup {i}
      BY <1>1, <3>2, <3>4, RangeAppend
    <3> QED
      BY <1>0, <3>2, <3>4, <3>5
  <2>2. next.left = budget - Total(c, E) /\ next.left >= 0
    <3>1. PICK t, p, l : t = Total(c, D) /\ p = pool[i].cost /\ l = state.left
      OBVIOUS
    <3>2. Total(c, E) = p + t
      BY <1>1, <1>7, <2>1, <3>1, Zenon
    <3>3. t \in Nat /\ p \in Nat /\ l \in Int /\ l = budget - t /\ next.left = l - p
      BY <1>1, <1>3, <1>7, <1>8, <2>1, <3>1, Zenon
    <3>4. p <= l
      BY <1>13, <3>1 DEF Taken, Fits
    <3> QED
      BY <3>2, <3>3, <3>4
  <2>3. \A j \in E : j \in Seen(seq, k) /\ pool[j].score >= Tau
    BY <1>4, <1>12, <1>13, <2>1 DEF Taken, Fits
  <2>4. ASSUME NEW j \in next.cuts PROVE pool[j].cost > next.left
    <3>1. PICK q, p, l : q = pool[j].cost /\ p = pool[i].cost /\ l = state.left
      OBVIOUS
    <3>2. j \in state.cuts
      BY <2>1, <2>4, Zenon
    <3>3. q \in Nat /\ p \in Nat /\ l \in Int /\ q > l /\ next.left = l - p
      BY <1>1, <1>3, <1>11, <2>1, <3>1, <3>2, Zenon
    <3> QED
      BY <3>1, <3>3, StillDearer, Zenon
  <2>5. ASSUME NEW m \in 1 .. k, pool[seq[m]].score >= Tau, seq[m] \notin E
        PROVE  pool[seq[m]].cost + Total(c, E \cap Seen(seq, m - 1)) > budget
    <3>1. m \in 1 .. k - 1
      BY <2>1, <2>5, <1>0
    <3>2. E \cap Seen(seq, m - 1) = D \cap Seen(seq, m - 1)
      BY <1>9, <2>1
    <3> QED
      BY <1>10, <2>1, <2>5, <3>1, <3>2
  <2> QED
    BY <2>2, <2>3, <2>4, <2>5, <1>0 DEF LoopOK
<1>14. CASE ~Taken(pool, state, i)
  <2>1. /\ next.left = state.left /\ E = D
        /\ next.cuts = IF pool[i].score >= Tau THEN state.cuts \cup {i} ELSE state.cuts
    <3>1. next = Considered(pool, state, i)
      BY <1>0
    <3>2. PICK x, q : /\ x = IF pool[i].score >= Tau THEN state.cuts \cup {i} ELSE state.cuts
                      /\ q = Append(state.unselected, i)
      OBVIOUS
    <3>3. next = [state EXCEPT !.unselected = q, !.cuts = x]
      BY <1>14, <3>1, <3>2 DEF Considered, Taken
    <3>4. next.left = state.left /\ next.selected = state.selected /\ next.cuts = x
      BY <3>3 DEF States
    <3> QED
      BY <1>0, <3>2, <3>4
  <2>2. next.left = budget - Total(c, E) /\ next.left >= 0
    BY <1>8, <2>1
  <2>3. \A j \in E : j \in Seen(seq, k) /\ pool[j].score >= Tau
    BY <1>4, <1>12, <2>1
  <2>4. \A j \in next.cuts : pool[j].cost > next.left
    BY <1>1, <1>3, <1>11, <1>14, <2>1 DEF Taken, Fits
  <2>5. ASSUME NEW m \in 1 .. k, pool[seq[m]].score >= Tau, seq[m] \notin E
        PROVE  pool[seq[m]].cost + Total(c, E \cap Seen(seq, m - 1)) > budget
    <3>1. CASE m = k
      <4>1. seq[m] = i /\ E \cap Seen(seq, m - 1) = D
        BY <1>6, <2>1, <3>1, <1>0
      <4> QED
        <5>1. pool[i].cost > state.left
          BY <1>1, <1>3, <1>14, <2>5, <4>1 DEF Taken, Fits
        <5>2. pool[seq[m]].cost = pool[i].cost /\ Total(c, E \cap Seen(seq, m - 1)) = Total(c, D)
          BY <4>1
        <5>3. pool[i].cost + Total(c, D) > budget
          BY <1>1, <1>3, <1>7, <1>8, <5>1
        <5> QED
          BY <5>2, <5>3
    <3>2. CASE m # k
      <4>1. m \in 1 .. k - 1
        BY <3>2
      <4> QED
        BY <1>10, <2>1, <2>5, <4>1
    <3> QED
      BY <3>1, <3>2
  <2> QED
    BY <2>2, <2>3, <2>4, <2>5, <1>0 DEF LoopOK
<1> QED
  BY <1>13, <1>14

LEMMA LoopKeeps ==
    ASSUME NEW pool \in Seq(Memory), NEW n \in Nat, NEW seq \in [1 .. n -> DOMAIN pool],
           Distinct(seq, n), NEW budget \in Nat,
           NEW start, start = [left |-> budget, selected |-> <<>>, unselected |-> <<>>, cuts |-> {}],
           NEW h, Trace(pool, seq, start, h)
    PROVE  LoopOK(pool, seq, budget, n, h[n]) /\ h[n] \in States(pool)
<1>1. Len(seq) = n
  OBVIOUS
<1>2. /\ h \in [0 .. n -> States(pool)] /\ h[0] = start
      /\ \A k \in 1 .. n : h[k] = Considered(pool, h[k - 1], seq[k])
  BY <1>1 DEF Trace
<1> DEFINE T == {k \in 0 .. n : ~LoopOK(pool, seq, budget, k, h[k])}
<1>3. LoopOK(pool, seq, budget, 0, h[0])
  <2>1. start.left = budget /\ start.selected = <<>> /\ start.cuts = {}
    OBVIOUS
  <2>2. Range(start.selected) = {}
    BY <2>1 DEF Range
  <2>3. Total(Costs(pool), {}) = 0
    BY PoolCosts, TotalFacts
  <2>4. budget = budget - Total(Costs(pool), Range(start.selected)) /\ budget >= 0
    <3>1. Total(Costs(pool), Range(start.selected)) = 0
      BY <2>2, <2>3
    <3> QED
      BY <3>1
  <2>5. PICK state : state = h[0] /\ state = start
    BY <1>2
  <2>6. /\ state.left = budget - Total(Costs(pool), Range(state.selected)) /\ state.left >= 0
        /\ Range(state.selected) = {} /\ state.cuts = {}
    BY <2>1, <2>2, <2>4, <2>5
  <2>7. LoopOK(pool, seq, budget, 0, state)
    BY <2>6 DEF LoopOK
  <2> QED
    BY <2>5, <2>7
<1>4. ASSUME NEW k \in 1 .. n, LoopOK(pool, seq, budget, k - 1, h[k - 1])
      PROVE  LoopOK(pool, seq, budget, k, h[k])
  <2>1. PICK state, next : state = h[k - 1] /\ next = h[k]
    OBVIOUS
  <2>2. state \in States(pool) /\ next = Considered(pool, state, seq[k]) /\ budget \in Int
    BY <1>2, <2>1
  <2>3. LoopOK(pool, seq, budget, k, next)
    BY <1>4, <2>1, <2>2, LoopStep
  <2> QED
    BY <2>1, <2>3
<1>5. T = {}
  <2> SUFFICES ASSUME T # {} PROVE FALSE
    OBVIOUS
  <2>1. T \in SUBSET Nat
    OBVIOUS
  <2>2. PICK k \in T : \A m \in T : k <= m
    BY <2>1, SmallestExists
  <2>3. k # 0 /\ k \in 0 .. n
    BY <1>3, <2>2
  <2>4. k \in 1 .. n /\ k - 1 \in 0 .. n /\ ~(k <= k - 1)
    BY <2>3
  <2>5. LoopOK(pool, seq, budget, k - 1, h[k - 1])
    BY <2>2, <2>4
  <2> QED
    BY <1>4, <2>2, <2>4, <2>5
<1>6. n \in 0 .. n
  OBVIOUS
<1>7. LoopOK(pool, seq, budget, n, h[n])
  BY <1>5, <1>6
<1> QED
  BY <1>2, <1>6, <1>7

(* The ranking lists the memories: every one, once, best first.            *)
LEMMA RankedLists ==
    ASSUME NEW pool \in Seq(Memory), NEW S \in SUBSET DOMAIN pool
    PROVE  /\ IsFiniteSet(S) /\ Cardinality(S) \in Nat
           /\ Ranked(pool, S) \in [1 .. Cardinality(S) -> S]
           /\ Range(Ranked(pool, S)) = S
           /\ Distinct(Ranked(pool, S), Cardinality(S))
<1> DEFINE below == [i \in S |-> Before(pool, S, i)]
<1>1. \A i \in S : i \in Nat /\ pool[i].score \in Int
  BY PoolCosts
<1>2. IsFiniteSet(S) /\ Cardinality(S) \in Nat
  BY PoolCosts, FS_Subset, FS_CardinalityType
<1>3. Ordered(S, below)
  <2>1. below \in [S -> SUBSET S]
    BY DEF Before
  <2>2. \A x \in S : x \notin below[x]
    BY <1>1 DEF Before
  <2>3. \A x, y \in S : y \in below[x] => below[y] \subseteq below[x]
    BY <1>1 DEF Before
  <2>4. \A x, y \in S : x # y => x \in below[y] \/ y \in below[x]
    BY <1>1 DEF Before
  <2> QED
    BY <2>1, <2>2, <2>3, <2>4 DEF Ordered
<1>4. PICK seq : seq = Ranked(pool, S)
  OBVIOUS
<1>5. seq = [k \in 1 .. Cardinality(S) |-> CHOOSE x \in S : Cardinality(below[x]) = k - 1]
  BY <1>4 DEF Ranked
<1> HIDE DEF below
<1>6. Lists(S, below, seq)
  BY <1>2, <1>3, <1>5, RankLists
<1>7. /\ seq \in [1 .. Cardinality(S) -> S] /\ Distinct(seq, Cardinality(S))
      /\ \A x \in S : \E k \in 1 .. Cardinality(S) : seq[k] = x
  BY <1>6 DEF Lists, Distinct
<1>8. Range(seq) = S
  BY <1>7 DEF Range
<1> QED
  BY <1>2, <1>4, <1>7, <1>8

LEMMA TokensIsTotal ==
    ASSUME NEW pool \in Seq(Memory), NEW S \in SUBSET DOMAIN pool
    PROVE  Tokens(pool, S) = Total(Costs(pool), S)
<1>1. PICK c : c = [i \in S |-> pool[i].cost]
  OBVIOUS
<1>2. Tokens(pool, S) = Total(c, S)
  BY <1>1 DEF Tokens, MapThenSumSet, MapThenFoldSet, Total, SumOf, Sums, One
<1>3. IsFiniteSet(S) /\ Amounts(Costs(pool), S) /\ \A i \in S : c[i] = Costs(pool)[i]
  BY <1>1, PoolCosts, FS_Subset DEF Amounts
<1>4. Total(c, S) = Total(Costs(pool), S)
  BY <1>3, TotalSame
<1> QED
  BY <1>2, <1>4

LEMMA RangeConcat ==
    ASSUME NEW S, NEW s \in Seq(S), NEW t \in Seq(S)
    PROVE  Range(s \o t) = Range(s) \cup Range(t)
<1>1. PICK n \in Nat : n = Len(t) /\ t \in [1 .. n -> S]
  OBVIOUS
<1>2. PICK u : u = s \o t
  OBVIOUS
<1>3. Extension(s, t, n, u)
  BY <1>1, <1>2, ConcatFacts
<1>4. DOMAIN t = 1 .. n
  BY <1>1
<1>5. Range(u) \subseteq Range(s) \cup Range(t)
  BY <1>3, <1>4 DEF Range, Extension
<1>6. Range(s) \cup Range(t) \subseteq Range(u)
  BY <1>3, <1>4 DEF Range, Extension
<1> QED
  BY <1>2, <1>5, <1>6

LEMMA MaxOfBudget ==
    ASSUME NEW a \in Int
    PROVE  Max({0, a}) \in Nat /\ Max({0, a}) >= a /\ (a >= 0 => Max({0, a}) = a)
<1>1. \E x \in {0, a} : \A y \in {0, a} : x >= y
  OBVIOUS
<1>2. Max({0, a}) \in {0, a} /\ \A y \in {0, a} : Max({0, a}) >= y
  BY <1>1 DEF Max
<1> QED
  BY <1>2

(* What a gate shows: the locked memories and what the loop selected.      *)
LEMMA GateFacts ==
    ASSUME NEW pool \in Seq(Memory), NEW share \in Nat
    PROVE  \E rank, n, end, R, L, budget :
              /\ n \in Nat /\ rank = Ranked(pool, OfKind(pool, "regular"))
              /\ rank \in [1 .. n -> DOMAIN pool] /\ Distinct(rank, n) /\ Range(rank) = R
              /\ R = OfKind(pool, "regular") /\ L = OfKind(pool, "locked")
              /\ end \in States(pool) /\ LoopOK(pool, rank, budget, n, end)
              /\ budget = Budget(pool, share) /\ budget \in Nat
              /\ budget >= share - Total(Costs(pool), L)
              /\ share >= Total(Costs(pool), L) => budget = share - Total(Costs(pool), L)
              /\ Range(ScoreAndSelect(pool, share).regular) = L \cup Range(end.selected)
              /\ ScoreAndSelect(pool, share).cuts = end.cuts
<1>1. PICK R, L, rank, n, budget, end, seq :
          /\ R = OfKind(pool, "regular") /\ L = OfKind(pool, "locked")
          /\ rank = RegularRank(pool) /\ n = Cardinality(R) /\ budget = Budget(pool, share)
          /\ end = Loop(pool, share) /\ seq = Ranked(pool, L)
  OBVIOUS
<1>2. R \in SUBSET DOMAIN pool /\ L \in SUBSET DOMAIN pool
  BY <1>1 DEF OfKind
<1>3. /\ n \in Nat /\ rank \in [1 .. n -> R] /\ Range(rank) = R /\ Distinct(rank, n)
  BY <1>1, <1>2, RankedLists DEF RegularRank
<1>4. rank \in [1 .. n -> DOMAIN pool]
  BY <1>2, <1>3
<1>5. Total(Costs(pool), L) \in Nat
  BY <1>2, PoolCosts, TotalFacts
<1>6. budget = Max({0, share - Total(Costs(pool), L)})
  BY <1>1, <1>2, TokensIsTotal DEF Budget
<1>7. /\ budget \in Nat /\ budget >= share - Total(Costs(pool), L)
      /\ share >= Total(Costs(pool), L) => budget = share - Total(Costs(pool), L)
  <2>1. PICK a \in Int : a = share - Total(Costs(pool), L)
    BY <1>5
  <2>2. budget \in Nat /\ budget >= a /\ (a >= 0 => budget = a)
    BY <1>6, <2>1, MaxOfBudget
  <2> QED
    BY <1>5, <2>1, <2>2
<1>8. PICK start : start = [left |-> budget, selected |-> <<>>, unselected |-> <<>>, cuts |-> {}]
  OBVIOUS
<1>9. start \in States(pool)
  BY <1>7, <1>8 DEF States
<1>10. rank \in Seq(DOMAIN pool) /\ Len(rank) = n /\ DOMAIN rank = 1 .. n
  BY <1>3, <1>4
<1>11. PICK h : Trace(pool, rank, start, h) /\ WalkOf(pool, rank, start)[DOMAIN rank] = h[Len(rank)]
  BY <1>9, <1>10, LoopHasTrace
<1>12. end = h[n]
  <2>1. start = Start(pool, share)
    BY <1>1, <1>8 DEF Start
  <2> QED
    BY <1>1, <1>10, <1>11, <2>1, LoopIsWalk
<1>13. LoopOK(pool, rank, budget, n, end) /\ end \in States(pool)
  BY <1>3, <1>4, <1>7, <1>8, <1>11, <1>12, LoopKeeps
<1>14. ScoreAndSelect(pool, share).regular = seq \o end.selected /\ ScoreAndSelect(pool, share).cuts = end.cuts
  BY <1>1 DEF ScoreAndSelect
<1>15. Range(seq \o end.selected) = L \cup Range(end.selected)
  <2>1. end.selected \in Seq(DOMAIN pool)
    BY <1>13 DEF States
  <2>2. seq \in [1 .. Cardinality(L) -> L] /\ Range(seq) = L /\ Cardinality(L) \in Nat
    BY <1>1, <1>2, RankedLists
  <2>3. seq \in Seq(DOMAIN pool)
    BY <1>2, <2>2
  <2> QED
    BY <2>1, <2>2, <2>3, RangeConcat
<1> QED
  BY <1>1, <1>3, <1>4, <1>7, <1>13, <1>14, <1>15 DEF RegularRank

Covers(rank, S) == \A x \in S : \E k \in DOMAIN rank : rank[k] = x

(* Of two different sets of ranked memories, one comes first.              *)
LEMMA OneIsAhead ==
    ASSUME NEW n \in Nat, NEW rank, DOMAIN rank = 1 .. n, NEW A, NEW B, A # B,
           Covers(rank, A), Covers(rank, B)
    PROVE  RankedAhead(rank, A, B) \/ RankedAhead(rank, B, A)
<1> DEFINE T == {k \in 1 .. n : (rank[k] \in A) # (rank[k] \in B)}
<1>1. T \in SUBSET Nat
  OBVIOUS
<1>2. T # {}
  <2>1. PICK x \in A \cup B : (x \in A) # (x \in B)
    OBVIOUS
  <2>2. PICK k \in 1 .. n : rank[k] = x
    BY <2>1 DEF Covers
  <2> QED
    BY <2>1, <2>2
<1>3. PICK k \in T : \A m \in T : k <= m
  BY <1>1, <1>2, SmallestExists
<1>4. ASSUME NEW m \in 1 .. k - 1 PROVE rank[m] \in A <=> rank[m] \in B
  <2>1. m \in 1 .. n /\ ~(k <= m)
    BY <1>3
  <2> QED
    BY <1>3, <2>1
<1>5. k \in DOMAIN rank /\ (rank[k] \in A \ B \/ rank[k] \in B \ A)
  BY <1>3
<1> HIDE DEF T
<1> QED
  BY <1>4, <1>5 DEF RankedAhead

Within(pool, budget, S) ==
    (\A i \in S : pool[i].score >= Tau) /\ Total(Costs(pool), S) <= budget

(* No set that fits is ahead of the selected one.                          *)
LEMMA SelectedIsFirst ==
    ASSUME NEW pool \in Seq(Memory), NEW n \in Nat, NEW rank \in [1 .. n -> DOMAIN pool],
           NEW budget \in Nat, NEW end \in States(pool), LoopOK(pool, rank, budget, n, end),
           NEW D, D = Range(end.selected),
           NEW S, S \subseteq Range(rank), S # D, Within(pool, budget, S)
    PROVE  RankedAhead(rank, D, S)
<1>1. D \subseteq Seen(rank, n) /\ DOMAIN rank = 1 .. n
  BY DEF LoopOK
<1>2. Covers(rank, D) /\ Covers(rank, S)
  BY <1>1 DEF Covers, Seen, Range
<1>3. RankedAhead(rank, D, S) \/ RankedAhead(rank, S, D)
  BY <1>1, <1>2, OneIsAhead
<1> SUFFICES ASSUME RankedAhead(rank, S, D) PROVE FALSE
  BY <1>3
<1>4. PICK k \in 1 .. n : /\ rank[k] \in S \ D
                          /\ \A m \in 1 .. k - 1 : rank[m] \in S <=> rank[m] \in D
  BY <1>1 DEF RankedAhead
<1>5. PICK i, c, P, U : /\ i = rank[k] /\ c = Costs(pool) /\ P = DOMAIN pool
                        /\ U = D \cap Seen(rank, k - 1)
  OBVIOUS
<1>6. i \in S /\ i \notin D /\ i \in P /\ pool[i].score >= Tau
  BY <1>4, <1>5 DEF Within
<1>7. pool[i].cost + Total(c, U) > budget
  BY <1>5, <1>6 DEF LoopOK
<1>8. U \subseteq S
  <2> SUFFICES ASSUME NEW x \in U PROVE x \in S
    OBVIOUS
  <2>1. PICK m \in 1 .. k - 1 : x = rank[m]
    BY <1>5 DEF Seen
  <2> QED
    BY <1>4, <1>5, <2>1
<1>9. S \subseteq P
  BY <1>1, <1>5 DEF Range
<1>10. IsFiniteSet(P) /\ Amounts(c, P)
  BY <1>5, PoolCosts
<1>11. U \in SUBSET P /\ i \in P \ U /\ S \in SUBSET P /\ U \cup {i} \in SUBSET S
  BY <1>5, <1>6, <1>8, <1>9
<1>12. /\ Total(c, S) \in Nat /\ Total(c, U) \in Nat /\ c[i] \in Nat
       /\ c[i] + Total(c, U) <= Total(c, S)
  BY <1>10, <1>11, OneMoreWithin
<1>14. Total(c, S) <= budget
  BY <1>5 DEF Within
<1>15. c[i] = pool[i].cost /\ c[i] \in Nat
  BY <1>5, <1>6, PoolCosts
<1> QED
  BY <1>7, <1>12, <1>14, <1>15

(* Every pool of any size: the loop of score_and_select shows the first    *)
(* set in rank order that fits, so a memory gives way to one ranked below  *)
(* it only where it did not fit.                                           *)
THEOREM SelectionIsFirstHolds == Recorded(gate) => SelectionIsFirst
<1> SUFFICES ASSUME Recorded(gate) PROVE SelectionIsFirst
  OBVIOUS
<1>1. PICK pool, share : pool = gate.pool /\ share = gate.share
  OBVIOUS
<1>2. pool \in Seq(Memory) /\ share \in Nat
  BY <1>1 DEF Recorded
<1>3. PICK rank, n, end, R, L, budget :
              /\ n \in Nat /\ rank = Ranked(pool, OfKind(pool, "regular"))
              /\ rank \in [1 .. n -> DOMAIN pool] /\ Distinct(rank, n) /\ Range(rank) = R
              /\ R = OfKind(pool, "regular") /\ L = OfKind(pool, "locked")
              /\ end \in States(pool) /\ LoopOK(pool, rank, budget, n, end)
              /\ budget = Budget(pool, share) /\ budget \in Nat
              /\ budget >= share - Total(Costs(pool), L)
              /\ share >= Total(Costs(pool), L) => budget = share - Total(Costs(pool), L)
              /\ Range(ScoreAndSelect(pool, share).regular) = L \cup Range(end.selected)
              /\ ScoreAndSelect(pool, share).cuts = end.cuts
  BY <1>2, GateFacts
<1>4. PICK D : D = Range(end.selected)
  OBVIOUS
<1>5. DOMAIN rank = 1 .. n /\ R \subseteq DOMAIN pool /\ L \subseteq DOMAIN pool /\ R \cap L = {}
  BY <1>3 DEF OfKind
<1>6. D \subseteq R /\ \A i \in D : pool[i].score >= Tau
  BY <1>3, <1>4, <1>5 DEF LoopOK, Seen, Range
<1>7. (L \cup D) \ L = D
  BY <1>5, <1>6
<1>8. \A S \in SUBSET R : Tokens(pool, S) = Total(Costs(pool), S)
  BY <1>2, <1>5, TokensIsTotal
<1>9. D \in Feasible(pool, share)
  <2>1. Total(Costs(pool), D) \in Nat
    <3>1. D \in SUBSET DOMAIN pool
      BY <1>5, <1>6
    <3> QED
      BY <1>2, <3>1, PoolCosts, TotalFacts
  <2>2. end.left = budget - Total(Costs(pool), D) /\ end.left >= 0
    BY <1>3, <1>4 DEF LoopOK
  <2>3. Total(Costs(pool), D) <= budget
    BY <1>3, <2>1, <2>2
  <2> QED
    BY <1>3, <1>6, <1>8, <2>3 DEF Feasible
<1>10. ASSUME NEW S \in Feasible(pool, share), S # D PROVE RankedAhead(rank, D, S)
  <2>1. S \subseteq R /\ (\A i \in S : pool[i].score >= Tau) /\ Tokens(pool, S) <= budget
    BY <1>3, <1>10 DEF Feasible
  <2>2. S \subseteq Range(rank) /\ Within(pool, budget, S)
    BY <1>3, <1>8, <2>1 DEF Within
  <2>3. /\ n \in Nat /\ rank \in [1 .. n -> DOMAIN pool] /\ budget \in Nat
        /\ end \in States(pool) /\ LoopOK(pool, rank, budget, n, end)
    BY <1>3
  <2> QED
    BY <1>2, <1>4, <1>10, <2>2, <2>3, SelectedIsFirst
<1>11. Range(ScoreAndSelect(pool, share).regular) = L \cup D /\ rank = Ranked(pool, OfKind(pool, "regular"))
       /\ L = OfKind(pool, "locked")
  BY <1>3, <1>4
<1> QED
  BY <1>1, <1>7, <1>9, <1>10, <1>11, Zenon DEF SelectionIsFirst

(* Every recorded gate: the learner is never told the opposite of what     *)
(* happened.  What was cut is dearer than what the budget had left, and    *)
(* the budget is the share less the locked memories (_share_boundaries).   *)
THEOREM RoomEvidenceIsTrueHolds == Recorded(gate) => RoomEvidenceIsTrue
<1> SUFFICES ASSUME Recorded(gate) PROVE RoomEvidenceIsTrue
  OBVIOUS
<1>1. PICK pool, share : pool = gate.pool /\ share = gate.share
  OBVIOUS
<1>2. pool \in Seq(Memory) /\ share \in Nat
  BY <1>1 DEF Recorded
<1>3. PICK rank, n, end, R, L, budget :
              /\ n \in Nat /\ rank = Ranked(pool, OfKind(pool, "regular"))
              /\ rank \in [1 .. n -> DOMAIN pool] /\ Distinct(rank, n) /\ Range(rank) = R
              /\ R = OfKind(pool, "regular") /\ L = OfKind(pool, "locked")
              /\ end \in States(pool) /\ LoopOK(pool, rank, budget, n, end)
              /\ budget = Budget(pool, share) /\ budget \in Nat
              /\ budget >= share - Total(Costs(pool), L)
              /\ share >= Total(Costs(pool), L) => budget = share - Total(Costs(pool), L)
              /\ Range(ScoreAndSelect(pool, share).regular) = L \cup Range(end.selected)
              /\ ScoreAndSelect(pool, share).cuts = end.cuts
  BY <1>2, GateFacts
<1>4. PICK D, c, P : D = Range(end.selected) /\ c = Costs(pool) /\ P = DOMAIN pool
  OBVIOUS
<1>5. L \in SUBSET P /\ D \in SUBSET (P \ L) /\ D \in SUBSET P /\ L \cup D \in SUBSET P
  <2>1. DOMAIN rank = 1 .. n /\ R \subseteq P /\ L \subseteq P /\ R \cap L = {}
    BY <1>3, <1>4 DEF OfKind
  <2>2. D \subseteq R
    BY <1>3, <1>4, <2>1 DEF LoopOK, Seen, Range
  <2> QED
    BY <2>1, <2>2
<1>6. IsFiniteSet(P) /\ Amounts(c, P)
  BY <1>2, <1>4, PoolCosts
<1>7. Total(c, L) \in Nat /\ Total(c, D) \in Nat
  BY <1>5, <1>6, TotalFacts
<1>8. Total(c, L \cup D) = Total(c, L) + Total(c, D)
  BY <1>5, <1>6, TotalUnion
<1>9. PICK used : used = Used(gate)
  OBVIOUS
<1>10. used = Total(c, L) + Total(c, D)
  <2>1. Used(gate) = Tokens(pool, L \cup D)
    BY <1>1, <1>3, <1>4 DEF Used
  <2>2. Tokens(pool, L \cup D) = Total(c, L \cup D)
    BY <1>2, <1>4, <1>5, TokensIsTotal
  <2> QED
    BY <1>8, <1>9, <2>1, <2>2
<1>11. end.left = budget - Total(c, D) /\ end.left >= 0 /\ \A i \in end.cuts : pool[i].cost > end.left
  BY <1>3, <1>4 DEF LoopOK
<1>12. budget \in Nat /\ budget >= share - Total(c, L) /\ (share >= Total(c, L) => budget = share - Total(c, L))
  BY <1>3, <1>4
<1>13. ASSUME NEW i \in end.cuts PROVE used + pool[i].cost > share
  <2>1. pool[i].cost \in Nat
    BY <1>2, <1>3, <1>13, PoolCosts DEF States
  <2>2. PICK p, e, t, u : /\ p = pool[i].cost /\ e = end.left
                           /\ t = Total(c, D) /\ u = Total(c, L)
    OBVIOUS
  <2>3. p \in Nat /\ t \in Nat /\ u \in Nat /\ budget \in Nat /\ share \in Nat
    BY <1>2, <1>7, <1>12, <2>1, <2>2, Zenon
  <2>4. p > e /\ e = budget - t /\ budget >= share - u /\ used = u + t
    BY <1>10, <1>11, <1>12, <2>2, Zenon
  <2> QED
    BY <2>2, <2>3, <2>4
<1>14. used <= share \/ Total(c, L) > share
  BY <1>2, <1>7, <1>10, <1>11, <1>12
<1>15. ASSUME NEW x \in RoomUp(gate) PROVE x > share
  <2>1. PICK total, pins : /\ total = Used(gate) + Tokens(gate.pool, pins)
                           /\ pins = ScoreAndSelect(gate.pool, gate.share).pins
    OBVIOUS
  <2>2. \/ \E i \in ScoreAndSelect(gate.pool, gate.share).cuts : x = Used(gate) + gate.pool[i].cost
        \/ x = total /\ total > gate.share
    BY <1>15, <2>1 DEF RoomUp
  <2> QED
    BY <1>1, <1>3, <1>9, <1>13, <2>2
<1>16. ASSUME NEW x \in RoomDown(gate) PROVE x = used
  BY <1>9, <1>16 DEF RoomDown
<1>17. Tokens(pool, L) = Total(c, L)
  BY <1>2, <1>4, <1>5, TokensIsTotal
<1>18. \A x \in RoomUp(gate) : x > gate.share
  BY <1>1, <1>15
<1>19. \A x \in RoomDown(gate) : x <= gate.share \/ Tokens(gate.pool, OfKind(gate.pool, "locked")) > gate.share
  <2>1. Tokens(gate.pool, OfKind(gate.pool, "locked")) = Total(c, L)
    BY <1>1, <1>3, <1>17
  <2> QED
    BY <1>1, <1>14, <1>16, <2>1
<1> QED
  BY <1>18, <1>19 DEF RoomEvidenceIsTrue
=============================================================================
