------------------------------- MODULE Learner -------------------------------
(***************************************************************************)
(* The learning loop: retrain jobs and the wake worker (src/spine/learner),*)
(* and the scorer console that forces values and activates proposals       *)
(* (src/spine/m2k).  Retrains serialise on one advisory lock, console      *)
(* writes on another; a retrain works on the repeatable-read snapshot it   *)
(* takes once it has its lock.  What the fit computes is left open: a      *)
(* proposal is named by what its digest covers, the incumbent and the      *)
(* evidence.                                                               *)
(***************************************************************************)
EXTENDS Naturals, Sequences, FiniteSets

CONSTANTS
    RetrainJobId,   \* job_ids minted by submit_job
    Instance,       \* server processes, each with its own LearnerWorker
    Handler,        \* requests that call retrain or retrain_if_due themselves
    Console,        \* requests of the scorer console
    Tap,            \* event_uids of console requests
    Trigger,        \* event_uids of compactions
    MinDispositions, SignalStride,
    MaxSignals,     \* bound: evidence the owner leaves
    MaxFaults       \* bound: failed retrains and crashes

ASSUME LearnerAssumption ==
    /\ MinDispositions \in Nat /\ SignalStride \in Nat \ {0}
    /\ MaxSignals \in Nat /\ MaxFaults \in Nat
    /\ Instance \cap Handler = {}
    /\ <<>> \notin RetrainJobId \cup Instance \cup Handler \cup Console

VARIABLES
    configs,        \* scorer_config: version -> row
    activations,    \* scorer_activation, in commit order
    receipts,       \* learner_run with its optimization_run, in commit order
    adoptions,      \* optimization_run_adoption: receipt -> tap
    retrainJobs,    \* retrain_job: job_id -> "pending", "completed", "failed"
    submitted,      \* jobs whose request has not notified the worker yet
    signals,        \* dispositions in the log
    withdrawn,      \* those of gates annotated as verification only
    sent,           \* compactions the owner's agents have sent
    wake, trigger,  \* each worker's _wake event and _pending_trigger
    at,             \* where each worker or retraining handler stands
    learnerLock, controlLock,
    console,        \* what each console request has read
    faults

evidenceVars == <<signals, withdrawn>>
learningVars == <<receipts, retrainJobs, submitted, evidenceVars, sent, wake, trigger,
                  at, learnerLock, faults>>
scorerVars == <<configs, activations, adoptions, controlLock, console>>
learnerVars == <<learningVars, scorerVars>>

None == <<>>
Base == <<"v0">>
Forced(tap) == <<"m2k", tap>>
Proposal(incumbent, corpus) == <<"m2f", incumbent, corpus>>

(* Rows of the tables; a version they name is one that is stored.  learner *)
(* and control say whose manifest a version's parameters carry.            *)
ConfigRow == [active : BOOLEAN, learner : BOOLEAN, control : BOOLEAN]
JobState == {"pending", "completed", "failed"}
ReceiptRow ==
    [kind : {"manual", "background", "due"}, job : DOMAIN retrainJobs \cup {None},
     eligible : Nat, verdict : {"insufficient_data", "not_better", "proposed"},
     incumbent : DOMAIN configs, challenger : DOMAIN configs \cup {None}]
ActivationRow ==
    [tap : Tap, version : DOMAIN configs, previous : DOMAIN configs,
     reason : {"human_control", "learner_proposal"}]
AdoptionRows == UNION {[S -> Tap] : S \in SUBSET DOMAIN receipts}

Retrainer == Instance \cup Handler
Waiting == [pc |-> "wait"]

(* The worker's list of jobs is read in job_id order; the order does not   *)
(* matter to what follows, so it is a set.                                 *)
Pending == {j \in DOMAIN retrainJobs : retrainJobs[j] = "pending"}
ActiveVersion == CHOOSE v \in DOMAIN configs : configs[v].active

-----------------------------------------------------------------------------
(* Requests that only insert and notify.                                   *)

(* submit_job commits, then the route wakes the worker of its own process. *)
SubmitJob(j) ==
    /\ j \notin DOMAIN retrainJobs
    /\ retrainJobs' = [i \in DOMAIN retrainJobs \cup {j} |->
                          IF i = j THEN "pending" ELSE retrainJobs[i]]
    /\ submitted' = submitted \cup {j}
    /\ UNCHANGED <<receipts, evidenceVars, sent, wake, trigger, at, learnerLock, faults,
                   scorerVars>>

NotifyJob(j, i) ==
    /\ j \in submitted
    /\ submitted' = submitted \ {j}
    /\ wake' = [wake EXCEPT ![i] = TRUE]
    /\ UNCHANGED <<receipts, retrainJobs, evidenceVars, sent, trigger, at, learnerLock, faults,
                   scorerVars>>

(* Fault: a poll only looks.                                               *)
PollSilent(j, i) == FALSE /\ UNCHANGED learnerVars

(* GET of a pending job wakes the worker again.                            *)
Poll(j, i) ==
    /\ j \in Pending /\ ~wake[i]
    /\ wake' = [wake EXCEPT ![i] = TRUE]
    /\ UNCHANGED <<receipts, retrainJobs, submitted, evidenceVars, sent, trigger, at, learnerLock,
                   faults, scorerVars>>

(* notify(trigger): a later compaction takes the place of a pending one.   *)
Compaction(t, i) ==
    /\ t \notin sent
    /\ sent' = sent \cup {t}
    /\ trigger' = [trigger EXCEPT ![i] = t]
    /\ wake' = [wake EXCEPT ![i] = TRUE]
    /\ UNCHANGED <<receipts, retrainJobs, submitted, evidenceVars, at, learnerLock, faults,
                   scorerVars>>

Signal ==
    /\ signals < MaxSignals
    /\ signals' = signals + 1
    /\ UNCHANGED <<receipts, retrainJobs, submitted, withdrawn, sent, wake, trigger, at, learnerLock,
                   faults, scorerVars>>

(* An annotation waits for the learner's lock, and takes the dispositions  *)
(* of its gate out of the evidence for good.                               *)
LearnerLockFree == learnerLock = None

Annotate ==
    /\ LearnerLockFree /\ withdrawn < signals
    /\ withdrawn' = withdrawn + 1
    /\ UNCHANGED <<receipts, retrainJobs, submitted, signals, sent, wake, trigger, at, learnerLock,
                   faults, scorerVars>>

(* project_learning_evidence: what is left to learn from.                  *)
Eligible == signals - withdrawn

-----------------------------------------------------------------------------
(* The worker's loop around its retrains.                                  *)

(* The wake flag is cleared before the jobs are listed.                    *)
Wake(i) ==
    /\ at[i] = Waiting /\ wake[i]
    /\ wake' = [wake EXCEPT ![i] = FALSE]
    /\ at' = [at EXCEPT ![i] = [pc |-> "jobs", todo |-> Pending]]
    /\ UNCHANGED <<receipts, retrainJobs, submitted, evidenceVars, sent, trigger, learnerLock,
                   faults, scorerVars>>

(* No job is left: the pending trigger is taken.                           *)
TakeTrigger(i) ==
    /\ at[i].pc = "jobs" /\ at[i].todo = {}
    /\ at' = [at EXCEPT ![i] = IF trigger[i] = None THEN Waiting
                               ELSE [pc |-> "compact", trigger |-> trigger[i]]]
    /\ trigger' = [trigger EXCEPT ![i] = None]
    /\ UNCHANGED <<receipts, retrainJobs, submitted, evidenceVars, sent, wake, learnerLock, faults,
                   scorerVars>>

-----------------------------------------------------------------------------
(* _retrain: the lock, the snapshot, and the commit or the rollback.       *)

(* The most evidence any receipt above the floor has seen.                 *)
CadenceCursor ==
    LET seen == {receipts[k].eligible : k \in DOMAIN receipts} IN
    {n \in seen : n >= MinDispositions /\ \A m \in seen : m <= n}

(* Fault: the cadence asks for the floor alone.                            *)
AboveFloor == Eligible >= MinDispositions

BackgroundDue ==
    /\ Eligible >= MinDispositions
    /\ \A n \in CadenceCursor : Eligible >= n + SignalStride

(* What a retrain takes from its snapshot, and where its caller goes on.   *)
Snapshot(kind, job, rest) ==
    [pc |-> "fit", kind |-> kind, job |-> job, rest |-> rest,
     eligible |-> Eligible, corpus |-> <<signals, withdrawn>>, incumbent |-> ActiveVersion,
     challenged |-> \E v \in DOMAIN configs : configs[v].learner,
     called |-> /\ job = None \/ job \in Pending
                /\ kind = "due" => BackgroundDue]

Begin(p, kind, job, rest) ==
    /\ LearnerLockFree
    /\ learnerLock' = p
    /\ at' = [at EXCEPT ![p] = Snapshot(kind, job, rest)]
    /\ UNCHANGED <<receipts, retrainJobs, submitted, evidenceVars, sent, wake, trigger, faults,
                   scorerVars>>

BeginJob(i) ==
    /\ at[i].pc = "jobs"
    /\ \E j \in at[i].todo :
          Begin(i, "manual", j, [pc |-> "jobs", todo |-> at[i].todo \ {j}])

BeginCompact(i) == at[i].pc = "compact" /\ Begin(i, "background", None, Waiting)

(* retrain is "manual"; retrain_if_due asks the cadence first.             *)
BeginRequest(h, kind) == at[h] = Waiting /\ Begin(h, kind, None, [pc |-> "done"])

(* _fit may find the evidence wanting in several ways; below the floor it  *)
(* does unless some challenger was ever proposed.                          *)
Verdicts(s) ==
    IF s.eligible < MinDispositions /\ ~s.challenged
    THEN {"insufficient_data"}
    ELSE {"insufficient_data", "not_better", "proposed"}

Receipt(s, verdict) ==
    [kind |-> s.kind, job |-> s.job, eligible |-> s.eligible, verdict |-> verdict,
     incumbent |-> s.incumbent,
     challenger |-> IF verdict = "proposed" THEN Proposal(s.incumbent, s.corpus) ELSE None]

(* The winner is stored inactive; under the same digest it is stored once. *)
WithChallenger(version) ==
    IF version = None \/ version \in DOMAIN configs THEN configs
    ELSE [v \in DOMAIN configs \cup {version} |->
             IF v = version THEN [active |-> FALSE, learner |-> TRUE, control |-> FALSE]
             ELSE configs[v]]

(* The job's row changed since the snapshot: its update cannot serialise.  *)
Serializes(s) == s.job # None => retrainJobs[s.job] = "pending"

(* Fault: the result is stored by a later transaction than the receipt.    *)
SettledLater(s) == retrainJobs

Settled(s) ==
    IF s.job = None THEN retrainJobs ELSE [retrainJobs EXCEPT ![s.job] = "completed"]

(* A job settled before the snapshot, or a fit that is not due, ends       *)
(* without a receipt.                                                      *)
NoFit(p) ==
    /\ at[p].pc = "fit" /\ ~at[p].called
    /\ at' = [at EXCEPT ![p] = at[p].rest]
    /\ learnerLock' = None
    /\ UNCHANGED <<receipts, retrainJobs, submitted, evidenceVars, sent, wake, trigger, faults,
                   scorerVars>>

Land(p) ==
    /\ at[p].pc = "fit" /\ at[p].called /\ Serializes(at[p])
    /\ \E verdict \in Verdicts(at[p]) :
          LET r == Receipt(at[p], verdict) IN
          /\ receipts' = Append(receipts, r)
          /\ configs' = WithChallenger(r.challenger)
    /\ retrainJobs' = Settled(at[p])
    /\ at' = [at EXCEPT ![p] = at[p].rest]
    /\ learnerLock' = None
    /\ UNCHANGED <<submitted, evidenceVars, sent, wake, trigger, faults,
                   activations, adoptions, controlLock, console>>

(* Anything the retrain raises: rolled back, unlocked, and raised again.   *)
(* A job's handler goes on to record it; nobody records a compaction's.    *)
Raise(p) ==
    /\ at[p].pc = "fit" /\ at[p].called
    /\ \/ ~Serializes(at[p]) /\ UNCHANGED faults
       \/ faults < MaxFaults /\ faults' = faults + 1
    /\ at' = [at EXCEPT ![p] =
                 IF at[p].job # None THEN [pc |-> "error", job |-> at[p].job]
                 ELSE IF p \in Instance THEN Waiting ELSE [pc |-> "done"]]
    /\ learnerLock' = None
    /\ UNCHANGED <<receipts, retrainJobs, submitted, evidenceVars, sent, wake, trigger, scorerVars>>

FailedUnlessDone(j) ==
    [retrainJobs EXCEPT ![j] = IF retrainJobs[j] = "completed" THEN "completed" ELSE "failed"]

(* run_pending_jobs re-raises: the jobs after this one are not run and the *)
(* trigger stays where it is, until somebody sets the flag again.          *)
RecordError(i) ==
    /\ at[i].pc = "error"
    /\ retrainJobs' = FailedUnlessDone(at[i].job)
    /\ at' = [at EXCEPT ![i] = Waiting]
    /\ UNCHANGED <<receipts, submitted, evidenceVars, sent, wake, trigger, learnerLock, faults,
                   scorerVars>>

(* A process dies and another starts in its place: start() sets the flag.  *)
(* Memory is lost, the database rolls back.                                *)
Restart(i) ==
    /\ faults < MaxFaults
    /\ faults' = faults + 1
    /\ at' = [at EXCEPT ![i] = Waiting]
    /\ wake' = [wake EXCEPT ![i] = TRUE]
    /\ trigger' = [trigger EXCEPT ![i] = None]
    /\ learnerLock' = IF learnerLock = i THEN None ELSE learnerLock
    /\ UNCHANGED <<receipts, retrainJobs, submitted, evidenceVars, sent, scorerVars>>

-----------------------------------------------------------------------------
(* The scorer console.  A request carries what its sender saw: the base    *)
(* and the digest of a simulation, or the version to activate.             *)

Resting == [pc |-> "rest"]

(* _deep_receipt replays all the evidence under the values asked for; its  *)
(* digest names the base they change and what the evidence was.            *)
DeepReceipt(base) == [base |-> base, evidence |-> <<signals, withdrawn>>]

SendForce(c, tap) ==
    /\ console[c] = Resting
    /\ console' = [console EXCEPT ![c] =
          [pc |-> "sent", reason |-> "human_control", tap |-> tap,
           version |-> Forced(tap), base |-> ActiveVersion,
           digest |-> DeepReceipt(ActiveVersion)]]
    /\ UNCHANGED <<learningVars, configs, activations, adoptions, controlLock>>

SendActivate(c, tap, version) ==
    /\ console[c] = Resting
    /\ console' = [console EXCEPT ![c] =
          [pc |-> "sent", reason |-> "learner_proposal", tap |-> tap, version |-> version]]
    /\ UNCHANGED <<learningVars, configs, activations, adoptions, controlLock>>

(* stale_base, simulation_stale, not_proposed.                             *)
Accepts(q) ==
    IF q.reason = "human_control"
    THEN q.base = ActiveVersion /\ q.digest = DeepReceipt(ActiveVersion)
    ELSE ~configs[q.version].active /\ configs[q.version].learner

Journaled(tap) == \E k \in DOMAIN activations : activations[k].tap = tap

ControlLockFree == controlLock = None

(* Under the lock, a replayed event_uid or a refused request changes       *)
(* nothing.                                                                *)
ConsoleRead(c) ==
    /\ console[c].pc = "sent" /\ ControlLockFree
    /\ IF Journaled(console[c].tap) \/ ~Accepts(console[c])
       THEN /\ console' = [console EXCEPT ![c] = Resting]
            /\ UNCHANGED controlLock
       ELSE /\ console' = [console EXCEPT ![c] =
                  [pc |-> "write", reason |-> @.reason, tap |-> @.tap, version |-> @.version,
                   active |-> ActiveVersion]]
            /\ controlLock' = c
    /\ UNCHANGED <<learningVars, configs, activations, adoptions>>

(* A forced version copies every parameter the console does not control,   *)
(* the learner's manifest among them.                                      *)
TargetRow(q) ==
    [active |-> TRUE,
     learner |-> configs[IF q.reason = "human_control" THEN q.active ELSE q.version].learner,
     control |-> q.reason = "human_control" \/ configs[q.version].control]

(* Fault: the version that was active stays so.                            *)
SwitchedOn(q) ==
    [v \in DOMAIN configs \cup {q.version} |->
        IF v = q.version THEN TargetRow(q) ELSE configs[v]]

Switched(q) ==
    [v \in DOMAIN configs \cup {q.version} |->
        IF v = q.version THEN TargetRow(q)
        ELSE IF v = q.active THEN [configs[v] EXCEPT !.active = FALSE] ELSE configs[v]]

(* activate_proposal: every receipt that proposed the version and has no   *)
(* tap yet is given this one.                                              *)
Adopted(q) ==
    IF q.reason = "human_control" THEN adoptions
    ELSE LET new == {k \in DOMAIN receipts : receipts[k].challenger = q.version} IN
         [k \in DOMAIN adoptions \cup new |->
             IF k \in DOMAIN adoptions THEN adoptions[k] ELSE q.tap]

ConsoleWrite(c) ==
    LET q == console[c] IN
    /\ q.pc = "write"
    /\ configs' = Switched(q)
    /\ activations' = Append(activations, [tap |-> q.tap, version |-> q.version,
                                           previous |-> q.active, reason |-> q.reason])
    /\ adoptions' = Adopted(q)
    /\ console' = [console EXCEPT ![c] = Resting]
    /\ controlLock' = None
    /\ UNCHANGED learningVars

(* The request dies under its lock: rolled back and released.              *)
ConsoleDies(c) ==
    /\ console[c].pc = "write" /\ controlLock = c
    /\ console' = [console EXCEPT ![c] = Resting]
    /\ controlLock' = None
    /\ UNCHANGED <<learningVars, configs, activations, adoptions>>

-----------------------------------------------------------------------------
LearnerInit ==
    /\ configs = [v \in {Base} |-> [active |-> TRUE, learner |-> FALSE, control |-> FALSE]]
    /\ activations = <<>> /\ receipts = <<>> /\ adoptions = <<>>
    /\ retrainJobs = <<>> /\ submitted = {}
    /\ signals = 0 /\ withdrawn = 0 /\ sent = {} /\ faults = 0
    /\ wake = [i \in Instance |-> TRUE]
    /\ trigger = [i \in Instance |-> None]
    /\ at = [p \in Retrainer |-> Waiting]
    /\ learnerLock = None /\ controlLock = None
    /\ console = [c \in Console |-> Resting]

RetrainStep(p) == NoFit(p) \/ Land(p) \/ Raise(p)

WorkerStep(i) ==
    Wake(i) \/ BeginJob(i) \/ TakeTrigger(i) \/ BeginCompact(i) \/ RecordError(i)

ConsoleStep(c) ==
    \/ \E tap \in Tap : \/ SendForce(c, tap)
                       \/ \E v \in DOMAIN configs : SendActivate(c, tap, v)
    \/ ConsoleRead(c) \/ ConsoleWrite(c) \/ ConsoleDies(c)

LearnerNext ==
    \/ \E j \in RetrainJobId : SubmitJob(j)
    \/ \E j \in RetrainJobId, i \in Instance : NotifyJob(j, i) \/ Poll(j, i)
    \/ \E t \in Trigger, i \in Instance : Compaction(t, i)
    \/ Signal \/ Annotate
    \/ \E i \in Instance : WorkerStep(i) \/ Restart(i)
    \/ \E h \in Handler, kind \in {"manual", "due"} : BeginRequest(h, kind)
    \/ \E p \in Retrainer : RetrainStep(p)
    \/ \E c \in Console : ConsoleStep(c)

(* A worker's coroutine runs on and its fits end one way or the other; the *)
(* owner's client polls a job until it is settled.                         *)
LearnerFairness ==
    /\ \A i \in Instance : WF_learnerVars(WorkerStep(i) \/ RetrainStep(i))
    /\ \A j \in RetrainJobId : WF_learnerVars(\E i \in Instance : Poll(j, i))

LearnerSpec == LearnerInit /\ [][LearnerNext]_learnerVars
LearnerFairSpec == LearnerSpec /\ LearnerFairness

-----------------------------------------------------------------------------
(* Rows are well formed, and the versions, jobs and receipts that rows of  *)
(* other tables name are stored (the foreign keys of learner_run,          *)
(* optimization_run, scorer_activation and optimization_run_adoption).     *)
LearnerTypes ==
    /\ configs \in [DOMAIN configs -> ConfigRow]
    /\ DOMAIN retrainJobs \subseteq RetrainJobId
    /\ retrainJobs \in [DOMAIN retrainJobs -> JobState]
    /\ receipts \in Seq(ReceiptRow) /\ activations \in Seq(ActivationRow)
    /\ adoptions \in AdoptionRows
    /\ signals \in Nat /\ withdrawn \in 0 .. signals

(***************************************************************************)
(* The console implements the authority log: one version serves, each      *)
(* activation names the one that served before it, and a tap activates     *)
(* once, however forces, activations and their retries interleave          *)
(* (create_scorer_config, activate_proposal).                              *)
(***************************************************************************)
Authority == INSTANCE ScorerLog WITH
    First <- Base, serving <- {v \in DOMAIN configs : configs[v].active}, log <- activations

ImplementsScorerLog == Authority!LogSpec

(***************************************************************************)
(* A job is completed exactly when one receipt was written for it, and has *)
(* none when it failed, whatever workers of two processes and their        *)
(* crashes do to it (run_pending_jobs, "the fit and its result commit      *)
(* together").                                                             *)
(***************************************************************************)
JobsFitOnce ==
    \A j \in DOMAIN retrainJobs :
        Cardinality({k \in DOMAIN receipts : receipts[k].job = j})
        = IF retrainJobs[j] = "completed" THEN 1 ELSE 0

(***************************************************************************)
(* A fit of the cadence comes a full stride of evidence after every earlier*)
(* fit above the floor: competing requests at one boundary fit once, and   *)
(* evidence that annotations took away does not count as new when it grows *)
(* back (_background_due under the learner's lock).                        *)
(***************************************************************************)
DueFitsStride ==
    \A k \in DOMAIN receipts :
        receipts[k].kind = "due" =>
            /\ receipts[k].eligible >= MinDispositions
            /\ \A m \in 1 .. k - 1 :
                  receipts[m].eligible >= MinDispositions
                  => receipts[k].eligible >= receipts[m].eligible + SignalStride

(***************************************************************************)
(* No job stays unsettled.  Failures skip the jobs after them, crashes     *)
(* lose the wake flag and a request may die before it sets it; the         *)
(* client's polls and start() set it again (run_pending_jobs, get_job).    *)
(***************************************************************************)
JobsSettle == []<>(Pending = {})
=============================================================================
