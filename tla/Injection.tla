----------------------------- MODULE Injection -----------------------------
(***************************************************************************)
(* Injection: PrepareService (src/spine/inject/service.py) and             *)
(* DecisionService (src/spine/inject/decisions.py).                        *)
(*                                                                         *)
(* prepare is one REPEATABLE READ transaction.  It is two steps here: the  *)
(* snapshot its first statement takes, and its end, where Postgres lets it *)
(* commit only if no row it writes has changed since the snapshot; if one  *)
(* has, the service tries again.  commit and feedback take the batch's     *)
(* advisory lock, then the event rows, then the heads, before they decide, *)
(* and are one step each; one that is refused or replayed changes nothing  *)
(* and is no step.                                                         *)
(*                                                                         *)
(* A thread's agent, machine and project are checked like its principal    *)
(* and left out.  A pin is an injected card.  "removed" is                 *)
(* removed:not_relevant or removed:wrong, "never" is removed:never.  The   *)
(* bias falls with the kill count and is left out with the scores: any     *)
(* selection that the selection rules allow may be the best one.           *)
(***************************************************************************)
EXTENDS Integers, Sequences, FiniteSets

CONSTANTS
    Memory,         \* memory ids, each with a head from the start
    Principal,
    OwnerOf,        \* the principal of every memory
    Thread,
    Handler,        \* concurrent prepare requests
    Requests,       \* what each may ask: who, in which mode, with which locks
    Version,        \* scorer configurations
    KillLimit,      \* quarantine_kills of each
    NearK,          \* near_miss_k
    MaxAttempts,    \* _MAX_TRANSACTION_ATTEMPTS
    MaxBatches,     \* bound: batches recorded
    MaxPatches,     \* bound: writes of others to the heads
    MaxWrites       \* bound: writes of injection to the heads

(* PrepareCommand, and what _validate_command lets through.                *)
Request == [principal : Principal, mode : {"gate", "autonomous"}, current : SUBSET Memory,
            confirmed : SUBSET Memory, excluded : SUBSET Memory]

Valid(r) ==
    /\ r.mode = "gate" => r.current = {} /\ r.excluded = {}
    /\ r.confirmed \subseteq r.current /\ r.current \cap r.excluded = {}

ASSUME InjectionAssumption ==
    /\ OwnerOf \in [Memory -> Principal]
    /\ Requests \in [Handler -> SUBSET {r \in Request : Valid(r)}]
    /\ Version # {} /\ KillLimit \in [Version -> Nat \ {0}]
    /\ NearK \in Nat /\ MaxAttempts \in Nat \ {0}
    /\ {MaxBatches, MaxPatches, MaxWrites} \subseteq Nat

VARIABLES
    units,      \* memory_unit: status, revision and stats of every memory
    rows,       \* memory_revision: the reason of every revision
    threads,    \* thread: the row of every id that has one
    events,     \* injection_event, by batch, memory and shown_as
    batches,    \* how many prepares have committed; also the clock, which tells
                \* no two snapshots apart that no such commit separates
    call        \* what each prepare handler is doing

injectionVars == <<units, rows, threads, events, batches, call>>

Status == {"active", "quarantined", "tombstoned"}
Unit == [status : Status, revision : Nat, injections : Nat, removals : Nat,
         kills : Nat, citations : Nat]

Reason == {"created", "patched", "prepare", "removed", "never", "added_back",
           "mid_thread_removed", "cited"}

Unseen == [status |-> "unseen"]     \* no candidate

ThreadRow == [principal : Principal, stamp : Nat]
Absent == [stamp |-> "absent"]

Shown == {"injected", "near_miss", "budget_cut"}
Feedbacks == {"cited", "mid_thread_removed", "mid_thread_added"}
Outcome == {"null", "kept", "removed", "never", "added_back", "auto_entered",
            "auto_exited", "budget_cut"} \cup Feedbacks

Event == [thread : Thread, version : Version, actor : {"human", "passive"},
          frozen : Nat, outcome : Outcome]

Idle == [at |-> "idle"]
Snapshot == [thread : ThreadRow \cup {Absent}, version : Version, ts : Nat,
             units : [Memory -> Unit \cup {Unseen}]]
Call ==
    [at : {"idle"}]
    \cup [at : {"prepare"}, thread : Thread, asks : Request, left : Nat, snap : Snapshot]

Row(t) == IF t \in DOMAIN threads THEN threads[t] ELSE Absent
Batch(b) == {k \in DOMAIN events : k[1] = b}
OfThread(t) == {k \in DOMAIN events : events[k].thread = t}

-----------------------------------------------------------------------------
(* A head written by compare-and-swap gets the next revision and its row.  *)
NotBumped(u) == u   \* Fault: the head is written past the compare-and-swap

Bumped(u) == [u EXCEPT !.revision = @ + 1]

WriteHeads(changed, reason) ==
    /\ units' = [m \in Memory |->
                    IF m \in DOMAIN changed THEN Bumped(changed[m]) ELSE units[m]]
    /\ rows' = [m \in Memory |->
                    IF m \in DOMAIN changed THEN Append(rows[m], reason[m]) ELSE rows[m]]

(* The revisions written so far, the first of each memory apart.           *)
Written(reasons) ==
    {w \in Memory \X (2 .. MaxWrites + MaxPatches + 1) :
        w[2] \in DOMAIN rows[w[1]] /\ rows[w[1]][w[2]] \in reasons}

MayWrite(M) ==
    Cardinality(Written(Reason \ {"patched"})) + Cardinality(M) <= MaxWrites

-----------------------------------------------------------------------------
(* _load_candidates: base_filters.                                         *)
Vetoed(t) == {k[2] : k \in {k \in OfThread(t) : events[k].outcome = "never"}}

EligibleStill(t, r) ==      \* Fault: a veto is forgotten
    {m \in Memory : /\ OwnerOf[m] = r.principal /\ units[m].status = "active"
                    /\ m \notin r.excluded}

Eligible(t, r) ==
    {m \in Memory : /\ OwnerOf[m] = r.principal /\ units[m].status = "active"
                    /\ m \notin Vetoed(t) /\ m \notin r.excluded}

(* What the transaction sees, from its first statement to its end: the     *)
(* thread, the candidates and the scorer that is active by now, any one.   *)
Snapshots(t, r) ==
    LET pool == Eligible(t, r) IN
    {[thread |-> Row(t),
      units |-> [m \in Memory |-> IF m \in pool THEN units[m] ELSE Unseen],
      version |-> v, ts |-> batches] : v \in Version}

Pool(snap) == {m \in Memory : snap.units[m] # Unseen}

(* _stamp_thread: a gate starts a thread, a re-score needs one of its own. *)
StampableAgain(r, row) ==   \* Fault: a thread may be gated again
    IF row = Absent THEN r.mode = "gate" ELSE row.principal = r.principal

Stampable(r, row) ==
    IF row = Absent THEN r.mode = "gate"
    ELSE r.mode = "autonomous" /\ row.principal = r.principal

(* What the checks of prepare let through: they only read the snapshot.    *)
Admitted(t, r) ==
    {snap \in Snapshots(t, r) : Stampable(r, snap.thread) /\ r.current \subseteq Pool(snap)}

(* prepare, and the snapshot of its first attempt.                         *)
PrepareBegin(h, t, r) ==
    /\ call[h] = Idle /\ batches < MaxBatches
    /\ \E snap \in Admitted(t, r) :
          call' = [call EXCEPT ![h] = [at |-> "prepare", thread |-> t, asks |-> r,
                                       left |-> MaxAttempts, snap |-> snap]]
    /\ UNCHANGED <<units, rows, threads, events, batches>>

(* _stamp_thread: someone else has stamped the thread since the snapshot.  *)
ThreadMoved(c) == Row(c.thread) # c.snap.thread

HeadMoved(c, m) == units[m].revision # c.snap.units[m].revision

(* An attempt that met a concurrent write, and the next one, if one is left*)
(* and the checks let it through.                                          *)
PrepareRetry(h) ==
    LET c == call[h] IN
    /\ c.at = "prepare"
    /\ ThreadMoved(c) \/ \E m \in Pool(c.snap) : HeadMoved(c, m)
    /\ c.left > 1
    /\ \E snap \in Admitted(c.thread, c.asks) :
          call' = [call EXCEPT ![h].left = @ - 1, ![h].snap = snap]
    /\ UNCHANGED <<units, rows, threads, events, batches>>

(* The last attempt conflicts, the checks refuse a new one, or the handler *)
(* dies: what it did is rolled back.                                       *)
PrepareFails(h) ==
    /\ call[h].at = "prepare"
    /\ call' = [call EXCEPT ![h] = Idle]
    /\ UNCHANGED <<units, rows, threads, events, batches>>

(* score_and_select: the pool splits into what fits and the rest, ranked;  *)
(* the near misses are the first NearK of the rest, and what only the      *)
(* budget kept out comes before what the threshold did.  A memory that is  *)
(* neither was not among the candidates retrieved.                         *)
Selection(injected, rest, near, cut) ==
    [injected |-> injected, rest |-> rest, near |-> near, cut |-> cut]

Selections(c) ==
    LET pool == Pool(c.snap)
        ranked(rest) == {q \in (SUBSET rest) \X (SUBSET rest) :
            /\ Cardinality(q[1]) = IF NearK < Cardinality(rest) THEN NearK
                                   ELSE Cardinality(rest)
            /\ q[1] \subseteq q[2] \/ q[2] \subseteq q[1]} IN
    UNION {UNION {{Selection(injected, rest, q[1], q[2]) : q \in ranked(rest)} :
                     rest \in {R \in SUBSET (pool \ injected) :
                                  c.asks.current \subseteq injected \cup R}} :
              injected \in {I \in SUBSET pool : c.asks.confirmed \subseteq I}}

(* _insert_events: what a batch shows, and the outcomes it starts with.    *)
Cards(c, s) ==
    (s.injected \X {"injected"})
    \cup ((s.near \cup (c.asks.current \cap s.rest)) \X {"near_miss"})
    \cup (s.cut \X {"budget_cut"})

FirstOutcome(c, m, shown) ==
    CASE shown = "budget_cut" -> "budget_cut"
      [] shown # "budget_cut" /\ c.asks.mode = "gate" -> "null"
      [] shown = "injected" /\ c.asks.mode = "autonomous" ->
            IF m \in c.asks.current THEN "kept" ELSE "auto_entered"
      [] shown = "near_miss" /\ c.asks.mode = "autonomous" ->
            IF m \in c.asks.current THEN "auto_exited" ELSE "null"

NewEvents(c, s) ==
    [k \in {<<batches + 1, card[1], card[2]>> : card \in Cards(c, s)} |->
        [thread |-> c.thread, version |-> c.snap.version,
         actor |-> IF c.asks.mode = "gate" THEN "human" ELSE "passive",
         frozen |-> c.snap.units[k[2]].revision,
         outcome |-> FirstOutcome(c, k[2], k[3])]]

(* _increment_injection_stats, from the stats of the snapshot.             *)
Injected(c, s) ==
    [m \in s.injected |-> [c.snap.units[m] EXCEPT !.injections = @ + 1]]

(* The compare-and-swap of every injected head.                            *)
Overwrite(c, s) == TRUE     \* Fault: the snapshot's stats are written all the same

HeadsStill(c, s) == \A m \in s.injected : ~HeadMoved(c, m)

(* The attempt that commits: stamp, counters and events in one.            *)
PrepareLand(h) ==
    LET c == call[h] IN
    /\ c.at = "prepare" /\ batches < MaxBatches
    /\ ~ThreadMoved(c)
    /\ \E s \in Selections(c) :
          /\ HeadsStill(c, s) /\ MayWrite(s.injected)
          /\ WriteHeads(Injected(c, s), [m \in s.injected |-> "prepare"])
          /\ LET new == NewEvents(c, s) IN
             events' = [k \in DOMAIN events \cup DOMAIN new |->
                           IF k \in DOMAIN new THEN new[k] ELSE events[k]]
    /\ threads' = [t \in DOMAIN threads \cup {c.thread} |->
          IF t = c.thread THEN [principal |-> c.asks.principal, stamp |-> c.snap.ts]
          ELSE threads[t]]
    /\ batches' = batches + 1
    /\ call' = [call EXCEPT ![h] = Idle]

-----------------------------------------------------------------------------
(* commit.  _plan_commit: budget cuts are not members.                     *)
Members(b) == {k \in Batch(b) : k[3] # "budget_cut"}

(* What the owner may say of a member.                                     *)
Verdicts(k) == {"none", "never", IF k[3] = "injected" THEN "removed" ELSE "added_back"}

Choices(b) ==
    LET members == Members(b) IN
    {choice \in [{k[2] : k \in members} -> {"none", "never", "removed", "added_back"}] :
        \A k \in members : choice[k[2]] \in Verdicts(k)}

Desired(k, choice) ==
    CASE choice[k[2]] # "none" -> choice[k[2]]
      [] choice[k[2]] = "none" -> IF k[3] = "near_miss" THEN "null" ELSE "kept"

(* _is_feedback_descendant: what feedback made of the outcome asked for.   *)
IsFeedbackDescendant(k, desired) ==
    /\ events[k].outcome \in Feedbacks
    /\ desired = IF k[3] = "near_miss" THEN "added_back" ELSE "kept"

Acceptable(k, desired) ==
    \/ events[k].outcome \in {"null", desired}
    \/ desired # "null" /\ IsFeedbackDescendant(k, desired)

IsAsked(k, desired) == desired # "null"     \* Fault: a replay counts again

IsNew(k, desired) == desired # "null" /\ events[k].outcome = "null"

(* _commit_head_changes.                                                   *)
KilledLate(u, limit) ==     \* Fault: one kill too many is tolerated
    [u EXCEPT !.removals = @ + 1, !.kills = @ + 1,
              !.status = IF @ = "active" /\ u.kills >= limit
                         THEN "quarantined" ELSE @]

Killed(u, limit) ==
    [u EXCEPT !.removals = @ + 1, !.kills = @ + 1,
              !.status = IF @ = "active" /\ u.kills + 1 >= limit
                         THEN "quarantined" ELSE @]

LimitOfOther(k) ==  \* Fault: the limit of another scorer than the one that showed it
    KillLimit[CHOOSE v \in Version : v # events[k].version]

LimitOf(k) == KillLimit[events[k].version]

HeadAfter(k, desired) ==
    LET u == units[k[2]] IN
    CASE desired = "never" -> Killed(u, LimitOf(k))
      [] desired = "removed" -> [u EXCEPT !.removals = @ + 1]
      [] desired = "added_back" -> [u EXCEPT !.injections = @ + 1]

Commit(b, choice) ==
    LET want(k) == Desired(k, choice)
        new == {k \in Members(b) : IsNew(k, want(k))}
        effects == {k \in new : want(k) # "kept"}
        keyOf(m) == CHOOSE k \in effects : k[2] = m
        touched == {k[2] : k \in effects} IN
    /\ \A k \in Members(b) : Acceptable(k, want(k))
    /\ new # {} /\ MayWrite(touched)
    /\ WriteHeads([m \in touched |-> HeadAfter(keyOf(m), want(keyOf(m)))],
                  [m \in touched |-> want(keyOf(m))])
    /\ events' = [k \in DOMAIN events |->
          IF k \in new THEN [events[k] EXCEPT !.outcome = want(k)] ELSE events[k]]
    /\ UNCHANGED <<threads, batches, call>>

-----------------------------------------------------------------------------
(* feedback on the one event of the batch about the memory.                *)
FeedbackRows(b, m) == {k \in Batch(b) : k[2] = m}

FeedbackAllowed(k, signal) ==
    LET now == events[k].outcome IN
    CASE signal = "mid_thread_added" ->
            now = "mid_thread_removed" \/ (now = "null" /\ k[3] = "near_miss")
      [] signal = "mid_thread_removed" ->
            now \in {"kept", "added_back", "auto_entered", "mid_thread_added"}
      [] signal = "cited" -> now \in {"kept", "added_back", "auto_entered"}

Heard(u, signal) ==
    IF signal = "cited" THEN [u EXCEPT !.citations = @ + 1]
    ELSE [u EXCEPT !.removals = @ + 1]

Feedback(k, signal) ==
    /\ FeedbackRows(k[1], k[2]) = {k}
    /\ FeedbackAllowed(k, signal)
    /\ IF signal = "mid_thread_added"
       THEN UNCHANGED <<units, rows>>
       ELSE LET m == k[2] IN
            /\ MayWrite({m})
            /\ WriteHeads([x \in {m} |-> Heard(units[m], signal)],
                          [x \in {m} |-> signal])
    /\ events' = [events EXCEPT ![k].outcome = signal]
    /\ UNCHANGED <<threads, batches, call>>

-----------------------------------------------------------------------------
(* The other writers of a head (PATCH and its like).  To quarantine one is *)
(* to these services what to tombstone it is, and is left out.             *)
Patch(m, status) ==
    /\ Cardinality(Written({"patched"})) < MaxPatches
    /\ WriteHeads([x \in {m} |-> [units[m] EXCEPT !.status = status]],
                  [x \in {m} |-> "patched"])
    /\ UNCHANGED <<threads, events, batches, call>>

NewUnit == [status |-> "active", revision |-> 1, injections |-> 0, removals |-> 0,
            kills |-> 0, citations |-> 0]

InjectionInit ==
    /\ units = [m \in Memory |-> NewUnit]
    /\ rows = [m \in Memory |-> <<"created">>]
    /\ threads = [t \in {} |-> t] /\ events = [k \in {} |-> k]
    /\ batches = 0
    /\ call = [h \in Handler |-> Idle]

InjectionNext ==
    \/ \E h \in Handler, t \in Thread : \E r \in Requests[h] : PrepareBegin(h, t, r)
    \/ \E h \in Handler : PrepareRetry(h) \/ PrepareFails(h) \/ PrepareLand(h)
    \/ \E b \in 1 .. batches : \E choice \in Choices(b) : Commit(b, choice)
    \/ \E k \in DOMAIN events, signal \in Feedbacks : Feedback(k, signal)
    \/ \E m \in Memory, status \in Status \ {"quarantined"} : Patch(m, status)

InjectionSpec == InjectionInit /\ [][InjectionNext]_injectionVars

-----------------------------------------------------------------------------
InjectionTypes ==
    /\ units \in [Memory -> Unit]
    /\ rows \in [Memory -> Seq(Reason)]
    /\ \A m \in Memory : units[m].revision = Len(rows[m])
    /\ DOMAIN threads \subseteq Thread /\ threads \in [DOMAIN threads -> ThreadRow]
    /\ DOMAIN events \subseteq (1 .. batches) \X Memory \X Shown
    /\ events \in [DOMAIN events -> Event]
    /\ batches \in Nat
    /\ call \in [Handler -> Call]

About(m, shown, outcomes) ==
    {k \in DOMAIN events : k[2] = m /\ k[3] \in shown /\ events[k].outcome \in outcomes}

(***************************************************************************)
(* Every outcome is counted once.  A memory's never_kills and citations are*)
(* the events that ended so, its removals at least the events that stand   *)
(* removed, and its injections the times it was injected plus its add-backs*)
(* (a near miss that feedback has moved on may or may not be one), however *)
(* commits are repeated, race with feedback on the same batch or are       *)
(* overtaken by prepares that write the same stats.                        *)
(***************************************************************************)
OutcomesCountedOnce ==
    \A m \in Memory :
        LET u == units[m]
            shown == Cardinality(About(m, {"injected"}, Outcome)) IN
        /\ u.kills = Cardinality(About(m, Shown, {"never"}))
        /\ u.citations = Cardinality(About(m, Shown, {"cited"}))
        /\ u.removals >= Cardinality(About(m, Shown, {"never", "removed", "mid_thread_removed"}))
        /\ u.injections >= shown + Cardinality(About(m, {"near_miss"}, {"added_back", "cited"}))
        /\ u.injections <= shown + Cardinality(About(m, {"near_miss"}, {"added_back"} \cup Feedbacks))

(***************************************************************************)
(* An injected card shows the very revision its prepare wrote over: the    *)
(* next row of that memory is a prepare's, and each event has its own.  So *)
(* no edit slips in between the text the owner reviews and the counters.   *)
(***************************************************************************)
CardsAreFrozen ==
    LET injected == {k \in DOMAIN events : k[3] = "injected"} IN
    \A k \in injected :
        /\ events[k].frozen < Len(rows[k[2]])
        /\ rows[k[2]][events[k].frozen + 1] = "prepare"
        /\ \A j \in injected :
              j # k /\ j[2] = k[2] => events[j].frozen # events[k].frozen

(***************************************************************************)
(* The human gate opens once (docs/SPEC.md, per-message re-scoring): a     *)
(* thread has at most one batch of human cards, and its autonomous batches *)
(* come after it, though two first prompts may be prepared at once.        *)
(***************************************************************************)
OneGatePerThread ==
    \A t \in DOMAIN threads : \A j, k \in OfThread(t) :
        /\ events[j].actor = "human" /\ events[k].actor = "human" => j[1] = k[1]
        /\ events[j].actor = "human" /\ events[k].actor = "passive" => j[1] < k[1]

(***************************************************************************)
(* Kills end in quarantine: a memory killed as often as the most lenient   *)
(* scorer tolerates is active only if a PATCH came after the last kill.    *)
(***************************************************************************)
KillsQuarantine ==
    \A m \in Memory :
        LET kill == {i \in DOMAIN rows[m] : rows[m][i] = "never"} IN
        /\ units[m].status = "active"
        /\ \A v \in Version : units[m].kills >= KillLimit[v]
        => \E i \in DOMAIN rows[m] : rows[m][i] = "patched" /\ \A j \in kill : j < i

(***************************************************************************)
(* And only then: a step other than a PATCH that takes an active memory out*)
(* leaves it quarantined with as many kills as the scorer that showed one  *)
(* of its vetoed cards tolerates, whichever is active now; and no such    *)
(* step brings a retired memory back.                                      *)
(***************************************************************************)
StatusEarned ==
    \A m \in Memory :
        \/ units'[m].status = units[m].status
        \/ rows'[m][Len(rows'[m])] = "patched"
        \/ /\ units[m].status = "active" /\ units'[m].status = "quarantined"
           /\ \E k \in DOMAIN events' :
                 /\ k[2] = m /\ events'[k].outcome = "never"
                 /\ events[k].outcome # "never"
                 /\ units'[m].kills >= KillLimit[events'[k].version]

QuarantineIsEarned == [][StatusEarned]_injectionVars

(***************************************************************************)
(* A re-score must never resurrect a killed card (docs/SPEC.md, ADR-005):  *)
(* no step injects into a thread a memory vetoed there, even if the veto   *)
(* was committed after the prepare had read its snapshot.                  *)
(***************************************************************************)
NoneRevived ==
    \A k \in DOMAIN events' \ DOMAIN events :
        k[3] = "injected" => k[2] \notin Vetoed(events'[k].thread)

VetoesHold == [][NoneRevived]_injectionVars

(***************************************************************************)
(* "Feedback targets the single injection_event matching both IDs"         *)
(* (docs/SPEC.md, POST /v1/feedback): a card that was shown shares its     *)
(* batch and memory with no other event.                                   *)
(***************************************************************************)
FeedbackFindsOne ==
    \A k \in DOMAIN events : k[3] # "budget_cut" => FeedbackRows(k[1], k[2]) = {k}
=============================================================================
