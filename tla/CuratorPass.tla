----------------------------- MODULE CuratorPass -----------------------------
(***************************************************************************)
(* Curator passes (src/spine/curation): the durable write and pressure     *)
(* gauges that make a pass due, the advisory try-lock, and one pass from   *)
(* its report to its cursor, with the owner's writes, edits and decisions  *)
(* between any two of its awaits.  One principal.  A finding is named by   *)
(* its fingerprint: a site (the memories it is about) at one version.      *)
(***************************************************************************)
EXTENDS Naturals, Sequences, FiniteSets

CONSTANTS
    Site,           \* groups of memories a finding can be about
    Pair,           \* the sites that are two memories
    Rank,           \* site -> position in the review order, strongest first
    PairLimit,      \* PAIR_LIMIT
    Proposing,      \* verdict actions that become a card
    Curator,        \* tasks that run passes: workers and manual requests
    Every,          \* gauge -> growth that makes a pass due
    MaxWrites,      \* bound on each gauge
    MaxEdits,       \* bound on the version of a site
    MaxPassFaults   \* bound: failed provider calls and lost passes

Gauge == {"writes", "pressure"}

ASSUME CuratorPassAssumption ==
    /\ Pair \subseteq Site /\ Rank \in [Site -> Nat]
    /\ PairLimit \in Nat /\ Every \in [Gauge -> Nat \ {0}]
    /\ "keep" \notin Proposing
    /\ <<>> \notin Curator

VARIABLES
    version,        \* material state of each site, what a fingerprint hashes
    sick,           \* sites the diagnostics find something at
    gauge,          \* curator_trigger_state: admitted_writes, pressure_events
    cursor,         \* last_run_writes, last_run_pressure
    compaction,     \* a compaction's fact on its way through approval
    cards,          \* curator cards, in the order they were queued
    kept,           \* fingerprints with a recorded "keep" verdict
    pass,           \* where each curator stands
    passLock,
    passFaults

passVars == <<version, sick, gauge, cursor, compaction, cards, kept, pass, passLock, passFaults>>

NoCurator == <<>>
Off == [pc |-> "rest"]

(* curator_finding, curator_verdict and the card a verdict became.         *)
Verdict == Proposing \cup {"keep"}
Finding == [site : Site, version : Nat]
Judgement == [site : Site, version : Nat, action : Verdict, suppressed : BOOLEAN]
CuratorCard ==
    [site : Site, version : Nat, action : Verdict,
     state : {"pending", "approved", "rejected"}, recorded : BOOLEAN]

(* A pass on its way to the curator_run row that counts and dates it.      *)
Counters == [Gauge -> Nat]
PassRow ==
    [pc : {"rest", "report", "unlock"}]
    \cup [pc : {"snapshot"}, report : SUBSET Finding]
    \cup [pc : {"judge"}, todo : SUBSET Finding, snapshot : Counters, pairs : Nat,
          judged : Seq(Judgement), failed : BOOLEAN]
    \cup [pc : {"enqueue"}, judged : Seq(Judgement), next : Nat \ {0}, snapshot : Counters,
          failed : BOOLEAN, queued : SUBSET Nat]
    \cup [pc : {"advance"}, snapshot : Counters]

-----------------------------------------------------------------------------
(* The owner and the agents.                                               *)

(* nocturne_tick_curator_write: a unit that becomes active is one write, a *)
(* removal from a context is one unit of pressure.                         *)
Ticked(g) == [gauge EXCEPT ![g] = @ + 1]

(* A new memory makes a site sick, as a near copy does.                    *)
Admit(s) ==
    /\ gauge["writes"] < MaxWrites
    /\ s \notin sick
    /\ sick' = sick \cup {s}
    /\ gauge' = Ticked("writes")
    /\ UNCHANGED <<version, cursor, compaction, cards, kept, pass, passLock, passFaults>>

RemoveFromContext ==
    /\ gauge["pressure"] < MaxWrites
    /\ gauge' = Ticked("pressure")
    /\ UNCHANGED <<version, sick, cursor, compaction, cards, kept, pass, passLock, passFaults>>

(* An edit bumps a revision, and no gauge.                                 *)
Edit(s) ==
    /\ version[s] < MaxEdits
    /\ version' = [version EXCEPT ![s] = @ + 1]
    /\ UNCHANGED <<sick, gauge, cursor, compaction, cards, kept, pass, passLock, passFaults>>

(* The queue enacts an approved card: the site changes and is cured, and   *)
(* the replacement is a unit that becomes active.  A card of an earlier    *)
(* version is refused there.                                               *)
ApproveCard(k) ==
    /\ cards[k].state = "pending" /\ version[cards[k].site] = cards[k].version
    /\ gauge["writes"] < MaxWrites
    /\ cards' = [cards EXCEPT ![k].state = "approved"]
    /\ version' = [version EXCEPT ![cards[k].site] = @ + 1]
    /\ sick' = sick \ {cards[k].site}
    /\ gauge' = Ticked("writes")
    /\ UNCHANGED <<cursor, compaction, kept, pass, passLock, passFaults>>

RejectCard(k) ==
    /\ cards[k].state = "pending"
    /\ cards' = [cards EXCEPT ![k].state = "rejected"]
    /\ UNCHANGED <<version, sick, gauge, cursor, compaction, kept, pass, passLock, passFaults>>

(* decided_at is the start of the approving transaction, its commit comes  *)
(* later.                                                                  *)
OpenCompaction ==
    /\ compaction = "none"
    /\ compaction' = "open"
    /\ UNCHANGED <<version, sick, gauge, cursor, cards, kept, pass, passLock, passFaults>>

CommitCompaction ==
    /\ compaction \in {"open", "overtaken"} /\ gauge["writes"] < MaxWrites
    /\ compaction' = IF compaction = "open" THEN "due" ELSE "past"
    /\ gauge' = Ticked("writes")
    /\ UNCHANGED <<version, sick, cursor, cards, kept, pass, passLock, passFaults>>

-----------------------------------------------------------------------------
(* run_due, and the lock of run.                                           *)

GaugeDue(g) == gauge[g] >= cursor[g] + Every[g]

PassDue == compaction = "due" \/ \E g \in Gauge : GaugeDue(g)

(* Fault: two passes of one principal at once.                             *)
PassLockIgnored == TRUE

PassLockFree == passLock = NoCurator

(* run.started answers every compaction decided before it.                 *)
StartPass(w) ==
    /\ pass[w] = Off /\ PassLockFree
    /\ passLock' = w
    /\ pass' = [pass EXCEPT ![w] = [pc |-> "report"]]
    /\ compaction' = IF compaction = "due" THEN "none"
                     ELSE IF compaction = "open" THEN "overtaken" ELSE compaction
    /\ UNCHANGED <<version, sick, gauge, cursor, cards, kept, passFaults>>

RunDue(w) == PassDue /\ StartPass(w)

RunManual(w) == StartPass(w)

-----------------------------------------------------------------------------
(* _run_locked.                                                            *)

BuildReport(w) ==
    /\ pass[w].pc = "report"
    /\ pass' = [pass EXCEPT ![w] =
          [pc |-> "snapshot", report |-> {[site |-> s, version |-> version[s]] : s \in sick}]]
    /\ UNCHANGED <<version, sick, gauge, cursor, compaction, cards, kept, passLock, passFaults>>

(* _trigger_snapshot and the remembered keeps: the counters are read after *)
(* the report was built.                                                   *)
ReadTriggers(w) ==
    /\ pass[w].pc = "snapshot"
    /\ pass' = [pass EXCEPT ![w] =
          [pc |-> "judge", todo |-> pass[w].report \ kept, snapshot |-> gauge,
           pairs |-> 0, judged |-> <<>>, failed |-> FALSE]]
    /\ UNCHANGED <<version, sick, gauge, cursor, compaction, cards, kept, passLock, passFaults>>

(* The findings this pass may still judge, and the strongest of them.      *)
Reviewable(p) == {f \in p.todo : f.site \in Pair => p.pairs < PairLimit}

Strongest(p) ==
    CHOOSE f \in Reviewable(p) :
        \A g \in Reviewable(p) : Rank[f.site] <= Rank[g.site]

(* Fault: only a pending card silences its finding.                        *)
SeenPending(f, action) ==
    \E k \in DOMAIN cards :
        /\ cards[k].recorded /\ cards[k].site = f.site /\ cards[k].version = f.version
        /\ cards[k].action = action /\ cards[k].state = "pending"

(* _was_seen_unchanged joins the recorded finding with its card.           *)
WasSeenUnchanged(f, action) ==
    \E k \in DOMAIN cards :
        /\ cards[k].recorded /\ cards[k].site = f.site /\ cards[k].version = f.version
        /\ cards[k].action = action /\ cards[k].state \in {"pending", "rejected"}

(* The provider's verdict: a malformed one goes back to it once, one that  *)
(* is not allowed for the finding is refused.                              *)
Answers(f) == Verdict

(* One provider call, its receipt, and what follows it.                    *)
Judge(w) ==
    LET p == pass[w]
        f == Strongest(p) IN
    /\ p.pc = "judge" /\ Reviewable(p) # {}
    /\ \E action \in Answers(f) :
          pass' = [pass EXCEPT ![w] =
             [p EXCEPT !.todo = @ \ {f},
                       !.pairs = IF f.site \in Pair THEN @ + 1 ELSE @,
                       !.judged = Append(@, [site |-> f.site, version |-> f.version,
                                             action |-> action,
                                             suppressed |-> WasSeenUnchanged(f, action)])]]
    /\ UNCHANGED <<version, sick, gauge, cursor, compaction, cards, kept, passLock, passFaults>>

EnqueuePhase(p, failed) ==
    [pc |-> "enqueue", judged |-> p.judged, next |-> 1, snapshot |-> p.snapshot,
     failed |-> failed, queued |-> {}]

JudgedAll(w) ==
    /\ pass[w].pc = "judge" /\ Reviewable(pass[w]) = {}
    /\ pass' = [pass EXCEPT ![w] = EnqueuePhase(pass[w], FALSE)]
    /\ UNCHANGED <<version, sick, gauge, cursor, compaction, cards, kept, passLock, passFaults>>

(* The provider fails or answers what _require_allowed refuses: the pass   *)
(* keeps what it judged so far and is a failed one.                        *)
ProviderFails(w) ==
    /\ pass[w].pc = "judge" /\ Reviewable(pass[w]) # {}
    /\ passFaults < MaxPassFaults
    /\ passFaults' = passFaults + 1
    /\ pass' = [pass EXCEPT ![w] = EnqueuePhase(pass[w], TRUE)]
    /\ UNCHANGED <<version, sick, gauge, cursor, compaction, cards, kept, passLock>>

Silent(j) == j.suppressed \/ j.action = "keep"

(* Each proposal is a transaction of the queue, which may refuse it.       *)
EnqueueCard(w) ==
    LET p == pass[w] IN
    /\ p.pc = "enqueue" /\ p.next <= Len(p.judged)
    /\ \/ /\ ~Silent(p.judged[p.next])
          /\ cards' = Append(cards, [site |-> p.judged[p.next].site,
                                     version |-> p.judged[p.next].version,
                                     action |-> p.judged[p.next].action,
                                     state |-> "pending", recorded |-> FALSE])
          /\ pass' = [pass EXCEPT ![w].next = @ + 1, ![w].queued = @ \cup {Len(cards) + 1}]
       \/ /\ pass' = [pass EXCEPT ![w].next = @ + 1]
          /\ UNCHANGED cards
    /\ UNCHANGED <<version, sick, gauge, cursor, compaction, kept, passLock, passFaults>>

(* _persist_run: findings, verdicts and actions in one transaction.        *)
PersistRun(w) ==
    LET p == pass[w] IN
    /\ p.pc = "enqueue" /\ p.next > Len(p.judged)
    /\ cards' = [k \in DOMAIN cards |->
                    IF k \in p.queued THEN [cards[k] EXCEPT !.recorded = TRUE] ELSE cards[k]]
    /\ kept' = kept \cup {[site |-> p.judged[k].site, version |-> p.judged[k].version] :
                             k \in {i \in DOMAIN p.judged : p.judged[i].action = "keep"}}
    /\ pass' = [pass EXCEPT ![w] =
                   IF p.failed THEN [pc |-> "unlock"]
                   ELSE [pc |-> "advance", snapshot |-> p.snapshot]]
    /\ UNCHANGED <<version, sick, gauge, cursor, compaction, passLock, passFaults>>

(* Fault: the pressure cursor is left behind.                              *)
AdvancedWrites(snapshot) == [cursor EXCEPT !["writes"] = snapshot["writes"]]

Advanced(snapshot) == snapshot

(* _advance_cursor overwrites both cursors with the pass's snapshot.       *)
AdvanceCursor(w) ==
    /\ pass[w].pc = "advance"
    /\ cursor' = Advanced(pass[w].snapshot)
    /\ pass' = [pass EXCEPT ![w] = [pc |-> "unlock"]]
    /\ UNCHANGED <<version, sick, gauge, compaction, cards, kept, passLock, passFaults>>

Released(w) == IF passLock = w THEN NoCurator ELSE passLock

EndPass(w) ==
    /\ pass[w].pc = "unlock"
    /\ pass' = [pass EXCEPT ![w] = Off]
    /\ passLock' = Released(w)
    /\ UNCHANGED <<version, sick, gauge, cursor, compaction, cards, kept, passFaults>>

(* A process that dies, or a statement that raises, loses the pass and     *)
(* with its session the lock.                                              *)
LosePass(w) ==
    /\ pass[w].pc \notin {"rest", "unlock"}
    /\ passFaults < MaxPassFaults
    /\ passFaults' = passFaults + 1
    /\ pass' = [pass EXCEPT ![w] = Off]
    /\ passLock' = Released(w)
    /\ UNCHANGED <<version, sick, gauge, cursor, compaction, cards, kept>>

-----------------------------------------------------------------------------
PassInit ==
    /\ version = [s \in Site |-> 0] /\ sick = {}
    /\ gauge = [g \in Gauge |-> 0] /\ cursor = [g \in Gauge |-> 0]
    /\ compaction = "none" /\ cards = <<>> /\ kept = {}
    /\ pass = [w \in Curator |-> Off]
    /\ passLock = NoCurator /\ passFaults = 0

PassStep(w) ==
    \/ BuildReport(w) \/ ReadTriggers(w) \/ Judge(w) \/ JudgedAll(w) \/ ProviderFails(w)
    \/ EnqueueCard(w) \/ PersistRun(w) \/ AdvanceCursor(w) \/ EndPass(w)

OwnerStep ==
    \/ \E s \in Site : Admit(s) \/ Edit(s)
    \/ \E k \in DOMAIN cards : ApproveCard(k) \/ RejectCard(k)
    \/ RemoveFromContext \/ OpenCompaction \/ CommitCompaction

PassNext ==
    \/ OwnerStep
    \/ \E w \in Curator : RunDue(w) \/ RunManual(w) \/ PassStep(w) \/ LosePass(w)

(* CuratorWorker polls every few seconds, and a pass that runs runs on.    *)
PassFairness ==
    /\ \A w \in Curator : WF_passVars(PassStep(w))
    /\ WF_passVars(\E w \in Curator : RunDue(w))

PassSpec == PassInit /\ [][PassNext]_passVars
PassFairSpec == PassSpec /\ PassFairness

-----------------------------------------------------------------------------
(* Rows are well formed, those of a pass between its steps too.            *)
PassTypes ==
    /\ version \in [Site -> Nat] /\ sick \subseteq Site
    /\ gauge \in Counters /\ cursor \in Counters
    /\ cards \in Seq(CuratorCard) /\ kept \subseteq Finding
    /\ pass \in [Curator -> PassRow] /\ passLock \in Curator \cup {NoCurator}

(***************************************************************************)
(* A cursor never moves back, so no write is reviewed as new twice: a pass *)
(* overwrites it with the counters it read long before, and only the lock  *)
(* keeps a slower pass from doing so last (run, _advance_cursor).          *)
(***************************************************************************)
CursorsOnlyAdvance == [][\A g \in Gauge : cursor'[g] >= cursor[g]]_cursor

(***************************************************************************)
(* The anti-nag law where it holds: while a card is pending or rejected    *)
(* the same verdict on the same finding is not queued again, unless the    *)
(* pass that queued the card never recorded its findings                   *)
(* (_was_seen_unchanged, _persist_run).                                    *)
(***************************************************************************)
RecordedNotRepeated ==
    \A j, k \in DOMAIN cards :
        j < k /\ cards[j].recorded /\ cards[j].state \in {"pending", "rejected"}
        => \/ cards[j].site # cards[k].site
           \/ cards[j].version # cards[k].version
           \/ cards[j].action # cards[k].action

(***************************************************************************)
(* What is due gets its pass: once enough writes or removals piled up,     *)
(* some pass brings every cursor within its threshold, although providers  *)
(* fail, passes die and others compete for the lock (run_due, _run).       *)
(***************************************************************************)
DueIsServed == []<>(\A g \in Gauge : ~GaugeDue(g))

-----------------------------------------------------------------------------
(* docs/SPEC.md, the anti-nag law: a rejected proposal is remembered and   *)
(* "curators MUST NOT re-propose the same verdict on it unless material    *)
(* change occurs (a new revision on an implicated unit)".                  *)
AntiNag ==
    [][\A k \in DOMAIN cards' \ DOMAIN cards, j \in DOMAIN cards :
          cards[j].state = "rejected"
          => \/ cards[j].site # cards'[k].site
             \/ cards[j].version # cards'[k].version
             \/ cards[j].action # cards'[k].action]_cards
=============================================================================
